--------------------------- MODULE DragoniteProofs ---------------------------
(***************************************************************************)
(* Proofs about Dragonite: the bounds of the arrays, that no freed thread  *)
(* is used, and that every mask is accounted for, for any number of        *)
(* writers, threads, processes and CPUs; and, for one writer at a time,    *)
(* that calls take effect and a reset undoes what was set.                 *)
(***************************************************************************)
EXTENDS Dragonite, FiniteSetTheorems, WellFoundedInduction, TLAPS

-----------------------------------------------------------------------------
(* Types *)

States == {"unborn", "live", "exiting", "unhashed", "released"}

Names == {AnyName} \cup {r.comm : r \in Requests}

Calls == [pc : {"idle", "target", "find", "walk", "apply"}, kind : Kinds,
          pid : Int, comm : Names, mask : SUBSET CPUs, nice : Int,
          task : Nodes, list : Lists, cursor : Nodes, threads : Seq(Threads),
          i : Nat \ {0}, matched : Nat,
          ret : {"none", "ok", "EINVAL", "ENOMEM", "ESRCH"}]

Limit(c) == IF c.kind = "pin" THEN MaxKswapd ELSE MaxThreads

\* A call's array and its index: nothing is collected before the walk, and
\* nothing applied during it.
Bounded(c) ==
    /\ Len(c.threads) <= Limit(c)
    /\ c.i <= Len(c.threads) + 1
    /\ c.matched <= c.i - 1
    /\ c.pc \in {"target", "find", "walk"} => c.i = 1
    /\ c.pc \in {"target", "find"} =>
           c.threads = <<>> /\ c.list = Procs /\ c.cursor = Procs

DriverTyped ==
    /\ target \in Int
    /\ stats \in [Kinds -> Nat]
    /\ mode \in {"absent", "loaded", "leaving"}
    /\ files \subseteq {"nta", "dragonite"}
    /\ calls \in 0 .. MaxCalls

CallTyped ==
    /\ call \in [Writers -> Calls]
    /\ \A w \in Writers : Bounded(call[w])

KernelTyped ==
    /\ online \subseteq CPUs
    /\ state \in [Threads -> States]
    /\ nxt \in [Lists -> [Nodes -> Nodes]]
    /\ refs \in [Threads -> SUBSET (Writers \X Nat)]
    /\ grace \in [Threads -> SUBSET Writers]
    /\ mask \in [Threads -> SUBSET CPUs]
    /\ nice \in [Threads -> Int]
    /\ line \in [Threads -> SUBSET Threads]

Typed == DriverTyped /\ CallTyped /\ KernelTyped

\* The least of a set of natural numbers.
LEMMA LeastNat ==
    ASSUME NEW T \in SUBSET Nat, T # {}
    PROVE  \E x \in T : \A y \in T : x <= y
  <1> DEFINE R == OpToRel(<, Nat)
  <1>1. IsWellFoundedOn(R, Nat)
    BY NatLessThanWellFounded
  <1>2. \A m, n \in Nat : m < n => <<m, n>> \in R
    BY DEF OpToRel
  <1> HIDE DEF R
  <1>3. PICK x \in T : \A y \in T : ~(<<y, x>> \in R)
    BY <1>1, WFMin
  <1>4. ASSUME NEW y \in T
        PROVE  x <= y
    <2>1. x \in Nat /\ y \in Nat
      OBVIOUS
    <2>2. ~(y < x)
      BY <1>2, <1>3, <2>1
    <2> QED
      BY <2>1, <2>2
  <1> QED
    BY <1>4

\* The nodes of a list, whether they are linked or not.
Of(l) == {l} \cup On(l)

\* The nodes, and what the constants say of them.
LEMMA NodeFacts ==
    /\ Procs \in Lists /\ Lists \subseteq Nodes /\ Threads \subseteq Nodes
    /\ \A n \in Nodes : n \in Lists \/ n \in Threads
    /\ \A n \in Lists : n \notin Threads /\ Place(n) = 0
    /\ \A l \in Lists : On(l) \subseteq Threads
    /\ \A t \in Threads : /\ t \notin Lists
                          /\ GroupOf[t] \in Lists /\ GroupOf[t] # Procs
                          /\ t \in On(GroupOf[t])
                          /\ Place(t) = StartTime[t]
                          /\ StartTime[t] \in Nat /\ StartTime[t] > 0
  BY DragoniteAssumption DEF Lists, Nodes, On, Place

\* The thread that comes first of those behind a node.
LEMMA FirstNextIs ==
    ASSUME NEW l \in Lists, NEW n \in Nodes
    PROVE  /\ FirstNext(l)[n] \in Nodes
           /\ Behind(l, n) = {} => FirstNext(l)[n] = l
           /\ Behind(l, n) # {} => /\ FirstNext(l)[n] \in Behind(l, n)
                                   /\ \A u \in Behind(l, n) :
                                          Place(FirstNext(l)[n]) <= Place(u)
  <1>1. CASE Behind(l, n) = {}
    <2>1. FirstNext(l)[n] = l
      BY <1>1 DEF FirstNext
    <2> QED
      BY <1>1, <2>1, NodeFacts
  <1>2. CASE Behind(l, n) # {}
    <2> DEFINE T == {Place(u) : u \in Behind(l, n)}
    <2>1. Behind(l, n) \subseteq Threads
      BY DragoniteAssumption DEF Behind
    <2>2. T \in SUBSET Nat /\ T # {}
      BY <1>2, <2>1, NodeFacts
    <2>3. \E x \in T : \A y \in T : x <= y
      BY <2>2, LeastNat
    <2>4. \E t \in Behind(l, n) : \A u \in Behind(l, n) : Place(t) <= Place(u)
      BY <2>3
    <2>5. FirstNext(l)[n] = CHOOSE t \in Behind(l, n) :
                                \A u \in Behind(l, n) : Place(t) <= Place(u)
      BY <1>2 DEF FirstNext
    <2> QED
      BY <1>2, <2>1, <2>4, <2>5, NodeFacts
  <1> QED
    BY <1>1, <1>2

\* A step of one writer changes its own call alone.
LEMMA OneCall ==
    ASSUME CallTyped, NEW w \in Writers, NEW new \in Calls,
           call' = [call EXCEPT ![w] = new], Bounded(new)
    PROVE  /\ CallTyped'
           /\ call'[w] = new
           /\ \A v \in Writers : v # w => call'[v] = call[v]
  BY DEF CallTyped, Bounded, Limit

LEMMA IdleTyped == Idle \in Calls /\ Bounded(Idle)
  <1>1. Procs \in Lists /\ Procs \in Nodes
    BY NodeFacts
  <1>2. <<>> \in Seq(Threads) /\ Len(<<>>) = 0
    OBVIOUS
  <1>3. Idle \in Calls
    BY <1>1, <1>2 DEF Idle, Calls, Kinds, Names
  <1>4. /\ Idle.threads = <<>> /\ Idle.i = 1 /\ Idle.matched = 0
        /\ Idle.list = Procs /\ Idle.cursor = Procs /\ Idle.kind = "set"
    BY DEF Idle
  <1>5. Bounded(Idle)
    BY <1>2, <1>4, DragoniteAssumption DEF Bounded, Limit
  <1> QED
    BY <1>3, <1>5

LEMMA TypedInit == Init => Typed
  <1> SUFFICES ASSUME Init PROVE Typed
    OBVIOUS
  <1>1. DriverTyped
    BY DragoniteAssumption DEF Init, DriverTyped, Kinds
  <1>2. CallTyped
    BY IdleTyped DEF Init, CallTyped
  <1>3. nxt \in [Lists -> [Nodes -> Nodes]]
    <2>1. ASSUME NEW l \in Lists
          PROVE  FirstNext(l) \in [Nodes -> Nodes]
      <3>1. FirstNext(l) = [n \in Nodes |-> FirstNext(l)[n]]
        BY DEF FirstNext
      <3> QED
        BY <3>1, FirstNextIs
    <2> QED
      BY <2>1 DEF Init
  <1>4. KernelTyped
    BY <1>3 DEF Init, KernelTyped, States
  <1> QED
    BY <1>1, <1>2, <1>4 DEF Typed

\* A write begins with the locals of its request.
LEMMA EnterCall ==
    ASSUME CallTyped, NEW w \in Writers, NEW kind \in Kinds, Enter(w, kind)
    PROVE  \E r \in Requests, new \in Calls :
             /\ call[w].pc = "idle"
             /\ call' = [call EXCEPT ![w] = new] /\ Bounded(new)
             /\ r.kind = kind /\ new.kind = kind
             /\ new.pc = (IF Explicit(r) THEN "find" ELSE "target")
             /\ new.pid = r.pid /\ new.comm = r.comm
             /\ new.mask = (IF kind = "reset" THEN CPUs ELSE r.mask)
             /\ new.nice = target_nice(r.level)
             /\ new.threads = <<>> /\ new.i = 1 /\ new.ret = "none"
  <1>1. PICK r \in Requests :
          /\ r.kind = kind
          /\ call' = [call EXCEPT ![w] =
                        [Idle EXCEPT !.pc = IF Explicit(r) THEN "find" ELSE "target",
                                     !.kind = kind,
                                     !.pid = r.pid,
                                     !.comm = r.comm,
                                     !.mask = IF kind = "reset" THEN CPUs ELSE r.mask,
                                     !.nice = target_nice(r.level)]]
    BY DEF Enter
  <1>2. /\ r.pid \in Int /\ r.mask \in SUBSET CPUs /\ r.comm \in Names
        /\ target_nice(r.level) \in Int
    BY DragoniteAssumption DEF Names, target_nice
  <1> DEFINE pc == IF Explicit(r) THEN "find" ELSE "target"
             m == IF kind = "reset" THEN CPUs ELSE r.mask
             v == target_nice(r.level)
             new == [Idle EXCEPT !.pc = pc, !.kind = kind, !.pid = r.pid,
                                 !.comm = r.comm, !.mask = m, !.nice = v]
  <1>3. pc \in {"find", "target"} /\ m \in SUBSET CPUs /\ v \in Int
    BY <1>2
  <1>4. call' = [call EXCEPT ![w] = new]
    BY <1>1
  <1> HIDE DEF pc, m, v
  <1>5. new \in Calls
    BY <1>2, <1>3, IdleTyped DEF Calls
  <1>6. /\ new.pc = pc /\ new.kind = kind /\ new.pid = r.pid
        /\ new.comm = r.comm /\ new.mask = m /\ new.nice = v
        /\ new.threads = <<>> /\ new.i = 1 /\ new.matched = 0
        /\ new.list = Procs /\ new.cursor = Procs /\ new.ret = "none"
    BY DEF Idle
  <1> HIDE DEF new
  <1>7. Bounded(new)
    BY <1>6, DragoniteAssumption DEF Bounded, Limit
  <1>8. call[w].pc = "idle"
    BY DEF Enter
  <1> QED
    BY <1>1, <1>4, <1>5, <1>6, <1>7, <1>8 DEF pc, m, v

\* What the steps of a call do to it.
LEMMA ReadTargetCall ==
    ASSUME Typed, NEW w \in Writers, ReadTarget(w)
    PROVE  \E new \in Calls :
             /\ call' = [call EXCEPT ![w] = new] /\ Bounded(new)
             /\ new = [call[w] EXCEPT !.pid = target, !.pc = "find"]
  <1> DEFINE new == [call[w] EXCEPT !.pid = target, !.pc = "find"]
  <1>1. call[w] \in Calls /\ Bounded(call[w]) /\ target \in Int
    BY DEF Typed, CallTyped, DriverTyped
  <1>2. call[w].pc = "target" /\ call' = [call EXCEPT ![w] = new]
    BY DEF ReadTarget
  <1>3. new \in Calls
    BY <1>1 DEF Calls
  <1>4. Bounded(new)
    BY <1>1, <1>2 DEF Bounded, Limit, Calls
  <1> QED
    BY <1>2, <1>3, <1>4

\* A call returns.
LEMMA ReturnCall ==
    ASSUME CallTyped, NEW w \in Writers,
           NEW ret \in {"ok", "EINVAL", "ENOMEM", "ESRCH"}, Return(w, ret)
    PROVE  \E new \in Calls :
             /\ call' = [call EXCEPT ![w] = new] /\ Bounded(new)
             /\ new = [call[w] EXCEPT !.pc = "idle", !.ret = ret]
  <1> DEFINE new == [call[w] EXCEPT !.pc = "idle", !.ret = ret]
  <1>1. call[w] \in Calls /\ Bounded(call[w])
    BY DEF CallTyped
  <1>2. call' = [call EXCEPT ![w] = new]
    BY DEF Return
  <1>3. new \in Calls
    BY <1>1 DEF Calls
  <1>4. Bounded(new)
    BY <1>1 DEF Bounded, Limit, Calls
  <1> QED
    BY <1>2, <1>3, <1>4

\* The check of the arguments and the lookup: the call fails, or goes on with
\* a thread of that pid that runs, or with the kernel's own threads.
LEMMA FindCall ==
    ASSUME Typed, NEW w \in Writers, Find(w)
    PROVE  \E new \in Calls :
             /\ call[w].pc = "find"
             /\ call' = [call EXCEPT ![w] = new] /\ Bounded(new)
             /\ \/ /\ \E ret \in {"EINVAL", "ENOMEM", "ESRCH"} :
                          new = [call[w] EXCEPT !.pc = "idle", !.ret = ret]
                   /\ refs' = refs
                \/ /\ ~Invalid(call[w]) /\ call[w].kind # "pin"
                   /\ \E t \in Found(call[w].pid) :
                        /\ new = [call[w] EXCEPT !.pc = "walk", !.task = t,
                                                 !.list = GroupOf[t],
                                                 !.cursor = GroupOf[t]]
                        /\ refs' = IF KeepsTask(call[w].kind)
                                   THEN [refs EXCEPT ![t] = @ \cup {<<w, 0>>}]
                                   ELSE refs
                \/ /\ ~Invalid(call[w]) /\ call[w].kind = "pin"
                   /\ new = [call[w] EXCEPT !.pc = "walk"]
                   /\ refs' = refs
  <1>1. CallTyped /\ call[w] \in Calls /\ Bounded(call[w])
        /\ call[w].pc = "find"
    BY DEF Typed, CallTyped, Find
  <1>2. ASSUME NEW ret \in {"EINVAL", "ENOMEM", "ESRCH"}, Return(w, ret),
               refs' = refs
        PROVE  \E new \in Calls :
                 /\ call' = [call EXCEPT ![w] = new] /\ Bounded(new)
                 /\ new = [call[w] EXCEPT !.pc = "idle", !.ret = ret]
                 /\ refs' = refs
    <2>1. ret \in {"ok", "EINVAL", "ENOMEM", "ESRCH"}
      OBVIOUS
    <2>2. \E new \in Calls :
            /\ call' = [call EXCEPT ![w] = new] /\ Bounded(new)
            /\ new = [call[w] EXCEPT !.pc = "idle", !.ret = ret]
      BY <1>1, <1>2, <2>1, ReturnCall
    <2> QED
      BY <1>2, <2>2
  <1>3. ASSUME NEW t \in Found(call[w].pid),
               call' = [call EXCEPT ![w].pc = "walk", ![w].task = t,
                                    ![w].list = GroupOf[t],
                                    ![w].cursor = WalkFrom(t)]
        PROVE  \E new \in Calls :
                 /\ call' = [call EXCEPT ![w] = new] /\ Bounded(new)
                 /\ new = [call[w] EXCEPT !.pc = "walk", !.task = t,
                                          !.list = GroupOf[t],
                                          !.cursor = GroupOf[t]]
    <2> DEFINE new == [call[w] EXCEPT !.pc = "walk", !.task = t,
                                      !.list = GroupOf[t], !.cursor = GroupOf[t]]
    <2>1. /\ t \in Nodes /\ GroupOf[t] \in Lists /\ GroupOf[t] \in Nodes
      BY NodeFacts DEF Found
    <2>2. call' = [call EXCEPT ![w] = new]
      BY <1>3 DEF WalkFrom
    <2>3. new \in Calls
      BY <1>1, <2>1 DEF Calls
    <2>4. Bounded(new)
      BY <1>1 DEF Bounded, Limit, Calls
    <2> QED
      BY <2>2, <2>3, <2>4
  <1>4. ASSUME call' = [call EXCEPT ![w].pc = "walk"]
        PROVE  \E new \in Calls :
                 /\ call' = [call EXCEPT ![w] = new] /\ Bounded(new)
                 /\ new = [call[w] EXCEPT !.pc = "walk"]
    <2> DEFINE new == [call[w] EXCEPT !.pc = "walk"]
    <2>1. call' = [call EXCEPT ![w] = new]
      BY <1>4
    <2>2. new \in Calls
      BY <1>1 DEF Calls
    <2>3. Bounded(new)
      BY <1>1 DEF Bounded, Limit, Calls
    <2> QED
      BY <2>1, <2>2, <2>3
  <1>5. CASE \E ret \in {"EINVAL", "ENOMEM", "ESRCH"} :
               Return(w, ret) /\ refs' = refs
    BY <1>1, <1>2, <1>5
  <1>6. CASE /\ ~Invalid(call[w]) /\ call[w].kind # "pin"
             /\ \E t \in Found(call[w].pid) :
                  /\ call' = [call EXCEPT ![w].pc = "walk", ![w].task = t,
                                          ![w].list = GroupOf[t],
                                          ![w].cursor = WalkFrom(t)]
                  /\ refs' = IF KeepsTask(call[w].kind)
                             THEN [refs EXCEPT ![t] = @ \cup {<<w, 0>>}]
                             ELSE refs
    BY <1>1, <1>3, <1>6
  <1>7. CASE /\ ~Invalid(call[w]) /\ call[w].kind = "pin"
             /\ call' = [call EXCEPT ![w].pc = "walk"]
             /\ refs' = refs
    BY <1>1, <1>4, <1>7
  <1> QED
    BY <1>5, <1>6, <1>7 DEF Find

\* The end of the walk: the list is through, or the array is full.
LEMMA LeaveCall ==
    ASSUME CallTyped, NEW w \in Writers, call[w].pc = "walk", LeaveRcu(w)
    PROVE  \E new \in Calls :
             /\ call' = [call EXCEPT ![w] = new] /\ Bounded(new)
             /\ new = [call[w] EXCEPT !.pc = "apply"]
  <1> DEFINE new == [call[w] EXCEPT !.pc = "apply"]
  <1>1. call[w] \in Calls /\ Bounded(call[w])
    BY DEF CallTyped
  <1>2. call' = [call EXCEPT ![w] = new]
    BY DEF LeaveRcu
  <1>3. new \in Calls
    BY <1>1 DEF Calls
  <1>4. Bounded(new)
    BY <1>1 DEF Bounded, Limit, Calls
  <1> QED
    BY <1>2, <1>3, <1>4

\* A thread is collected.
LEMMA CollectCall ==
    ASSUME CallTyped, NEW w \in Writers, NEW n \in Threads,
           call[w].pc = "walk", ~Full(call[w]),
           call' = [call EXCEPT ![w].cursor = n, ![w].threads = Append(@, n)]
    PROVE  \E new \in Calls :
             /\ call' = [call EXCEPT ![w] = new] /\ Bounded(new)
             /\ new = [call[w] EXCEPT !.cursor = n, !.threads = Append(@, n)]
  <1> DEFINE new == [call[w] EXCEPT !.cursor = n, !.threads = Append(@, n)]
  <1>1. call[w] \in Calls /\ Bounded(call[w])
    BY DEF CallTyped
  <1>2. call' = [call EXCEPT ![w] = new]
    OBVIOUS
  <1>3. /\ call[w].threads \in Seq(Threads) /\ n \in Nodes
        /\ Append(call[w].threads, n) \in Seq(Threads)
        /\ Len(Append(call[w].threads, n)) = Len(call[w].threads) + 1
    BY <1>1, NodeFacts DEF Calls
  <1>4. new \in Calls
    BY <1>1, <1>3 DEF Calls
  <1>5. Bounded(new)
    <2>1. /\ new.threads = Append(call[w].threads, n)
          /\ new.i = call[w].i /\ new.matched = call[w].matched
          /\ new.pc = call[w].pc /\ new.kind = call[w].kind
      BY <1>1 DEF Calls
    <2>2. /\ Len(call[w].threads) \in Nat /\ Limit(call[w]) \in Nat
          /\ Len(call[w].threads) < Limit(call[w])
      BY <1>1, <1>3, DragoniteAssumption DEF Full, Limit
    <2>3. Limit(new) = Limit(call[w])
      BY <2>1 DEF Limit
    <2>4. call[w].i \in Nat /\ call[w].matched \in Nat
      BY <1>1 DEF Calls
    <2> HIDE DEF new
    <2> QED
      BY <1>1, <1>3, <2>1, <2>2, <2>3, <2>4 DEF Bounded
  <1> QED
    BY <1>2, <1>4, <1>5

\* A thread is passed over, or its nice value is set.
LEMMA PassCall ==
    ASSUME CallTyped, NEW w \in Writers, NEW n \in Threads,
           call[w].pc = "walk", call' = [call EXCEPT ![w].cursor = n]
    PROVE  \E new \in Calls :
             /\ call' = [call EXCEPT ![w] = new] /\ Bounded(new)
             /\ new = [call[w] EXCEPT !.cursor = n]
  <1> DEFINE new == [call[w] EXCEPT !.cursor = n]
  <1>1. call[w] \in Calls /\ Bounded(call[w]) /\ n \in Nodes
    BY NodeFacts DEF CallTyped
  <1>2. call' = [call EXCEPT ![w] = new]
    OBVIOUS
  <1>3. new \in Calls
    BY <1>1 DEF Calls
  <1>4. Bounded(new)
    BY <1>1 DEF Bounded, Limit, Calls
  <1> QED
    BY <1>2, <1>3, <1>4

\* One collected thread is changed and let go.
LEMMA ApplyCall ==
    ASSUME CallTyped, NEW w \in Writers, Apply(w)
    PROVE  \E new \in Calls, m \in {call[w].matched, call[w].matched + 1} :
             /\ call' = [call EXCEPT ![w] = new] /\ Bounded(new)
             /\ new = [call[w] EXCEPT !.i = @ + 1, !.matched = m]
             /\ m = (IF call[w].mask \cap online # {} THEN call[w].matched + 1
                     ELSE call[w].matched)
             /\ call[w].pc = "apply"
             /\ call[w].i \in 1 .. Len(call[w].threads)
             /\ call[w].threads[call[w].i] \in Threads
  <1> DEFINE c == call[w]
             m == IF c.mask \cap online # {} THEN c.matched + 1 ELSE c.matched
             new == [c EXCEPT !.i = @ + 1, !.matched = m]
  <1>1. c \in Calls /\ Bounded(c) /\ c.i \in Nat \ {0} /\ c.matched \in Nat
        /\ c.threads \in Seq(Threads)
    BY DEF CallTyped, Calls
  <1>2. c.pc = "apply" /\ c.i \in 1 .. Len(c.threads)
    BY <1>1 DEF Apply
  <1>3. c.threads[c.i] \in Threads
    BY <1>1, <1>2
  <1>4. call' = [call EXCEPT ![w] = new]
    BY DEF Apply
  <1>5. m \in Nat /\ m \in {c.matched, c.matched + 1}
    BY <1>1
  <1> HIDE DEF m
  <1>6. new \in Calls
    <2>1. c.i + 1 \in Nat \ {0}
      BY <1>1
    <2> DEFINE k == c.i + 1
    <2>2. new = [c EXCEPT !.i = k, !.matched = m]
      BY <1>1 DEF Calls
    <2> HIDE DEF k, c, new
    <2> QED
      BY <1>1, <1>5, <2>1, <2>2 DEF Calls, k
  <1>7. Bounded(new)
    <2>1. /\ new.threads = c.threads /\ new.i = c.i + 1 /\ new.matched = m
          /\ new.pc = "apply" /\ new.kind = c.kind
      BY <1>1, <1>2 DEF Calls
    <2>2. Limit(new) = Limit(c)
      BY <2>1 DEF Limit
    <2>3. Len(c.threads) \in Nat
      BY <1>1
    <2> HIDE DEF new, c
    <2> QED
      BY <1>1, <1>2, <1>5, <2>1, <2>2, <2>3 DEF Bounded
  <1> QED
    BY <1>2, <1>3, <1>4, <1>5, <1>6, <1>7 DEF m

\* The end of a call.
LEMMA FinishCall ==
    ASSUME CallTyped, NEW w \in Writers, Finish(w)
    PROVE  \E new \in Calls :
             /\ call' = [call EXCEPT ![w] = new] /\ Bounded(new)
             /\ new = [call[w] EXCEPT !.pc = "idle", !.ret = Outcome(call[w])]
             /\ call[w].pc = "apply" /\ call[w].i = Len(call[w].threads) + 1
  <1> DEFINE ret == Outcome(call[w])
  <1>1. ret \in {"ok", "EINVAL", "ENOMEM", "ESRCH"}
    BY DEF Outcome
  <1>2. Return(w, ret) /\ call[w].pc = "apply"
        /\ call[w].i > Len(call[w].threads)
    BY DEF Finish
  <1>3. call[w].i = Len(call[w].threads) + 1
    BY <1>2 DEF CallTyped, Bounded, Calls
  <1> HIDE DEF ret
  <1>4. \E new \in Calls :
          /\ call' = [call EXCEPT ![w] = new] /\ Bounded(new)
          /\ new = [call[w] EXCEPT !.pc = "idle", !.ret = ret]
    BY <1>1, <1>2, ReturnCall
  <1> QED
    BY <1>2, <1>3, <1>4 DEF ret

-----------------------------------------------------------------------------
(* The lists of threads and the references *)

\* The nodes that are in a list, and those of one list.
Linked == Lists \cup {t \in Threads : Hashed(t)}

Chain(l) == {l} \cup Members(l)

\* A thread that w's walk may still meet.
Visible(w, n) == n \in Linked \/ (n \in Threads /\ w \in grace[n])

\* What is linked points to what is linked, no two nodes to the same one, and
\* nobody to another list.
Sound(l) ==
    /\ \A n \in Chain(l) : nxt[l][n] \in Chain(l)
    /\ \A m, n \in Chain(l) : nxt[l][m] = nxt[l][n] => m = n
    /\ \A n \in Of(l) : (n \in Threads => state[n] # "unborn") =>
                            nxt[l][n] \in Of(l)

ListsSound == \A l \in Lists : Sound(l)

\* A removed thread waits for the walks that were under way, and these can go
\* on from it.
GraceKept ==
    \A t \in Threads : \A w \in grace[t] :
        /\ InRcu(w) /\ state[t] = "unhashed"
        /\ \A l \in Lists : t \in On(l) => Visible(w, nxt[l][t])

\* A walk is at a node it may see, of the list it walks.
WalksSafe ==
    \A w \in Writers : InRcu(w) =>
        Visible(w, call[w].cursor) /\ call[w].cursor \in Of(call[w].list)

\* A thread that is collected and not yet changed is referenced.
RefsHeld ==
    \A w \in Writers : \A j \in call[w].i .. Len(call[w].threads) :
        call[w].pc \in {"walk", "apply"} =>
            <<w, j>> \in refs[call[w].threads[j]]

SafeInv == Typed /\ ListsSound /\ GraceKept /\ WalksSafe /\ RefsHeld

\* The linked nodes of a list are the nodes of the list that are linked.
LEMMA ChainIs ==
    ASSUME NEW l \in Lists
    PROVE  /\ Chain(l) = Linked \cap Of(l)
           /\ Chain(l) \subseteq Nodes /\ Of(l) \subseteq Nodes
           /\ \A n \in Of(l) : n # l => n \in On(l) /\ n \in Threads
           /\ l \notin Threads /\ l \in Linked /\ l \in Chain(l) /\ l \in Of(l)
  BY NodeFacts DEF Chain, Members, Linked, Of

\* The next node of a walk is one that it may see, and a thread unless it is
\* the head of the list.
LEMMA NextVisible ==
    ASSUME SafeInv, NEW w \in Writers, InRcu(w)
    PROVE  LET n == nxt[call[w].list][call[w].cursor]
           IN  /\ n \in Nodes /\ Visible(w, n) /\ n \in Of(call[w].list)
               /\ n # call[w].list => n \in Threads /\ n \in On(call[w].list)
  <1> DEFINE c == call[w].cursor
             l == call[w].list
             n == nxt[l][c]
  <1>1. c \in Nodes /\ n \in Nodes /\ l \in Lists
    BY DEF SafeInv, Typed, CallTyped, KernelTyped, Calls
  <1>2. Visible(w, c) /\ c \in Of(l)
    BY DEF SafeInv, WalksSafe
  <1> HIDE DEF c, l
  <1>s. Sound(l)
    BY <1>1 DEF SafeInv, ListsSound
  <1>3. Visible(w, n)
    <2>1. CASE c \in Linked
      BY <1>1, <1>2, <1>s, <2>1, ChainIs DEF Sound, Visible
    <2>2. CASE c \notin Linked
      <3>1. c \in Threads /\ w \in grace[c] /\ c \in On(l)
        BY <1>1, <1>2, <2>2, ChainIs DEF Visible
      <3> QED
        BY <1>1, <3>1 DEF SafeInv, GraceKept
    <2> QED
      BY <2>1, <2>2
  <1>4. c \in Threads => state[c] # "unborn"
    BY <1>2, NodeFacts DEF SafeInv, GraceKept, Visible, Linked, Hashed
  <1>5. n \in Of(l)
    BY <1>2, <1>4, <1>s DEF Sound
  <1> QED
    BY <1>1, <1>3, <1>5, ChainIs DEF c, l

LEMMA SafeInit == Init => SafeInv
  <1> SUFFICES ASSUME Init PROVE SafeInv
    OBVIOUS
  <1>2. \A l \in Lists : nxt[l] = FirstNext(l)
    BY DEF Init
  <1>5. ASSUME NEW l \in Lists
        PROVE  Sound(l)
    <2>1. Chain(l) = {l} \cup (Started \cap On(l))
      BY NodeFacts DEF Init, Chain, Members, Hashed
    <2>3. ASSUME NEW n \in Nodes
          PROVE  /\ nxt[l][n] \in Chain(l)
                 /\ nxt[l][n] \in Of(l)
                 /\ nxt[l][n] \in Threads => Place(n) < Place(nxt[l][n])
                 /\ \A t \in Started \cap On(l) :
                      Place(n) < Place(t) =>
                          nxt[l][n] \in Threads /\ Place(nxt[l][n]) <= Place(t)
      <3>1. /\ Behind(l, n) \subseteq Started \cap On(l)
            /\ Started \subseteq Threads
        BY DragoniteAssumption DEF Behind
      <3> QED
        BY <1>2, <2>1, <3>1, FirstNextIs, NodeFacts DEF Behind, Of
    <2>4. ASSUME NEW a \in Chain(l), NEW b \in Chain(l),
                 nxt[l][a] = nxt[l][b], Place(a) < Place(b)
          PROVE  FALSE
      <3>1. a \in Nodes /\ b \in Nodes /\ Place(a) \in Nat
            /\ Place(b) \in Nat
        BY ChainIs, NodeFacts
      <3>2. b \in Started \cap On(l)
        BY <2>1, <2>4, <3>1, NodeFacts
      <3>3. nxt[l][a] \in Threads /\ Place(nxt[l][a]) <= Place(b)
        BY <2>3, <2>4, <3>1, <3>2
      <3>4. Place(b) < Place(nxt[l][b]) /\ Place(nxt[l][b]) \in Nat
        BY <2>3, <2>4, <3>1, <3>3, NodeFacts
      <3> QED
        BY <2>4, <3>1, <3>3, <3>4
    <2>5. ASSUME NEW m \in Chain(l), NEW n \in Chain(l),
                 nxt[l][m] = nxt[l][n]
          PROVE  m = n
      <3>1. Place(m) \in Nat /\ Place(n) \in Nat
        BY ChainIs, NodeFacts
      <3>2. Place(m) = Place(n)
        BY <2>4, <2>5, <3>1
      <3>3. CASE m = l \/ n = l
        BY <2>1, <3>2, <3>3, NodeFacts
      <3>4. CASE m # l /\ n # l
        <4>1. m \in Started /\ n \in Started
          BY <2>1, <3>4
        <4> QED
          BY <3>2, <4>1, NodeFacts, DragoniteAssumption
      <3> QED
        BY <3>3, <3>4
    <2> QED
      BY <2>3, <2>5, ChainIs DEF Sound
  <1>6. GraceKept
    BY DEF Init, GraceKept
  <1>7. WalksSafe /\ RefsHeld
    BY DEF Init, WalksSafe, RefsHeld, InRcu, Idle
  <1> QED
    BY <1>5, <1>6, <1>7, TypedInit DEF SafeInv, ListsSound

\* A step of w's call that leaves the lists alone keeps SafeInv if it keeps
\* the part of it that is about w.
LEMMA StepOfCall ==
    ASSUME SafeInv, NEW w \in Writers, NEW new \in Calls, Bounded(new),
           call' = [call EXCEPT ![w] = new],
           UNCHANGED <<state, nxt>>, DriverTyped', KernelTyped',
           \A t \in Threads, v \in Writers, j \in Nat :
               v # w /\ <<v, j>> \in refs[t] => <<v, j>> \in refs'[t],
           \/ grace' = grace /\ (call[w].pc = "walk" => new.pc = "walk")
           \/ grace' = [t \in Threads |-> grace[t] \ {w}] /\ new.pc # "walk",
           new.pc = "walk" => /\ Visible(w, new.cursor)
                              /\ new.cursor \in Of(new.list),
           new.pc \in {"walk", "apply"} =>
               \A j \in new.i .. Len(new.threads) :
                   <<w, j>> \in refs'[new.threads[j]]
    PROVE  SafeInv'
  <1>t. Typed /\ grace \in [Threads -> SUBSET Writers]
    BY DEF SafeInv, Typed, KernelTyped
  <1>1. /\ CallTyped' /\ call'[w] = new
        /\ \A v \in Writers : v # w => call'[v] = call[v]
    BY <1>t, OneCall DEF Typed
  <1>2. Linked' = Linked
    BY DEF Linked, Hashed
  <1>3. ListsSound'
    BY DEF SafeInv, ListsSound, Sound, Chain, Members, Hashed
  <1>5. GraceKept'
    <2> SUFFICES ASSUME NEW t \in Threads, NEW v \in grace'[t]
                 PROVE  /\ InRcu(v)' /\ state'[t] = "unhashed"
                        /\ \A l \in Lists : t \in On(l) => Visible(v, nxt[l][t])'
      BY DEF GraceKept
    <2>1. v \in grace[t] /\ v \in Writers
      BY <1>t
    <2>2. /\ InRcu(v) /\ state[t] = "unhashed"
          /\ \A l \in Lists : t \in On(l) => Visible(v, nxt[l][t])
      BY <2>1 DEF SafeInv, GraceKept
    <2>3. v # w \/ new.pc = "walk"
      BY <1>t, <2>2 DEF InRcu
    <2>4. InRcu(v)'
      BY <1>1, <2>1, <2>2, <2>3 DEF InRcu
    <2>5. ASSUME NEW l \in Lists, t \in On(l)
          PROVE  Visible(v, nxt[l][t])'
      BY <1>2, <1>t, <2>1, <2>2, <2>3, <2>5 DEF Visible
    <2> QED
      BY <2>2, <2>4, <2>5
  <1>6. WalksSafe'
    <2> SUFFICES ASSUME NEW v \in Writers, InRcu(v)'
                 PROVE  (/\ Visible(v, call[v].cursor)
                         /\ call[v].cursor \in Of(call[v].list))'
      BY DEF WalksSafe
    <2>1. CASE v = w
      <3>1. new.pc = "walk"
        BY <1>1, <2>1 DEF InRcu
      <3>2. Visible(w, new.cursor)' /\ new.cursor \in Of(new.list)
        BY <1>2, <3>1 DEF Visible
      <3> QED
        BY <1>1, <2>1, <3>2 DEF Visible
    <2>2. CASE v # w
      <3>1. call'[v] = call[v]
        BY <1>1, <2>2
      <3>2. Visible(v, call[v].cursor) /\ call[v].cursor \in Of(call[v].list)
        BY <3>1 DEF SafeInv, WalksSafe, InRcu
      <3>3. Visible(v, call[v].cursor)'
        BY <1>2, <1>t, <2>2, <3>1, <3>2 DEF Visible
      <3> QED
        BY <3>1, <3>2, <3>3
    <2> QED
      BY <2>1, <2>2
  <1>7. RefsHeld'
    <2> SUFFICES ASSUME NEW v \in Writers,
                        NEW j \in call'[v].i .. Len(call'[v].threads),
                        call'[v].pc \in {"walk", "apply"}
                 PROVE  <<v, j>> \in refs'[call'[v].threads[j]]
      BY DEF RefsHeld
    <2>1. CASE v = w
      BY <1>1, <2>1
    <2>2. CASE v # w
      <3>1. call'[v] = call[v] /\ call[v] \in Calls
        BY <1>1, <1>t, <2>2 DEF Typed, CallTyped
      <3>2. <<v, j>> \in refs[call[v].threads[j]]
        BY <3>1 DEF SafeInv, RefsHeld
      <3>3. call[v].threads \in Seq(Threads) /\ call[v].i \in Nat \ {0}
        BY <3>1 DEF Calls
      <3>4. call[v].threads[j] \in Threads /\ j \in Nat
        BY <3>1, <3>3
      <3> QED
        BY <2>2, <3>1, <3>2, <3>4
    <2> QED
      BY <2>1, <2>2
  <1> QED
    BY <1>1, <1>3, <1>5, <1>6, <1>7 DEF SafeInv, Typed

\* The writes: a call begins.
LEMMA SafeWrite ==
    ASSUME SafeInv, NEW w \in Writers, Write(w)
    PROVE  SafeInv'
  <1>t. Typed /\ CallTyped /\ DriverTyped /\ KernelTyped
    BY DEF SafeInv, Typed
  <1>1. CASE nta_pid_write(w)
    <2>1. DriverTyped'
      BY <1>1, <1>t, DragoniteAssumption DEF nta_pid_write, DriverTyped
    <2>2. UNCHANGED <<call, online, state, nxt, refs, grace, mask, nice, line>>
      BY <1>1 DEF nta_pid_write, kernel
    <2>3. CallTyped' /\ KernelTyped'
      BY <1>t, <2>2 DEF CallTyped, KernelTyped
    <2>4. ListsSound'
      BY <2>2 DEF SafeInv, ListsSound, Sound, Chain, Members, Linked, Hashed
    <2>5. GraceKept' /\ WalksSafe' /\ RefsHeld'
      BY <2>2 DEF SafeInv, GraceKept, WalksSafe, RefsHeld, Linked, Hashed,
        Visible, InRcu
    <2> QED
      BY <2>1, <2>3, <2>4, <2>5 DEF SafeInv, Typed
  <1>2. ASSUME NEW kind \in Kinds, Enter(w, kind)
        PROVE  SafeInv'
    <2>1. PICK new \in Calls :
            /\ call[w].pc = "idle" /\ call' = [call EXCEPT ![w] = new]
            /\ Bounded(new) /\ new.pc \in {"find", "target"}
      BY <1>2, <1>t, EnterCall
    <2>2. UNCHANGED <<target, stats, files, mode, online, state, nxt, refs,
                      grace, mask, nice, line>>
      BY <1>2 DEF Enter, driver, kernel
    <2>3. DriverTyped' /\ KernelTyped'
      <3>1. calls' = calls - 1 /\ calls > 0
        BY <1>2 DEF Enter
      <3>2. calls' \in 0 .. MaxCalls
        BY <1>t, <3>1, DragoniteAssumption DEF DriverTyped
      <3> QED
        BY <1>t, <2>2, <3>2 DEF DriverTyped, KernelTyped
    <2> QED
      BY <2>1, <2>2, <2>3, StepOfCall
  <1>3. CASE \/ nta_affinity_write(w) \/ nta_reset_write(w)
             \/ dragonite_boost_write(w) \/ dragonite_kswapd_write(w)
    BY <1>2, <1>3 DEF nta_affinity_write, nta_reset_write,
      dragonite_boost_write, dragonite_kswapd_write, Kinds
  <1> QED
    BY <1>1, <1>3 DEF Write

LEMMA SafeReadTarget ==
    ASSUME SafeInv, NEW w \in Writers, ReadTarget(w)
    PROVE  SafeInv'
  <1>t. Typed /\ DriverTyped /\ KernelTyped
    BY DEF SafeInv, Typed
  <1>1. PICK new \in Calls :
          /\ call' = [call EXCEPT ![w] = new] /\ Bounded(new)
          /\ new = [call[w] EXCEPT !.pid = target, !.pc = "find"]
    BY <1>t, ReadTargetCall
  <1>2. call[w].pc = "target" /\ new.pc = "find"
    BY <1>1, <1>t DEF ReadTarget, Typed, CallTyped, Calls
  <1>3. UNCHANGED <<target, stats, files, mode, calls, online, state, nxt,
                    refs, grace, mask, nice, line>>
    BY DEF ReadTarget, driver, kernel
  <1>4. DriverTyped' /\ KernelTyped'
    BY <1>t, <1>3 DEF DriverTyped, KernelTyped
  <1> QED
    BY <1>1, <1>2, <1>3, <1>4, StepOfCall

LEMMA SafeFind ==
    ASSUME SafeInv, NEW w \in Writers, Find(w)
    PROVE  SafeInv'
  <1>t. /\ Typed /\ DriverTyped /\ KernelTyped
        /\ call[w] \in Calls /\ Bounded(call[w])
    BY DEF SafeInv, Typed, CallTyped
  <1>1. PICK new \in Calls :
          /\ call[w].pc = "find"
          /\ call' = [call EXCEPT ![w] = new] /\ Bounded(new)
          /\ \/ /\ \E ret \in {"EINVAL", "ENOMEM", "ESRCH"} :
                       new = [call[w] EXCEPT !.pc = "idle", !.ret = ret]
                /\ refs' = refs
             \/ \E t \in Found(call[w].pid) :
                  /\ new = [call[w] EXCEPT !.pc = "walk", !.task = t,
                                           !.list = GroupOf[t],
                                           !.cursor = GroupOf[t]]
                  /\ refs' = IF KeepsTask(call[w].kind)
                             THEN [refs EXCEPT ![t] = @ \cup {<<w, 0>>}]
                             ELSE refs
             \/ /\ new = [call[w] EXCEPT !.pc = "walk"]
                /\ refs' = refs
    BY <1>t, FindCall
  <1>2. UNCHANGED <<target, stats, files, mode, calls, online, state, nxt,
                    grace, mask, nice, line>>
    BY DEF Find, driver
  <1>3. /\ refs' \in [Threads -> SUBSET (Writers \X Nat)]
        /\ \A t \in Threads : refs[t] \subseteq refs'[t]
    <2>1. ASSUME NEW t \in Threads,
                 refs' = [refs EXCEPT ![t] = @ \cup {<<w, 0>>}]
          PROVE  /\ refs' \in [Threads -> SUBSET (Writers \X Nat)]
                 /\ \A u \in Threads : refs[u] \subseteq refs'[u]
      <3>1. refs \in [Threads -> SUBSET (Writers \X Nat)]
            /\ <<w, 0>> \in Writers \X Nat
        BY <1>t DEF KernelTyped
      <3> QED
        BY <2>1, <3>1
    <2>2. CASE refs' = refs
      BY <1>t, <2>2 DEF KernelTyped
    <2> QED
      BY <1>1, <2>1, <2>2 DEF Found
  <1>4. DriverTyped' /\ KernelTyped'
    BY <1>t, <1>2, <1>3 DEF DriverTyped, KernelTyped
  <1>5. /\ call[w].threads = <<>> /\ call[w].i = 1
        /\ call[w].list = Procs /\ call[w].cursor = Procs
    BY <1>1, <1>t DEF Bounded
  <1>6. new.threads = <<>> /\ new.i = 1
    <2>1. ASSUME NEW ret, new = [call[w] EXCEPT !.pc = "idle", !.ret = ret]
          PROVE  new.threads = <<>> /\ new.i = 1
      BY <1>5, <1>t, <2>1 DEF Calls
    <2>2. ASSUME NEW t, new = [call[w] EXCEPT !.pc = "walk", !.task = t,
                                              !.list = GroupOf[t],
                                              !.cursor = GroupOf[t]]
          PROVE  new.threads = <<>> /\ new.i = 1
      BY <1>5, <1>t, <2>2 DEF Calls
    <2>3. ASSUME new = [call[w] EXCEPT !.pc = "walk"]
          PROVE  new.threads = <<>> /\ new.i = 1
      BY <1>5, <1>t, <2>3 DEF Calls
    <2> QED
      BY <1>1, <2>1, <2>2, <2>3
  <1>7. new.pc = "walk" => /\ new.cursor \in Lists
                           /\ new.cursor = new.list
    <2>1. \A t \in Found(call[w].pid) : GroupOf[t] \in Lists
      BY NodeFacts DEF Found
    <2>2. Procs \in Lists
      BY NodeFacts
    <2>3. ASSUME NEW ret, new = [call[w] EXCEPT !.pc = "idle", !.ret = ret]
          PROVE  new.pc = "idle"
      BY <1>t, <2>3 DEF Calls
    <2>4. ASSUME NEW t, new = [call[w] EXCEPT !.pc = "walk", !.task = t,
                                              !.list = GroupOf[t],
                                              !.cursor = GroupOf[t]]
          PROVE  new.cursor = GroupOf[t] /\ new.list = GroupOf[t]
      BY <1>t, <2>4 DEF Calls
    <2>5. ASSUME new = [call[w] EXCEPT !.pc = "walk"]
          PROVE  new.cursor = Procs /\ new.list = Procs
      BY <1>t, <1>5, <2>5 DEF Calls
    <2> QED
      BY <1>1, <2>1, <2>2, <2>3, <2>4, <2>5
  <1>8. new.pc = "walk" => /\ Visible(w, new.cursor)
                           /\ new.cursor \in Of(new.list)
    BY <1>7 DEF Visible, Linked, Of
  <1>9. \A j \in new.i .. Len(new.threads) :
            <<w, j>> \in refs'[new.threads[j]]
    BY <1>6
  <1> QED
    BY <1>1, <1>2, <1>3, <1>4, <1>8, <1>9, StepOfCall

LEMMA SafeWalk ==
    ASSUME SafeInv, NEW w \in Writers, Walk(w)
    PROVE  SafeInv'
  <1> DEFINE c == call[w]
             n == nxt[c.list][c.cursor]
  <1>t. /\ Typed /\ CallTyped /\ DriverTyped /\ KernelTyped
        /\ c \in Calls /\ Bounded(c)
    BY DEF SafeInv, Typed, CallTyped
  <1>w. c.pc = "walk" /\ InRcu(w)
    BY DEF Walk, InRcu
  <1>n. /\ n \in Nodes /\ Visible(w, n) /\ n \in Of(c.list)
        /\ n # c.list => n \in Threads
    BY <1>w, NextVisible
  <1>u. UNCHANGED <<target, stats, files, mode, calls, online, state, nxt, mask,
                    line>>
    BY DEF Walk, driver
  <1>d. DriverTyped'
    BY <1>t, <1>u DEF DriverTyped
  <1>r. /\ refs \in [Threads -> SUBSET (Writers \X Nat)]
        /\ grace \in [Threads -> SUBSET Writers] /\ nice \in [Threads -> Int]
    BY <1>t DEF KernelTyped
  <1>h. \A j \in c.i .. Len(c.threads) : <<w, j>> \in refs[c.threads[j]]
    BY <1>w DEF SafeInv, RefsHeld
  <1>1. CASE LeaveRcu(w)
    <2>1. PICK new \in Calls :
            /\ call' = [call EXCEPT ![w] = new] /\ Bounded(new)
            /\ new = [call[w] EXCEPT !.pc = "apply"]
      BY <1>1, <1>t, <1>w, LeaveCall
    <2>2. new.pc = "apply" /\ new.threads = c.threads /\ new.i = c.i
      BY <1>t, <2>1 DEF Calls
    <2>3. /\ grace' = [t \in Threads |-> grace[t] \ {w}]
          /\ UNCHANGED <<refs, nice>>
      BY <1>1 DEF LeaveRcu
    <2>4. grace' \in [Threads -> SUBSET Writers]
      BY <1>r, <2>3
    <2>5. KernelTyped'
      BY <1>t, <1>u, <2>3, <2>4 DEF KernelTyped
    <2>6. \A j \in new.i .. Len(new.threads) :
              <<w, j>> \in refs'[new.threads[j]]
      BY <1>h, <2>2, <2>3
    <2> QED
      BY <1>d, <1>u, <2>1, <2>2, <2>3, <2>5, <2>6, StepOfCall
  <1>2. CASE n \in Threads /\ call' = [call EXCEPT ![w].cursor = n]
             /\ UNCHANGED <<grace, refs>> /\ nice' \in [Threads -> Int]
    <2>1. PICK new \in Calls :
            /\ call' = [call EXCEPT ![w] = new] /\ Bounded(new)
            /\ new = [call[w] EXCEPT !.cursor = n]
      BY <1>2, <1>t, <1>w, PassCall
    <2>2. /\ new.pc = "walk" /\ new.threads = c.threads /\ new.i = c.i
          /\ new.cursor = n /\ new.list = c.list
      BY <1>t, <1>w, <2>1 DEF Calls
    <2>3. KernelTyped'
      BY <1>2, <1>t, <1>u DEF KernelTyped
    <2>4. \A j \in new.i .. Len(new.threads) :
              <<w, j>> \in refs'[new.threads[j]]
      BY <1>2, <1>h, <2>2
    <2> QED
      BY <1>2, <1>d, <1>n, <1>u, <2>1, <2>2, <2>3, <2>4, StepOfCall
  <1>3. CASE /\ n \in Threads /\ ~Full(c) /\ refs' = Collected(w, n)
             /\ call' = [call EXCEPT ![w].cursor = n,
                                     ![w].threads = Append(@, n)]
             /\ UNCHANGED <<grace, nice>>
    <2>1. PICK new \in Calls :
            /\ call' = [call EXCEPT ![w] = new] /\ Bounded(new)
            /\ new = [call[w] EXCEPT !.cursor = n, !.threads = Append(@, n)]
      BY <1>3, <1>t, <1>w, CollectCall
    <2>2. /\ new.pc = "walk" /\ new.threads = Append(c.threads, n)
          /\ new.i = c.i /\ new.cursor = n /\ new.list = c.list
      BY <1>t, <1>w, <2>1 DEF Calls
    <2>3. /\ c.threads \in Seq(Threads) /\ Len(c.threads) \in Nat
          /\ c.i \in Nat \ {0}
      BY <1>t DEF Calls
    <2> DEFINE l == Len(c.threads) + 1
    <2>4. refs' = [refs EXCEPT ![n] = @ \cup {<<w, l>>}]
      BY <1>3 DEF Collected
    <2>5. /\ refs' \in [Threads -> SUBSET (Writers \X Nat)]
          /\ \A t \in Threads : refs[t] \subseteq refs'[t]
          /\ <<w, l>> \in refs'[n]
      <3>1. n \in Threads /\ <<w, l>> \in Writers \X Nat
        BY <1>3, <2>3
      <3> HIDE DEF l, n
      <3>2. refs' \in [Threads -> SUBSET (Writers \X Nat)]
        BY <1>r, <2>4, <3>1
      <3>3. \A t \in Threads : refs'[t] = IF t = n THEN refs[t] \cup {<<w, l>>}
                                          ELSE refs[t]
        BY <1>r, <2>4, <3>1
      <3> QED
        BY <3>1, <3>2, <3>3
    <2> HIDE DEF l
    <2>6. KernelTyped'
      BY <1>3, <1>t, <1>u, <2>5 DEF KernelTyped
    <2>7. ASSUME NEW j \in new.i .. Len(new.threads)
          PROVE  <<w, j>> \in refs'[new.threads[j]]
      <3>1. /\ Len(new.threads) = l /\ new.threads[l] = n
            /\ \A k \in 1 .. Len(c.threads) : new.threads[k] = c.threads[k]
        BY <1>3, <2>2, <2>3 DEF l
      <3>2. CASE j = l
        BY <2>5, <3>1, <3>2
      <3>3. CASE j # l
        <4>1. j \in c.i .. Len(c.threads) /\ j \in 1 .. Len(c.threads)
          BY <2>2, <2>3, <3>1, <3>3 DEF l
        <4>2. c.threads[j] \in Threads
          BY <2>3, <4>1
        <4>3. <<w, j>> \in refs[c.threads[j]]
          BY <1>h, <4>1
        <4>4. refs[c.threads[j]] \subseteq refs'[c.threads[j]]
          BY <2>5, <4>2
        <4>5. new.threads[j] = c.threads[j]
          BY <3>1, <4>1
        <4> QED
          BY <4>3, <4>4, <4>5
      <3> QED
        BY <3>2, <3>3
    <2> QED
      BY <1>3, <1>d, <1>n, <1>u, <2>1, <2>2, <2>5, <2>6, <2>7, StepOfCall
  <1>4. CASE n # c.list /\ Visit(w, n)
    <2>1. n \in Threads
      BY <1>4, <1>n
    <2>2. c.nice \in Int
      BY <1>t DEF Calls
    <2>3. nice' \in [Threads -> Int]
      BY <1>4, <1>r, <2>1, <2>2 DEF Visit, LeaveRcu
    <2> QED
      BY <1>1, <1>2, <1>3, <1>4, <2>1, <2>3 DEF Visit
  <1> QED
    BY <1>1, <1>4 DEF Walk

LEMMA SafeApply ==
    ASSUME SafeInv, NEW w \in Writers, Apply(w)
    PROVE  SafeInv'
  <1> DEFINE c == call[w]
             t == c.threads[c.i]
  <1>t. /\ Typed /\ CallTyped /\ DriverTyped /\ KernelTyped
        /\ c \in Calls /\ Bounded(c)
    BY DEF SafeInv, Typed, CallTyped
  <1>1. PICK new \in Calls, m \in {c.matched, c.matched + 1} :
          /\ call' = [call EXCEPT ![w] = new] /\ Bounded(new)
          /\ new = [c EXCEPT !.i = @ + 1, !.matched = m]
          /\ c.pc = "apply" /\ c.i \in 1 .. Len(c.threads) /\ t \in Threads
    BY <1>t, ApplyCall
  <1>2. /\ new.pc = "apply" /\ new.threads = c.threads /\ new.i = c.i + 1
        /\ c.mask \in SUBSET CPUs /\ c.i \in Nat \ {0}
        /\ c.threads \in Seq(Threads)
    BY <1>1, <1>t DEF Calls
  <1>3. /\ refs' = [refs EXCEPT ![t] = @ \ {<<w, c.i>>}]
        /\ mask' \in {mask, [mask EXCEPT ![t] = c.mask]}
        /\ UNCHANGED <<target, stats, files, mode, calls, online, state, nxt,
                       grace, nice, line>>
    BY DEF Apply, driver
  <1>4. refs \in [Threads -> SUBSET (Writers \X Nat)]
        /\ mask \in [Threads -> SUBSET CPUs]
    BY <1>t DEF KernelTyped
  <1>5. /\ refs' \in [Threads -> SUBSET (Writers \X Nat)]
        /\ \A u \in Threads : \A x \in refs[u] : x # <<w, c.i>> => x \in refs'[u]
    BY <1>1, <1>3, <1>4
  <1>6. mask' \in [Threads -> SUBSET CPUs]
    BY <1>1, <1>2, <1>3, <1>4
  <1>7. DriverTyped' /\ KernelTyped'
    BY <1>3, <1>5, <1>6, <1>t DEF DriverTyped, KernelTyped
  <1>8. ASSUME NEW j \in new.i .. Len(new.threads)
        PROVE  <<w, j>> \in refs'[new.threads[j]]
    <2>1. /\ j \in c.i .. Len(c.threads) /\ j # c.i /\ j \in 1 .. Len(c.threads)
      BY <1>2
    <2>2. <<w, j>> \in refs[c.threads[j]]
      BY <1>1, <2>1 DEF SafeInv, RefsHeld
    <2>3. c.threads[j] \in Threads /\ <<w, j>> # <<w, c.i>>
      BY <1>2, <2>1
    <2> QED
      BY <1>2, <1>5, <2>2, <2>3
  <1>9. \A u \in Threads, v \in Writers, j \in Nat :
            v # w /\ <<v, j>> \in refs[u] => <<v, j>> \in refs'[u]
    BY <1>5
  <1> QED
    BY <1>1, <1>2, <1>3, <1>7, <1>8, <1>9, StepOfCall

LEMMA SafeFinish ==
    ASSUME SafeInv, NEW w \in Writers, Finish(w)
    PROVE  SafeInv'
  <1> DEFINE c == call[w]
  <1>t. /\ Typed /\ CallTyped /\ DriverTyped /\ KernelTyped /\ c \in Calls
    BY DEF SafeInv, Typed, CallTyped
  <1>1. PICK new \in Calls :
          /\ call' = [call EXCEPT ![w] = new] /\ Bounded(new)
          /\ new = [c EXCEPT !.pc = "idle", !.ret = Outcome(c)]
          /\ c.pc = "apply"
    BY <1>t, FinishCall
  <1>2. new.pc = "idle"
    BY <1>1, <1>t DEF Calls
  <1>3. /\ refs' = Dropped(w)
        /\ stats' \in {stats, [stats EXCEPT ![c.kind] = @ + 1]}
        /\ UNCHANGED <<target, files, mode, calls, online, state, nxt, grace,
                       mask, nice, line>>
    BY DEF Finish
  <1>4. refs \in [Threads -> SUBSET (Writers \X Nat)] /\ c.kind \in Kinds
        /\ stats \in [Kinds -> Nat]
    BY <1>t DEF KernelTyped, DriverTyped, Calls
  <1>5. /\ refs' \in [Threads -> SUBSET (Writers \X Nat)]
        /\ \A u \in Threads : \A x \in refs[u] : x # <<w, 0>> => x \in refs'[u]
    BY <1>3, <1>4 DEF Dropped
  <1>6. stats' \in [Kinds -> Nat]
    BY <1>3, <1>4
  <1>7. DriverTyped' /\ KernelTyped'
    BY <1>3, <1>5, <1>6, <1>t DEF DriverTyped, KernelTyped
  <1>8. \A u \in Threads, v \in Writers, j \in Nat :
            v # w /\ <<v, j>> \in refs[u] => <<v, j>> \in refs'[u]
    BY <1>5
  <1> QED
    BY <1>1, <1>2, <1>3, <1>7, <1>8, StepOfCall

\* A step of a call.
LEMMA SafeWriterStep ==
    ASSUME SafeInv, NEW w \in Writers, WriterStep(w)
    PROVE  SafeInv'
  BY SafeReadTarget, SafeFind, SafeWalk, SafeApply, SafeFinish
    DEF WriterStep, axd_set_affinity, axd_reset_affinity, axd_set_boost,
        axd_pin_kswapd

\* A thread is added at the end of its lists, where no walk has been yet.
LEMMA SafeCreate ==
    ASSUME SafeInv, NEW t \in Threads, Create(t)
    PROVE  SafeInv'
  <1>t. /\ DriverTyped /\ CallTyped /\ KernelTyped
        /\ state \in [Threads -> States] /\ nxt \in [Lists -> [Nodes -> Nodes]]
        /\ grace \in [Threads -> SUBSET Writers]
        /\ nice \in [Threads -> Int] /\ mask \in [Threads -> SUBSET CPUs]
        /\ line \in [Threads -> SUBSET Threads]
    BY DEF SafeInv, Typed, KernelTyped
  <1>1. /\ state[t] = "unborn" /\ state' = [state EXCEPT ![t] = "live"]
        /\ UNCHANGED <<target, stats, files, mode, call, calls, online, refs,
                       grace>>
    BY DEF Create, driver
  <1>2. nxt' = [l \in Lists |-> [n \in Nodes |->
                 IF t \in On(l) /\ n = t THEN l
                 ELSE IF t \in On(l) /\ nxt[l][n] = l /\ n \in Chain(l) THEN t
                 ELSE nxt[l][n]]]
    BY DEF Create, AddTail, Chain
  <1>3. ASSUME NEW l \in Lists, NEW n \in Nodes
        PROVE  /\ t \notin On(l) => nxt'[l][n] = nxt[l][n]
               /\ t \in On(l) /\ n = t => nxt'[l][n] = l
               /\ t \in On(l) /\ n # t /\ n \in Chain(l) =>
                      nxt'[l][n] = IF nxt[l][n] = l THEN t ELSE nxt[l][n]
               /\ n # t /\ n \notin Chain(l) => nxt'[l][n] = nxt[l][n]
    BY <1>2
  <1>4. nxt' \in [Lists -> [Nodes -> Nodes]]
    <2>1. t \in Nodes /\ \A l \in Lists : l \in Nodes
      BY NodeFacts
    <2> QED
      BY <1>2, <1>t, <2>1
  <1>5. state' \in [Threads -> States] /\ state'[t] = "live"
        /\ \A u \in Threads : u # t => state'[u] = state[u]
    BY <1>1, <1>t DEF States
  <1>6. Linked' = Linked \cup {t} /\ t \notin Linked
    BY <1>1, <1>5, NodeFacts DEF Linked, Hashed
  <1>7. /\ mask' \in [Threads -> SUBSET CPUs] /\ nice' \in [Threads -> Int]
        /\ line' \in [Threads -> SUBSET Threads]
    <2>1. \/ UNCHANGED <<mask, nice, line>>
          \/ \E c \in Threads :
                /\ mask' = [mask EXCEPT ![t] = mask[c]]
                /\ nice' = [nice EXCEPT ![t] = nice[c]]
                /\ line' = [line EXCEPT ![t] = {t} \cup line[c]]
      BY DEF Create
    <2> QED
      BY <1>t, <2>1
  <1>8. Typed'
    BY <1>1, <1>4, <1>5, <1>7, <1>t
      DEF Typed, DriverTyped, CallTyped, KernelTyped
  <1>9. ASSUME NEW l \in Lists
        PROVE  Sound(l)'
    <2>s. Sound(l) /\ l \in Nodes /\ t \in Nodes /\ l # t /\ t \notin Chain(l)
          /\ l \in Chain(l) /\ Chain(l) \subseteq Nodes /\ Of(l) \subseteq Nodes
      BY <1>6, ChainIs, NodeFacts DEF SafeInv, ListsSound
    <2>c. Chain(l)' = Chain(l) \cup (IF t \in On(l) THEN {t} ELSE {})
      BY <1>5, NodeFacts DEF Chain, Members, Hashed
    <2>1. ASSUME NEW n \in Chain(l)'
          PROVE  nxt'[l][n] \in Chain(l)'
      <3>1. CASE n = t
        BY <1>3, <2>c, <2>s, <3>1
      <3>2. CASE n # t
        <4>1. n \in Chain(l) /\ nxt[l][n] \in Chain(l)
          BY <2>c, <2>s, <3>2 DEF Sound
        <4> QED
          BY <1>3, <2>c, <2>s, <3>2, <4>1
      <3> QED
        BY <3>1, <3>2
    <2>2. ASSUME NEW m \in Chain(l)', NEW n \in Chain(l)',
                 nxt'[l][m] = nxt'[l][n]
          PROVE  m = n
      <3>1. \A k \in Chain(l) : nxt[l][k] # t
        BY <2>s DEF Sound
      <3>2. \A j, k \in Chain(l) : nxt[l][j] = nxt[l][k] => j = k
        BY <2>s DEF Sound
      <3>3. CASE t \notin On(l)
        BY <1>3, <2>2, <2>c, <2>s, <3>2, <3>3
      <3>4. CASE t \in On(l) /\ m # t /\ n # t
        <4>1. m \in Chain(l) /\ n \in Chain(l) /\ m \in Nodes /\ n \in Nodes
          BY <2>c, <2>s, <3>4
        <4>2. /\ nxt'[l][m] = IF nxt[l][m] = l THEN t ELSE nxt[l][m]
              /\ nxt'[l][n] = IF nxt[l][n] = l THEN t ELSE nxt[l][n]
          BY <1>3, <3>4, <4>1
        <4> QED
          BY <2>2, <3>1, <3>2, <4>1, <4>2
      <3>5. CASE t \in On(l) /\ (m = t \/ n = t)
        <4>1. ASSUME NEW k \in Chain(l)', k # t
              PROVE  nxt'[l][k] # l
          <5>1. k \in Chain(l) /\ k \in Nodes
            BY <2>c, <2>s, <4>1
          <5> QED
            BY <1>3, <2>s, <3>5, <4>1, <5>1
        <4>2. nxt'[l][t] = l
          BY <1>3, <2>s, <3>5
        <4> QED
          BY <2>2, <3>5, <4>1, <4>2
      <3> QED
        BY <3>3, <3>4, <3>5
    <2>3. ASSUME NEW n \in Of(l), n \in Threads => state'[n] # "unborn"
          PROVE  nxt'[l][n] \in Of(l)
      <3>1. n \in Nodes /\ l \in Of(l)
        BY <2>s DEF Of
      <3>2. CASE n = t
        <4>1. t \in On(l)
          BY <2>s, <3>2 DEF Of
        <4> QED
          BY <1>3, <3>1, <3>2, <4>1
      <3>3. CASE n # t
        <4>1. n \in Threads => state[n] # "unborn"
          BY <1>5, <2>3, <3>3
        <4>2. nxt[l][n] \in Of(l)
          BY <2>s, <4>1 DEF Sound
        <4>3. t \in On(l) => t \in Of(l)
          BY DEF Of
        <4> QED
          BY <1>3, <3>1, <3>3, <4>2, <4>3
      <3> QED
        BY <3>2, <3>3
    <2> QED
      BY <2>1, <2>2, <2>3 DEF Sound
  <1>10. \A w, n : Visible(w, n) => Visible(w, n)'
    BY <1>1, <1>6 DEF Visible
  <1>11. GraceKept'
    <2> SUFFICES ASSUME NEW u \in Threads, NEW w \in grace'[u]
                 PROVE  /\ InRcu(w)' /\ state'[u] = "unhashed"
                        /\ \A l \in Lists : u \in On(l) => Visible(w, nxt[l][u])'
      BY DEF GraceKept
    <2>1. /\ InRcu(w) /\ state[u] = "unhashed"
          /\ \A l \in Lists : u \in On(l) => Visible(w, nxt[l][u])
      BY <1>1 DEF SafeInv, GraceKept
    <2>2. u # t /\ u \in Nodes
      BY <1>1, <2>1, NodeFacts
    <2>3. state'[u] = state[u] /\ InRcu(w)'
      BY <1>1, <1>5, <2>1, <2>2 DEF InRcu
    <2>4. ASSUME NEW l \in Lists, u \in On(l)
          PROVE  Visible(w, nxt[l][u])'
      <3>1. u \notin Chain(l)
        BY <2>1, NodeFacts DEF Chain, Members, Hashed
      <3>2. nxt'[l][u] = nxt[l][u]
        BY <1>3, <2>2, <3>1
      <3>3. Visible(w, nxt[l][u])
        BY <2>1, <2>4
      <3> QED
        BY <1>10, <3>2, <3>3 DEF Visible
    <2> QED
      BY <2>1, <2>3, <2>4
  <1>12. WalksSafe' /\ RefsHeld'
    BY <1>1, <1>10 DEF SafeInv, WalksSafe, RefsHeld, InRcu, Visible
  <1> QED
    BY <1>8, <1>9, <1>11, <1>12 DEF SafeInv, ListsSound

\* A thread is taken out of its lists, where its own pointers stay; the walks
\* under way are waited for.
LEMMA SafeUnhash ==
    ASSUME SafeInv, NEW t \in Threads, Unhash(t)
    PROVE  SafeInv'
  <1>t. /\ DriverTyped /\ CallTyped /\ KernelTyped
        /\ state \in [Threads -> States] /\ nxt \in [Lists -> [Nodes -> Nodes]]
        /\ grace \in [Threads -> SUBSET Writers]
    BY DEF SafeInv, Typed, KernelTyped
  <1>1. /\ state[t] = "exiting" /\ state' = [state EXCEPT ![t] = "unhashed"]
        /\ nxt' = [l \in Lists |-> [n \in Nodes |->
                     IF nxt[l][n] = t /\ n \in Chain(l) THEN nxt[l][t]
                     ELSE nxt[l][n]]]
        /\ grace' = [grace EXCEPT ![t] = {w \in Writers : InRcu(w)}]
        /\ UNCHANGED <<target, stats, files, mode, call, calls, online, refs,
                       mask, nice, line>>
    BY DEF Unhash, driver, Chain
  <1>2. t \in Nodes /\ t \in Linked
    BY <1>1, NodeFacts DEF Linked, Hashed
  <1>3. /\ state' \in [Threads -> States] /\ state'[t] = "unhashed"
        /\ \A u \in Threads : u # t => state'[u] = state[u]
    BY <1>1, <1>t DEF States
  <1>4. /\ grace' \in [Threads -> SUBSET Writers]
        /\ grace'[t] = {w \in Writers : InRcu(w)}
        /\ \A u \in Threads : u # t => grace'[u] = grace[u]
    BY <1>1, <1>t
  <1>5. Linked' = Linked \ {t}
    BY <1>1, <1>3, NodeFacts DEF Linked, Hashed
  <1>6. nxt' \in [Lists -> [Nodes -> Nodes]]
    BY <1>1, <1>2, <1>t
  <1>7. ASSUME NEW l \in Lists, NEW n \in Nodes
        PROVE  /\ n \in Chain(l) =>
                     nxt'[l][n] = IF nxt[l][n] = t THEN nxt[l][t] ELSE nxt[l][n]
               /\ n \notin Chain(l) => nxt'[l][n] = nxt[l][n]
    BY <1>1
  <1>9. Typed'
    BY <1>1, <1>3, <1>4, <1>6, <1>t
      DEF Typed, DriverTyped, CallTyped, KernelTyped
  <1>10. ASSUME NEW l \in Lists
         PROVE  Sound(l)'
    <2>s. Sound(l) /\ Chain(l) \subseteq Nodes /\ Of(l) \subseteq Nodes
          /\ Chain(l) = Linked \cap Of(l)
      BY ChainIs DEF SafeInv, ListsSound
    <2>c. Chain(l)' = Chain(l) \ {t}
      BY <1>1, <1>3, NodeFacts DEF Chain, Members, Hashed
    <2>1. ASSUME NEW n \in Chain(l)'
          PROVE  nxt'[l][n] \in Chain(l)'
      <3>1. n \in Chain(l) /\ n # t /\ nxt[l][n] \in Chain(l) /\ n \in Nodes
        BY <2>c, <2>s DEF Sound
      <3>2. nxt[l][n] = t => nxt[l][t] \in Chain(l) /\ nxt[l][t] # t
        BY <2>s, <3>1 DEF Sound
      <3> QED
        BY <1>7, <2>c, <3>1, <3>2
    <2>2. ASSUME NEW m \in Chain(l)', NEW n \in Chain(l)',
                 nxt'[l][m] = nxt'[l][n]
          PROVE  m = n
      <3>1. m \in Chain(l) /\ n \in Chain(l) /\ m # t /\ n # t
            /\ m \in Nodes /\ n \in Nodes
        BY <2>c, <2>s
      <3>2. \A a, b \in Chain(l) : nxt[l][a] = nxt[l][b] => a = b
        BY <2>s DEF Sound
      <3>3. nxt[l][m] \in Chain(l) /\ nxt[l][n] \in Chain(l)
        BY <2>s, <3>1 DEF Sound
      <3> QED
        BY <1>7, <2>2, <3>1, <3>2, <3>3
    <2>3. ASSUME NEW n \in Of(l), n \in Threads => state'[n] # "unborn"
          PROVE  nxt'[l][n] \in Of(l)
      <3>1. n \in Threads => state[n] # "unborn"
        BY <1>1, <1>3, <2>3
      <3>2. nxt[l][n] \in Of(l) /\ n \in Nodes
        BY <2>s, <3>1 DEF Sound
      <3>3. CASE nxt[l][n] = t
        <4>1. nxt[l][t] \in Of(l)
          BY <1>1, <2>s, <3>2, <3>3 DEF Sound
        <4> QED
          BY <1>7, <3>2, <3>3, <4>1
      <3>4. CASE nxt[l][n] # t
        BY <1>7, <3>2, <3>4
      <3> QED
        BY <3>3, <3>4
    <2> QED
      BY <2>1, <2>2, <2>3 DEF Sound
  <1>11. ASSUME NEW w \in Writers, InRcu(w), NEW n, Visible(w, n)
         PROVE  n \in Linked' \/ (n \in Threads /\ w \in grace'[n])
    BY <1>4, <1>5, <1>11 DEF Visible
  <1>12. GraceKept'
    <2> SUFFICES ASSUME NEW u \in Threads, NEW w \in grace'[u]
                 PROVE  /\ InRcu(w)' /\ state'[u] = "unhashed"
                        /\ \A l \in Lists : u \in On(l) => Visible(w, nxt[l][u])'
      BY DEF GraceKept
    <2>1. InRcu(w) /\ w \in Writers /\ state'[u] = "unhashed"
      BY <1>3, <1>4, <1>t DEF SafeInv, GraceKept
    <2>2. ASSUME NEW l \in Lists, u \in On(l)
          PROVE  Visible(w, nxt[l][u])'
      <3>s. Sound(l) /\ Chain(l) = Linked \cap Of(l) /\ u \in Of(l)
            /\ u \in Nodes
        BY <2>2, ChainIs, NodeFacts DEF SafeInv, ListsSound, Of
      <3>1. CASE u = t
        <4>1. u \in Chain(l) /\ nxt[l][u] \in Chain(l) /\ nxt[l][u] \in Linked
          BY <1>2, <3>1, <3>s DEF Sound
        <4>2. nxt'[l][u] = nxt[l][u]
          BY <1>7, <3>1, <3>s, <4>1
        <4>3. Visible(w, nxt[l][u])
          BY <4>1 DEF Visible
        <4> QED
          BY <1>11, <2>1, <4>2, <4>3 DEF Visible
      <3>2. CASE u # t
        <4>1. u \notin Chain(l)
          BY <1>3, <2>1, <3>2, <3>s, NodeFacts DEF Linked, Hashed
        <4>2. nxt'[l][u] = nxt[l][u]
          BY <1>7, <3>s, <4>1
        <4>3. Visible(w, nxt[l][u])
          BY <1>4, <2>2, <3>2 DEF SafeInv, GraceKept
        <4> QED
          BY <1>11, <2>1, <4>2, <4>3 DEF Visible
      <3> QED
        BY <3>1, <3>2
    <2>6. InRcu(w)'
      BY <1>1, <2>1 DEF InRcu
    <2> QED
      BY <2>1, <2>2, <2>6
  <1>13. WalksSafe'
    <2> SUFFICES ASSUME NEW w \in Writers, InRcu(w)'
                 PROVE  (/\ Visible(w, call[w].cursor)
                         /\ call[w].cursor \in Of(call[w].list))'
      BY DEF WalksSafe
    <2>1. InRcu(w) /\ call' = call
      BY <1>1 DEF InRcu
    <2>2. Visible(w, call[w].cursor) /\ call[w].cursor \in Of(call[w].list)
      BY <2>1 DEF SafeInv, WalksSafe
    <2> QED
      BY <1>11, <2>1, <2>2 DEF Visible
  <1>14. RefsHeld'
    BY <1>1 DEF SafeInv, RefsHeld
  <1> QED
    BY <1>9, <1>10, <1>12, <1>13, <1>14 DEF SafeInv, ListsSound

\* The last steps of a thread's life that leave its list alone.
LEMMA SafeExit ==
    ASSUME SafeInv, NEW t \in Threads, Exit(t) \/ DelayedPut(t)
    PROVE  SafeInv'
  <1>t. /\ DriverTyped /\ CallTyped /\ KernelTyped
        /\ state \in [Threads -> States]
    BY DEF SafeInv, Typed, KernelTyped
  <1>1. UNCHANGED <<target, stats, files, mode, call, calls, online, nxt, refs,
                    grace, mask, nice, line>>
    BY DEF Exit, DelayedPut, driver
  <1>2. \/ state[t] = "live" /\ state' = [state EXCEPT ![t] = "exiting"]
        \/ /\ state[t] = "unhashed" /\ grace[t] = {}
           /\ state' = [state EXCEPT ![t] = "released"]
    BY DEF Exit, DelayedPut
  <1>3. /\ state' \in [Threads -> States]
        /\ \A u \in Threads : u # t => state'[u] = state[u]
        /\ \/ state[t] = "live" /\ state'[t] = "exiting"
           \/ state[t] = "unhashed" /\ grace[t] = {} /\ state'[t] = "released"
    BY <1>2, <1>t DEF States
  <1>4. Linked' = Linked
    BY <1>3 DEF Linked, Hashed
  <1>5. \A w, n : Visible(w, n)' <=> Visible(w, n)
    BY <1>1, <1>4 DEF Visible
  <1>6. Typed'
    BY <1>1, <1>3, <1>t DEF Typed, DriverTyped, CallTyped, KernelTyped
  <1>7. ListsSound'
    <2>1. \A u \in Threads : state'[u] # "unborn" => state[u] # "unborn"
      BY <1>3
    <2>2. ASSUME NEW l \in Lists
          PROVE  Chain(l)' = Chain(l)
      BY <1>4, ChainIs DEF Chain, Members, Linked, Of
    <2> QED
      BY <1>1, <2>1, <2>2 DEF SafeInv, ListsSound, Sound
  <1>8. GraceKept'
    <2> SUFFICES ASSUME NEW u \in Threads, NEW w \in grace'[u]
                 PROVE  /\ InRcu(w)' /\ state'[u] = "unhashed"
                        /\ \A l \in Lists : u \in On(l) => Visible(w, nxt[l][u])'
      BY DEF GraceKept
    <2>1. /\ InRcu(w) /\ state[u] = "unhashed"
          /\ \A l \in Lists : u \in On(l) => Visible(w, nxt[l][u])
      BY <1>1 DEF SafeInv, GraceKept
    <2>2. state'[u] = "unhashed"
      BY <1>1, <1>3, <2>1
    <2> QED
      BY <1>1, <1>5, <2>1, <2>2 DEF InRcu, Visible
  <1>9. WalksSafe' /\ RefsHeld'
    BY <1>1, <1>5 DEF SafeInv, WalksSafe, RefsHeld, InRcu, Visible
  <1> QED
    BY <1>6, <1>7, <1>8, <1>9 DEF SafeInv

\* The module and the CPUs come and go.
LEMMA SafeModule ==
    ASSUME SafeInv, Load \/ Unload \/ Hotplug \/ UNCHANGED vars
    PROVE  SafeInv'
  <1>t. DriverTyped /\ CallTyped /\ KernelTyped
    BY DEF SafeInv, Typed
  <1>1. UNCHANGED <<call, calls, state, nxt, refs, grace, mask, nice, line>>
    BY DEF Load, Unload, Hotplug, vars, kernel
  <1>2. online' \subseteq CPUs
    BY <1>t DEF Load, Unload, Hotplug, vars, kernel, KernelTyped
  <1>3. DriverTyped'
    <2>1. CASE Load
      <3>1. stats' \in [Kinds -> Nat]
        BY <2>1 DEF Load
      <3> QED
        BY <2>1, <3>1, <1>t DEF Load, DriverTyped
    <2>2. CASE Unload
      BY <2>2, <1>t DEF Unload, DriverTyped
    <2>3. CASE Hotplug \/ UNCHANGED vars
      BY <2>3, <1>t DEF Hotplug, vars, driver, DriverTyped
    <2> QED
      BY <2>1, <2>2, <2>3
  <1>4. CallTyped' /\ KernelTyped'
    BY <1>1, <1>2, <1>t DEF CallTyped, KernelTyped
  <1>5. ListsSound' /\ GraceKept' /\ WalksSafe' /\ RefsHeld'
    BY <1>1 DEF SafeInv, ListsSound, Sound, Chain, Members, GraceKept,
      WalksSafe, RefsHeld, Linked, Hashed, Visible, InRcu
  <1> QED
    BY <1>3, <1>4, <1>5 DEF SafeInv, Typed

LEMMA SafeNext == SafeInv /\ [Next]_vars => SafeInv'
  <1> SUFFICES ASSUME SafeInv, [Next]_vars PROVE SafeInv'
    OBVIOUS
  <1>1. CASE \E w \in Writers : Write(w) \/ WriterStep(w)
    BY <1>1, SafeWrite, SafeWriterStep
  <1>2. CASE \E t \in Threads : Create(t) \/ Exit(t) \/ Unhash(t) \/ DelayedPut(t)
    BY <1>2, SafeCreate, SafeExit, SafeUnhash
  <1>3. CASE Load \/ Unload \/ Hotplug \/ UNCHANGED vars
    BY <1>3, SafeModule
  <1> QED
    BY <1>1, <1>2, <1>3 DEF Next

LEMMA SafeAlways == Spec => []SafeInv
  BY SafeInit, SafeNext, PTL DEF Spec

-----------------------------------------------------------------------------
(* The results *)

\* Types: no call collects more threads than its array holds, however many
\* threads there are and however they come and go.
THEOREM DragoniteTypeCorrect == Spec => []TypeOK
  <1>1. SafeInv => TypeOK
    <2> SUFFICES ASSUME SafeInv PROVE TypeOK
      OBVIOUS
    <2>1. DriverTyped /\ KernelTyped
      BY DEF SafeInv, Typed
    <2>2. ASSUME NEW w \in Writers
          PROVE  LET c == call[w]
                 IN  /\ c.pc \in {"idle", "target", "find", "walk", "apply"}
                     /\ c.kind \in Kinds /\ c.pid \in Int /\ c.nice \in Int
                     /\ c.mask \subseteq CPUs
                     /\ c.list \in Lists /\ c.cursor \in Nodes
                     /\ c.task \in Nodes /\ c.threads \in Seq(Threads)
                     /\ Len(c.threads) <= (IF c.kind = "pin" THEN MaxKswapd
                                           ELSE MaxThreads)
                     /\ c.i \in 1 .. Len(c.threads) + 1
                     /\ c.matched \in 0 .. Len(c.threads)
      <3> DEFINE c == call[w]
      <3>1. c \in Calls /\ Bounded(c)
        BY DEF SafeInv, Typed, CallTyped
      <3>2. /\ c.i \in Nat \ {0} /\ c.matched \in Nat
            /\ c.threads \in Seq(Threads) /\ Len(c.threads) \in Nat
        BY <3>1 DEF Calls
      <3>3. /\ c.i \in 1 .. Len(c.threads) + 1
            /\ c.matched \in 0 .. Len(c.threads)
        BY <3>1, <3>2 DEF Bounded
      <3> QED
        BY <3>1, <3>3 DEF Calls, Bounded, Limit
    <2> QED
      BY <2>1, <2>2 DEF TypeOK, DriverTyped, KernelTyped, States
  <1> QED
    BY <1>1, SafeAlways, PTL

\* No call follows the pointer of a freed thread or changes one: with any
\* number of calls at a time over threads that come and go at any time.
THEOREM NeverUsedAfterFree == Spec => []NoUseAfterFree
  <1>1. SafeInv => NoUseAfterFree
    <2> SUFFICES ASSUME SafeInv, NEW w \in Writers, NEW t \in InUse(w)
                 PROVE  ~Freed(t)
      BY DEF NoUseAfterFree
    <2> DEFINE c == call[w]
    <2>1. c \in Calls /\ Bounded(c)
      BY DEF SafeInv, Typed, CallTyped
    <2>2. ASSUME NEW j \in c.i .. Len(c.threads), c.pc \in {"walk", "apply"}
          PROVE  ~Freed(c.threads[j])
      BY <2>2 DEF SafeInv, RefsHeld, Freed
    <2>3. CASE c.pc = "walk" /\ t = c.cursor /\ t \in Threads
      <3>1. Visible(w, t)
        BY <2>3 DEF SafeInv, WalksSafe, InRcu
      <3>2. t \in Linked => state[t] # "released"
        BY <2>3, NodeFacts DEF Linked, Hashed
      <3>3. w \in grace[t] => state[t] # "released"
        BY <2>3 DEF SafeInv, GraceKept
      <3> QED
        BY <3>1, <3>2, <3>3 DEF Freed, Visible
    <2>4. c.pc = "walk" => c.i = 1
      BY <2>1 DEF Bounded
    <2> QED
      BY <2>2, <2>3, <2>4 DEF InUse
  <1> QED
    BY <1>1, SafeAlways, PTL

-----------------------------------------------------------------------------
(* Every mask was asked for *)

\* The call serves the request: with the pid it names, or else with one that
\* was written to the file pid.
Serves(c, r) ==
    /\ c.kind \in {"set", "pin"} /\ r.kind = c.kind
    /\ r.mask = c.mask /\ r.comm = c.comm
    /\ c.kind = "set" =>
         /\ c.pc = "target" => r.pid <= 0
         /\ c.pc # "target" /\ r.pid > 0 => c.pid = r.pid
         /\ c.pc # "target" /\ r.pid <= 0 => c.pid \in PidWrites \cup {0}

AskedFor(c) ==
    \/ c.pc = "idle" \/ c.kind = "boost"
    \/ c.kind = "reset" /\ c.mask = CPUs
    \/ \E r \in Requests : Serves(c, r)

\* The list that is walked is the one of a thread with the pid, and what was
\* collected is of this list and bears the name; a pin walks the processes.
Placed(c) ==
    c.pc \in {"walk", "apply"} =>
        /\ c.kind = "pin" => c.list = Procs
        /\ c.kind # "pin" => \E u \in Threads : GroupOf[u] = c.list /\ PidOf[u] = c.pid
        /\ \A j \in 1 .. Len(c.threads) :
               c.threads[j] \in On(c.list) /\ Matches(c, c.threads[j])

CallsMeant == \A w \in Writers : AskedFor(call[w]) /\ Placed(call[w])

\* The mask was asked for one of the threads.
Asked(m, ancestry) ==
    m = CPUs \/ \E r \in Requests, u \in ancestry : r.mask = m /\ MeantFor(r, u)

MaskInv ==
    /\ target \in PidWrites \cup {0}
    /\ CallsMeant
    /\ \A t \in Threads : t \in line[t] /\ Asked(mask[t], line[t])

LEMMA MaskInit == Init => MaskInv
  <1> SUFFICES ASSUME Init PROVE MaskInv
    OBVIOUS
  <1>1. CallsMeant
    BY DEF Init, CallsMeant, AskedFor, Placed, Idle
  <1>2. \A t \in Threads : t \in line[t] /\ Asked(mask[t], line[t])
    BY DEF Init, Asked
  <1> QED
    BY <1>1, <1>2 DEF Init, MaskInv

\* One call changes, the others and the masks do not.
LEMMA MaskOfCall ==
    ASSUME SafeInv, MaskInv, NEW w \in Writers, NEW new \in Calls,
           call' = [call EXCEPT ![w] = new], AskedFor(new), Placed(new),
           UNCHANGED <<target, mask, line>>
    PROVE  MaskInv'
  <1>1. \A v \in Writers : call'[v] = IF v = w THEN new ELSE call[v]
    BY DEF SafeInv, Typed, CallTyped
  <1>2. CallsMeant'
    <2> SUFFICES ASSUME NEW v \in Writers
                 PROVE  AskedFor(call'[v]) /\ Placed(call'[v])
      BY DEF CallsMeant, AskedFor, Placed, Serves, Matches
    <2> QED
      BY <1>1 DEF MaskInv, CallsMeant
  <1> QED
    BY <1>2 DEF MaskInv

LEMMA MaskWrite ==
    ASSUME SafeInv, MaskInv, NEW w \in Writers, Write(w)
    PROVE  MaskInv'
  <1>t. CallTyped
    BY DEF SafeInv, Typed
  <1>1. CASE nta_pid_write(w)
    <2>1. UNCHANGED <<call, mask, line>> /\ target' \in PidWrites
      BY <1>1 DEF nta_pid_write, kernel
    <2>2. CallsMeant'
      BY <2>1 DEF MaskInv, CallsMeant, AskedFor, Placed, Serves, Matches
    <2> QED
      BY <2>1, <2>2 DEF MaskInv
  <1>2. ASSUME NEW kind \in Kinds, Enter(w, kind)
        PROVE  MaskInv'
    <2>1. PICK r \in Requests, new \in Calls :
            /\ call' = [call EXCEPT ![w] = new]
            /\ r.kind = kind /\ new.kind = kind
            /\ new.pc = (IF Explicit(r) THEN "find" ELSE "target")
            /\ new.pid = r.pid /\ new.comm = r.comm
            /\ new.mask = (IF kind = "reset" THEN CPUs ELSE r.mask)
      BY <1>2, <1>t, EnterCall
    <2>2. UNCHANGED <<target, mask, line>>
      BY <1>2 DEF Enter, driver, kernel
    <2>3. r.pid \in Int
      BY DragoniteAssumption
    <2>4. ASSUME kind = "set"
          PROVE  /\ new.pc = "target" => r.pid <= 0
                 /\ new.pc # "target" => r.pid > 0
      <3>1. Explicit(r) <=> r.pid > 0
        BY <2>1, <2>4 DEF Explicit
      <3> QED
        BY <2>1, <2>3, <3>1
    <2>5. AskedFor(new)
      <3>1. CASE kind \in {"set", "pin"}
        <4>1. /\ new.kind \in {"set", "pin"} /\ r.kind = new.kind
              /\ r.mask = new.mask /\ r.comm = new.comm
          BY <2>1, <3>1
        <4>2. new.kind = "set" =>
                /\ new.pc = "target" => r.pid <= 0
                /\ new.pc # "target" /\ r.pid > 0 => new.pid = r.pid
                /\ new.pc # "target" /\ r.pid <= 0 => new.pid \in PidWrites \cup {0}
          BY <2>1, <2>3, <2>4
        <4>3. Serves(new, r)
          BY <4>1, <4>2 DEF Serves
        <4> QED
          BY <4>3 DEF AskedFor
      <3> QED
        BY <2>1, <3>1 DEF AskedFor, Kinds
    <2>6. Placed(new)
      BY <2>1 DEF Placed
    <2> QED
      BY <2>1, <2>2, <2>5, <2>6, MaskOfCall
  <1>3. CASE \/ nta_affinity_write(w) \/ nta_reset_write(w)
             \/ dragonite_boost_write(w) \/ dragonite_kswapd_write(w)
    BY <1>2, <1>3 DEF nta_affinity_write, nta_reset_write,
      dragonite_boost_write, dragonite_kswapd_write, Kinds
  <1> QED
    BY <1>1, <1>3 DEF Write

LEMMA MaskReadTarget ==
    ASSUME SafeInv, MaskInv, NEW w \in Writers, ReadTarget(w)
    PROVE  MaskInv'
  <1>t. Typed /\ call[w] \in Calls
    BY DEF SafeInv, Typed, CallTyped
  <1> DEFINE c == call[w]
  <1>1. PICK new \in Calls :
          /\ call' = [call EXCEPT ![w] = new]
          /\ new = [c EXCEPT !.pid = target, !.pc = "find"]
    BY <1>t, ReadTargetCall
  <1>2. /\ c.pc = "target" /\ new.pc = "find" /\ new.pid = target
        /\ new.kind = c.kind /\ new.mask = c.mask /\ new.comm = c.comm
    BY <1>1, <1>t DEF ReadTarget, Calls
  <1>3. UNCHANGED <<target, mask, line>> /\ target \in PidWrites \cup {0}
    BY DEF ReadTarget, driver, kernel, MaskInv
  <1>4. AskedFor(c)
    BY DEF MaskInv, CallsMeant
  <1>5. AskedFor(new)
    <2>1. ASSUME NEW r \in Requests, Serves(c, r)
          PROVE  Serves(new, r)
      <3>1. r.pid \in Int
        BY DragoniteAssumption
      <3>2. c.kind = "set" => ~(r.pid > 0)
        BY <1>2, <2>1, <3>1 DEF Serves
      <3> QED
        BY <1>2, <1>3, <2>1, <3>2 DEF Serves
    <2> HIDE DEF c
    <2> QED
      BY <1>2, <1>4, <2>1 DEF AskedFor
  <1>6. Placed(new)
    BY <1>2 DEF Placed
  <1> QED
    BY <1>1, <1>3, <1>5, <1>6, MaskOfCall

\* A step that leaves the request alone.
LEMMA StillAsked ==
    ASSUME NEW c \in Calls, NEW new \in Calls, AskedFor(c),
           c.pc \in {"find", "walk", "apply"},
           new.pc \in {"idle", "find", "walk", "apply"},
           new.kind = c.kind, new.mask = c.mask, new.comm = c.comm,
           new.pid = c.pid
    PROVE  AskedFor(new)
  <1>1. ASSUME NEW r \in Requests, Serves(c, r)
        PROVE  Serves(new, r)
    BY <1>1 DEF Serves
  <1> QED
    BY <1>1 DEF AskedFor

LEMMA MaskFind ==
    ASSUME SafeInv, MaskInv, NEW w \in Writers, Find(w)
    PROVE  MaskInv'
  <1> DEFINE c == call[w]
  <1>t. /\ Typed /\ c \in Calls /\ Bounded(c)
        /\ AskedFor(c)
    BY DEF SafeInv, Typed, CallTyped, MaskInv, CallsMeant
  <1>u. UNCHANGED <<target, mask, line>>
    BY DEF Find, driver
  <1>0. PICK new \in Calls :
          /\ call[w].pc = "find"
          /\ call' = [call EXCEPT ![w] = new] /\ Bounded(new)
          /\ \/ /\ \E ret \in {"EINVAL", "ENOMEM", "ESRCH"} :
                       new = [call[w] EXCEPT !.pc = "idle", !.ret = ret]
                /\ refs' = refs
             \/ /\ ~Invalid(call[w]) /\ call[w].kind # "pin"
                /\ \E t \in Found(call[w].pid) :
                     /\ new = [call[w] EXCEPT !.pc = "walk", !.task = t,
                                              !.list = GroupOf[t],
                                              !.cursor = GroupOf[t]]
                     /\ refs' = IF KeepsTask(call[w].kind)
                                THEN [refs EXCEPT ![t] = @ \cup {<<w, 0>>}]
                                ELSE refs
             \/ /\ ~Invalid(call[w]) /\ call[w].kind = "pin"
                /\ new = [call[w] EXCEPT !.pc = "walk"]
                /\ refs' = refs
    BY <1>t, FindCall
  <1>1. /\ c.pc = "find" /\ call' = [call EXCEPT ![w] = new]
        /\ \/ \E ret \in {"EINVAL", "ENOMEM", "ESRCH"} :
                  new = [c EXCEPT !.pc = "idle", !.ret = ret]
           \/ /\ c.kind # "pin"
              /\ \E t \in Found(c.pid) :
                   new = [c EXCEPT !.pc = "walk", !.task = t,
                                   !.list = GroupOf[t],
                                   !.cursor = GroupOf[t]]
           \/ c.kind = "pin" /\ new = [c EXCEPT !.pc = "walk"]
    BY <1>0
  <1>b. c.threads = <<>> /\ c.list = Procs
    BY <1>1, <1>t DEF Bounded
  <1>2. ASSUME NEW ret, new = [c EXCEPT !.pc = "idle", !.ret = ret]
        PROVE  AskedFor(new) /\ Placed(new)
    <2>1. new.pc = "idle"
      BY <1>2, <1>t DEF Calls
    <2> QED
      BY <2>1 DEF AskedFor, Placed
  <1>3. ASSUME NEW t \in Found(c.pid), c.kind # "pin",
               new = [c EXCEPT !.pc = "walk", !.task = t, !.list = GroupOf[t],
                               !.cursor = GroupOf[t]]
        PROVE  AskedFor(new) /\ Placed(new)
    <2>1. /\ new.pc = "walk" /\ new.kind = c.kind /\ new.mask = c.mask
          /\ new.comm = c.comm /\ new.pid = c.pid /\ new.list = GroupOf[t]
          /\ new.threads = <<>>
      BY <1>3, <1>t, <1>b DEF Calls
    <2>2. AskedFor(new)
      BY <1>1, <1>t, <2>1, StillAsked
    <2>3. t \in Threads /\ PidOf[t] = c.pid
      BY DEF Found
    <2>4. \E u \in Threads : GroupOf[u] = new.list /\ PidOf[u] = new.pid
      BY <2>1, <2>3
    <2>5. 1 .. Len(new.threads) = {}
      BY <2>1
    <2>6. Placed(new)
      BY <1>3, <2>1, <2>4, <2>5 DEF Placed
    <2> QED
      BY <2>2, <2>6
  <1>4. ASSUME c.kind = "pin", new = [c EXCEPT !.pc = "walk"]
        PROVE  AskedFor(new) /\ Placed(new)
    <2>1. /\ new.pc = "walk" /\ new.kind = c.kind /\ new.mask = c.mask
          /\ new.comm = c.comm /\ new.pid = c.pid /\ new.list = Procs
          /\ new.threads = <<>>
      BY <1>4, <1>t, <1>b DEF Calls
    <2>2. AskedFor(new)
      BY <1>1, <1>t, <2>1, StillAsked
    <2>3. 1 .. Len(new.threads) = {}
      BY <2>1
    <2>4. Placed(new)
      BY <1>4, <2>1, <2>3 DEF Placed
    <2> QED
      BY <2>2, <2>4
  <1>5. AskedFor(new) /\ Placed(new)
    BY <1>1, <1>2, <1>3, <1>4
  <1> QED
    BY <1>1, <1>5, <1>u, MaskOfCall

\* The walk, the changes and the end keep what the call is about.
LEMMA StillPlaced ==
    ASSUME NEW c \in Calls, NEW new \in Calls, Placed(c),
           c.pc \in {"walk", "apply"},
           new.kind = c.kind, new.comm = c.comm, new.pid = c.pid,
           new.list = c.list, new.threads = c.threads
    PROVE  Placed(new)
  BY DEF Placed, Matches

LEMMA MaskWalk ==
    ASSUME SafeInv, MaskInv, NEW w \in Writers, Walk(w)
    PROVE  MaskInv'
  <1> DEFINE c == call[w]
             n == nxt[c.list][c.cursor]
  <1>t. /\ Typed /\ CallTyped /\ c \in Calls /\ c.threads \in Seq(Threads)
        /\ AskedFor(c) /\ Placed(c) /\ c.pc = "walk"
    BY DEF SafeInv, Typed, CallTyped, MaskInv, CallsMeant, Walk, Calls
  <1>n. n # c.list => n \in Threads /\ n \in On(c.list)
    BY <1>t, NextVisible DEF InRcu
  <1>u. UNCHANGED <<target, mask, line>>
    BY DEF Walk, driver
  <1>1. CASE LeaveRcu(w)
    <2>1. PICK new \in Calls :
            /\ call' = [call EXCEPT ![w] = new]
            /\ new = [call[w] EXCEPT !.pc = "apply"]
      BY <1>1, <1>t, LeaveCall
    <2>2. /\ new.pc = "apply" /\ new.kind = c.kind /\ new.mask = c.mask
          /\ new.comm = c.comm /\ new.pid = c.pid /\ new.list = c.list
          /\ new.threads = c.threads
      BY <1>t, <2>1 DEF Calls
    <2>3. AskedFor(new) /\ Placed(new)
      BY <1>t, <2>2, StillAsked, StillPlaced
    <2> QED
      BY <1>u, <2>1, <2>3, MaskOfCall
  <1>2. CASE n \in Threads /\ call' = [call EXCEPT ![w].cursor = n]
    <2> HIDE DEF n
    <2>1. PICK new \in Calls :
            /\ call' = [call EXCEPT ![w] = new]
            /\ new = [call[w] EXCEPT !.cursor = n]
      BY <1>2, <1>t, PassCall, ZenonT(60)
    <2>2. /\ new.pc = "walk" /\ new.kind = c.kind /\ new.mask = c.mask
          /\ new.comm = c.comm /\ new.pid = c.pid /\ new.list = c.list
          /\ new.threads = c.threads
      BY <1>t, <2>1 DEF Calls
    <2>3. AskedFor(new) /\ Placed(new)
      BY <1>t, <2>2, StillAsked, StillPlaced
    <2> QED
      BY <1>u, <2>1, <2>3, MaskOfCall
  <1>3. CASE /\ n \in Threads /\ n \in On(c.list) /\ Matches(c, n) /\ ~Full(c)
             /\ call' = [call EXCEPT ![w].cursor = n,
                                     ![w].threads = Append(@, n)]
    <2> HIDE DEF n
    <2>1. PICK new \in Calls :
            /\ call' = [call EXCEPT ![w] = new]
            /\ new = [call[w] EXCEPT !.cursor = n, !.threads = Append(@, n)]
      BY <1>3, <1>t, CollectCall, ZenonT(60)
    <2>2. /\ new.pc = "walk" /\ new.kind = c.kind /\ new.mask = c.mask
          /\ new.comm = c.comm /\ new.pid = c.pid /\ new.list = c.list
          /\ new.threads = Append(c.threads, n)
      BY <1>t, <2>1 DEF Calls
    <2>3. AskedFor(new)
      BY <1>t, <2>2, StillAsked
    <2>5. ASSUME NEW j \in 1 .. Len(new.threads)
          PROVE  new.threads[j] \in On(c.list) /\ Matches(c, new.threads[j])
      <3>1. \/ j \in 1 .. Len(c.threads) /\ new.threads[j] = c.threads[j]
            \/ new.threads[j] = n
        BY <1>3, <1>t, <2>2
      <3> HIDE DEF c
      <3> QED
        BY <1>3, <1>t, <3>1 DEF Placed
    <2>6. \A j \in 1 .. Len(new.threads) :
            new.threads[j] \in On(new.list) /\ Matches(new, new.threads[j])
      BY <2>2, <2>5 DEF Matches
    <2>7. /\ new.kind = "pin" => new.list = Procs
          /\ new.kind # "pin" =>
               \E u \in Threads : GroupOf[u] = new.list /\ PidOf[u] = new.pid
      BY <1>t, <2>2 DEF Placed
    <2>8. Placed(new)
      BY <2>6, <2>7 DEF Placed
    <2> QED
      BY <1>u, <2>1, <2>3, <2>8, MaskOfCall
  <1>4. CASE n # c.list /\ Visit(w, n)
    BY <1>1, <1>2, <1>3, <1>4, <1>n DEF Visit
  <1> QED
    BY <1>1, <1>4 DEF Walk

\* A set walks the list of a process that its request is meant for.
LEMMA SetIsAddressed ==
    ASSUME NEW c, NEW r \in Requests, Serves(c, r), c.kind = "set",
           Placed(c), c.pc \in {"walk", "apply"}
    PROVE  c.list \in Groups /\ Addressed(r, c.list)
  <1>1. PICK u \in Threads : GroupOf[u] = c.list /\ PidOf[u] = c.pid
    BY DEF Placed
  <1>2. c.pid \in Nat /\ c.pid # 0 /\ r.pid \in Int
    BY <1>1, DragoniteAssumption
  <1>3. /\ r.pid > 0 => c.pid = r.pid
        /\ r.pid <= 0 => c.pid \in PidWrites \cup {0}
    BY DEF Serves
  <1>4. c.pid \in (IF r.pid > 0 THEN {r.pid} ELSE PidWrites)
    BY <1>2, <1>3
  <1>5. Addressed(r, c.list)
    BY <1>1, <1>4 DEF Addressed
  <1>6. GroupOf[u] \in Groups
    BY DragoniteAssumption
  <1> QED
    BY <1>1, <1>5, <1>6

\* The mask that is given to a collected thread was asked for it.
LEMMA MaskApply ==
    ASSUME SafeInv, MaskInv, NEW w \in Writers, Apply(w),
           call[w].kind # "boost"
    PROVE  MaskInv'
  <1> DEFINE c == call[w]
             t == c.threads[c.i]
  <1>t. /\ CallTyped /\ c \in Calls /\ AskedFor(c) /\ Placed(c)
        /\ mask \in [Threads -> SUBSET CPUs]
    BY DEF SafeInv, Typed, CallTyped, KernelTyped, MaskInv, CallsMeant
  <1>1. PICK new \in Calls, m \in {c.matched, c.matched + 1} :
          /\ call' = [call EXCEPT ![w] = new]
          /\ new = [c EXCEPT !.i = @ + 1, !.matched = m]
          /\ c.pc = "apply" /\ c.i \in 1 .. Len(c.threads) /\ t \in Threads
    BY <1>t, ApplyCall
  <1>2. /\ new.pc = "apply" /\ new.kind = c.kind /\ new.mask = c.mask
        /\ new.comm = c.comm /\ new.pid = c.pid /\ new.list = c.list
        /\ new.threads = c.threads
    BY <1>1, <1>t DEF Calls
  <1>3. AskedFor(new) /\ Placed(new)
    BY <1>1, <1>2, <1>t, StillAsked, StillPlaced
  <1>4. UNCHANGED <<target, line>> /\ mask' \in {mask, [mask EXCEPT ![t] = c.mask]}
    BY DEF Apply, driver
  <1>5. CallsMeant'
    <2>1. \A v \in Writers : call'[v] = IF v = w THEN new ELSE call[v]
      BY <1>1, <1>t DEF CallTyped
    <2> SUFFICES ASSUME NEW v \in Writers
                 PROVE  AskedFor(call'[v]) /\ Placed(call'[v])
      BY DEF CallsMeant, AskedFor, Placed, Serves, Matches
    <2> QED
      BY <1>3, <2>1 DEF MaskInv, CallsMeant
  <1>6. t \in On(c.list) /\ Matches(c, t)
    BY <1>1, <1>t DEF Placed
  <1>7. c.mask = CPUs \/ \E r \in Requests : r.mask = c.mask /\ MeantFor(r, t)
    <2>1. ASSUME NEW r \in Requests, Serves(c, r), c.kind = "set"
          PROVE  r.mask = c.mask /\ MeantFor(r, t)
      <3>1. c.list \in Groups /\ Addressed(r, c.list)
        BY <1>1, <1>t, <2>1, SetIsAddressed
      <3>2. r.comm \in {AnyName, NameOf[t]} /\ r.mask = c.mask /\ r.kind = "set"
        BY <1>6, <2>1 DEF Serves, Matches
      <3>3. c.list = GroupOf[t]
        BY <1>6, <3>1, DragoniteAssumption DEF On
      <3> QED
        BY <3>1, <3>2, <3>3 DEF MeantFor
    <2>2. ASSUME NEW r \in Requests, Serves(c, r), c.kind = "pin"
          PROVE  r.mask = c.mask /\ MeantFor(r, t)
      <3>1. r.mask = c.mask /\ r.kind = "pin"
        BY <2>2 DEF Serves
      <3>2. c.list = Procs
        BY <1>1, <1>t, <2>2 DEF Placed
      <3>3. NameOf[t] = KswapdName
        BY <1>6, <2>2 DEF Matches
      <3>4. t = LeaderOf[GroupOf[t]]
        BY <1>6, <3>2, DragoniteAssumption DEF On
      <3> QED
        BY <3>1, <3>3, <3>4 DEF MeantFor
    <2>3. \/ c.mask = CPUs
          \/ \E r \in Requests : Serves(c, r) /\ c.kind \in {"set", "pin"}
      BY <1>1, <1>t DEF AskedFor, Serves
    <2> HIDE DEF c, t
    <2> QED
      BY <2>1, <2>2, <2>3
  <1>8. ASSUME NEW u \in Threads
        PROVE  u \in line[u] /\ Asked(mask'[u], line[u])
    <2> HIDE DEF c, t
    <2>1. mask'[u] = mask[u] \/ (u = t /\ mask'[u] = c.mask)
      BY <1>1, <1>4, <1>t
    <2>2. u \in line[u] /\ Asked(mask[u], line[u])
      BY DEF MaskInv
    <2>3. CASE u = t /\ mask'[u] = c.mask
      BY <1>7, <2>2, <2>3 DEF Asked
    <2> QED
      BY <2>1, <2>2, <2>3
  <1> QED
    BY <1>4, <1>5, <1>8 DEF MaskInv

LEMMA MaskFinish ==
    ASSUME SafeInv, MaskInv, NEW w \in Writers, Finish(w)
    PROVE  MaskInv'
  <1>t. CallTyped /\ call[w] \in Calls
    BY DEF SafeInv, Typed, CallTyped
  <1>1. PICK new \in Calls :
          /\ call' = [call EXCEPT ![w] = new]
          /\ new = [call[w] EXCEPT !.pc = "idle", !.ret = Outcome(call[w])]
    BY <1>t, FinishCall
  <1>2. new.pc = "idle"
    BY <1>1, <1>t DEF Calls
  <1>3. AskedFor(new) /\ Placed(new)
    BY <1>2 DEF AskedFor, Placed
  <1>4. UNCHANGED <<target, mask, line>>
    BY DEF Finish
  <1> QED
    BY <1>1, <1>3, <1>4, MaskOfCall

\* A new thread has the mask of its creator, and descends from it.
LEMMA MaskCreate ==
    ASSUME SafeInv, MaskInv, NEW t \in Threads, Create(t)
    PROVE  MaskInv'
  <1>t. mask \in [Threads -> SUBSET CPUs] /\ line \in [Threads -> SUBSET Threads]
    BY DEF SafeInv, Typed, KernelTyped
  <1>1. /\ UNCHANGED <<target, call>>
        /\ \/ UNCHANGED <<mask, line>>
           \/ \E c \in Threads : /\ mask' = [mask EXCEPT ![t] = mask[c]]
                                 /\ line' = [line EXCEPT ![t] = {t} \cup line[c]]
    BY DEF Create, driver
  <1>2. CallsMeant'
    BY <1>1 DEF MaskInv, CallsMeant, AskedFor, Placed, Serves, Matches
  <1>3. ASSUME NEW u \in Threads
        PROVE  u \in line'[u] /\ Asked(mask'[u], line'[u])
    <2>1. \A x \in Threads : x \in line[x] /\ Asked(mask[x], line[x])
      BY DEF MaskInv
    <2>2. CASE UNCHANGED <<mask, line>>
      BY <2>1, <2>2
    <2>3. ASSUME NEW c \in Threads, mask' = [mask EXCEPT ![t] = mask[c]],
                 line' = [line EXCEPT ![t] = {t} \cup line[c]]
          PROVE  u \in line'[u] /\ Asked(mask'[u], line'[u])
      <3>1. CASE u = t
        <4>1. mask'[u] = mask[c] /\ line'[u] = {t} \cup line[c]
          BY <1>t, <2>3, <3>1
        <4>2. Asked(mask[c], {t} \cup line[c])
          BY <2>1 DEF Asked
        <4> QED
          BY <3>1, <4>1, <4>2
      <3>2. CASE u # t
        BY <1>t, <2>1, <2>3, <3>2
      <3> QED
        BY <3>1, <3>2
    <2> QED
      BY <1>1, <2>2, <2>3
  <1> QED
    BY <1>1, <1>2, <1>3 DEF MaskInv

LEMMA MaskNext == SafeInv /\ MaskInv /\ [Next]_vars => MaskInv'
  <1> SUFFICES ASSUME SafeInv, MaskInv, [Next]_vars PROVE MaskInv'
    OBVIOUS
  <1>1. ASSUME NEW w \in Writers, WriterStep(w) PROVE MaskInv'
    BY <1>1, MaskReadTarget, MaskFind, MaskWalk, MaskApply, MaskFinish
      DEF WriterStep, axd_set_affinity, axd_reset_affinity, axd_set_boost,
        axd_pin_kswapd
  <1>2. ASSUME NEW t \in Threads, Exit(t) \/ Unhash(t) \/ DelayedPut(t)
        PROVE  MaskInv'
    <2>1. UNCHANGED <<target, call, mask, line>>
      BY <1>2 DEF Exit, Unhash, DelayedPut, driver
    <2>2. CallsMeant'
      BY <2>1 DEF MaskInv, CallsMeant, AskedFor, Placed, Serves, Matches
    <2> QED
      BY <2>1, <2>2 DEF MaskInv
  <1>3. CASE Load \/ Unload \/ Hotplug \/ UNCHANGED vars
    <2>1. UNCHANGED <<call, mask, line>> /\ target' \in {target, 0}
      BY <1>3 DEF Load, Unload, Hotplug, vars, driver, kernel
    <2>2. CallsMeant'
      BY <2>1 DEF MaskInv, CallsMeant, AskedFor, Placed, Serves, Matches
    <2> QED
      BY <2>1, <2>2 DEF MaskInv
  <1> QED
    BY <1>1, <1>2, <1>3, MaskWrite, MaskCreate DEF Next

\* Every mask was asked for, for the thread itself or for one that it descends
\* from, by process and by name, however many writers and writes of the target
\* there are at a time and whoever forks.
THEOREM MasksAlwaysAccountedFor == Spec => []MasksAccountedFor
  <1>1. Spec => [](SafeInv /\ MaskInv)
    BY SafeInit, MaskInit, SafeNext, MaskNext, PTL DEF Spec
  <1>2. MaskInv => MasksAccountedFor
    BY DEF MaskInv, MasksAccountedFor, Asked
  <1> QED
    BY <1>1, <1>2, PTL

-----------------------------------------------------------------------------
(* What a successful call has done *)

\* A finite set has as many elements as an array has places, if the array
\* holds different ones or all of them.
LEMMA AtLeast ==
    ASSUME NEW T, IsFiniteSet(T), NEW n \in Nat, NEW f \in [1 .. n -> T],
           \A j, k \in 1 .. n : j # k => f[j] # f[k]
    PROVE  n <= Cardinality(T)
  <1>1. IsFiniteSet(1 .. n) /\ Cardinality(1 .. n) = n
    BY FS_Interval
  <1>2. Cardinality(T) \in Nat
    BY FS_CardinalityType
  <1>3. ASSUME Cardinality(T) < n
        PROVE  FALSE
    <2>1. \E x, y \in 1 .. n : x # y /\ f[x] = f[y]
      BY <1>1, <1>3, FS_PigeonHole
    <2> QED
      BY <2>1
  <1> QED
    BY <1>2, <1>3

LEMMA AtMost ==
    ASSUME NEW T, IsFiniteSet(T), NEW n \in Nat, NEW s,
           \A x \in T : \E k \in 1 .. n : s[k] = x
    PROVE  Cardinality(T) <= n
  <1> DEFINE f == [x \in T |-> CHOOSE k \in 1 .. n : s[k] = x]
  <1>1. IsFiniteSet(1 .. n) /\ Cardinality(1 .. n) = n
    BY FS_Interval
  <1>2. Cardinality(T) \in Nat
    BY FS_CardinalityType
  <1>3. f \in [T -> 1 .. n] /\ \A x \in T : s[f[x]] = x
    OBVIOUS
  <1> HIDE DEF f
  <1>4. ASSUME n < Cardinality(T)
        PROVE  FALSE
    <2>1. \E x, y \in T : x # y /\ f[x] = f[y]
      BY <1>1, <1>3, <1>4, FS_PigeonHole
    <2> QED
      BY <1>3, <2>1
  <1> QED
    BY <1>2, <1>4

\* One writer at a time.
LEMMA Alone == Undisturbed => \A v, w \in Writers : v = w
  BY FS_Singleton, DragoniteAssumption DEF Undisturbed

\* Without new threads the lists keep the order of the start times, of removed
\* threads too: a pointer skips only what has gone.
InOrder(l) ==
    /\ \A n \in Nodes : nxt[l][n] \in Threads =>
           nxt[l][n] \in Started /\ Place(n) < Place(nxt[l][n])
    /\ \A n \in Nodes, x \in Started \cap On(l) :
           Hashed(x) /\ Place(n) < Place(x) =>
               nxt[l][n] \in Threads /\ Place(nxt[l][n]) <= Place(x)

Ordered ==
    /\ \A t \in Threads : t \notin Started => state[t] = "unborn"
    /\ \A l \in Lists : InOrder(l)

\* The threads of the call's list that are still there.
Mine(c) == {x \in Started : x \in On(c.list) /\ Hashed(x)}

Has(c, x) ==
    IF c.kind = "boost" THEN nice[x] = c.nice
    ELSE \E j \in 1 .. Len(c.threads) : c.threads[j] = x

TooMany(c) ==
    /\ c.kind # "boost"
    /\ Cardinality({t \in On(c.list) : Matches(c, t)}) > Limit(c)

\* What is collected is in the order of the list.
Rising(c) ==
    /\ \A j \in 1 .. Len(c.threads) : c.threads[j] \in Started
    /\ \A j, k \in 1 .. Len(c.threads) :
           j < k => Place(c.threads[j]) < Place(c.threads[k])
    /\ c.kind = "boost" => c.threads = <<>>
    /\ c.kind # "boost" => c.mask # {}

\* The walk has seen to everything up to its cursor.
Walked(c) ==
    /\ \A j \in 1 .. Len(c.threads) : Place(c.threads[j]) <= Place(c.cursor)
    /\ \A x \in Mine(c) :
           Place(x) <= Place(c.cursor) /\ Matches(c, x) => Has(c, x)

Done(c) == TooMany(c) \/ \A x \in Mine(c) : Matches(c, x) => Has(c, x)

Applied(c) == \A j \in 1 .. c.i - 1 : mask[c.threads[j]] = c.mask

InEffect(c) ==
    \A x \in Mine(c) : Matches(c, x) =>
        IF c.kind = "boost" THEN nice[x] = c.nice
        ELSE TooMany(c) \/ mask[x] = c.mask

Progress(c) ==
    /\ c.pc \in {"walk", "apply"} => Rising(c)
    /\ c.pc = "walk" => Walked(c)
    /\ c.pc = "apply" => Done(c) /\ Applied(c)
    /\ c.pc = "idle" /\ c.ret = "ok" => InEffect(c)

EffectInv ==
    Undisturbed =>
        /\ online = CPUs /\ Ordered
        /\ \A w \in Writers : Progress(call[w])

LEMMA OrderedInit == Init => Ordered
  <1> SUFFICES ASSUME Init PROVE Ordered
    OBVIOUS
  <1>1. \A l \in Lists : nxt[l] = FirstNext(l)
    BY DEF Init
  <1>2. \A t \in Threads : t \notin Started => state[t] = "unborn"
    BY DEF Init
  <1>3. ASSUME NEW l \in Lists, NEW n \in Nodes
        PROVE  /\ nxt[l][n] \in Threads =>
                    nxt[l][n] \in Started /\ Place(n) < Place(nxt[l][n])
               /\ \A x \in Started \cap On(l) : Place(n) < Place(x) =>
                      nxt[l][n] \in Threads /\ Place(nxt[l][n]) <= Place(x)
    <2>1. Behind(l, n) \subseteq Started /\ Started \subseteq Threads
      BY DragoniteAssumption, NodeFacts DEF Behind
    <2>2. \A x \in Started \cap On(l) : Place(n) < Place(x) => x \in Behind(l, n)
      BY DEF Behind
    <2>3. \A x \in Behind(l, n) : Place(n) < Place(x)
      BY DEF Behind
    <2> QED
      BY <1>1, <2>1, <2>2, <2>3, FirstNextIs, NodeFacts
  <1> QED
    BY <1>2, <1>3 DEF Ordered, InOrder

LEMMA EffectInit == Init => EffectInv
  <1> SUFFICES ASSUME Init PROVE EffectInv
    OBVIOUS
  <1>1. \A w \in Writers : Progress(call[w])
    BY DEF Init, Progress, Idle
  <1> QED
    BY <1>1, OrderedInit DEF Init, EffectInv

\* Where the walk goes: no thread that is still there is left out.
LEMMA NextInOrder ==
    ASSUME SafeInv, Ordered, NEW w \in Writers, InRcu(w)
    PROVE  LET n == nxt[call[w].list][call[w].cursor]
           IN  /\ n # call[w].list =>
                    /\ n \in Started /\ n \in On(call[w].list)
                    /\ Place(call[w].cursor) < Place(n)
                    /\ \A x \in Mine(call[w]) :
                         Place(x) <= Place(n) =>
                             Place(x) <= Place(call[w].cursor) \/ x = n
               /\ n = call[w].list =>
                    \A x \in Mine(call[w]) : Place(x) <= Place(call[w].cursor)
               /\ Place(call[w].cursor) \in Nat
               /\ \A x \in Started : Place(x) \in Nat
  <1> DEFINE c == call[w].cursor
             l == call[w].list
             n == nxt[l][c]
  <1>1. c \in Nodes /\ l \in Lists
    BY DEF SafeInv, Typed, CallTyped, Calls
  <1>2. n # l => n \in Threads /\ n \in On(l)
    BY NextVisible
  <1>3. Place(c) \in Nat /\ \A x \in Started : Place(x) \in Nat /\ x \in Threads
    BY <1>1, NodeFacts, DragoniteAssumption
  <1>4. \A x \in Mine(call[w]) : x \in Started /\ x \in On(l) /\ Hashed(x)
    BY DEF Mine
  <1> HIDE DEF c, l
  <1>o. InOrder(l)
    BY <1>1 DEF Ordered
  <1>5. ASSUME NEW x \in Started, x \in On(l), Hashed(x), ~(Place(x) <= Place(c))
        PROVE  n \in Threads /\ Place(n) <= Place(x)
    BY <1>1, <1>3, <1>5, <1>o DEF InOrder
  <1>6. ASSUME n # l
        PROVE  n \in Started /\ n \in On(l) /\ Place(c) < Place(n)
    BY <1>1, <1>2, <1>6, <1>o DEF InOrder
  <1>7. ASSUME n # l, NEW x \in Mine(call[w]), Place(x) <= Place(n),
               ~(Place(x) <= Place(c))
        PROVE  x = n
    <2>1. x \in Started /\ n \in Started /\ Place(n) <= Place(x)
      BY <1>4, <1>5, <1>6, <1>7
    <2>2. Place(n) = Place(x)
      BY <1>3, <1>7, <2>1
    <2> QED
      BY <2>1, <2>2, <1>3, NodeFacts, DragoniteAssumption
  <1>8. ASSUME n = l, NEW x \in Mine(call[w])
        PROVE  Place(x) <= Place(c)
    <2>1. n \notin Threads
      BY <1>1, <1>8, NodeFacts
    <2> QED
      BY <1>4, <1>5, <2>1
  <1> QED
    BY <1>3, <1>6, <1>7, <1>8 DEF c, l

\* What is not touched.
LEMMA ProgressSame ==
    ASSUME NEW c, UNCHANGED <<state, mask, nice>>, Progress(c)
    PROVE  Progress(c)'
  BY DEF Progress, Rising, Walked, Done, Applied, InEffect, Mine, Has, TooMany,
    Hashed, Matches, Limit, Place

LEMMA EffectOfCall ==
    ASSUME SafeInv, EffectInv, Undisturbed, NEW w \in Writers, NEW new \in Calls,
           call' = [call EXCEPT ![w] = new], UNCHANGED <<online, state, nxt>>,
           Progress(new)'
    PROVE  EffectInv'
  <1>1. \A v \in Writers : call'[v] = new
    BY Alone DEF SafeInv, Typed, CallTyped
  <1>2. Ordered'
    BY DEF EffectInv, Ordered, InOrder, Hashed, Place, On
  <1>3. \A v \in Writers : Progress(call[v])'
    <2> SUFFICES ASSUME NEW v \in Writers PROVE Progress(call[v])'
      OBVIOUS
    <2>1. call'[v] = new
      BY <1>1
    <2>2. Rising(new)' => Rising(call[v])'
      BY <2>1 DEF Rising, Place
    <2>3. Mine(call[v])' = Mine(new)'
      BY <2>1 DEF Mine, Hashed
    <2>4. \A x : (Has(new, x)' <=> Has(call[v], x)')
      BY <2>1 DEF Has
    <2>5. \A x : (Matches(new, x)' <=> Matches(call[v], x)')
      BY <2>1 DEF Matches
    <2>6. TooMany(new)' <=> TooMany(call[v])'
      BY <2>1 DEF TooMany, Limit, Matches, On
    <2>7. Walked(new)' => Walked(call[v])'
      BY <2>1, <2>3, <2>4, <2>5 DEF Walked, Place
    <2>8. Done(new)' => Done(call[v])'
      BY <2>3, <2>4, <2>5, <2>6 DEF Done
    <2>9. Applied(new)' => Applied(call[v])'
      BY <2>1 DEF Applied
    <2>10. InEffect(new)' => InEffect(call[v])'
      BY <2>1, <2>3, <2>5, <2>6 DEF InEffect
    <2> QED
      BY <2>1, <2>2, <2>7, <2>8, <2>9, <2>10 DEF Progress
  <1> QED
    BY <1>2, <1>3 DEF EffectInv

\* Nothing has been promised before the walk or after a failure.
LEMMA NoProgress ==
    ASSUME NEW c, c.pc \in {"target", "find"} \/ (c.pc = "idle" /\ c.ret # "ok")
    PROVE  Progress(c)'
  BY DEF Progress

LEMMA EffectWrite ==
    ASSUME SafeInv, EffectInv, Undisturbed, NEW w \in Writers, Write(w)
    PROVE  EffectInv'
  <1>t. CallTyped
    BY DEF SafeInv, Typed
  <1>1. CASE nta_pid_write(w)
    <2>1. UNCHANGED <<call, online, state, nxt, mask, nice>>
      BY <1>1 DEF nta_pid_write, kernel
    <2>2. call[w] \in Calls /\ call' = [call EXCEPT ![w] = call[w]]
      BY <1>t, <2>1 DEF CallTyped
    <2>3. PICK c \in Calls : c = call[w]
      BY <2>2
    <2>4. Progress(c)
      BY <2>3 DEF EffectInv
    <2>5. Progress(c)'
      BY <2>1, <2>4, ProgressSame
    <2> QED
      BY <2>1, <2>2, <2>3, <2>5, EffectOfCall
  <1>2. ASSUME NEW kind \in Kinds, Enter(w, kind)
        PROVE  EffectInv'
    <2>1. PICK new \in Calls :
            /\ call' = [call EXCEPT ![w] = new] /\ new.pc \in {"find", "target"}
      BY <1>2, <1>t, EnterCall
    <2>2. UNCHANGED <<online, state, nxt>>
      BY <1>2 DEF Enter, driver, kernel
    <2>3. Progress(new)'
      BY <2>1, NoProgress
    <2> QED
      BY <2>1, <2>2, <2>3, EffectOfCall
  <1>3. CASE \/ nta_affinity_write(w) \/ nta_reset_write(w)
             \/ dragonite_boost_write(w) \/ dragonite_kswapd_write(w)
    BY <1>2, <1>3 DEF nta_affinity_write, nta_reset_write,
      dragonite_boost_write, dragonite_kswapd_write, Kinds
  <1> QED
    BY <1>1, <1>3 DEF Write

LEMMA EffectReadTarget ==
    ASSUME SafeInv, EffectInv, Undisturbed, NEW w \in Writers, ReadTarget(w)
    PROVE  EffectInv'
  <1>t. Typed /\ call[w] \in Calls
    BY DEF SafeInv, Typed, CallTyped
  <1>1. PICK new \in Calls :
          /\ call' = [call EXCEPT ![w] = new]
          /\ new = [call[w] EXCEPT !.pid = target, !.pc = "find"]
    BY <1>t, ReadTargetCall
  <1>2. new.pc = "find"
    BY <1>1, <1>t DEF Calls
  <1>3. UNCHANGED <<online, state, nxt>>
    BY DEF ReadTarget, kernel
  <1>4. Progress(new)'
    BY <1>2, NoProgress
  <1> QED
    BY <1>1, <1>3, <1>4, EffectOfCall

\* A walk begins at the head of the list, with a mask that has a CPU online.
LEMMA EffectFind ==
    ASSUME SafeInv, MaskInv, EffectInv, Undisturbed, NEW w \in Writers, Find(w)
    PROVE  EffectInv'
  <1> DEFINE c == call[w]
  <1>t. /\ Typed /\ c \in Calls /\ Bounded(c) /\ AskedFor(c)
    BY DEF SafeInv, Typed, CallTyped, MaskInv, CallsMeant
  <1>u. UNCHANGED <<online, state, nxt>>
    BY DEF Find
  <1>0. PICK new \in Calls :
          /\ call[w].pc = "find"
          /\ call' = [call EXCEPT ![w] = new] /\ Bounded(new)
          /\ \/ /\ \E ret \in {"EINVAL", "ENOMEM", "ESRCH"} :
                       new = [call[w] EXCEPT !.pc = "idle", !.ret = ret]
                /\ refs' = refs
             \/ /\ ~Invalid(call[w]) /\ call[w].kind # "pin"
                /\ \E t \in Found(call[w].pid) :
                     /\ new = [call[w] EXCEPT !.pc = "walk", !.task = t,
                                              !.list = GroupOf[t],
                                              !.cursor = GroupOf[t]]
                     /\ refs' = IF KeepsTask(call[w].kind)
                                THEN [refs EXCEPT ![t] = @ \cup {<<w, 0>>}]
                                ELSE refs
             \/ /\ ~Invalid(call[w]) /\ call[w].kind = "pin"
                /\ new = [call[w] EXCEPT !.pc = "walk"]
                /\ refs' = refs
    BY <1>t, FindCall
  <1>b. c.threads = <<>> /\ c.cursor = Procs
    BY <1>0, <1>t DEF Bounded
  <1>1. ASSUME NEW ret \in {"EINVAL", "ENOMEM", "ESRCH"},
               new = [c EXCEPT !.pc = "idle", !.ret = ret]
        PROVE  Progress(new)'
    <2>1. new.pc = "idle" /\ new.ret = ret
      BY <1>1, <1>t DEF Calls
    <2> QED
      BY <2>1, NoProgress
  <1>2. ASSUME ~Invalid(c), new.pc = "walk", new.threads = <<>>,
               new.cursor \in Lists, new.kind = c.kind, new.mask = c.mask
        PROVE  Progress(new)'
    <2>1. c.kind # "boost" => c.mask # {}
      <3>1. CASE c.kind \in {"set", "pin"}
        BY <1>2, <3>1 DEF Invalid
      <3>2. CASE c.kind = "reset"
        <4>1. c.mask = CPUs
          BY <1>0, <1>t, <3>2 DEF AskedFor, Serves
        <4> QED
          BY <4>1, DragoniteAssumption
      <3> QED
        BY <1>t, <3>1, <3>2 DEF Calls, Kinds
    <2>2. 1 .. Len(new.threads) = {}
      BY <1>2
    <2>3. Rising(new)'
      BY <1>2, <2>1, <2>2 DEF Rising
    <2>4. ASSUME NEW x \in Started
          PROVE  ~(Place(x) <= Place(new.cursor))
      <3>1. Place(new.cursor) = 0 /\ Place(x) \in Nat /\ Place(x) > 0
        BY <1>2, NodeFacts, DragoniteAssumption
      <3> QED
        BY <3>1
    <2>5. Walked(new)'
      BY <2>2, <2>4 DEF Walked, Mine, Place
    <2> QED
      BY <1>2, <2>3, <2>5 DEF Progress
  <1>3. ASSUME NEW t \in Found(c.pid), ~Invalid(c),
               new = [c EXCEPT !.pc = "walk", !.task = t, !.list = GroupOf[t],
                               !.cursor = GroupOf[t]]
        PROVE  Progress(new)'
    <2>1. /\ new.pc = "walk" /\ new.threads = <<>> /\ new.cursor = GroupOf[t]
          /\ new.kind = c.kind /\ new.mask = c.mask
      BY <1>3, <1>b, <1>t DEF Calls
    <2>2. GroupOf[t] \in Lists
      BY NodeFacts DEF Found
    <2> QED
      BY <1>2, <1>3, <2>1, <2>2
  <1>4. ASSUME ~Invalid(c), new = [c EXCEPT !.pc = "walk"]
        PROVE  Progress(new)'
    <2>1. /\ new.pc = "walk" /\ new.threads = <<>> /\ new.cursor = Procs
          /\ new.kind = c.kind /\ new.mask = c.mask
      BY <1>4, <1>b, <1>t DEF Calls
    <2> QED
      BY <1>2, <1>4, <2>1, NodeFacts
  <1>5. Progress(new)'
    BY <1>0, <1>1, <1>3, <1>4
  <1> QED
    BY <1>0, <1>5, <1>u, EffectOfCall

\* A set that holds what was collected and a thread further on.
LEMMA RisingCount ==
    ASSUME NEW c \in Calls, Rising(c), NEW T, IsFiniteSet(T),
           NEW n \in Started, n \in T,
           \A j \in 1 .. Len(c.threads) : c.threads[j] \in T,
           \A j \in 1 .. Len(c.threads) : Place(c.threads[j]) < Place(n)
    PROVE  Len(c.threads) + 1 <= Cardinality(T)
  <1> DEFINE l == Len(c.threads)
             f == [j \in 1 .. l + 1 |-> IF j = l + 1 THEN n ELSE c.threads[j]]
  <1>1. c.threads \in Seq(Threads) /\ l \in Nat
    BY DEF Calls
  <1>2. \A j \in 1 .. l : c.threads[j] \in Threads /\ j # l + 1
    BY <1>1
  <1>3. f \in [1 .. l + 1 -> T]
    BY <1>1, <1>2
  <1>4. ASSUME NEW j \in 1 .. l + 1, NEW k \in 1 .. l + 1, j < k
        PROVE  f[j] # f[k]
    <2>1. j \in 1 .. l /\ f[j] = c.threads[j] /\ Place(c.threads[j]) \in Nat
      BY <1>1, <1>2, <1>4, NodeFacts
    <2>2. f[k] = n \/ (k \in 1 .. l /\ f[k] = c.threads[k])
      BY <1>1
    <2>3. Place(f[j]) < Place(f[k])
      BY <1>4, <2>1, <2>2 DEF Rising
    <2> QED
      BY <2>1, <2>3
  <1>5. PICK m \in Nat : m = l + 1
    BY <1>1
  <1> HIDE DEF f, l
  <1>6. ASSUME NEW j \in 1 .. m, NEW k \in 1 .. m, j # k
        PROVE  f[j] # f[k]
    <2>1. j < k \/ k < j
      BY <1>6
    <2> QED
      BY <1>4, <1>5, <2>1
  <1>7. f \in [1 .. m -> T]
    BY <1>3, <1>5
  <1>8. m <= Cardinality(T)
    BY <1>6, <1>7, AtLeast
  <1> QED
    BY <1>5, <1>8 DEF l

\* A full array: more threads match than it has places.
LEMMA FullMeansTooMany ==
    ASSUME NEW c \in Calls, NEW n \in Started, c.kind # "boost",
           Full(c), Rising(c), n \in On(c.list), Matches(c, n),
           \A j \in 1 .. Len(c.threads) :
               c.threads[j] \in On(c.list) /\ Matches(c, c.threads[j]),
           \A j \in 1 .. Len(c.threads) : Place(c.threads[j]) < Place(n)
    PROVE  TooMany(c)
  <1> DEFINE T == {t \in On(c.list) : Matches(c, t)}
  <1>1. IsFiniteSet(T)
    <2>1. c.list \in Lists
      BY DEF Calls
    <2>2. T \subseteq Threads
      BY <2>1, NodeFacts
    <2> QED
      BY <2>2, FS_Subset, DragoniteAssumption
  <1>2. n \in T /\ \A j \in 1 .. Len(c.threads) : c.threads[j] \in T
    OBVIOUS
  <1> HIDE DEF T
  <1>3. Len(c.threads) + 1 <= Cardinality(T)
    BY <1>1, <1>2, RisingCount
  <1>4. Cardinality(T) \in Nat /\ Len(c.threads) \in Nat
    BY <1>1, FS_CardinalityType DEF Calls
  <1>5. Limit(c) \in Nat /\ Len(c.threads) >= Limit(c)
    BY DragoniteAssumption DEF Full, Limit
  <1>6. Cardinality(T) > Limit(c)
    BY <1>3, <1>4, <1>5
  <1> QED
    BY <1>6 DEF TooMany, T

\* A call with the same arguments.
LEMMA SameArguments ==
    ASSUME NEW c \in Calls, NEW new \in Calls, new.kind = c.kind,
           new.comm = c.comm, new.list = c.list, new.mask = c.mask,
           new.nice = c.nice
    PROVE  /\ Mine(new) = Mine(c)
           /\ \A x : Matches(new, x) <=> Matches(c, x)
           /\ TooMany(new) <=> TooMany(c)
           /\ new.threads = c.threads =>
                /\ Rising(new) <=> Rising(c)
                /\ \A x : Has(new, x) <=> Has(c, x)
  <1>1. Mine(new) = Mine(c)
    BY DEF Mine
  <1>2. \A x : Matches(new, x) <=> Matches(c, x)
    BY DEF Matches
  <1>3. TooMany(new) <=> TooMany(c)
    BY <1>2 DEF TooMany, Limit
  <1>4. ASSUME new.threads = c.threads
        PROVE  /\ Rising(new) <=> Rising(c)
               /\ \A x : Has(new, x) <=> Has(c, x)
    BY <1>4 DEF Rising, Has
  <1> QED
    BY <1>1, <1>2, <1>3, <1>4

LEMMA EffectWalk ==
    ASSUME SafeInv, MaskInv, EffectInv, Undisturbed, NEW w \in Writers, Walk(w)
    PROVE  EffectInv'
  <1> DEFINE c == call[w]
             n == nxt[c.list][c.cursor]
  <1>t. /\ CallTyped /\ c \in Calls /\ c.threads \in Seq(Threads)
        /\ Bounded(c) /\ Placed(c) /\ c.pc = "walk" /\ InRcu(w)
        /\ nice \in [Threads -> Int]
    BY DEF SafeInv, Typed, CallTyped, KernelTyped, MaskInv, CallsMeant, Walk,
      InRcu, Calls
  <1>u. UNCHANGED <<online, state, nxt, mask>>
    BY DEF Walk
  <1>p. Rising(c) /\ Walked(c)
    BY <1>t DEF EffectInv, Progress
  <1>n. /\ n # c.list =>
             /\ n \in Started /\ n \in On(c.list)
             /\ Place(c.cursor) < Place(n)
             /\ \A x \in Mine(c) : Place(x) <= Place(n) =>
                    Place(x) <= Place(c.cursor) \/ x = n
        /\ n = c.list => \A x \in Mine(c) : Place(x) <= Place(c.cursor)
        /\ Place(c.cursor) \in Nat
        /\ \A x \in Started : Place(x) \in Nat
    BY <1>t, NextInOrder DEF EffectInv
  <1>b. \A j \in 1 .. Len(c.threads) :
            /\ Place(c.threads[j]) \in Nat /\ Place(c.threads[j]) <= Place(c.cursor)
            /\ c.threads[j] \in On(c.list) /\ Matches(c, c.threads[j])
    BY <1>n, <1>p, <1>t DEF Rising, Walked, Placed
  <1>1. CASE /\ \/ n = c.list
                \/ Full(c) /\ c.kind # "boost" /\ Matches(c, n)
             /\ LeaveRcu(w)
    <2>1. PICK new \in Calls :
            /\ call' = [call EXCEPT ![w] = new]
            /\ new = [call[w] EXCEPT !.pc = "apply"]
      BY <1>1, <1>t, LeaveCall
    <2>2. /\ new.pc = "apply" /\ new.kind = c.kind /\ new.mask = c.mask
          /\ new.comm = c.comm /\ new.nice = c.nice /\ new.list = c.list
          /\ new.threads = c.threads /\ new.i = 1
      BY <1>t, <2>1 DEF Calls, Bounded
    <2> HIDE DEF c
    <2>3. Rising(new)
      BY <1>p, <1>t, <2>2, SameArguments
    <2>4. Done(c)
      <3>1. CASE n = c.list
        BY <1>n, <1>p, <3>1 DEF Walked, Done
      <3>2. CASE n # c.list
        <4>1. n \in Started /\ n \in On(c.list) /\ Place(n) \in Nat
              /\ Place(c.cursor) < Place(n)
          BY <1>n, <3>2
        <4>2. \A j \in 1 .. Len(c.threads) : Place(c.threads[j]) < Place(n)
          BY <1>b, <1>n, <4>1
        <4>3. TooMany(c)
          BY <1>1, <1>b, <1>p, <1>t, <3>2, <4>1, <4>2, FullMeansTooMany
        <4> QED
          BY <4>3 DEF Done
      <3> QED
        BY <3>1, <3>2
    <2>5. Done(new)
      BY <1>t, <2>2, <2>4, SameArguments DEF Done
    <2>6. Applied(new)
      BY <2>2 DEF Applied
    <2>7. Progress(new)
      BY <2>2, <2>3, <2>5, <2>6 DEF Progress
    <2>8. UNCHANGED nice
      BY <1>1 DEF LeaveRcu
    <2>9. Progress(new)'
      BY <1>u, <2>7, <2>8, ProgressSame
    <2> QED
      BY <1>u, <2>1, <2>9, EffectOfCall
  <1>2. CASE /\ n # c.list /\ ~Matches(c, n) /\ UNCHANGED nice
             /\ call' = [call EXCEPT ![w].cursor = n]
    <2>0. n \in Threads
      BY <1>2, <1>n, DragoniteAssumption
    <2> HIDE DEF n
    <2>1. PICK new \in Calls :
            /\ call' = [call EXCEPT ![w] = new]
            /\ new = [call[w] EXCEPT !.cursor = n]
      BY <1>2, <1>t, <2>0, PassCall
    <2>2. /\ new.pc = "walk" /\ new.kind = c.kind /\ new.mask = c.mask
          /\ new.comm = c.comm /\ new.nice = c.nice /\ new.list = c.list
          /\ new.threads = c.threads /\ new.cursor = n
      BY <1>t, <2>1 DEF Calls
    <2> HIDE DEF c
    <2>3. Rising(new)
      BY <1>p, <1>t, <2>2, SameArguments
    <2>4. \A j \in 1 .. Len(new.threads) : Place(new.threads[j]) <= Place(new.cursor)
      <3>1. Place(n) \in Nat
        BY <1>n, <1>2
      <3> QED
        BY <1>b, <1>n, <1>2, <2>2, <3>1
    <2>5. ASSUME NEW x \in Mine(new), Place(x) <= Place(new.cursor),
                 Matches(new, x)
          PROVE  Has(new, x)
      <3>1. x \in Mine(c) /\ Matches(c, x)
        BY <1>t, <2>2, <2>5, SameArguments
      <3>2. Place(x) <= Place(c.cursor)
        BY <1>2, <1>n, <2>2, <2>5, <3>1
      <3>3. Has(c, x)
        BY <1>p, <3>1, <3>2 DEF Walked
      <3> QED
        BY <1>t, <2>2, <3>3, SameArguments
    <2>6. Progress(new)
      BY <2>2, <2>3, <2>4, <2>5 DEF Progress, Walked
    <2>7. Progress(new)'
      BY <1>2, <1>u, <2>6, ProgressSame
    <2> QED
      BY <1>u, <2>1, <2>7, EffectOfCall
  <1>3. CASE /\ n # c.list /\ c.kind = "boost"
             /\ call' = [call EXCEPT ![w].cursor = n]
             /\ nice' = [nice EXCEPT ![n] = c.nice]
    <2>0. n \in Threads
      BY <1>3, <1>n, DragoniteAssumption
    <2> HIDE DEF n
    <2>1. PICK new \in Calls :
            /\ call' = [call EXCEPT ![w] = new]
            /\ new = [call[w] EXCEPT !.cursor = n]
      BY <1>3, <1>t, <2>0, PassCall
    <2>2. /\ new.pc = "walk" /\ new.kind = c.kind /\ new.mask = c.mask
          /\ new.comm = c.comm /\ new.nice = c.nice /\ new.list = c.list
          /\ new.threads = c.threads /\ new.cursor = n
      BY <1>t, <2>1 DEF Calls
    <2> HIDE DEF c
    <2>3. Rising(new)
      BY <1>p, <1>t, <2>2, SameArguments
    <2>4. new.threads = <<>>
      BY <1>3, <2>2, <2>3 DEF Rising
    <2>5. ASSUME NEW x \in Mine(c), Place(x) <= Place(n)
          PROVE  nice'[x] = c.nice
      <3>1. x \in Threads
        BY DragoniteAssumption DEF Mine
      <3>2. CASE x = n
        BY <1>3, <1>t, <3>1, <3>2
      <3>3. CASE x # n
        <4>1. Place(x) <= Place(c.cursor)
          BY <1>3, <1>n, <2>5, <3>3
        <4>2. Matches(c, x)
          BY <1>3 DEF Matches
        <4>3. nice[x] = c.nice
          BY <1>3, <1>p, <2>5, <4>1, <4>2 DEF Walked, Has
        <4> QED
          BY <1>3, <1>t, <3>1, <3>3, <4>3
      <3> QED
        BY <3>2, <3>3
    <2>6. Mine(new)' = Mine(c)
      BY <1>u, <2>2 DEF Mine, Hashed
    <2>7. \A x \in Mine(new)' : Place(x) <= Place(new.cursor) => nice'[x] = new.nice
      BY <2>2, <2>5, <2>6
    <2>8. 1 .. Len(new.threads) = {}
      BY <2>4
    <2>9. Walked(new)'
      BY <1>3, <2>2, <2>7, <2>8 DEF Walked, Has, Place
    <2>10. Rising(new)'
      BY <2>3 DEF Rising, Place
    <2>11. Progress(new)'
      BY <2>2, <2>9, <2>10 DEF Progress
    <2> QED
      BY <1>u, <2>1, <2>11, EffectOfCall
  <1>4. CASE /\ n # c.list /\ c.kind # "boost" /\ Matches(c, n) /\ ~Full(c)
             /\ call' = [call EXCEPT ![w].cursor = n,
                                     ![w].threads = Append(@, n)]
             /\ UNCHANGED nice
    <2>0. n \in Threads /\ n \in Started /\ Place(n) \in Nat
      BY <1>4, <1>n, DragoniteAssumption
    <2> HIDE DEF n
    <2>1. PICK new \in Calls :
            /\ call' = [call EXCEPT ![w] = new]
            /\ new = [call[w] EXCEPT !.cursor = n, !.threads = Append(@, n)]
      BY <1>4, <1>t, <2>0, CollectCall
    <2>2. /\ new.pc = "walk" /\ new.kind = c.kind /\ new.mask = c.mask
          /\ new.comm = c.comm /\ new.nice = c.nice /\ new.list = c.list
          /\ new.threads = Append(c.threads, n) /\ new.cursor = n
      BY <1>t, <2>1 DEF Calls
    <2> HIDE DEF c
    <2> DEFINE l == Len(c.threads)
    <2>3. /\ l \in Nat /\ Len(new.threads) = l + 1 /\ new.threads[l + 1] = n
          /\ \A j \in 1 .. l : new.threads[j] = c.threads[j]
      BY <1>t, <2>0, <2>2
    <2> HIDE DEF l
    <2>4. \A j \in 1 .. l + 1 : j \in 1 .. l \/ j = l + 1
      BY <2>3
    <2>5. \A j \in 1 .. l : Place(c.threads[j]) < Place(n)
      BY <1>4, <1>b, <1>n, <2>0 DEF l
    <2>6. Rising(new)
      <3>1. \A j \in 1 .. l + 1 : new.threads[j] \in Started
        BY <1>p, <2>0, <2>3, <2>4 DEF Rising, l
      <3>2. ASSUME NEW j \in 1 .. l + 1, NEW k \in 1 .. l + 1, j < k
            PROVE  Place(new.threads[j]) < Place(new.threads[k])
        <4>1. j \in 1 .. l
          BY <2>3, <3>2
        <4>2. CASE k = l + 1
          BY <2>3, <2>5, <4>1, <4>2
        <4>3. CASE k \in 1 .. l
          BY <1>p, <2>3, <3>2, <4>1, <4>3 DEF Rising, l
        <4> QED
          BY <2>4, <4>2, <4>3
      <3> QED
        BY <1>4, <1>p, <2>2, <2>3, <3>1, <3>2 DEF Rising
    <2>7. \A j \in 1 .. l + 1 : Place(new.threads[j]) <= Place(n)
      <3>1. \A j \in 1 .. l : Place(c.threads[j]) \in Nat
        BY <1>b DEF l
      <3> QED
        BY <2>0, <2>3, <2>4, <2>5, <3>1
    <2>8. ASSUME NEW x \in Mine(new), Place(x) <= Place(n), Matches(new, x)
          PROVE  Has(new, x)
      <3>1. x \in Mine(c) /\ Matches(c, x)
        BY <1>t, <2>2, <2>8, SameArguments
      <3>2. CASE x = n
        <4>1. l + 1 \in 1 .. Len(new.threads)
          BY <2>3
        <4> QED
          BY <1>4, <2>2, <2>3, <3>2, <4>1 DEF Has
      <3>3. CASE x # n
        <4>1. Place(x) <= Place(c.cursor)
          BY <1>4, <1>n, <2>8, <3>1, <3>3
        <4>2. Has(c, x)
          BY <1>p, <3>1, <4>1 DEF Walked
        <4>3. PICK j \in 1 .. l : c.threads[j] = x
          BY <1>4, <4>2 DEF Has, l
        <4>4. j \in 1 .. Len(new.threads) /\ new.threads[j] = x
          BY <2>3, <4>3
        <4> QED
          BY <1>4, <2>2, <4>4 DEF Has
      <3> QED
        BY <3>2, <3>3
    <2>9. Progress(new)
      BY <2>2, <2>3, <2>6, <2>7, <2>8 DEF Progress, Walked
    <2>10. Progress(new)'
      BY <1>4, <1>u, <2>9, ProgressSame
    <2> QED
      BY <1>u, <2>1, <2>10, EffectOfCall
  <1>5. CASE n # c.list /\ Visit(w, n)
    BY <1>1, <1>2, <1>3, <1>4, <1>5 DEF Visit
  <1> QED
    BY <1>1, <1>5 DEF Walk

LEMMA EffectApply ==
    ASSUME SafeInv, EffectInv, Undisturbed, NEW w \in Writers, Apply(w),
           call[w].kind # "boost"
    PROVE  EffectInv'
  <1> DEFINE c == call[w]
             t == c.threads[c.i]
  <1>t. /\ CallTyped /\ c \in Calls /\ c.i \in Nat \ {0}
        /\ c.mask \subseteq CPUs /\ c.threads \in Seq(Threads)
        /\ mask \in [Threads -> SUBSET CPUs] /\ online = CPUs
    BY DEF SafeInv, Typed, CallTyped, KernelTyped, Calls, EffectInv
  <1>1. PICK new \in Calls, m \in {c.matched, c.matched + 1} :
          /\ call' = [call EXCEPT ![w] = new]
          /\ new = [c EXCEPT !.i = @ + 1, !.matched = m]
          /\ c.pc = "apply" /\ c.i \in 1 .. Len(c.threads) /\ t \in Threads
    BY <1>t, ApplyCall
  <1>2. /\ new.pc = "apply" /\ new.kind = c.kind /\ new.mask = c.mask
        /\ new.comm = c.comm /\ new.nice = c.nice /\ new.list = c.list
        /\ new.threads = c.threads /\ new.i = c.i + 1
    BY <1>1, <1>t DEF Calls
  <1>u. UNCHANGED <<online, state, nxt, nice>>
    BY DEF Apply
  <1>p. Rising(c) /\ Done(c) /\ Applied(c)
    BY <1>1 DEF EffectInv, Progress
  <1>3. mask' = [mask EXCEPT ![t] = c.mask]
    <2>1. c.mask # {}
      BY <1>p DEF Rising
    <2>2. c.mask \cap online # {}
      BY <1>t, <2>1
    <2> QED
      BY <2>2 DEF Apply
  <1> HIDE DEF c
  <1>4. Applied(new)'
    <2> SUFFICES ASSUME NEW j \in 1 .. new.i - 1
                 PROVE  mask'[new.threads[j]] = new.mask
      BY DEF Applied
    <2>1. j \in 1 .. c.i /\ j \in 1 .. Len(c.threads)
      BY <1>1, <1>2, <1>t
    <2>2. c.threads[j] \in Threads
      BY <1>t, <2>1
    <2>3. CASE c.threads[j] = t
      BY <1>2, <1>3, <1>t, <2>2, <2>3
    <2>4. CASE c.threads[j] # t
      <3>1. j \in 1 .. c.i - 1
        BY <1>t, <2>1, <2>4
      <3>2. mask[c.threads[j]] = c.mask
        BY <1>p, <3>1 DEF Applied
      <3> QED
        BY <1>2, <1>3, <1>t, <2>2, <2>4, <3>2
    <2> QED
      BY <2>3, <2>4
  <1>5. Rising(new) /\ Done(new)
    BY <1>2, <1>p, <1>t, SameArguments DEF Done
  <1>6. Rising(new)'
    BY <1>5 DEF Rising, Place
  <1>7. Done(new)'
    BY <1>5, <1>u DEF Done, TooMany, Limit, Mine, Hashed, Matches, Has
  <1>8. Progress(new)'
    BY <1>2, <1>4, <1>6, <1>7 DEF Progress
  <1> QED
    BY <1>1, <1>8, <1>u, EffectOfCall

LEMMA EffectFinish ==
    ASSUME SafeInv, EffectInv, Undisturbed, NEW w \in Writers, Finish(w)
    PROVE  EffectInv'
  <1> DEFINE c == call[w]
  <1>t. CallTyped /\ c \in Calls /\ c.threads \in Seq(Threads)
    BY DEF SafeInv, Typed, CallTyped, Calls
  <1>1. PICK new \in Calls :
          /\ call' = [call EXCEPT ![w] = new]
          /\ new = [call[w] EXCEPT !.pc = "idle", !.ret = Outcome(call[w])]
          /\ call[w].pc = "apply" /\ call[w].i = Len(call[w].threads) + 1
    BY <1>t, FinishCall
  <1>2. /\ new.pc = "idle" /\ new.kind = c.kind /\ new.mask = c.mask
        /\ new.comm = c.comm /\ new.nice = c.nice /\ new.list = c.list
        /\ new.threads = c.threads
    BY <1>1, <1>t DEF Calls
  <1>u. UNCHANGED <<online, state, nxt, mask, nice>>
    BY DEF Finish
  <1>p. Done(c) /\ Applied(c)
    BY <1>1 DEF EffectInv, Progress
  <1>i. c.i = Len(c.threads) + 1
    BY <1>1
  <1> HIDE DEF c
  <1>3. \A j \in 1 .. Len(c.threads) : mask[c.threads[j]] = c.mask
    <2>1. 1 .. c.i - 1 = 1 .. Len(c.threads)
      BY <1>i, <1>t
    <2> QED
      BY <1>p, <2>1 DEF Applied
  <1>4. InEffect(c)
    BY <1>3, <1>p DEF InEffect, Done, Has, TooMany
  <1>5. InEffect(new)
    BY <1>2, <1>4, <1>t, SameArguments DEF InEffect
  <1>6. Progress(new)
    BY <1>2, <1>5 DEF Progress
  <1>7. Progress(new)'
    BY <1>6, <1>u, ProgressSame
  <1> QED
    BY <1>1, <1>7, <1>u, EffectOfCall

\* A thread that leaves its list leaves the order of the others alone.
LEMMA EffectThreads ==
    ASSUME SafeInv, EffectInv, Undisturbed, NEW t \in Threads,
           Exit(t) \/ Unhash(t) \/ DelayedPut(t)
    PROVE  EffectInv'
  <1>t. /\ state \in [Threads -> States] /\ nxt \in [Lists -> [Nodes -> Nodes]]
        /\ t \in Nodes
    BY NodeFacts DEF SafeInv, Typed, KernelTyped
  <1>o. Ordered /\ online = CPUs
    BY DEF EffectInv
  <1>1. UNCHANGED <<call, online, mask, nice>>
    BY DEF Exit, Unhash, DelayedPut
  <1>2. /\ state[t] # "unborn"
        /\ \A u \in Threads : u # t => state'[u] = state[u]
        /\ \A u \in Threads : Hashed(u)' => Hashed(u)
    BY <1>t DEF Exit, Unhash, DelayedPut, Hashed
  <1>3. Ordered'
    <2>1. \A u \in Threads : u \notin Started => state'[u] = "unborn"
      BY <1>2, <1>o DEF Ordered
    <2>2. CASE nxt' = nxt
      <3>1. ASSUME NEW l \in Lists PROVE InOrder(l)'
        <4>1. InOrder(l)
          BY <1>o DEF Ordered
        <4>2. \A x \in Started \cap On(l) : Hashed(x)' => Hashed(x)
          BY <1>2, DragoniteAssumption
        <4> QED
          BY <2>2, <4>1, <4>2 DEF InOrder, Place, On
      <3> QED
        BY <2>1, <3>1 DEF Ordered
    <2>3. CASE Unhash(t)
      <3>1. /\ \A l \in Lists, n \in Nodes :
                  \/ nxt'[l][n] = nxt[l][n]
                  \/ nxt[l][n] = t /\ nxt'[l][n] = nxt[l][t]
            /\ ~Hashed(t)'
        BY <1>t, <2>3 DEF Unhash, Hashed
      <3>2. t \in Started
        BY <1>2, <1>o DEF Ordered
      <3>3. \A n \in Nodes : Place(n) \in Nat
        BY NodeFacts
      <3>4. ASSUME NEW l \in Lists PROVE InOrder(l)'
        <4>o. InOrder(l) /\ \A n \in Nodes : nxt[l][n] \in Nodes
          BY <1>o, <1>t DEF Ordered
        <4>1. ASSUME NEW n \in Nodes, nxt'[l][n] \in Threads
              PROVE  nxt'[l][n] \in Started /\ Place(n) < Place(nxt'[l][n])
          <5>1. CASE nxt'[l][n] = nxt[l][n]
            BY <4>o, <4>1, <5>1 DEF InOrder
          <5>2. CASE nxt[l][n] = t /\ nxt'[l][n] = nxt[l][t]
            <6>1. /\ nxt'[l][n] \in Started /\ Place(t) < Place(nxt'[l][n])
                  /\ Place(n) < Place(t) /\ nxt'[l][n] \in Nodes
              BY <1>t, <4>o, <4>1, <5>2 DEF InOrder
            <6> QED
              BY <1>t, <3>3, <6>1
          <5> QED
            BY <3>1, <5>1, <5>2
        <4>2. ASSUME NEW n \in Nodes, NEW x \in Started \cap On(l), Hashed(x)',
                     Place(n) < Place(x)
              PROVE  nxt'[l][n] \in Threads /\ Place(nxt'[l][n]) <= Place(x)
          <5>1. x \in Threads /\ x \in Nodes /\ Hashed(x) /\ x # t
            BY <1>2, <3>1, <4>2, NodeFacts, DragoniteAssumption
          <5>2. nxt[l][n] \in Threads /\ Place(nxt[l][n]) <= Place(x)
            BY <4>o, <4>2, <5>1 DEF InOrder
          <5>3. CASE nxt'[l][n] = nxt[l][n]
            BY <5>2, <5>3
          <5>4. CASE nxt[l][n] = t /\ nxt'[l][n] = nxt[l][t]
            <6>1. Place(t) # Place(x)
              BY <3>2, <5>1, NodeFacts, DragoniteAssumption
            <6>2. Place(t) < Place(x)
              BY <1>t, <3>3, <5>1, <5>2, <5>4, <6>1
            <6> QED
              BY <1>t, <4>o, <5>1, <5>4, <6>2 DEF InOrder
          <5> QED
            BY <3>1, <5>3, <5>4
        <4> QED
          BY <4>1, <4>2 DEF InOrder, Place, On
      <3> QED
        BY <2>1, <3>4 DEF Ordered
    <2> QED
      BY <2>2, <2>3 DEF Exit, DelayedPut
  <1>4. ASSUME NEW w \in Writers
        PROVE  Progress(call[w])'
    <2> DEFINE c == call[w]
    <2>1. Progress(c)
      BY DEF EffectInv
    <2>2. Mine(c)' \subseteq Mine(c)
      BY <1>1, <1>2, DragoniteAssumption DEF Mine
    <2>3. \A x : /\ Has(c, x)' <=> Has(c, x)
                 /\ Matches(c, x)' <=> Matches(c, x)
      BY <1>1 DEF Has, Matches
    <2>4. TooMany(c)' <=> TooMany(c)
      BY <1>1 DEF TooMany, Limit, Matches, On
    <2>5. Rising(c) => Rising(c)'
      BY <1>1 DEF Rising, Place
    <2>6. Walked(c) => Walked(c)'
      BY <1>1, <2>2, <2>3 DEF Walked, Place
    <2>7. Done(c) => Done(c)'
      BY <2>2, <2>3, <2>4 DEF Done
    <2>8. Applied(c) => Applied(c)'
      BY <1>1 DEF Applied
    <2>9. InEffect(c) => InEffect(c)'
      BY <1>1, <2>2, <2>3, <2>4 DEF InEffect
    <2> QED
      BY <1>1, <2>1, <2>5, <2>6, <2>7, <2>8, <2>9 DEF Progress
  <1> QED
    BY <1>1, <1>3, <1>4, <1>o DEF EffectInv

LEMMA EffectNext ==
    SafeInv /\ MaskInv /\ EffectInv /\ [Next]_vars => EffectInv'
  <1> SUFFICES ASSUME SafeInv, MaskInv, EffectInv, [Next]_vars, Undisturbed
               PROVE  EffectInv'
    BY DEF EffectInv, Undisturbed
  <1>1. ASSUME NEW w \in Writers, WriterStep(w) PROVE EffectInv'
    BY <1>1, EffectReadTarget, EffectFind, EffectWalk, EffectApply, EffectFinish
      DEF WriterStep, axd_set_affinity, axd_reset_affinity, axd_set_boost,
        axd_pin_kswapd
  <1>2. \A t \in Threads : ~Create(t)
    BY DEF Create, Undisturbed
  <1>3. CASE Load \/ Unload \/ Hotplug \/ UNCHANGED vars
    <2>1. UNCHANGED <<call, state, nxt, mask, nice, online>>
      BY <1>3 DEF Load, Unload, Hotplug, vars, driver, kernel, Undisturbed
    <2>2. Ordered'
      BY <2>1 DEF EffectInv, Ordered, InOrder, Hashed, Place, On
    <2>3. ASSUME NEW w \in Writers
          PROVE  Progress(call[w])'
      <3>1. PICK c : c = call[w]
        OBVIOUS
      <3>2. Progress(c)
        BY <3>1 DEF EffectInv
      <3>3. Progress(c)'
        BY <2>1, <3>2, ProgressSame
      <3> QED
        BY <2>1, <3>1, <3>3 DEF Progress, Rising, Walked, Done, Applied,
          InEffect, Mine, Has, TooMany, Hashed, Matches, Limit, Place
    <2> QED
      BY <2>1, <2>2, <2>3 DEF EffectInv
  <1> QED
    BY <1>1, <1>2, <1>3, EffectWrite, EffectThreads DEF Next

LEMMA EffectAlways == Spec => [](SafeInv /\ MaskInv /\ EffectInv)
  BY SafeInit, MaskInit, EffectInit, SafeNext, MaskNext, EffectNext, PTL DEF Spec

\* A write that has returned success has changed every thread it was for, for
\* any number of threads that exit under the walk.
THEOREM AlwaysTakesEffect == Spec => []TakesEffect
  <1>1. SafeInv /\ EffectInv => TakesEffect
    <2> SUFFICES ASSUME SafeInv, EffectInv, Undisturbed, NEW w \in Writers,
                        Completed(w), NEW t \in On(call[w].list),
                        state[t] = "live", Matches(call[w], t)
                 PROVE  IF call[w].kind = "boost" THEN nice[t] = call[w].nice
                        ELSE Cardinality({u \in On(call[w].list) : Matches(call[w], u)})
                               <= Limit(call[w]) => mask[t] = call[w].mask
      BY DEF TakesEffect, Limit
    <2> DEFINE c == call[w]
               T == {u \in On(c.list) : Matches(c, u)}
    <2>0. c.list \in Lists
      BY DEF SafeInv, Typed, CallTyped, Calls
    <2>1. InEffect(c)
      BY DEF EffectInv, Progress, Completed
    <2>2. t \in Mine(c)
      BY <2>0, NodeFacts DEF EffectInv, Ordered, Mine, Hashed
    <2>3. Cardinality(T) \in Nat
      <3>1. T \subseteq Threads
        BY <2>0, NodeFacts
      <3> QED
        BY <3>1, FS_Subset, FS_CardinalityType, DragoniteAssumption
    <2>4. Limit(c) \in Nat
      BY DragoniteAssumption DEF Limit
    <2>5. TooMany(c) => ~(Cardinality(T) <= Limit(c))
      <3> HIDE DEF T
      <3>1. TooMany(c) => Cardinality(T) > Limit(c)
        BY DEF TooMany, T
      <3> QED
        BY <2>3, <2>4, <3>1
    <2> QED
      BY <2>1, <2>2, <2>5 DEF InEffect
  <1> QED
    BY <1>1, EffectAlways, PTL

-----------------------------------------------------------------------------
(* A reset reaches whatever a set by the wildcard has reached *)

\* The threads of a list that are there or that the walk under way may meet.
Seen(l) == {x \in On(l) : Hashed(x) \/ grace[x] # {}}

UpTo(t) == {x \in Seen(GroupOf[t]) : Place(x) <= Place(t)}

ByWildcard(g) ==
    \A r \in Requests : r.kind = "set" /\ Addressed(r, g) => r.comm = AnyName

\* What was changed is among the first MaxThreads of its list, and stays there.
Ranked ==
    \A t \in Threads :
        /\ ByWildcard(GroupOf[t]) /\ t \in Seen(GroupOf[t]) /\ mask[t] # CPUs
        => Cardinality(UpTo(t)) <= MaxThreads

TakesAll(c) == c.kind = "reset" \/ (c.kind = "set" /\ c.comm = AnyName)

\* Nothing comes before a collected thread but what is collected before it.
Gapless(c) ==
    \A j \in 1 .. Len(c.threads) : \A x \in Mine(c) :
        Place(x) <= Place(c.threads[j]) => \E k \in 1 .. j : c.threads[k] = x

Undoing(c) ==
    /\ c.pc = "walk" => \A j \in 1 .. Len(c.threads) : c.threads[j] \in Seen(c.list)
    /\ c.pc = "apply" /\ TakesAll(c) => Gapless(c)
    /\ c.pc = "apply" /\ c.kind = "reset" /\ ByWildcard(c.list) =>
           \A x \in Mine(c) : mask[x] # CPUs => Has(c, x)
    /\ c.pc = "idle" /\ c.ret = "ok" /\ c.kind = "reset" /\ ByWildcard(c.list) =>
           \A x \in Mine(c) : mask[x] = CPUs

UndoInv == Undisturbed => Ranked /\ \A w \in Writers : Undoing(call[w])

LEMMA UndoInit == Init => UndoInv
  <1> SUFFICES ASSUME Init PROVE UndoInv
    OBVIOUS
  <1>1. Ranked
    BY DEF Init, Ranked
  <1>2. \A w \in Writers : Undoing(call[w])
    BY DEF Init, Undoing, Idle
  <1> QED
    BY <1>1, <1>2 DEF UndoInv

LEMMA UpToFinite == \A t : IsFiniteSet(UpTo(t)) /\ Cardinality(UpTo(t)) \in Nat
  <1> SUFFICES ASSUME NEW t
               PROVE  IsFiniteSet(UpTo(t)) /\ Cardinality(UpTo(t)) \in Nat
    OBVIOUS
  <1>1. UpTo(t) \in SUBSET Threads
    BY DragoniteAssumption DEF UpTo, Seen, On
  <1>2. IsFiniteSet(Threads)
    BY DragoniteAssumption
  <1>3. IsFiniteSet(UpTo(t))
    BY <1>1, <1>2, FS_Subset
  <1> QED
    BY <1>3, FS_CardinalityType

\* Threads only go, and move the others towards the head.
LEMMA RankKept ==
    ASSUME Ranked, NEW t \in Threads, mask'[t] = mask[t],
           Seen(GroupOf[t])' \subseteq Seen(GroupOf[t]),
           ByWildcard(GroupOf[t]), t \in Seen(GroupOf[t])', mask'[t] # CPUs
    PROVE  Cardinality(UpTo(t)') <= MaxThreads
  <1>1. Cardinality(UpTo(t)) <= MaxThreads
    BY DEF Ranked
  <1>2. UpTo(t)' \in SUBSET UpTo(t)
    BY DEF UpTo, Place
  <1>3. PICK T : T = UpTo(t)
    OBVIOUS
  <1>4. PICK U : U = UpTo(t)'
    OBVIOUS
  <1>5. IsFiniteSet(T) /\ Cardinality(T) \in Nat /\ U \in SUBSET T
    BY <1>2, <1>3, <1>4, UpToFinite
  <1>6. Cardinality(U) <= Cardinality(T) /\ IsFiniteSet(U)
    BY <1>5, FS_Subset
  <1>7. Cardinality(U) \in Nat /\ MaxThreads \in Nat
    BY <1>6, FS_CardinalityType, DragoniteAssumption
  <1>8. Cardinality(U) <= MaxThreads
    BY <1>1, <1>3, <1>5, <1>6, <1>7
  <1> QED
    BY <1>4, <1>8

LEMMA RankSame ==
    ASSUME Ranked, UNCHANGED mask,
           \A g \in Lists : Seen(g)' \subseteq Seen(g)
    PROVE  Ranked'
  <1> SUFFICES ASSUME NEW t \in Threads, ByWildcard(GroupOf[t]),
                      t \in Seen(GroupOf[t])', mask'[t] # CPUs
               PROVE  Cardinality(UpTo(t)') <= MaxThreads
    BY DEF Ranked, ByWildcard, Addressed
  <1>1. GroupOf[t] \in Lists
    BY NodeFacts
  <1> QED
    BY <1>1, RankKept

\* One call changes.
LEMMA UndoOfCall ==
    ASSUME SafeInv, UndoInv, Undisturbed, NEW w \in Writers, NEW new \in Calls,
           call' = [call EXCEPT ![w] = new], UNCHANGED state,
           Ranked', Undoing(new)'
    PROVE  UndoInv'
  <1> SUFFICES ASSUME NEW v \in Writers PROVE Undoing(call[v])'
    BY DEF UndoInv
  <1>1. call'[v] = new
    BY Alone DEF SafeInv, Typed, CallTyped
  <1>2. Mine(call[v])' = Mine(new)'
    BY <1>1 DEF Mine, Hashed
  <1>3. \A x : (Has(new, x)' <=> Has(call[v], x)')
    BY <1>1 DEF Has
  <1>4. Gapless(new)' => Gapless(call[v])'
    BY <1>1, <1>2 DEF Gapless, Place
  <1>5. Seen(new.list)' = Seen(call[v].list)'
    BY <1>1 DEF Seen, On, Hashed
  <1>6. ByWildcard(call[v].list)' => ByWildcard(new.list)'
    BY <1>1 DEF ByWildcard, Addressed
  <1>7. TakesAll(call[v])' => TakesAll(new)'
    BY <1>1 DEF TakesAll
  <1> QED
    BY <1>1, <1>2, <1>3, <1>4, <1>5, <1>6, <1>7 DEF Undoing

\* A step that leaves the threads and their masks alone.
LEMMA UndoSame ==
    ASSUME NEW c, UNCHANGED <<state, mask, nice>>, Undoing(c),
           c.pc = "walk" => Seen(c.list)' = Seen(c.list)
    PROVE  Undoing(c)'
  <1>1. Mine(c)' = Mine(c)
    BY DEF Mine, Hashed
  <1>2. \A x : Has(c, x)' <=> Has(c, x)
    BY DEF Has
  <1>3. Gapless(c)' <=> Gapless(c)
    BY <1>1 DEF Gapless, Place
  <1>4. ByWildcard(c.list)' <=> ByWildcard(c.list)
    BY DEF ByWildcard, Addressed
  <1>5. TakesAll(c)' <=> TakesAll(c)
    BY DEF TakesAll
  <1> QED
    BY <1>1, <1>2, <1>3, <1>4, <1>5 DEF Undoing

LEMMA UndoWrite ==
    ASSUME SafeInv, UndoInv, Undisturbed, NEW w \in Writers, Write(w)
    PROVE  UndoInv'
  <1>t. CallTyped
    BY DEF SafeInv, Typed
  <1>0. UNCHANGED <<state, mask, nice, grace>>
    BY DEF Write, nta_pid_write, nta_affinity_write, nta_reset_write,
      dragonite_boost_write, dragonite_kswapd_write, Enter, kernel
  <1>s. \A g : Seen(g)' = Seen(g)
    BY <1>0 DEF Seen, On, Hashed
  <1>r. Ranked'
    BY <1>0, <1>s, RankSame DEF UndoInv
  <1>1. CASE nta_pid_write(w)
    <2>1. call' = call
      BY <1>1 DEF nta_pid_write
    <2>2. call[w] \in Calls /\ call' = [call EXCEPT ![w] = call[w]]
      BY <1>t, <2>1 DEF CallTyped
    <2>3. PICK c \in Calls : c = call[w]
      BY <2>2
    <2>4. Undoing(c)
      BY <2>3 DEF UndoInv
    <2>5. Undoing(c)'
      BY <1>0, <1>s, <2>4, UndoSame
    <2> QED
      BY <1>0, <1>r, <2>2, <2>3, <2>5, UndoOfCall
  <1>2. ASSUME NEW kind \in Kinds, Enter(w, kind)
        PROVE  UndoInv'
    <2>1. PICK r \in Requests, new \in Calls :
            /\ call' = [call EXCEPT ![w] = new]
            /\ new.pc = (IF Explicit(r) THEN "find" ELSE "target")
      BY <1>2, <1>t, EnterCall
    <2>2. new.pc \in {"find", "target"}
      BY <2>1
    <2>3. Undoing(new)'
      BY <2>2 DEF Undoing
    <2> QED
      BY <1>0, <1>r, <2>1, <2>3, UndoOfCall
  <1>3. CASE \/ nta_affinity_write(w) \/ nta_reset_write(w)
             \/ dragonite_boost_write(w) \/ dragonite_kswapd_write(w)
    BY <1>2, <1>3 DEF nta_affinity_write, nta_reset_write,
      dragonite_boost_write, dragonite_kswapd_write, Kinds
  <1> QED
    BY <1>1, <1>3 DEF Write

LEMMA UndoReadTarget ==
    ASSUME SafeInv, UndoInv, Undisturbed, NEW w \in Writers, ReadTarget(w)
    PROVE  UndoInv'
  <1>t. Typed /\ call[w] \in Calls
    BY DEF SafeInv, Typed, CallTyped
  <1>1. PICK new \in Calls :
          /\ call' = [call EXCEPT ![w] = new]
          /\ new = [call[w] EXCEPT !.pid = target, !.pc = "find"]
    BY <1>t, ReadTargetCall
  <1>2. new.pc = "find"
    BY <1>1, <1>t DEF Calls
  <1>3. UNCHANGED <<state, mask, grace>>
    BY DEF ReadTarget, kernel
  <1>4. Ranked'
    <2>1. \A g : Seen(g)' = Seen(g)
      BY <1>3 DEF Seen, On, Hashed
    <2> QED
      BY <1>3, <2>1, RankSame DEF UndoInv
  <1>5. Undoing(new)'
    BY <1>2 DEF Undoing
  <1> QED
    BY <1>1, <1>3, <1>4, <1>5, UndoOfCall

LEMMA UndoFind ==
    ASSUME SafeInv, UndoInv, Undisturbed, NEW w \in Writers, Find(w)
    PROVE  UndoInv'
  <1> DEFINE c == call[w]
  <1>t. Typed /\ c \in Calls /\ Bounded(c) /\ Undoing(c)
    BY DEF SafeInv, Typed, CallTyped, UndoInv
  <1>u. UNCHANGED <<state, mask, grace>>
    BY DEF Find
  <1>r. Ranked'
    <2>1. \A g : Seen(g)' = Seen(g)
      BY <1>u DEF Seen, On, Hashed
    <2> QED
      BY <1>u, <2>1, RankSame DEF UndoInv
  <1>0. PICK new \in Calls :
          /\ call[w].pc = "find"
          /\ call' = [call EXCEPT ![w] = new] /\ Bounded(new)
          /\ \/ /\ \E ret \in {"EINVAL", "ENOMEM", "ESRCH"} :
                       new = [call[w] EXCEPT !.pc = "idle", !.ret = ret]
                /\ refs' = refs
             \/ /\ ~Invalid(call[w]) /\ call[w].kind # "pin"
                /\ \E t \in Found(call[w].pid) :
                     /\ new = [call[w] EXCEPT !.pc = "walk", !.task = t,
                                              !.list = GroupOf[t],
                                              !.cursor = GroupOf[t]]
                     /\ refs' = IF KeepsTask(call[w].kind)
                                THEN [refs EXCEPT ![t] = @ \cup {<<w, 0>>}]
                                ELSE refs
             \/ /\ ~Invalid(call[w]) /\ call[w].kind = "pin"
                /\ new = [call[w] EXCEPT !.pc = "walk"]
                /\ refs' = refs
    BY <1>t, FindCall
  <1>b. c.threads = <<>>
    BY <1>0, <1>t DEF Bounded
  <1>1. ASSUME NEW ret \in {"EINVAL", "ENOMEM", "ESRCH"},
               new = [c EXCEPT !.pc = "idle", !.ret = ret]
        PROVE  Undoing(new)'
    <2>1. new.pc = "idle" /\ new.ret # "ok"
      BY <1>1, <1>t DEF Calls
    <2> QED
      BY <2>1 DEF Undoing
  <1>2. ASSUME NEW t \in Found(c.pid),
               new = [c EXCEPT !.pc = "walk", !.task = t, !.list = GroupOf[t],
                               !.cursor = GroupOf[t]]
        PROVE  Undoing(new)'
    <2>1. new.pc = "walk" /\ new.threads = <<>>
      BY <1>2, <1>b, <1>t DEF Calls
    <2>2. 1 .. Len(new.threads) = {}
      BY <2>1
    <2> QED
      BY <2>1, <2>2 DEF Undoing
  <1>3. ASSUME new = [c EXCEPT !.pc = "walk"]
        PROVE  Undoing(new)'
    <2>1. new.pc = "walk" /\ new.threads = <<>>
      BY <1>3, <1>b, <1>t DEF Calls
    <2>2. 1 .. Len(new.threads) = {}
      BY <2>1
    <2> QED
      BY <2>1, <2>2 DEF Undoing
  <1>4. Undoing(new)'
    BY <1>0, <1>1, <1>2, <1>3
  <1> QED
    BY <1>0, <1>4, <1>r, <1>u, UndoOfCall

\* What a walk has collected when it ends: without a gap, and, for a reset, all
\* that is to be undone.
LEMMA WalkLeavesNone ==
    ASSUME SafeInv, MaskInv, EffectInv, UndoInv, Undisturbed, NEW w \in Writers,
           InRcu(w), TakesAll(call[w]),
           \/ nxt[call[w].list][call[w].cursor] = call[w].list
           \/ Full(call[w])
    PROVE  /\ Gapless(call[w])
           /\ ByWildcard(call[w].list) =>
                \A x \in Mine(call[w]) : mask[x] # CPUs => Has(call[w], x)
  <1> DEFINE c == call[w]
             n == nxt[c.list][c.cursor]
  <1>t. /\ c \in Calls /\ c.threads \in Seq(Threads) /\ Undoing(c)
        /\ c.pc = "walk" /\ Rising(c) /\ Walked(c) /\ Ranked
    BY DEF SafeInv, Typed, CallTyped, Calls, InRcu, UndoInv, EffectInv, Progress
  <1>k. c.kind # "pin" /\ c.kind # "boost" /\ \A x : Matches(c, x)
    BY DEF TakesAll, Matches
  <1>n. /\ n = c.list => \A x \in Mine(c) : Place(x) <= Place(c.cursor)
        /\ Place(c.cursor) \in Nat
        /\ \A x \in Started : Place(x) \in Nat
    BY NextInOrder DEF EffectInv
  <1>l. n = c.list \/ Full(c)
    OBVIOUS
  <1>g. c.list # Procs
    <2>1. \E u \in Threads : GroupOf[u] = c.list
      BY <1>k, <1>t DEF MaskInv, CallsMeant, Placed
    <2> QED
      BY <2>1, NodeFacts
  <1>m. \A x \in Mine(c) : /\ x \in Started /\ x \in Threads /\ Hashed(x)
                           /\ x \in On(c.list) /\ GroupOf[x] = c.list
    BY <1>g, DragoniteAssumption DEF Mine, On
  <1> HIDE DEF c
  <1>b. \A j \in 1 .. Len(c.threads) :
            /\ Place(c.threads[j]) \in Nat /\ Place(c.threads[j]) <= Place(c.cursor)
    BY <1>n, <1>t DEF Rising, Walked
  <1>h. \A x \in Mine(c) : Place(x) <= Place(c.cursor) => Has(c, x)
    BY <1>k, <1>t DEF Walked
  <1>1. Gapless(c)
    <2> SUFFICES ASSUME NEW j \in 1 .. Len(c.threads), NEW x \in Mine(c),
                        Place(x) <= Place(c.threads[j])
                 PROVE  \E k \in 1 .. j : c.threads[k] = x
      BY DEF Gapless
    <2>1. Place(x) \in Nat
      BY <1>m, <1>n
    <2>2. Place(x) <= Place(c.cursor)
      BY <1>b, <1>n, <2>1
    <2>3. PICK k \in 1 .. Len(c.threads) : c.threads[k] = x
      BY <1>h, <1>k, <2>2 DEF Has
    <2>4. ~(j < k)
      <3>1. j < k => Place(c.threads[j]) < Place(x)
        BY <1>t, <2>3 DEF Rising
      <3> QED
        BY <1>b, <2>1, <3>1
    <2>5. k \in 1 .. j
      BY <1>t, <2>4
    <2> QED
      BY <2>3, <2>5
  <1>2. ASSUME ByWildcard(c.list), NEW x \in Mine(c), mask[x] # CPUs, ~Has(c, x)
        PROVE  FALSE
    <2>2. x \in Seen(c.list)
      BY <1>m DEF Seen
    <2>3. Cardinality(UpTo(x)) <= MaxThreads
      BY <1>2, <1>m, <1>t, <2>2 DEF Ranked
    <2>4. Place(c.cursor) < Place(x) /\ Full(c) /\ Place(x) \in Nat
      BY <1>2, <1>h, <1>l, <1>m, <1>n
    <2>5. \A j \in 1 .. Len(c.threads) : Place(c.threads[j]) < Place(x)
      BY <1>b, <1>n, <2>4
    <2>6. \A j \in 1 .. Len(c.threads) : c.threads[j] \in UpTo(x)
      <3>1. \A j \in 1 .. Len(c.threads) : c.threads[j] \in Seen(GroupOf[x])
        BY <1>m, <1>t DEF Undoing
      <3>2. \A j \in 1 .. Len(c.threads) : Place(c.threads[j]) <= Place(x)
        BY <1>b, <2>4, <2>5
      <3> QED
        BY <3>1, <3>2 DEF UpTo
    <2>7. x \in UpTo(x)
      BY <1>m, <2>2, <2>4 DEF UpTo
    <2>8. Len(c.threads) + 1 <= Cardinality(UpTo(x))
      BY <1>m, <1>t, <2>5, <2>6, <2>7, RisingCount, UpToFinite
    <2>9. /\ Len(c.threads) \in Nat /\ MaxThreads \in Nat
          /\ Cardinality(UpTo(x)) \in Nat /\ Len(c.threads) >= MaxThreads
      <3>1. Len(c.threads) \in Nat
        BY <1>t
      <3>2. MaxThreads \in Nat
        BY DragoniteAssumption
      <3>3. Len(c.threads) >= MaxThreads
        BY <1>k, <2>4, <3>1, <3>2 DEF Full
      <3> QED
        BY <3>1, <3>2, <3>3, UpToFinite
    <2> QED
      BY <2>3, <2>8, <2>9
  <1> QED
    BY <1>1, <1>2 DEF c

LEMMA UndoWalk ==
    ASSUME SafeInv, MaskInv, EffectInv, UndoInv, Undisturbed, NEW w \in Writers,
           Walk(w)
    PROVE  UndoInv'
  <1> DEFINE c == call[w]
             n == nxt[c.list][c.cursor]
  <1>t. /\ CallTyped /\ c \in Calls /\ c.threads \in Seq(Threads)
        /\ c.pc = "walk" /\ InRcu(w) /\ Undoing(c) /\ Ranked
        /\ grace \in [Threads -> SUBSET Writers]
    BY DEF SafeInv, Typed, CallTyped, KernelTyped, Walk, InRcu, Calls, UndoInv
  <1>u. UNCHANGED <<state, mask>>
    BY DEF Walk
  <1>n. n # c.list => n \in Threads /\ n \in Seen(c.list)
    <2>1. /\ Visible(w, n)
          /\ n # c.list => n \in Threads /\ n \in On(c.list)
      BY <1>t, NextVisible
    <2> QED
      BY <2>1, NodeFacts DEF Visible, Linked, Seen
  <1>1. CASE LeaveRcu(w) /\ (n = c.list \/ (Full(c) /\ c.kind # "boost"))
    <2>1. PICK new \in Calls :
            /\ call' = [call EXCEPT ![w] = new]
            /\ new = [call[w] EXCEPT !.pc = "apply"]
      BY <1>1, <1>t, LeaveCall
    <2>2. /\ new.pc = "apply" /\ new.kind = c.kind /\ new.mask = c.mask
          /\ new.comm = c.comm /\ new.nice = c.nice /\ new.list = c.list
          /\ new.threads = c.threads
      BY <1>t, <2>1 DEF Calls
    <2>3. UNCHANGED nice /\ \A t \in Threads : grace'[t] \subseteq grace[t]
      BY <1>1, <1>t DEF LeaveRcu
    <2>4. Ranked'
      <3>1. ASSUME NEW g PROVE Seen(g)' \subseteq Seen(g)
        <4>1. On(g) \subseteq Threads
          BY DragoniteAssumption DEF On
        <4>2. ASSUME NEW x \in On(g), Hashed(x)' \/ grace'[x] # {}
              PROVE  Hashed(x) \/ grace[x] # {}
          BY <1>u, <2>3, <4>1, <4>2 DEF Hashed
        <4> QED
          BY <4>2 DEF Seen, On
      <3> QED
        BY <1>t, <1>u, <3>1, RankSame
    <2>5. TakesAll(new) => TakesAll(c)
      BY <2>2 DEF TakesAll
    <2>6. TakesAll(c) =>
            /\ Gapless(c)
            /\ ByWildcard(c.list) =>
                 \A x \in Mine(c) : mask[x] # CPUs => Has(c, x)
      BY <1>1, <1>t, WalkLeavesNone
    <2> HIDE DEF c
    <2>7. Mine(new) = Mine(c) /\ \A x : Has(new, x) <=> Has(c, x)
      BY <1>t, <2>2, SameArguments
    <2>8. Gapless(c) => Gapless(new)
      BY <2>2, <2>7 DEF Gapless
    <2>9. Undoing(new)
      <3>1. new.kind = "reset" => TakesAll(c)
        BY <2>2 DEF TakesAll
      <3> QED
        BY <2>2, <2>5, <2>6, <2>7, <2>8, <3>1 DEF Undoing
    <2>10. Undoing(new)'
      BY <1>u, <2>2, <2>3, <2>9, UndoSame
    <2> QED
      BY <1>u, <2>1, <2>4, <2>10, UndoOfCall
  <1>2. ASSUME NEW new \in Calls, call' = [call EXCEPT ![w] = new],
               UNCHANGED grace, new.pc = "walk", new.list = c.list,
               \A j \in 1 .. Len(new.threads) : new.threads[j] \in Seen(c.list)
        PROVE  UndoInv'
    <2>1. \A g : Seen(g)' = Seen(g)
      BY <1>2, <1>u DEF Seen, On, Hashed
    <2>2. Ranked'
      BY <1>t, <1>u, <2>1, RankSame
    <2>3. Undoing(new)'
      <3>1. \A j \in 1 .. Len(new.threads) : new.threads[j] \in Seen(new.list)'
        BY <1>2, <2>1
      <3> QED
        BY <1>2, <3>1 DEF Undoing
    <2> QED
      BY <1>2, <1>u, <2>2, <2>3, UndoOfCall
  <1>3. CASE /\ n # c.list /\ UNCHANGED grace
             /\ call' = [call EXCEPT ![w].cursor = n]
    <2>0. CallTyped /\ call[w].pc = "walk" /\ n \in Threads
      BY <1>3, <1>n, <1>t
    <2> HIDE DEF n
    <2>1. PICK new \in Calls :
            /\ call' = [call EXCEPT ![w] = new]
            /\ new = [call[w] EXCEPT !.cursor = n]
      BY <1>3, <2>0, PassCall
    <2>2. /\ new.pc = "walk" /\ new.list = c.list
          /\ new.threads = c.threads
      BY <1>t, <2>1 DEF Calls
    <2>3. \A j \in 1 .. Len(new.threads) : new.threads[j] \in Seen(c.list)
      BY <1>t, <2>2 DEF Undoing
    <2> QED
      BY <1>2, <1>3, <2>1, <2>2, <2>3
  <1>4. CASE /\ n # c.list /\ ~Full(c) /\ UNCHANGED grace
             /\ call' = [call EXCEPT ![w].cursor = n,
                                     ![w].threads = Append(@, n)]
    <2>1. PICK new \in Calls :
            /\ call' = [call EXCEPT ![w] = new]
            /\ new = [call[w] EXCEPT !.cursor = n, !.threads = Append(@, n)]
      BY <1>4, <1>n, <1>t, CollectCall
    <2>2. /\ new.pc = "walk" /\ new.list = c.list
          /\ new.threads = Append(c.threads, n)
      BY <1>t, <2>1 DEF Calls
    <2>3. ASSUME NEW j \in 1 .. Len(new.threads)
          PROVE  new.threads[j] \in Seen(c.list)
      <3>1. \/ j \in 1 .. Len(c.threads) /\ new.threads[j] = c.threads[j]
            \/ new.threads[j] = n
        BY <1>4, <1>n, <1>t, <2>2
      <3> QED
        BY <1>4, <1>n, <1>t, <3>1 DEF Undoing
    <2> QED
      BY <1>2, <1>4, <2>1, <2>2, <2>3
  <1>5. CASE n # c.list /\ Visit(w, n)
    BY <1>1, <1>3, <1>4, <1>5 DEF Visit
  <1> QED
    BY <1>1, <1>5 DEF Walk

\* A mask that is set is set within the first places of the list, and a reset
\* leaves fewer and fewer to undo.
LEMMA UndoApply ==
    ASSUME SafeInv, MaskInv, EffectInv, UndoInv, Undisturbed, NEW w \in Writers,
           Apply(w), call[w].kind # "boost"
    PROVE  UndoInv'
  <1> DEFINE c == call[w]
             t == c.threads[c.i]
  <1>t. /\ CallTyped /\ c \in Calls /\ Bounded(c) /\ c.i \in Nat \ {0}
        /\ c.threads \in Seq(Threads) /\ AskedFor(c) /\ Placed(c)
        /\ mask \in [Threads -> SUBSET CPUs] /\ Undoing(c) /\ Ranked
    BY DEF SafeInv, Typed, CallTyped, KernelTyped, Calls, MaskInv, CallsMeant,
      UndoInv
  <1>1. PICK new \in Calls, m \in {c.matched, c.matched + 1} :
          /\ call' = [call EXCEPT ![w] = new]
          /\ new = [c EXCEPT !.i = @ + 1, !.matched = m]
          /\ c.pc = "apply" /\ c.i \in 1 .. Len(c.threads) /\ t \in Threads
    BY <1>t, ApplyCall
  <1>2. /\ new.pc = "apply" /\ new.kind = c.kind /\ new.mask = c.mask
        /\ new.comm = c.comm /\ new.nice = c.nice /\ new.list = c.list
        /\ new.threads = c.threads
    BY <1>1, <1>t DEF Calls
  <1>u. UNCHANGED <<state, grace, nice, line>>
    BY DEF Apply
  <1>3. mask' \in {mask, [mask EXCEPT ![t] = c.mask]}
    BY DEF Apply
  <1>s. \A g : Seen(g)' = Seen(g)
    BY <1>u DEF Seen, On, Hashed
  <1>g. \A x \in Threads : grace[x] = {}
    <2>1. \A v \in Writers : ~InRcu(v)
      BY <1>1, Alone DEF InRcu
    <2>2. \A x \in Threads : grace[x] \subseteq Writers
      BY DEF SafeInv, Typed, KernelTyped
    <2> QED
      BY <2>1, <2>2 DEF SafeInv, GraceKept
  <1>m. \A x \in Threads : GroupOf[x] = c.list /\ Hashed(x) => x \in Mine(c)
    BY NodeFacts DEF EffectInv, Ordered, Mine, Hashed
  <1>r. Rising(c)
    BY <1>1 DEF EffectInv, Progress
  <1> HIDE DEF c, t
  <1>4. \A u \in Threads : mask'[u] = mask[u] \/ (u = t /\ mask'[u] = c.mask)
    BY <1>1, <1>3, <1>t
  <1>l. t \in On(c.list) /\ t \in Started
    BY <1>1, <1>r, <1>t DEF Placed, Rising, t
  <1>p. ASSUME c.kind = "pin"
        PROVE  Cardinality(UpTo(t)) <= MaxThreads
    <2>1. t = LeaderOf[GroupOf[t]]
      <3>1. c.list = Procs
        BY <1>1, <1>p, <1>t DEF Placed
      <3> QED
        BY <1>l, <3>1, DragoniteAssumption DEF On
    <2>2. ASSUME NEW x \in UpTo(t)
          PROVE  x = t
      <3>1. x \in Threads /\ GroupOf[x] = GroupOf[t] /\ Place(x) <= Place(t)
        BY <1>1, NodeFacts DEF UpTo, Seen, On
      <3>2. x \in Started
        BY <1>g, <2>2, <3>1 DEF UpTo, Seen, Hashed, EffectInv, Ordered
      <3>3. StartTime[t] <= StartTime[x] /\ StartTime[x] <= StartTime[t]
        BY <1>1, <2>1, <3>1, <3>2, NodeFacts, DragoniteAssumption
      <3>4. StartTime[t] = StartTime[x]
        BY <1>1, <3>1, <3>3, NodeFacts
      <3> QED
        BY <1>l, <3>2, <3>4, DragoniteAssumption
    <2>3. PICK T : T = UpTo(t)
      OBVIOUS
    <2>4. Cardinality(UpTo(t)) <= 1
      <3>1. PICK s : s = <<t>>
        OBVIOUS
      <3>2. IsFiniteSet(T) /\ \A x \in T : \E k \in 1 .. 1 : s[k] = x
        BY <2>2, <2>3, <3>1, UpToFinite
      <3>3. PICK one \in Nat : one = 1
        OBVIOUS
      <3>4. Cardinality(T) <= one
        BY <3>2, <3>3, AtMost
      <3> QED
        BY <2>3, <3>3, <3>4
    <2>5. Cardinality(UpTo(t)) \in Nat /\ MaxThreads \in Nat \ {0}
      BY UpToFinite, DragoniteAssumption
    <2> QED
      BY <2>4, <2>5
  <1>5. ASSUME ByWildcard(GroupOf[t]), c.mask # CPUs, c.kind # "pin"
        PROVE  Cardinality(UpTo(t)) <= MaxThreads
    <2>1. GroupOf[t] = c.list
      <3>1. \E u \in Threads : GroupOf[u] = c.list
        BY <1>1, <1>5, <1>t DEF Placed
      <3>2. c.list # Procs
        BY <3>1, NodeFacts
      <3> QED
        BY <1>l, <3>2 DEF On
    <2>3. PICK r \in Requests : Serves(c, r)
      BY <1>1, <1>5, <1>t DEF AskedFor, c
    <2>4. c.kind = "set" /\ r.kind = "set" /\ r.comm = c.comm
      BY <1>5, <2>3 DEF Serves
    <2>5. Addressed(r, c.list)
      BY <1>1, <1>t, <2>3, <2>4, SetIsAddressed
    <2>6. TakesAll(c)
      BY <1>5, <2>1, <2>4, <2>5 DEF ByWildcard, TakesAll
    <2>7. Gapless(c)
      BY <1>1, <1>t, <2>6 DEF Undoing
    <2>8. ASSUME NEW x \in UpTo(t)
          PROVE  \E k \in 1 .. c.i : c.threads[k] = x
      <3>0. x \in Threads /\ GroupOf[x] = GroupOf[t]
        BY <1>1, NodeFacts DEF UpTo, Seen, On
      <3>1. x \in Mine(c) /\ Place(x) <= Place(t)
        BY <1>g, <1>m, <2>1, <3>0 DEF UpTo, Seen
      <3> QED
        BY <1>1, <2>7, <3>1 DEF Gapless, t
    <2>9. Cardinality(UpTo(t)) <= c.i
      <3>1. PICK T : T = UpTo(t)
        OBVIOUS
      <3>2. PICK s : s = c.threads
        OBVIOUS
      <3>3. IsFiniteSet(T) /\ \A x \in T : \E k \in 1 .. c.i : s[k] = x
        BY <2>8, <3>1, <3>2, UpToFinite
      <3>4. c.i \in Nat
        BY <1>t
      <3> QED
        BY <3>1, <3>3, <3>4, AtMost
    <2>10. Len(c.threads) <= MaxThreads
      BY <1>t, <2>4 DEF Bounded, Limit
    <2>11. /\ Cardinality(UpTo(t)) \in Nat /\ MaxThreads \in Nat
           /\ Len(c.threads) \in Nat /\ c.i \in Nat
      BY <1>t, UpToFinite, DragoniteAssumption
    <2>12. c.i <= Len(c.threads)
      BY <1>1, <2>11
    <2> QED
      BY <2>9, <2>10, <2>11, <2>12
  <1>6. Ranked'
    <2> SUFFICES ASSUME NEW u \in Threads, ByWildcard(GroupOf[u]),
                        u \in Seen(GroupOf[u])', mask'[u] # CPUs
                 PROVE  Cardinality(UpTo(u)') <= MaxThreads
      BY DEF Ranked, ByWildcard, Addressed
    <2>1. UpTo(u)' = UpTo(u)
      BY <1>s DEF UpTo, Place
    <2>2. CASE mask'[u] = mask[u]
      BY <1>s, <1>t, <2>2, RankKept
    <2>3. CASE u = t /\ mask'[u] = c.mask
      BY <1>5, <1>p, <2>1, <2>3
    <2> QED
      BY <1>4, <2>2, <2>3
  <1>7. Mine(new)' = Mine(c)
    BY <1>2, <1>u DEF Mine, Hashed
  <1>8. \A x : Has(new, x)' <=> Has(c, x)
    BY <1>2, <1>u DEF Has
  <1>9. TakesAll(new)' => Gapless(new)'
    <2>1. TakesAll(new)' => TakesAll(c)
      BY <1>2 DEF TakesAll
    <2>2. TakesAll(c) => Gapless(c)
      BY <1>1, <1>t DEF Undoing
    <2> QED
      BY <1>2, <1>7, <2>1, <2>2 DEF Gapless, Place
  <1>10. ASSUME new.kind = "reset", ByWildcard(new.list)', NEW x \in Mine(c),
                mask'[x] # CPUs
         PROVE  Has(c, x)
    <2>1. c.mask = CPUs
      BY <1>1, <1>10, <1>2, <1>t DEF AskedFor, Serves
    <2>2. x \in Threads
      BY DragoniteAssumption DEF Mine
    <2>3. mask[x] # CPUs
      BY <1>10, <1>4, <2>1, <2>2
    <2>4. ByWildcard(c.list)
      BY <1>10, <1>2 DEF ByWildcard, Addressed
    <2> QED
      BY <1>1, <1>10, <1>2, <1>t, <2>3, <2>4 DEF Undoing
  <1>11. Undoing(new)'
    BY <1>10, <1>2, <1>7, <1>8, <1>9 DEF Undoing
  <1> QED
    BY <1>1, <1>6, <1>11, <1>u, UndoOfCall

LEMMA UndoFinish ==
    ASSUME SafeInv, MaskInv, EffectInv, UndoInv, Undisturbed, NEW w \in Writers,
           Finish(w)
    PROVE  UndoInv'
  <1> DEFINE c == call[w]
  <1>t. CallTyped /\ c \in Calls /\ c.threads \in Seq(Threads) /\ Undoing(c)
        /\ AskedFor(c) /\ Ranked
    BY DEF SafeInv, Typed, CallTyped, Calls, UndoInv, MaskInv, CallsMeant
  <1>1. PICK new \in Calls :
          /\ call' = [call EXCEPT ![w] = new]
          /\ new = [call[w] EXCEPT !.pc = "idle", !.ret = Outcome(call[w])]
          /\ call[w].pc = "apply" /\ call[w].i = Len(call[w].threads) + 1
    BY <1>t, FinishCall
  <1>2. /\ new.pc = "idle" /\ new.kind = c.kind /\ new.list = c.list
    BY <1>1, <1>t DEF Calls
  <1>u. UNCHANGED <<state, grace, mask, nice, line>>
    BY DEF Finish
  <1>p. Applied(c) /\ c.pc = "apply" /\ c.i = Len(c.threads) + 1
    BY <1>1 DEF EffectInv, Progress
  <1> HIDE DEF c
  <1>3. \A j \in 1 .. Len(c.threads) : mask[c.threads[j]] = c.mask
    <2>1. 1 .. c.i - 1 = 1 .. Len(c.threads)
      BY <1>p, <1>t
    <2> QED
      BY <1>p, <2>1 DEF Applied
  <1>4. ASSUME c.kind = "reset", ByWildcard(c.list), NEW x \in Mine(c)
        PROVE  mask[x] = CPUs
    <2>1. c.mask = CPUs
      BY <1>4, <1>p, <1>t DEF AskedFor, Serves
    <2>2. mask[x] # CPUs => Has(c, x)
      BY <1>4, <1>p, <1>t DEF Undoing
    <2>3. Has(c, x) => mask[x] = c.mask
      BY <1>3, <1>4 DEF Has
    <2> QED
      BY <2>1, <2>2, <2>3
  <1>6. Mine(new) = Mine(c)
    BY <1>2 DEF Mine
  <1>7. Undoing(new)
    BY <1>2, <1>4, <1>6 DEF Undoing
  <1>8. Undoing(new)'
    BY <1>2, <1>7, <1>u, UndoSame
  <1>9. Ranked'
    <2>1. \A g : Seen(g)' = Seen(g)
      BY <1>u DEF Seen, On, Hashed
    <2> QED
      BY <1>t, <1>u, <2>1, RankSame
  <1> QED
    BY <1>1, <1>8, <1>9, <1>u, UndoOfCall

LEMMA UndoThreads ==
    ASSUME SafeInv, UndoInv, Undisturbed, NEW t \in Threads,
           Exit(t) \/ Unhash(t) \/ DelayedPut(t)
    PROVE  UndoInv'
  <1>t. /\ state \in [Threads -> States] /\ grace \in [Threads -> SUBSET Writers]
        /\ Ranked
    BY DEF SafeInv, Typed, KernelTyped, UndoInv
  <1>1. UNCHANGED <<call, mask, nice>>
    BY DEF Exit, Unhash, DelayedPut
  <1>2. /\ \A u \in Threads : u # t => state'[u] = state[u] /\ grace'[u] = grace[u]
        /\ \A u \in Threads : Hashed(u)' => Hashed(u)
    BY <1>t DEF Exit, Unhash, DelayedPut, Hashed
  <1>3. \/ Hashed(t) /\ Hashed(t)' /\ grace' = grace
        \/ Hashed(t) /\ grace'[t] = {v \in Writers : InRcu(v)}
        \/ ~Hashed(t) /\ ~Hashed(t)' /\ grace' = grace
    BY <1>t DEF Exit, Unhash, DelayedPut, Hashed
  <1>4. \A g : Seen(g)' \subseteq Seen(g)
    <2> SUFFICES ASSUME NEW g, NEW x \in On(g), Hashed(x)' \/ grace'[x] # {}
                 PROVE  Hashed(x) \/ grace[x] # {}
      BY DEF Seen, On
    <2>1. x \in Threads
      BY DragoniteAssumption DEF On
    <2> QED
      BY <1>2, <1>3, <2>1
  <1>5. Ranked'
    BY <1>1, <1>4, <1>t, RankSame
  <1>6. ASSUME NEW w \in Writers
        PROVE  Undoing(call[w])'
    <2> DEFINE c == call[w]
    <2>1. Undoing(c)
      BY DEF UndoInv
    <2>2. Mine(c)' \subseteq Mine(c)
      BY <1>1, <1>2, DragoniteAssumption DEF Mine
    <2>3. \A x : Has(c, x)' <=> Has(c, x)
      BY <1>1 DEF Has
    <2>4. Gapless(c) => Gapless(c)'
      BY <1>1, <2>2 DEF Gapless, Place
    <2>5. c.pc = "walk" => Seen(c.list) \subseteq Seen(c.list)'
      <3> SUFFICES ASSUME c.pc = "walk", NEW x \in Seen(c.list)
                   PROVE  Hashed(x)' \/ grace'[x] # {}
        BY <1>1 DEF Seen, On
      <3>1. x \in Threads /\ (Hashed(x) \/ grace[x] # {}) /\ InRcu(w)
        BY DragoniteAssumption DEF Seen, On, InRcu
      <3>2. CASE x = t
        BY <1>3, <3>1, <3>2
      <3>3. CASE x # t
        BY <1>2, <3>1, <3>3 DEF Hashed
      <3> QED
        BY <3>2, <3>3
    <2>6. ByWildcard(c.list)' <=> ByWildcard(c.list)
      BY <1>1 DEF ByWildcard, Addressed
    <2>7. TakesAll(c)' <=> TakesAll(c)
      BY <1>1 DEF TakesAll
    <2>8. c' = c
      BY <1>1
    <2> HIDE DEF c
    <2>9. Undoing(c)'
      BY <1>1, <2>1, <2>2, <2>3, <2>4, <2>5, <2>6, <2>7, <2>8 DEF Undoing
    <2> QED
      BY <2>9 DEF c
  <1> QED
    BY <1>5, <1>6 DEF UndoInv

LEMMA UndoNext ==
    SafeInv /\ MaskInv /\ EffectInv /\ UndoInv /\ [Next]_vars => UndoInv'
  <1> SUFFICES ASSUME SafeInv, MaskInv, EffectInv, UndoInv, [Next]_vars,
                      Undisturbed
               PROVE  UndoInv'
    BY DEF UndoInv, Undisturbed
  <1>1. ASSUME NEW w \in Writers, WriterStep(w) PROVE UndoInv'
    BY <1>1, UndoReadTarget, UndoFind, UndoWalk, UndoApply, UndoFinish
      DEF WriterStep, axd_set_affinity, axd_reset_affinity, axd_set_boost,
        axd_pin_kswapd
  <1>2. \A t \in Threads : ~Create(t)
    BY DEF Create, Undisturbed
  <1>3. CASE Load \/ Unload \/ Hotplug \/ UNCHANGED vars
    <2>1. UNCHANGED <<call, state, grace, mask, nice, line>>
      BY <1>3 DEF Load, Unload, Hotplug, vars, kernel
    <2>2. \A g : Seen(g)' = Seen(g)
      BY <2>1 DEF Seen, On, Hashed
    <2>3. Ranked'
      BY <2>1, <2>2, RankSame DEF UndoInv
    <2>4. ASSUME NEW w \in Writers
          PROVE  Undoing(call[w])'
      <3>1. call[w] \in Calls /\ call' = [call EXCEPT ![w] = call[w]]
        BY <2>1 DEF SafeInv, Typed, CallTyped
      <3>2. PICK c \in Calls : c = call[w]
        BY <3>1
      <3>3. Undoing(c)
        BY <3>2 DEF UndoInv
      <3>4. Undoing(c)'
        BY <2>1, <2>2, <3>3, UndoSame
      <3>5. UndoInv'
        BY <2>1, <2>3, <3>1, <3>2, <3>4, UndoOfCall
      <3> QED
        BY <3>5 DEF UndoInv, Undisturbed
    <2> QED
      BY <2>3, <2>4 DEF UndoInv
  <1> QED
    BY <1>1, <1>2, <1>3, UndoWrite, UndoThreads DEF Next

LEMMA UndoAlways == Spec => [](SafeInv /\ EffectInv /\ UndoInv)
  BY SafeInit, MaskInit, EffectInit, UndoInit, SafeNext, MaskNext, EffectNext,
    UndoNext, PTL DEF Spec

\* A reset undoes what the wildcard has set and what was pinned, for groups of
\* any size and any sequence of exits.
THEOREM ResetAlwaysUndoes == Spec => []ResetUndoesAll
  <1>1. SafeInv /\ EffectInv /\ UndoInv => ResetUndoesAll
    <2> SUFFICES ASSUME SafeInv, EffectInv, UndoInv, Undisturbed,
                        NEW w \in Writers, Completed(w), call[w].kind = "reset",
                        \A r \in Requests :
                            r.kind = "set" /\ Addressed(r, call[w].list) =>
                                r.comm = AnyName,
                        NEW t \in Threads, GroupOf[t] = call[w].list,
                        state[t] = "live"
                 PROVE  mask[t] = CPUs
      BY DEF ResetUndoesAll
    <2> DEFINE c == call[w]
    <2>1. ByWildcard(c.list)
      BY DEF ByWildcard
    <2>2. \A x \in Mine(c) : mask[x] = CPUs
      BY <2>1 DEF UndoInv, Undoing, Completed
    <2>3. t \in Mine(c)
      BY NodeFacts DEF EffectInv, Ordered, Mine, Hashed
    <2> QED
      BY <2>2, <2>3
  <1> QED
    BY <1>1, UndoAlways, PTL

=============================================================================
