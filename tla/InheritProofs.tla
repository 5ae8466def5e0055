---------------------------- MODULE InheritProofs ----------------------------
(***************************************************************************)
(* Proofs about BoreInherit, for any tasks, any trees and threads they     *)
(* begin as, any number of forks at a time and any limits of the scan.     *)
(*                                                                         *)
(* What everything rests on is that the lists stay lists (Chain): a node   *)
(* leads to a node of the same list, no two to the same one, and no tasks  *)
(* lead around among themselves.                                           *)
(***************************************************************************)
EXTENDS BoreInherit, BoreMathProofs

-----------------------------------------------------------------------------
(* The invariant *)

Heads == {Anchor(t) : t \in Tasks}

\* The task whose memory a node is in.
Of(n) == IF n \in Tasks THEN n ELSE n[2]

\* The nodes L, of the lists that O tells apart, linked by nx.
Chain(L, O, nx) ==
    /\ \A n \in L : nx[n] \in L /\ O[nx[n]] = O[n]
    /\ \A m, n \in L : nx[m] = nx[n] => m = n
    /\ \A S \in SUBSET (L \cap Tasks) : (\A n \in S : nx[n] \in S) => S = {}

\* The nodes that are linked, and whose list they are in.
Node(kind) ==
    Heads \cup {u \in Tasks \ {Root} :
                   Hashed(u) /\ (kind = "subtree" => leader[u] = u)}

Owner(kind) ==
    [n \in Nodes |-> IF n \notin Tasks THEN n[2]
                     ELSE IF kind = "group" THEN leader[n] ELSE parent[n]]

ListsSound == \A k \in Kinds : Chain(Node(k), Owner(k), nxt[k])

\* Parents are running, leaders are not reaped, and the root is both.
TreeSound ==
    /\ state[Root] = "live" /\ leader[Root] = Root
    /\ \A u \in Tasks : Hashed(u) =>
        /\ state[parent[u]] = "live"
        /\ Hashed(leader[u]) /\ leader[leader[u]] = leader[u]

\* A fork's task runs, its child is its own and not linked yet.
ForksSound ==
    \A f \in Tasks : InRcu(f) =>
        /\ state[f] = "live" /\ state[fork[f].child] = "new"
        /\ leader[fork[f].child] = IF fork[f].kind = "group" THEN leader[f]
                                   ELSE fork[f].child
        /\ \A g \in Tasks : InRcu(g) /\ fork[g].child = fork[f].child => g = f

Pcs == {"idle", "up", "first", "second", "check", "scan", "down", "down2",
        "down3", "sample", "update", "read", "skip"}

Descending == {"down", "down2", "down3"}

Reads == [task : Nodes, penalty : Halves, at : Nat]

Calls == [pc : Pcs, kind : Kinds, hub : BOOLEAN, child : Tasks, now : Nat,
          floor : Nat, anc : Tasks, up : Tasks, sole : {0, 1}, first : Nodes,
          cursor : Nodes, desc : Nodes, scans : Nat, count : Nat, total : Nat,
          seen : Seq(Reads), calm : BOOLEAN]

Caches == [timestamp : Nat, penalty : Halves, seen : Seq(Reads)]

\* The limits of the scan.
Bounded(c) ==
    /\ c.count <= SampleLimit /\ c.scans <= ScanLimit
    /\ c.total <= c.count * (pow2[HalfBits] - 1)
    /\ c.count = Len(c.seen)
    /\ c.pc \in Descending \cup {"sample"} => c.count < SampleLimit
    /\ c.pc \in Descending => c.desc \in Tasks

TreeTyped ==
    /\ state \in [Tasks -> {"unborn", "new", "live", "zombie", "dead"}]
    /\ parent \in [Tasks -> Tasks] /\ leader \in [Tasks -> Tasks]
    /\ nxt \in [Kinds -> [Nodes -> Nodes]]
    /\ grace \in [Tasks -> SUBSET Tasks]

ForkTyped ==
    /\ fork \in [Tasks -> Calls]
    /\ \A f \in Tasks : Bounded(fork[f])

TimeTyped ==
    /\ clock \in FirstTime .. LastTime
    /\ \A f \in Tasks : fork[f].now <= clock /\ fork[f].floor <= fork[f].now

ValuesTyped ==
    /\ penalty \in [Tasks -> Halves]
    /\ bc \in [Kinds -> [Tasks -> Caches]]
    /\ \A k \in Kinds, t \in Tasks : bc[k][t].timestamp <= LastTime \div pow2[Shift]

TypeInv == TreeTyped /\ ForkTyped /\ TimeTyped /\ ValuesTyped

TreeInv == TypeInv /\ ListsSound /\ TreeSound /\ ForksSound

\* A fork may still look at t.
Visible(f, t) == Hashed(t) \/ f \in grace[t]

\* What a task that is gone still leads to, for those who may look at it.
GraceSound ==
    /\ \A t \in Tasks : state[t] = "dead" => nxt["subtree"][t] = t
    /\ \A t \in Tasks : \A f \in grace[t] :
        /\ InRcu(f) /\ state[t] = "dead" /\ Visible(f, parent[t])
        /\ nxt["group"][t] # Root /\ Visible(f, Of(nxt["group"][t]))

LocalsVisible(f, c) ==
    /\ \A t \in {c.anc, c.up, Of(c.first), Of(c.cursor), Of(c.desc)} : Visible(f, t)
    /\ c.pc \in Descending \cup {"scan", "sample"} /\ c.cursor \in Tasks
         => c.cursor \in Node(c.kind) \/ state[c.cursor] = "dead"

SightSound == \A f \in Tasks : InRcu(f) => LocalsVisible(f, fork[f])

SafeInv == TreeInv /\ GraceSound /\ SightSound

\* The times of the forks, and of the samples in the forks and in the caches.
ForkTimes ==
    \A f \in Tasks : InRcu(f) =>
        /\ FirstTime <= fork[f].now
        /\ \A i \in 1 .. Len(fork[f].seen) : fork[f].now <= fork[f].seen[i].at
        /\ \A g \in Tasks : InRcu(g) => fork[f].floor <= fork[g].now

CacheTimes ==
    \A k \in Kinds, t \in Tasks : \A i \in 1 .. Len(bc[k][t].seen) :
        bc[k][t].timestamp * pow2[Shift] <= bc[k][t].seen[i].at

Recent(c, cache) ==
    /\ cache.timestamp >= 1
    /\ \A i \in 1 .. Len(cache.seen) : c.floor <= cache.seen[i].at + Lifetime

ReadsRecent ==
    \A f \in Tasks : fork[f].pc = "read"
        => Recent(fork[f], bc[fork[f].kind][fork[f].anc])

FreshInv == SafeInv /\ ForkTimes /\ CacheTimes /\ ReadsRecent

\* A sum of samples has one that is not above the average and one that is not
\* below it.
Balanced(c) ==
    c.count >= 1 =>
        /\ \E i \in 1 .. Len(c.seen) : c.count * c.seen[i].penalty <= c.total
        /\ \E i \in 1 .. Len(c.seen) : c.total <= c.count * c.seen[i].penalty

\* Where nothing exits: what tasks earn, and all that is made of it.
Earned(p) == p = 0 \/ \E q \in Penalties : p <= q

\* A scan there stays in the list it began with.
InList(c) ==
    /\ c.pc \in Descending \cup {"scan", "sample"} =>
         c.cursor \in Node(c.kind) /\ Owner(c.kind)[c.cursor] = c.anc
    /\ c.pc = "sample" => c.desc \in Tasks

NothingExits ==
    /\ \A t \in Tasks : state[t] \notin {"zombie", "dead"} /\ Earned(penalty[t])
    /\ \A k \in Kinds, t \in Tasks : Earned(bc[k][t].penalty)
    /\ \A f \in Tasks :
        /\ \A i \in 1 .. Len(fork[f].seen) : Earned(fork[f].seen[i].penalty)
        /\ InList(fork[f])

NotBelow ==
    \A k \in Kinds, t \in Tasks : bc[k][t].seen # <<>> =>
        \E i \in 1 .. Len(bc[k][t].seen) : bc[k][t].seen[i].penalty <= bc[k][t].penalty

AverageInv ==
    /\ TreeInv
    /\ \A f \in Tasks : Balanced(fork[f])
    /\ NotBelow
    /\ "exit" \notin Env => NothingExits

-----------------------------------------------------------------------------
(* Lists *)

\* Heads are no tasks, and tell apart whose they are.
LEMMA NodeFacts ==
    /\ Tasks \subseteq Nodes /\ Heads \subseteq Nodes /\ Tasks \cap Heads = {}
    /\ Nodes = Tasks \cup Heads
    /\ \A t \in Tasks : Anchor(t) \in Heads /\ Anchor(t) \notin Tasks
                        /\ Anchor(t)[2] = t /\ Of(Anchor(t)) = t /\ Of(t) = t
    /\ \A n \in Nodes : n \notin Tasks => n[2] \in Tasks /\ n = Anchor(n[2])
    /\ \A t, u \in Tasks : Anchor(t) = Anchor(u) => t = u
    /\ \A n \in Nodes : Of(n) \in Tasks
  BY BoreInheritAssumption DEF Nodes, Heads, Anchor, Of

\* Unlinking a task leaves lists.
LEMMA Unlinking ==
    ASSUME NEW L \in SUBSET Nodes, NEW O, NEW nx, NEW ny, Chain(L, O, nx),
           NEW t \in L \cap Tasks,
           \A n \in L \ {t} : ny[n] = IF nx[n] = t THEN nx[t] ELSE nx[n]
    PROVE  Chain(L \ {t}, O, ny)
  <1> DEFINE M == L \ {t}
  <1>1. nx[t] # t
    <2>1. {t} \in SUBSET (L \cap Tasks) /\ {t} # {}
      OBVIOUS
    <2> QED
      BY <2>1 DEF Chain
  <1>2. \A n \in M : ny[n] \in M /\ O[ny[n]] = O[n]
    BY <1>1 DEF Chain
  <1>3. \A m, n \in M : ny[m] = ny[n] => m = n
    BY DEF Chain
  <1>4. ASSUME NEW S \in SUBSET (M \cap Tasks), \A n \in S : ny[n] \in S
        PROVE  S = {}
    <2>1. CASE \A n \in S : nx[n] # t
      <3>1. S \in SUBSET (L \cap Tasks) /\ \A n \in S : nx[n] \in S
        BY <1>4, <2>1
      <3> QED
        BY <3>1 DEF Chain
    <2>2. CASE \E n \in S : nx[n] = t
      <3>1. PICK n \in S : nx[n] = t
        BY <2>2
      <3>2. nx[t] \in S
        BY <1>4, <3>1
      <3>3. S \cup {t} \in SUBSET (L \cap Tasks)
            /\ \A m \in S \cup {t} : nx[m] \in S \cup {t}
        BY <1>4, <3>2
      <3> QED
        BY <3>3 DEF Chain
    <2> QED
      BY <2>1, <2>2
  <1> QED
    BY <1>2, <1>3, <1>4 DEF Chain

\* The lists L, O, nx with the task c added at the end of the list of t.
Appended(L, O, P, nx, ny, t, c) ==
    /\ L \in SUBSET Nodes /\ Chain(L, O, nx)
    /\ t \in Tasks /\ Anchor(t) \in L /\ O[Anchor(t)] = t
    /\ c \in Tasks \ L /\ P[c] = t /\ ny[c] = Anchor(t)
    /\ \A n \in L : P[n] = O[n]
    /\ \A n \in L : ny[n] = IF nx[n] = Anchor(t) THEN c ELSE nx[n]

\* They are lists again.
LEMMA Appending ==
    ASSUME NEW L, NEW O, NEW P, NEW nx, NEW ny, NEW t, NEW c,
           Appended(L, O, P, nx, ny, t, c)
    PROVE  Chain(L \cup {c}, P, ny)
  <1> USE DEF Appended
  <1> DEFINE M == L \cup {c}
             h == Anchor(t)
  <1>0. h \notin Tasks
    BY NodeFacts
  <1> HIDE DEF h
  <1>1. h \in L /\ O[h] = t /\ ny[c] = h
        /\ \A n \in L : ny[n] = IF nx[n] = h THEN c ELSE nx[n]
    BY DEF h
  <1>2. \A n \in M : ny[n] \in M /\ P[ny[n]] = P[n]
    BY <1>1 DEF Chain
  <1>3. \A m, n \in M : ny[m] = ny[n] => m = n
    BY <1>0, <1>1 DEF Chain
  <1>4. ASSUME NEW S \in SUBSET (M \cap Tasks), \A n \in S : ny[n] \in S
        PROVE  S = {}
    <2>1. c \notin S
      BY <1>0, <1>1, <1>4
    <2>2. S \in SUBSET (L \cap Tasks) /\ \A n \in S : nx[n] \in S
      BY <1>1, <1>4, <2>1
    <2> QED
      BY <2>2 DEF Chain
  <1> QED
    BY <1>2, <1>3, <1>4 DEF Chain

\* A list that is not empty has a last task, and so a first one.
LEMMA FirstOfList ==
    ASSUME NEW L \in SUBSET Nodes, NEW O, NEW nx, Chain(L, O, nx), Heads \subseteq L,
           \A u \in Tasks : O[Anchor(u)] = u,
           NEW t \in Tasks, NEW K, K = {u \in L \cap Tasks : O[u] = t}, K # {}
    PROVE  nx[Anchor(t)] \in K
  <1>1. Anchor(t) \in L /\ O[Anchor(t)] = t
    BY NodeFacts
  <1>2. \A n \in L : O[n] = t => n \in K \/ n = Anchor(t)
    BY NodeFacts
  <1>3. PICK u \in K : nx[u] \notin K
    BY DEF Chain
  <1>4. nx[u] = Anchor(t)
    BY <1>2, <1>3 DEF Chain
  <1>5. nx[Anchor(t)] # Anchor(t)
    BY <1>1, <1>3, <1>4, NodeFacts DEF Chain
  <1> QED
    BY <1>1, <1>2, <1>5 DEF Chain

\* The lists L, O, nx with the children of t, the set K, moved to the end of
\* the list of r.
Spliced(L, O, P, nx, ny, t, r, K) ==
    /\ L \in SUBSET Nodes /\ Chain(L, O, nx) /\ Heads \subseteq L
    /\ \A u \in Tasks : O[Anchor(u)] = u
    /\ t \in Tasks /\ r \in Tasks /\ r # t
    /\ K = {u \in L \cap Tasks : O[u] = t} /\ K # {}
    /\ \A n \in L : P[n] = IF n \in K THEN r ELSE O[n]
    /\ ny[Anchor(t)] = Anchor(t)
    /\ \A n \in L \ {Anchor(t)} :
         ny[n] = IF nx[n] = Anchor(t) THEN Anchor(r)
                 ELSE IF nx[n] = Anchor(r) THEN nx[Anchor(t)] ELSE nx[n]

\* They are lists again.
LEMMA Splicing ==
    ASSUME NEW L, NEW O, NEW P, NEW nx, NEW ny, NEW t, NEW r, NEW K,
           Spliced(L, O, P, nx, ny, t, r, K)
    PROVE  Chain(L, P, ny)
  <1> USE DEF Spliced
  <1> DEFINE h == Anchor(t)
             g == Anchor(r)
             a == nx[h]
  <1>0. /\ h \notin Tasks /\ g \notin Tasks /\ g # h /\ h \in L /\ g \in L
        /\ O[h] = t /\ O[g] = r
    BY NodeFacts
  <1>1. a \in K
    BY FirstOfList
  <1>2. /\ \A n \in L : O[n] = t => n \in K \/ n = h
        /\ \A n \in L : O[n] = r => n \in Tasks \/ n = g
    BY NodeFacts
  <1>3. /\ ny[h] = h
        /\ \A n \in L \ {h} : ny[n] = IF nx[n] = h THEN g
                                      ELSE IF nx[n] = g THEN a ELSE nx[n]
    OBVIOUS
  <1> HIDE DEF h, g
  <1>4. \A n \in L : nx[n] \in L /\ O[nx[n]] = O[n]
    BY DEF Chain
  <1>5. \A m, n \in L : nx[m] = nx[n] => m = n
    BY DEF Chain
  <1>6. ASSUME NEW n \in L
        PROVE  ny[n] \in L /\ P[ny[n]] = P[n]
    <2>1. CASE n = h
      BY <1>0, <1>3, <2>1
    <2>2. CASE n # h /\ nx[n] = h
      <3>1. n \in K
        BY <1>0, <1>2, <1>4, <2>2
      <3> QED
        BY <1>0, <1>3, <2>2, <3>1
    <2>3. CASE n # h /\ nx[n] = g
      <3>1. O[n] = r /\ n \notin K
        BY <1>0, <1>4, <2>3
      <3>2. ny[n] = a
        BY <1>0, <1>3, <2>3
      <3> QED
        BY <1>0, <1>1, <3>1, <3>2
    <2>4. CASE n # h /\ nx[n] # h /\ nx[n] # g
      <3>1. ny[n] = nx[n] /\ nx[n] \in L /\ O[nx[n]] = O[n]
        BY <1>3, <1>4, <2>4
      <3>2. n \in K <=> nx[n] \in K
        BY <1>0, <1>2, <2>4, <3>1
      <3> QED
        BY <3>1, <3>2
    <2> QED
      BY <2>1, <2>2, <2>3, <2>4
  <1>7. ASSUME NEW m \in L, NEW n \in L, ny[m] = ny[n]
        PROVE  m = n
    <2>1. a # h /\ a # g /\ a \in L
      BY <1>0, <1>1
    <2>2. \A x \in L : x # h => ny[x] # h
      BY <1>3, <1>0, <2>1
    <2>3. CASE m = h \/ n = h
      BY <1>3, <1>7, <2>2, <2>3
    <2>4. CASE m # h /\ n # h
      <3>1. nx[m] # a /\ nx[n] # a
        BY <1>0, <1>5, <2>4
      <3>2. nx[m] = nx[n]
        BY <1>3, <1>7, <2>1, <2>4, <3>1
      <3> QED
        BY <1>5, <3>2
    <2> QED
      BY <2>3, <2>4
  <1>8. ASSUME NEW S \in SUBSET (L \cap Tasks), \A n \in S : ny[n] \in S
        PROVE  S = {}
    <2>1. \A n \in S \cap K : nx[n] \in S \cap K
      <3>1. SUFFICES ASSUME NEW n \in S \cap K
                     PROVE  nx[n] \in S \cap K
        OBVIOUS
      <3>2. nx[n] # h /\ nx[n] # g
        BY <1>0, <1>3, <1>4, <1>8
      <3> QED
        BY <1>0, <1>2, <1>3, <1>4, <1>8, <3>2
    <2>2. S \cap K = {}
      BY <2>1 DEF Chain
    <2>3. \A n \in S : nx[n] \in S
      BY <1>0, <1>1, <1>3, <1>8, <2>2
    <2> QED
      BY <2>3 DEF Chain
  <1> QED
    BY <1>6, <1>7, <1>8 DEF Chain

\* The lists at the beginning.
LEMMA FirstList ==
    ASSUME NEW k \in Kinds, NEW n \in Nodes
    PROVE  /\ FirstBehind(k, n) \subseteq Started \ {Root}
           /\ FirstOwner(k, n) \in Tasks
           /\ FirstBehind(k, n) = {} => FirstNext[k][n] = Anchor(FirstOwner(k, n))
           /\ FirstBehind(k, n) # {} =>
                /\ FirstNext[k][n] \in FirstBehind(k, n)
                /\ \A u \in FirstBehind(k, n) :
                     FirstPlace(FirstNext[k][n]) <= FirstPlace(u)
  <1>1. FirstBehind(k, n) \subseteq Started \ {Root}
    BY DEF FirstBehind
  <1>2. FirstOwner(k, n) \in Tasks
    BY NodeFacts, BoreInheritAssumption DEF FirstOwner
  <1>3. FirstNext[k][n] = IF FirstBehind(k, n) = {} THEN Anchor(FirstOwner(k, n))
                          ELSE CHOOSE t \in FirstBehind(k, n) :
                            \A u \in FirstBehind(k, n) : FirstPlace(t) <= FirstPlace(u)
    BY DEF FirstNext
  <1>4. CASE FirstBehind(k, n) # {}
    <2> DEFINE T == {FirstPlace(t) : t \in FirstBehind(k, n)}
    <2>1. T \in SUBSET Nat /\ T # {}
      <3>1. \A t \in Started : FirstPlace(t) \in Nat
        BY BoreInheritAssumption DEF FirstPlace
      <3> QED
        BY <1>1, <1>4, <3>1
    <2>2. PICK x \in T : \A y \in T : x <= y
      BY <2>1, LeastNat
    <2>3. \E t \in FirstBehind(k, n) :
             \A u \in FirstBehind(k, n) : FirstPlace(t) <= FirstPlace(u)
      BY <2>2
    <2> QED
      BY <1>1, <1>2, <1>3, <1>4, <2>3
  <1> QED
    BY <1>1, <1>2, <1>3, <1>4

LEMMA FirstChain ==
    ASSUME NEW k \in Kinds, NEW L, NEW O,
           L = Heads \cup {u \in Started \ {Root} : k = "subtree" => FirstLeader[u] = u},
           \A n \in Nodes : O[n] = FirstOwner(k, n)
    PROVE  Chain(L, O, FirstNext[k])
  <1> DEFINE nx == FirstNext[k]
             place(n) == FirstPlace(n)
             behind(n) == FirstBehind(k, n)
  <1>1. L \subseteq Nodes /\ Started \subseteq Tasks
    BY NodeFacts, BoreInheritAssumption
  <1>2. \A n \in Nodes : place(n) \in Nat
    BY BoreInheritAssumption DEF FirstPlace
  <1>3. \A n \in L : behind(n) = {u \in L \cap Tasks : O[u] = O[n] /\ place(n) < place(u)}
    BY <1>1, NodeFacts DEF FirstBehind
  <1>4. ASSUME NEW n \in L
        PROVE  /\ O[n] \in Tasks
               /\ behind(n) = {} => nx[n] = Anchor(O[n])
               /\ behind(n) # {} => nx[n] \in behind(n)
                                    /\ \A u \in behind(n) : place(nx[n]) <= place(u)
    BY <1>1, FirstList
  <1>5. \A t \in Tasks : O[Anchor(t)] = t /\ Anchor(t) \in L /\ Anchor(t) \notin Tasks
    BY NodeFacts DEF FirstOwner
  <1>6. ASSUME NEW m \in L, NEW n \in L, O[m] = O[n], place(m) = place(n)
        PROVE  m = n
    <2>1. \A t \in Tasks : place(t) > 0
      BY BoreInheritAssumption DEF FirstPlace
    <2>2. m \in Tasks <=> n \in Tasks
      BY <1>6, <2>1 DEF FirstPlace
    <2>3. CASE m \in Tasks
      <3>1. m \in Started /\ n \in Started /\ StartOrder[m] = StartOrder[n]
        BY <1>6, <2>2, <2>3, NodeFacts DEF FirstPlace
      <3> QED
        BY <3>1, BoreInheritAssumption
    <2>4. CASE m \notin Tasks
      BY <1>1, <1>6, <2>2, <2>4, NodeFacts DEF FirstOwner
    <2> QED
      BY <2>3, <2>4
  <1> HIDE DEF nx, place, behind
  <1>7. \A n \in L : nx[n] \in L /\ O[nx[n]] = O[n]
    BY <1>3, <1>4, <1>5
  <1>8. ASSUME NEW m \in L, NEW n \in L, nx[m] = nx[n], place(m) < place(n)
        PROVE  FALSE
    <2>1. O[m] = O[n] /\ place(n) \in Nat /\ place(m) \in Nat
      BY <1>1, <1>2, <1>7, <1>8
    <2>2. CASE n \in Tasks
      <3>1. n \in behind(m)
        BY <1>3, <1>8, <2>1, <2>2
      <3>2. nx[m] \in behind(m) /\ place(nx[m]) <= place(n)
        BY <1>4, <3>1
      <3>3. nx[n] \in behind(n)
        BY <1>3, <1>4, <1>5, <1>8, <3>2
      <3>4. place(n) < place(nx[n]) /\ place(nx[n]) \in Nat
        BY <1>1, <1>2, <1>3, <1>7, <3>3
      <3> QED
        BY <1>8, <2>1, <3>2, <3>4
    <2>3. CASE n \notin Tasks
      <3>1. place(n) = 0
        BY <2>3 DEF place, FirstPlace
      <3> QED
        BY <1>8, <2>1, <3>1
    <2> QED
      BY <2>2, <2>3
  <1>9. ASSUME NEW m \in L, NEW n \in L, nx[m] = nx[n]
        PROVE  m = n
    <2>1. O[m] = O[n] /\ place(n) \in Nat /\ place(m) \in Nat
      BY <1>1, <1>2, <1>7, <1>9
    <2>2. place(m) = place(n)
      BY <1>8, <1>9, <2>1
    <2> QED
      BY <1>6, <2>1, <2>2
  <1>10. ASSUME NEW S \in SUBSET (L \cap Tasks), \A n \in S : nx[n] \in S, S # {}
         PROVE  FALSE
    <2> DEFINE N == Cardinality(Tasks)
               T == {N - place(n) : n \in S}
    <2>1. N \in Nat
      BY BoreInheritAssumption, FS_CardinalityType
    <2>2. \A n \in S : place(n) \in Nat /\ place(n) <= N /\ N - place(n) \in Nat
      BY <2>1, BoreInheritAssumption DEF place, FirstPlace
    <2>3. T \in SUBSET Nat /\ T # {}
      BY <1>10, <2>2
    <2>4. PICK x \in T : \A y \in T : x <= y
      BY <2>3, LeastNat
    <2>5. PICK n \in S : x = N - place(n)
      BY <2>4
    <2>6. nx[n] \in S /\ place(n) < place(nx[n])
      BY <1>3, <1>4, <1>5, <1>10
    <2>7. N - place(nx[n]) \in T
      BY <2>6
    <2>8. N - place(n) <= N - place(nx[n])
      BY <2>4, <2>5, <2>7
    <2> QED
      BY <2>1, <2>2, <2>6, <2>8
  <1> QED
    BY <1>7, <1>9, <1>10 DEF Chain, nx

-----------------------------------------------------------------------------
(* The trees and lists of tasks, and the types *)

\* What the constants say.
LEMMA Constants ==
    /\ Root \in Tasks /\ FirstTime \in Nat /\ LastTime \in Nat /\ Lifetime \in Nat
    /\ ScanLimit \in Nat /\ SampleLimit \in Nat /\ SampleLimit >= 1
    /\ pow2[Shift] \in Nat /\ pow2[Shift] >= 1
    /\ pow2[HalfBits] \in Nat /\ pow2[HalfBits] >= 1
    /\ 0 \in Halves /\ Penalties \subseteq Halves /\ Garbage \subseteq Halves
    /\ LastTime \div pow2[Shift] \in Nat
    /\ Halves \subseteq Nat
  <1>1. /\ Root \in Tasks /\ FirstTime \in Nat /\ LastTime \in Nat /\ Lifetime \in Nat
        /\ ScanLimit \in Nat
    BY BoreInheritAssumption
  <1>2. SampleLimit \in Nat /\ SampleLimit >= 1
    BY BoreMathAssumption
  <1>3. Shift \in 0 .. Bits /\ HalfBits \in 0 .. Bits
    BY BoreMathAssumption, BoreInheritAssumption
  <1>4. /\ pow2[Shift] \in Nat /\ pow2[Shift] >= 1
        /\ pow2[HalfBits] \in Nat /\ pow2[HalfBits] >= 1
    BY <1>3, Powers
  <1>5. 0 \in Halves /\ Penalties \subseteq Halves /\ Garbage \subseteq Halves
    <2>1. MAX_BURST_PENALTY \in Nat /\ MAX_BURST_PENALTY < pow2[HalfBits]
      BY MaxNat, BoreMathAssumption
    <2>2. 0 .. MAX_BURST_PENALTY \subseteq Halves /\ 0 \in Halves
      BY <1>4, <2>1 DEF Halves
    <2>3. Penalties \subseteq 0 .. MAX_BURST_PENALTY /\ Garbage \subseteq Halves
      BY BoreInheritAssumption DEF Halves
    <2> QED
      BY <2>2, <2>3
  <1>6. ASSUME NEW a \in Nat, NEW b \in Nat, b >= 1
        PROVE  a \div b \in Nat
    BY <1>6
  <1> QED
    BY <1>1, <1>2, <1>4, <1>5, <1>6 DEF Halves

LEMMA IdleTyped == Idle \in Calls /\ Bounded(Idle)
  <1>1. Root \in Tasks /\ Root \in Nodes
    BY Constants, NodeFacts
  <1>2. Idle \in Calls
    BY <1>1 DEF Idle, Calls, Pcs, Kinds
  <1>3. Bounded(Idle)
    BY Constants DEF Bounded, Idle, Descending
  <1> QED
    BY <1>2, <1>3

LEMMA UnfilledTyped == Unfilled \in Caches
  BY Constants DEF Unfilled, Caches

LEMMA InitTree == Init => TreeInv
  <1> SUFFICES ASSUME Init
               PROVE  TreeInv
    OBVIOUS
  <1> USE DEF Init
  <1>1. TreeTyped
    <2>1. FirstNext \in [Kinds -> [Nodes -> Nodes]]
      <3>1. ASSUME NEW k \in Kinds, NEW n \in Nodes
            PROVE  FirstNext[k][n] \in Nodes
        <4>1. FirstBehind(k, n) \subseteq Nodes
          BY FirstList, NodeFacts, BoreInheritAssumption
        <4>2. Anchor(FirstOwner(k, n)) \in Nodes
          BY FirstList, NodeFacts
        <4> QED
          BY <4>1, <4>2, FirstList
      <3> QED
        BY <3>1 DEF FirstNext
    <2> QED
      BY <2>1, BoreInheritAssumption DEF TreeTyped
  <1>2. ForkTyped
    BY IdleTyped DEF ForkTyped
  <1>3. TimeTyped
    BY Constants, BoreInheritAssumption DEF TimeTyped, Idle
  <1>4. ValuesTyped
    <2>1. penalty \in [Tasks -> Halves] /\ bc \in [Kinds -> [Tasks -> Caches]]
      BY Constants, UnfilledTyped
    <2>2. \A k \in Kinds, t \in Tasks : bc[k][t].timestamp = 0
      BY DEF Unfilled
    <2> QED
      BY <2>1, <2>2, Constants DEF ValuesTyped
  <1>5. ListsSound
    <2> SUFFICES ASSUME NEW k \in Kinds
                 PROVE  Chain(Node(k), Owner(k), nxt[k])
      BY DEF ListsSound
    <2>1. Node(k) = Heads \cup {u \in Started \ {Root} : k = "subtree" => FirstLeader[u] = u}
      BY BoreInheritAssumption DEF Node, Hashed
    <2>2. \A n \in Nodes : Owner(k)[n] = FirstOwner(k, n)
      BY DEF Owner, FirstOwner
    <2> QED
      BY <2>1, <2>2, FirstChain
  <1>6. TreeSound
    BY BoreInheritAssumption DEF TreeSound, Hashed
  <1>7. ForksSound
    BY DEF ForksSound, InRcu, Idle
  <1> QED
    BY <1>1, <1>2, <1>3, <1>4, <1>5, <1>6, <1>7 DEF TreeInv, TypeInv

LEMMA NodesTyped ==
    ASSUME TreeTyped, NEW k \in Kinds
    PROVE  /\ Node(k) \subseteq Nodes /\ Heads \subseteq Node(k)
           /\ \A n \in Nodes : Owner(k)[n] \in Tasks /\ nxt[k][n] \in Nodes
           /\ \A t \in Tasks : Owner(k)[Anchor(t)] = t
  <1>1. Node(k) \subseteq Nodes /\ Heads \subseteq Node(k)
    BY NodeFacts DEF Node
  <1>2. \A n \in Nodes : Owner(k)[n] \in Tasks /\ nxt[k][n] \in Nodes
    BY NodeFacts DEF Owner, TreeTyped
  <1>3. \A t \in Tasks : Owner(k)[Anchor(t)] = t
    BY NodeFacts DEF Owner
  <1> QED
    BY <1>1, <1>2, <1>3

\* A list head leads to itself or to a task of its list.
LEMMA HeadLeads ==
    ASSUME TreeTyped, ListsSound, NEW k \in Kinds, NEW t \in Tasks
    PROVE  /\ nxt[k][Anchor(t)] \in Node(k) /\ Owner(k)[nxt[k][Anchor(t)]] = t
           /\ nxt[k][Anchor(t)] = Anchor(t) \/ nxt[k][Anchor(t)] \in Tasks
  <1>1. Anchor(t) \in Node(k) /\ Owner(k)[Anchor(t)] = t
    BY NodesTyped, NodeFacts
  <1>2. nxt[k][Anchor(t)] \in Node(k) /\ Owner(k)[nxt[k][Anchor(t)]] = t
    BY <1>1 DEF ListsSound, Chain
  <1>3. nxt[k][Anchor(t)] \notin Tasks => nxt[k][Anchor(t)] = Anchor(t)
    <2>1. \A n \in Node(k) : n \notin Tasks => n = Anchor(Owner(k)[n])
      BY NodesTyped, NodeFacts DEF Owner
    <2> QED
      BY <1>2, <2>1
  <1> QED
    BY <1>2, <1>3

\* A step of the hook before its end leaves most of its locals alone.
Keeps(c, new) ==
    /\ c.pc # "idle" /\ new.pc # "idle"
    /\ new.child = c.child /\ new.kind = c.kind /\ new.hub = c.hub
    /\ new.now = c.now /\ new.floor = c.floor

LEMMA OneFork ==
    ASSUME ForkTyped, NEW f \in Tasks, NEW new \in Calls,
           fork' = [fork EXCEPT ![f] = new], Bounded(new)
    PROVE  /\ ForkTyped' /\ fork'[f] = new
           /\ \A g \in Tasks : g # f => fork'[g] = fork[g]
  BY DEF ForkTyped, Bounded

LEMMA ClimbTyped ==
    ASSUME TreeInv, NEW f \in Tasks, Climb(f)
    PROVE  \E new \in Calls : Locally(f, new) /\ Bounded(new) /\ Keeps(fork[f], new)
  <1>1. PICK c \in Calls : c = fork[f]
    BY DEF TreeInv, TypeInv, ForkTyped
  <1>2. Bounded(c)
    BY <1>1 DEF TreeInv, TypeInv, ForkTyped
  <1>3. parent[c.anc] \in Tasks /\ nxt["subtree"][Anchor(c.anc)] \in Nodes
    <2>1. c.anc \in Tasks /\ Anchor(c.anc) \in Nodes /\ "subtree" \in Kinds
      BY NodeFacts DEF Calls, Kinds
    <2> QED
      BY <2>1 DEF TreeInv, TypeInv, TreeTyped
  <1>4. CASE c.pc = "up" /\ Locally(f, IF parent[c.anc] = c.anc
                         THEN [c EXCEPT !.pc = "check"]
                         ELSE [c EXCEPT !.pc = "first", !.up = parent[c.anc]])
    <2> DEFINE n1 == [c EXCEPT !.pc = "check"]
               n2 == [c EXCEPT !.pc = "first", !.up = parent[c.anc]]
    <2>1. n1 \in Calls /\ Bounded(n1) /\ Keeps(c, n1)
      BY <1>2, <1>4 DEF Calls, Pcs, Bounded, Descending, Keeps
    <2>2. n2 \in Calls /\ Bounded(n2) /\ Keeps(c, n2)
      BY <1>2, <1>3, <1>4 DEF Calls, Pcs, Bounded, Descending, Keeps
    <2> QED
      BY <1>1, <1>4, <2>1, <2>2
  <1>5. CASE c.pc = "first"
             /\ Locally(f, [c EXCEPT !.pc = "second",
                                     !.first = nxt["subtree"][Anchor(c.anc)]])
    <2> DEFINE n1 == [c EXCEPT !.pc = "second", !.first = nxt["subtree"][Anchor(c.anc)]]
    <2>1. n1 \in Calls /\ Bounded(n1) /\ Keeps(c, n1)
      BY <1>2, <1>3, <1>5 DEF Calls, Pcs, Bounded, Descending, Keeps
    <2> QED
      BY <1>1, <1>5, <2>1
  <1>6. CASE c.pc = "second"
             /\ Locally(f, IF count_children_upto2(c.anc, c.first) <= SoleChildren(c)
                           THEN [c EXCEPT !.pc = "up", !.anc = c.up, !.sole = 1]
                           ELSE [c EXCEPT !.pc = "check"])
    <2> DEFINE n1 == [c EXCEPT !.pc = "up", !.anc = c.up, !.sole = 1]
               n2 == [c EXCEPT !.pc = "check"]
    <2>1. n1 \in Calls /\ Bounded(n1) /\ Keeps(c, n1)
      BY <1>2, <1>6 DEF Calls, Pcs, Bounded, Descending, Keeps
    <2>2. n2 \in Calls /\ Bounded(n2) /\ Keeps(c, n2)
      BY <1>2, <1>6 DEF Calls, Pcs, Bounded, Descending, Keeps
    <2> QED
      BY <1>1, <1>6, <2>1, <2>2
  <1> QED
    BY <1>1, <1>4, <1>5, <1>6 DEF Climb

LEMMA CheckTyped ==
    ASSUME TreeInv, NEW f \in Tasks, Check(f)
    PROVE  \E new \in Calls : Locally(f, new) /\ Bounded(new) /\ Keeps(fork[f], new)
  <1>1. PICK c \in Calls : c = fork[f]
    BY DEF TreeInv, TypeInv, ForkTyped
  <1>2. Bounded(c) /\ c.pc = "check"
    BY <1>1 DEF TreeInv, TypeInv, ForkTyped, Check
  <1>3. Anchor(c.anc) \in Nodes
    BY NodeFacts DEF Calls
  <1> DEFINE n1 == [c EXCEPT !.pc = "scan", !.cursor = Anchor(c.anc)]
             n2 == [c EXCEPT !.pc = "read"]
  <1>4. n1 \in Calls /\ Bounded(n1) /\ Keeps(c, n1)
    BY <1>2, <1>3 DEF Calls, Pcs, Bounded, Descending, Keeps
  <1>5. n2 \in Calls /\ Bounded(n2) /\ Keeps(c, n2)
    BY <1>2 DEF Calls, Pcs, Bounded, Descending, Keeps
  <1>6. Locally(f, n1) \/ Locally(f, n2)
    BY <1>1 DEF Check
  <1> QED
    BY <1>1, <1>4, <1>5, <1>6

LEMMA ScanTyped ==
    ASSUME TreeInv, NEW f \in Tasks, Scan(f)
    PROVE  \E new \in Calls : Locally(f, new) /\ Bounded(new) /\ Keeps(fork[f], new)
  <1>1. PICK c \in Calls : c = fork[f]
    BY DEF TreeInv, TypeInv, ForkTyped
  <1>2. Bounded(c) /\ c.pc = "scan"
    BY <1>1 DEF TreeInv, TypeInv, ForkTyped, Scan
  <1> DEFINE n == nxt[c.kind][c.cursor]
  <1>3. n \in Nodes
    BY DEF TreeInv, TypeInv, TreeTyped, Calls
  <1> HIDE DEF n
  <1> DEFINE n1 == [c EXCEPT !.pc = "update"]
             p == IF c.hub /\ n \in Tasks THEN "down" ELSE "sample"
             n2 == [c EXCEPT !.cursor = n, !.scans = c.scans + 1, !.pc = p, !.desc = n]
  <1>4. n1 \in Calls /\ Bounded(n1) /\ Keeps(c, n1)
    BY <1>2 DEF Calls, Pcs, Bounded, Descending, Keeps
  <1>5. Locally(f, n1) \/ (~AtLimit(c) /\ Locally(f, n2))
    <2>1. [[c EXCEPT !.cursor = n, !.scans = c.scans + 1] EXCEPT !.pc = p, !.desc = n] = n2
      BY DEF Calls
    <2> QED
      BY <1>1, <2>1 DEF Scan, n, Scanned
  <1>6. CASE ~AtLimit(c) /\ Locally(f, n2)
    <2>1. c.count < SampleLimit /\ c.scans + 1 <= ScanLimit /\ c.scans + 1 \in Nat
      BY <1>6, Constants, SMTT(30) DEF AtLimit, Calls
    <2>2. p \in Pcs /\ p # "idle" /\ (p \in Descending => n \in Tasks)
      BY DEF Pcs, Descending
    <2> HIDE DEF p
    <2>3. n2 \in Calls
      BY <1>3, <2>1, <2>2 DEF Calls
    <2>4. Bounded(n2)
      BY <1>2, <2>1, <2>2 DEF Calls, Bounded
    <2>5. Keeps(c, n2)
      BY <1>2, <2>2 DEF Calls, Keeps
    <2> QED
      BY <1>1, <1>6, <2>3, <2>4, <2>5
  <1> QED
    BY <1>1, <1>4, <1>5, <1>6

LEMMA DescendTyped ==
    ASSUME TreeInv, NEW f \in Tasks, Descend(f)
    PROVE  \E new \in Calls : Locally(f, new) /\ Bounded(new) /\ Keeps(fork[f], new)
  <1>1. PICK c \in Calls : c = fork[f]
    BY DEF TreeInv, TypeInv, ForkTyped
  <1>2. Bounded(c) /\ c.pc \in Descending
    BY <1>1 DEF TreeInv, TypeInv, ForkTyped, Descend, Descending
  <1>3. c.desc \in Tasks /\ c.count < SampleLimit
    BY <1>2 DEF Bounded
  <1> DEFINE n == nxt["subtree"][Anchor(c.desc)]
  <1>4. n \in Nodes /\ (n = Anchor(c.desc) \/ n \in Tasks)
    <2>1. "subtree" \in Kinds
      BY DEF Kinds
    <2> QED
      BY <1>3, <2>1, HeadLeads, NodesTyped DEF TreeInv, TypeInv
  <1> HIDE DEF n
  <1> DEFINE n1 == [c EXCEPT !.pc = "down2", !.first = n]
             n2 == [c EXCEPT !.pc = "down3"]
             n3 == [c EXCEPT !.pc = "sample"]
             n4 == [c EXCEPT !.pc = "down", !.desc = n]
  <1>5. \/ Locally(f, n1) \/ Locally(f, n2) \/ Locally(f, n3)
        \/ n # Anchor(c.desc) /\ Locally(f, n4)
    BY <1>1 DEF Descend, n
  <1>6. n1 \in Calls /\ Bounded(n1) /\ Keeps(c, n1)
    BY <1>2, <1>3, <1>4 DEF Calls, Pcs, Bounded, Descending, Keeps
  <1>7. n2 \in Calls /\ Bounded(n2) /\ Keeps(c, n2)
    BY <1>2, <1>3 DEF Calls, Pcs, Bounded, Descending, Keeps
  <1>8. n3 \in Calls /\ Bounded(n3) /\ Keeps(c, n3)
    BY <1>2, <1>3 DEF Calls, Pcs, Bounded, Descending, Keeps
  <1>9. n \in Tasks => n4 \in Calls /\ Bounded(n4) /\ Keeps(c, n4)
    BY <1>2, <1>3, <1>4 DEF Calls, Pcs, Bounded, Descending, Keeps
  <1> QED
    BY <1>1, <1>4, <1>5, <1>6, <1>7, <1>8, <1>9

\* What a sample adds to the locals.
Sampled(c, n, p, at) ==
    [c EXCEPT !.pc = "scan", !.count = c.count + 1, !.total = c.total + p,
              !.seen = Append(c.seen, [task |-> n, penalty |-> p, at |-> at])]

LEMMA SampleCases ==
    ASSUME TreeInv, NEW f \in Tasks, TakeSample(f)
    PROVE  /\ fork[f].pc = "sample"
           /\ \/ \E p \in Samples(fork[f].desc) :
                   p \in Halves /\ Locally(f, Sampled(fork[f], fork[f].desc, p, clock))
              \/ Locally(f, [fork[f] EXCEPT !.pc = "scan"])
  <1>1. PICK c \in Calls : c = fork[f]
    BY DEF TreeInv, TypeInv, ForkTyped
  <1>2. Samples(c.desc) \subseteq Halves
    BY Constants DEF Samples, TreeInv, TypeInv, ValuesTyped, Calls
  <1> DEFINE d == [c EXCEPT !.pc = "scan"]
             r(p) == [task |-> c.desc, penalty |-> p, at |-> clock]
  <1>3. \A p : [d EXCEPT !.count = d.count + 1, !.total = d.total + p,
                         !.seen = Append(d.seen, r(p))]
               = Sampled(c, c.desc, p, clock)
    BY DEF Calls, Sampled
  <1>4. c.pc = "sample" /\ Sample(f, c.desc)
    BY <1>1 DEF TakeSample
  <1>5. \/ \E p \in Samples(c.desc) :
             Locally(f, [d EXCEPT !.count = d.count + 1, !.total = d.total + p,
                                  !.seen = Append(d.seen, r(p))])
        \/ Locally(f, d)
    BY <1>1, <1>4 DEF Sample
  <1>6. ASSUME NEW p \in Samples(c.desc),
               Locally(f, [d EXCEPT !.count = d.count + 1, !.total = d.total + p,
                                    !.seen = Append(d.seen, r(p))])
        PROVE  p \in Halves /\ Locally(f, Sampled(c, c.desc, p, clock))
    <2> HIDE DEF d, r
    <2>1. Locally(f, Sampled(c, c.desc, p, clock))
      BY <1>3, <1>6
    <2> QED
      BY <1>2, <2>1
  <1>7. \/ \E p \in Samples(c.desc) :
             p \in Halves /\ Locally(f, Sampled(c, c.desc, p, clock))
        \/ Locally(f, d)
    <2> HIDE DEF d, r
    <2> QED
      BY <1>5, <1>6
  <1> QED
    BY <1>1, <1>4, <1>7

LEMMA SampleTyped ==
    ASSUME TreeInv, NEW f \in Tasks, TakeSample(f)
    PROVE  \E new \in Calls : Locally(f, new) /\ Bounded(new) /\ Keeps(fork[f], new)
  <1>1. PICK c \in Calls : c = fork[f]
    BY DEF TreeInv, TypeInv, ForkTyped
  <1>2. Bounded(c) /\ c.pc = "sample" /\ clock \in Nat
    <2>1. Bounded(c)
      BY <1>1 DEF TreeInv, TypeInv, ForkTyped
    <2>2. clock \in Nat
      BY Constants DEF TreeInv, TypeInv, TimeTyped
    <2>3. c.pc = "sample"
      BY <1>1 DEF TakeSample
    <2> QED
      BY <2>1, <2>2, <2>3
  <1>3. CASE Locally(f, [c EXCEPT !.pc = "scan"])
    <2> DEFINE new == [c EXCEPT !.pc = "scan"]
    <2>1. new \in Calls /\ Bounded(new) /\ Keeps(c, new)
      BY <1>2 DEF Calls, Pcs, Bounded, Descending, Keeps
    <2> QED
      BY <1>1, <1>3, <2>1
  <1>4. ASSUME NEW p \in Halves, Locally(f, Sampled(c, c.desc, p, clock))
        PROVE  \E new \in Calls : Locally(f, new) /\ Bounded(new) /\ Keeps(c, new)
    <2> DEFINE new == Sampled(c, c.desc, p, clock)
               r == [task |-> c.desc, penalty |-> p, at |-> clock]
               s == Append(c.seen, r)
    <2>1. r \in Reads /\ c.seen \in Seq(Reads)
      BY <1>2 DEF Reads, Calls
    <2>2. s \in Seq(Reads) /\ Len(s) = Len(c.seen) + 1
      <3> HIDE DEF r
      <3> QED
        BY <2>1
    <2>3. c.count + 1 \in Nat /\ c.total + p \in Nat
      BY Constants DEF Calls
    <2> HIDE DEF s
    <2>4. new = [c EXCEPT !.pc = "scan", !.count = c.count + 1,
                          !.total = c.total + p, !.seen = s]
      BY DEF Sampled, s
    <2> HIDE DEF new
    <2>5. new \in Calls
      BY <2>2, <2>3, <2>4 DEF Calls, Pcs
    <2>6. /\ new.pc = "scan" /\ new.count = c.count + 1 /\ new.total = c.total + p
          /\ new.seen = s /\ new.scans = c.scans
      BY <2>4 DEF Calls
    <2>7. c.total + p <= (c.count + 1) * (pow2[HalfBits] - 1)
      <3>1. /\ c.total \in Nat /\ c.count \in Nat /\ p \in Nat
            /\ p <= pow2[HalfBits] - 1 /\ pow2[HalfBits] \in Nat
            /\ c.total <= c.count * (pow2[HalfBits] - 1)
        BY <1>2, Constants DEF Calls, Bounded, Halves
      <3>2. \A a, b \in Nat, h \in Int : (b + 1) * h = b * h + h
        OBVIOUS
      <3>3. (c.count + 1) * (pow2[HalfBits] - 1)
              = c.count * (pow2[HalfBits] - 1) + (pow2[HalfBits] - 1)
        BY <3>1, <3>2
      <3>4. \A a, b, x, y \in Int : a <= b /\ x <= y => a + x <= b + y
        OBVIOUS
      <3>5. c.count * (pow2[HalfBits] - 1) \in Int
        BY <3>1
      <3> QED
        BY <3>1, <3>3, <3>4, <3>5
    <2>8. Bounded(new)
      BY <1>2, <2>2, <2>6, <2>7, Constants DEF Bounded, Descending, Calls
    <2>9. Keeps(c, new)
      BY <1>2, <2>4 DEF Calls, Keeps
    <2> QED
      BY <1>4, <2>5, <2>8, <2>9 DEF new
  <1> QED
    BY <1>1, <1>3, <1>4, SampleCases

\* The other steps of the hook before its end.
LocalStep(f) == Climb(f) \/ Check(f) \/ Scan(f) \/ Descend(f) \/ TakeSample(f)

LEMMA LocalTyped ==
    ASSUME TreeInv, NEW f \in Tasks, LocalStep(f)
    PROVE  \E new \in Calls : Locally(f, new) /\ Bounded(new) /\ Keeps(fork[f], new)
  BY ClimbTyped, CheckTyped, ScanTyped, DescendTyped, SampleTyped DEF LocalStep

\* The trees do not change when their variables do not.
LEMMA TreeSame ==
    ASSUME UNCHANGED tree
    PROVE  /\ TreeTyped => TreeTyped'
           /\ ListsSound => ListsSound'
           /\ TreeSound => TreeSound'
           /\ \A k \in Kinds : Node(k)' = Node(k) /\ Owner(k)' = Owner(k)
           /\ \A t \in Tasks : Hashed(t)' = Hashed(t)
  <1>1. \A t \in Tasks : Hashed(t)' = Hashed(t)
    BY DEF tree, Hashed
  <1>2. \A k \in Kinds : Node(k)' = Node(k) /\ Owner(k)' = Owner(k)
    BY <1>1 DEF tree, Node, Owner
  <1>3. TreeTyped => TreeTyped'
    BY DEF tree, TreeTyped
  <1>4. ListsSound => ListsSound'
    BY <1>2 DEF tree, ListsSound, Chain
  <1>5. TreeSound => TreeSound'
    BY <1>1 DEF tree, TreeSound, Hashed
  <1> QED
    BY <1>1, <1>2, <1>3, <1>4, <1>5

\* A step of one fork that keeps its child, with the trees as they are.
LEMMA ForksKept ==
    ASSUME ForksSound, NEW f \in Tasks, UNCHANGED tree, fork'[f].pc # "idle",
           fork[f].pc # "idle", fork'[f].child = fork[f].child,
           fork'[f].kind = fork[f].kind,
           \A g \in Tasks : g # f => fork'[g] = fork[g]
    PROVE  ForksSound'
  <1>1. \A g \in Tasks : /\ InRcu(g)' = InRcu(g) /\ fork'[g].child = fork[g].child
                         /\ fork'[g].kind = fork[g].kind
    BY DEF InRcu
  <1>2. state' = state /\ leader' = leader
    BY DEF tree
  <1> QED
    BY <1>1, <1>2 DEF ForksSound

LEMMA LocalTree ==
    ASSUME TreeInv, NEW f \in Tasks, LocalStep(f)
    PROVE  TreeInv'
  <1>1. PICK new \in Calls : Locally(f, new) /\ Bounded(new) /\ Keeps(fork[f], new)
    BY LocalTyped
  <1>2. /\ fork' = [fork EXCEPT ![f] = new]
        /\ UNCHANGED <<clock, tree, penalty, bc>>
    BY <1>1 DEF Locally
  <1>3. /\ ForkTyped' /\ fork'[f] = new
        /\ \A g \in Tasks : g # f => fork'[g] = fork[g]
    BY <1>1, <1>2, OneFork DEF TreeInv, TypeInv
  <1>4. TreeTyped' /\ ListsSound' /\ TreeSound'
    BY <1>2, TreeSame DEF TreeInv, TypeInv
  <1>5. TimeTyped'
    BY <1>1, <1>2, <1>3 DEF TreeInv, TypeInv, TimeTyped, Keeps
  <1>6. ValuesTyped'
    BY <1>2 DEF TreeInv, TypeInv, ValuesTyped
  <1>7. ForksSound'
    BY <1>1, <1>2, <1>3, ForksKept DEF TreeInv, Keeps
  <1> QED
    BY <1>3, <1>4, <1>5, <1>6, <1>7 DEF TreeInv, TypeInv

\* Division.
LEMMA Quotient ==
    ASSUME NEW a \in Nat, NEW d \in Nat, d >= 1
    PROVE  /\ a \div d \in Nat
           /\ d * (a \div d) <= a /\ a < d * (a \div d) + d
  <1>1. a = d * (a \div d) + (a % d)
    OBVIOUS
  <1>2. a % d \in 0 .. d - 1 /\ a \div d \in Nat
    OBVIOUS
  <1>3. d * (a \div d) \in Int
    BY <1>2
  <1> QED
    BY <1>1, <1>2, <1>3

LEMMA QuotientBelow ==
    ASSUME NEW a \in Nat, NEW d \in Nat, d >= 1, NEW m \in Nat
    PROVE  /\ a < d * m + d => a \div d <= m
           /\ d * m <= a => m <= a \div d
  <1> DEFINE q == a \div d
  <1>1. q \in Nat /\ d * q <= a /\ a < d * q + d
    BY Quotient
  <1> HIDE DEF q
  <1>2. \A x, y \in Nat : x + 1 <= y => d * x + d <= d * y
    <2>1. SUFFICES ASSUME NEW x \in Nat, NEW y \in Nat, x + 1 <= y
                   PROVE  d * x + d <= d * y
      OBVIOUS
    <2>2. PICK z \in Nat : y = x + 1 + z
      BY <2>1
    <2>3. d * y = d * x + d + d * z /\ d * z >= 0
      BY <2>2
    <2> QED
      BY <2>3
  <1>3. d * m \in Int /\ d * q \in Int
    BY <1>1
  <1>4. m + 1 <= q => d * m + d <= d * q
    BY <1>1, <1>2
  <1>5. q + 1 <= m => d * q + d <= d * m
    BY <1>1, <1>2
  <1> QED
    BY <1>1, <1>3, <1>4, <1>5 DEF q

LEMMA AverageTyped ==
    ASSUME NEW c \in Calls, Bounded(c)
    PROVE  /\ Average(c.count, c.total) \in Halves
           /\ c.count = 0 => Average(c.count, c.total) = 0
           /\ c.count >= 1 => Average(c.count, c.total) = c.total \div c.count
  <1> DEFINE M == pow2[HalfBits] - 1
  <1>1. /\ c.count \in Nat /\ c.total \in Nat /\ M \in Nat
        /\ c.count <= SampleLimit /\ c.total <= c.count * M
    BY Constants, SMTT(30) DEF Calls, Bounded
  <1>2. CASE c.count = 0
    <2>1. c.total = 0
      BY <1>1, <1>2
    <2>2. bore_reciprocal_lut[0] = 0
      BY Constants DEF bore_reciprocal_lut
    <2>3. (0 * 0) \div Word = 0
      BY Powers
    <2> QED
      BY <1>2, <2>1, <2>2, <2>3, Constants DEF Average
  <1>3. CASE c.count >= 1
    <2>1. Average(c.count, c.total) = c.total \div c.count
      <3>1. (M + 1) * SampleLimit * (SampleLimit - 1) < Word
        <4>1. M + 1 = pow2[HalfBits]
          BY Constants
        <4> QED
          BY <4>1, BoreInheritAssumption
      <3>2. c.count \in 1 .. SampleLimit
        BY <1>1, <1>3, Constants
      <3> HIDE DEF M
      <3> QED
        BY <1>1, <3>1, <3>2, AverageIs
    <2>2. c.total \div c.count \in Nat /\ c.total \div c.count <= M
      <3>1. c.total < c.count * M + c.count
        <4>1. c.count * M \in Int
          BY <1>1
        <4> QED
          BY <1>1, <1>3, <4>1
      <3> HIDE DEF M
      <3> QED
        BY <1>1, <1>3, <3>1, Quotient, QuotientBelow
    <2> QED
      BY <1>1, <1>3, <2>1, <2>2 DEF Halves
  <1> QED
    BY <1>1, <1>2, <1>3

LEMMA StampBound ==
    ASSUME NEW c \in Calls, c.now <= LastTime
    PROVE  /\ Stamp(c) \in Nat /\ Stamp(c) <= LastTime \div pow2[Shift]
           /\ Stamp(c) * pow2[Shift] <= c.now
           /\ pow2[Shift] <= c.now => Stamp(c) >= 1
  <1> DEFINE d == pow2[Shift]
             q == LastTime \div d
             s == c.now \div d
  <1>1. d \in Nat /\ d >= 1 /\ LastTime \in Nat /\ c.now \in Nat
    BY Constants DEF Calls
  <1> HIDE DEF d
  <1>2. q \in Nat /\ LastTime < d * q + d /\ d * q \in Int
    BY <1>1, Quotient
  <1>3. s \in Nat /\ d * s <= c.now
    BY <1>1, Quotient
  <1>4. s <= q
    <2>1. c.now < d * q + d
      BY <1>1, <1>2
    <2> HIDE DEF q, s
    <2> QED
      BY <1>1, <1>2, <2>1, QuotientBelow DEF s
  <1>5. d <= c.now => 1 <= s
    <2>1. d * 1 = d /\ 1 \in Nat
      BY <1>1
    <2> QED
      BY <1>1, <2>1, QuotientBelow
  <1>6. s * d = d * s
    BY <1>1, <1>3
  <1> QED
    BY <1>3, <1>4, <1>5, <1>6 DEF Stamp, s, q, d

\* What is written into a cache.
LEMMA CacheTyped ==
    ASSUME TreeInv, NEW f \in Tasks, NEW c \in Calls, c = fork[f],
           NEW new,
           new = [timestamp |-> Stamp(c),
                  penalty |-> Larger(Average(c.count, c.total), penalty[c.anc]),
                  seen |-> c.seen]
    PROVE  /\ new \in Caches
           /\ new.timestamp = Stamp(c) /\ new.timestamp <= LastTime \div pow2[Shift]
           /\ new.seen = c.seen
           /\ new.penalty = Larger(Average(c.count, c.total), penalty[c.anc])
  <1>1. Bounded(c) /\ c.anc \in Tasks /\ penalty[c.anc] \in Halves
    BY DEF TreeInv, TypeInv, ForkTyped, ValuesTyped, Calls
  <1>2. c.now <= LastTime
    <2>1. c.now <= clock /\ clock <= LastTime /\ clock \in Nat /\ c.now \in Nat
      BY Constants DEF TreeInv, TypeInv, TimeTyped, Calls
    <2> QED
      BY <2>1, Constants
  <1>3. Average(c.count, c.total) \in Halves
    BY <1>1, AverageTyped
  <1>4. Larger(Average(c.count, c.total), penalty[c.anc]) \in Halves
    BY <1>1, <1>3 DEF Larger
  <1>5. Stamp(c) \in Nat /\ Stamp(c) <= LastTime \div pow2[Shift]
    BY <1>2, StampBound
  <1>6. c.seen \in Seq(Reads)
    BY DEF Calls
  <1> QED
    BY <1>4, <1>5, <1>6 DEF Caches

\* What the end of a scan does.
Writes(f, c, new, done) ==
    /\ c = fork[f] /\ c.pc = "update" /\ Bounded(c)
    /\ new = [timestamp |-> Stamp(c),
              penalty |-> Larger(Average(c.count, c.total), penalty[c.anc]),
              seen |-> c.seen]
    /\ bc' = [bc EXCEPT ![c.kind][c.anc] = new]
    /\ done = [c EXCEPT !.pc = "read"] /\ Bounded(done) /\ Keeps(c, done)
    /\ done.seen = c.seen /\ done.count = c.count /\ done.total = c.total
    /\ done.anc = c.anc /\ done.pc = "read"
    /\ fork' = [fork EXCEPT ![f] = done]
    /\ UNCHANGED <<clock, tree, penalty>>

LEMMA UpdateFacts ==
    ASSUME TreeInv, NEW f \in Tasks, update_burst_cache(f)
    PROVE  \E c \in Calls, new \in Caches, done \in Calls : Writes(f, c, new, done)
  <1>1. PICK c \in Calls : c = fork[f]
    BY DEF TreeInv, TypeInv, ForkTyped
  <1>2. Bounded(c) /\ c.pc = "update" /\ fork \in [Tasks -> Calls]
    BY <1>1 DEF TreeInv, TypeInv, ForkTyped, update_burst_cache
  <1> DEFINE new == [timestamp |-> Stamp(c),
                     penalty |-> Larger(Average(c.count, c.total), penalty[c.anc]),
                     seen |-> c.seen]
             done == [c EXCEPT !.pc = "read"]
  <1>3. new \in Caches
    BY <1>1, CacheTyped
  <1>4. /\ done \in Calls /\ Bounded(done) /\ Keeps(c, done)
        /\ done.seen = c.seen /\ done.count = c.count /\ done.total = c.total
        /\ done.anc = c.anc /\ done.pc = "read"
    BY <1>2 DEF Calls, Pcs, Bounded, Descending, Keeps
  <1>5. bc' = [bc EXCEPT ![c.kind][c.anc] = new] /\ UNCHANGED <<clock, tree, penalty>>
    BY <1>1 DEF update_burst_cache
  <1>6. fork' = [fork EXCEPT ![f] = done]
    BY <1>1, <1>2 DEF update_burst_cache
  <1> HIDE DEF new, done
  <1> QED
    BY <1>1, <1>2, <1>3, <1>4, <1>5, <1>6 DEF new, done, Writes

LEMMA OneCache ==
    ASSUME bc \in [Kinds -> [Tasks -> Caches]], NEW k \in Kinds, NEW t \in Tasks,
           NEW new \in Caches, bc' = [bc EXCEPT ![k][t] = new]
    PROVE  /\ bc' \in [Kinds -> [Tasks -> Caches]] /\ bc'[k][t] = new
           /\ \A j \in Kinds, u \in Tasks : j # k \/ u # t => bc'[j][u] = bc[j][u]
  OBVIOUS

LEMMA UpdateTree ==
    ASSUME TreeInv, NEW f \in Tasks, update_burst_cache(f)
    PROVE  TreeInv'
  <1>0. PICK c \in Calls, new \in Caches, done \in Calls : Writes(f, c, new, done)
    BY UpdateFacts
  <1>1. /\ c = fork[f] /\ c.pc = "update"
        /\ new = [timestamp |-> Stamp(c),
                  penalty |-> Larger(Average(c.count, c.total), penalty[c.anc]),
                  seen |-> c.seen]
        /\ bc' = [bc EXCEPT ![c.kind][c.anc] = new]
        /\ done = [c EXCEPT !.pc = "read"] /\ Bounded(done) /\ Keeps(c, done)
        /\ done.seen = c.seen /\ done.count = c.count /\ done.total = c.total
        /\ done.anc = c.anc /\ done.pc = "read"
        /\ fork' = [fork EXCEPT ![f] = done]
        /\ UNCHANGED <<clock, tree, penalty>>
    BY <1>0 DEF Writes
  <1>2. /\ ForkTyped' /\ fork'[f] = done
        /\ \A g \in Tasks : g # f => fork'[g] = fork[g]
    BY <1>1, OneFork DEF TreeInv, TypeInv
  <1>3. TreeTyped' /\ ListsSound' /\ TreeSound'
    BY <1>1, TreeSame DEF TreeInv, TypeInv
  <1>4. TimeTyped'
    BY <1>1, <1>2 DEF TreeInv, TypeInv, TimeTyped, Keeps
  <1>5. ValuesTyped'
    <2>1. c.kind \in Kinds /\ c.anc \in Tasks
      BY DEF Calls
    <2>2. /\ bc' \in [Kinds -> [Tasks -> Caches]] /\ bc'[c.kind][c.anc] = new
          /\ \A j \in Kinds, u \in Tasks :
                j # c.kind \/ u # c.anc => bc'[j][u] = bc[j][u]
      <3>1. bc \in [Kinds -> [Tasks -> Caches]]
        BY DEF TreeInv, TypeInv, ValuesTyped
      <3>2. bc' = [bc EXCEPT ![c.kind][c.anc] = new]
        BY <1>1
      <3> QED
        BY <2>1, <3>1, <3>2, OneCache
    <2>3. new.timestamp <= LastTime \div pow2[Shift]
      BY <1>1, CacheTyped
    <2> QED
      BY <1>1, <2>2, <2>3 DEF TreeInv, TypeInv, ValuesTyped
  <1>6. ForksSound'
    BY <1>1, <1>2, ForksKept DEF TreeInv, Keeps
  <1> QED
    BY <1>2, <1>3, <1>4, <1>5, <1>6 DEF TreeInv, TypeInv

\* The earliest time of the forks under way.
LEMMA FloorIs ==
    ASSUME TreeInv, NEW others,
           others = {fork[g].now : g \in {g \in Tasks : fork[g].pc # "idle"}},
           NEW x, x = CHOOSE z \in others \cup {clock} : \A y \in others : z <= y
    PROVE  x \in Nat /\ x <= clock /\ \A y \in others : x <= y
  <1>1. clock \in Nat
    BY Constants DEF TreeInv, TypeInv, TimeTyped
  <1>2. \A g \in Tasks : fork[g].now \in Nat /\ fork[g].now <= clock
    BY DEF TreeInv, TypeInv, TimeTyped, ForkTyped, Calls
  <1>3. others \cup {clock} \in SUBSET Nat /\ others \cup {clock} # {}
    BY <1>1, <1>2
  <1>4. \E z \in others \cup {clock} : \A y \in others \cup {clock} : z <= y
    BY <1>3, LeastNat
  <1>5. x \in others \cup {clock} /\ \A y \in others : x <= y
    BY <1>4
  <1>6. \A z \in others \cup {clock} : z \in Nat /\ z <= clock
    BY <1>1, <1>2
  <1> QED
    BY <1>5, <1>6

\* What a fork begins with.
Begun(f, child, new) ==
    /\ new.child = child /\ new.now = clock
    /\ new.pc \in {"skip", "up", "check"}
    /\ new.floor <= clock
    /\ \A g \in Tasks : fork[g].pc # "idle" => new.floor <= fork[g].now
    /\ new.anc = IF new.kind = "group" THEN leader[f] ELSE f
    /\ new.up = Root /\ new.first = Root /\ new.cursor = Root /\ new.desc = Root
    /\ new.count = 0 /\ new.total = 0 /\ new.seen = <<>> /\ new.sole = 0
    /\ new.hub => new.kind = "subtree"

Starts(f, child, new) ==
    /\ state[f] = "live" /\ fork[f].pc = "idle" /\ state[child] = "unborn"
    /\ Begun(f, child, new) /\ Bounded(new)
    /\ state' = [state EXCEPT ![child] = "new"]
    /\ leader' = [leader EXCEPT ![child] =
                    IF new.kind = "group" THEN leader[f] ELSE child]
    /\ fork' = [fork EXCEPT ![f] = new]
    /\ penalty' = [penalty EXCEPT ![child] = 0]
    /\ bc' = [k \in Kinds |-> [bc[k] EXCEPT ![child] = Unfilled]]
    /\ UNCHANGED <<clock, parent, nxt, grace>>

LEMMA BeginFacts ==
    ASSUME TreeInv, NEW f \in Tasks, Begin(f)
    PROVE  \E child \in Tasks, new \in Calls : Starts(f, child, new)
  <1> DEFINE others == {fork[g].now : g \in {g \in Tasks : fork[g].pc # "idle"}}
             low == CHOOSE x \in others \cup {clock} : \A y \in others : x <= y
             base(child, what, type) ==
                 [Idle EXCEPT
                      !.child = child, !.now = clock, !.calm = TRUE,
                      !.kind = IF what = "thread" THEN "group" ELSE "subtree",
                      !.hub = what = "process" /\ type = 2,
                      !.floor = low,
                      !.anc = IF what = "thread" THEN leader[f] ELSE f]
             new(child, what, type) ==
                 [base(child, what, type) EXCEPT !.pc =
                    IF child \notin Eligible \/ (what = "process" /\ type = 0)
                    THEN "skip"
                    ELSE IF base(child, what, type).hub THEN "up" ELSE "check"]
  <1>1. PICK child \in Tasks, what \in Clones, type \in InheritTypes :
            /\ state[child] = "unborn" /\ Copies(f, child)
            /\ state' = [state EXCEPT ![child] = "new"]
            /\ leader' = [leader EXCEPT ![child] =
                              IF what = "thread" THEN leader[f] ELSE child]
            /\ fork' = [fork EXCEPT ![f] = new(child, what, type)]
            /\ penalty' = [penalty EXCEPT ![child] = 0]
            /\ bc' = [k \in Kinds |-> [bc[k] EXCEPT ![child] = Unfilled]]
    BY DEF Begin
  <1>2. low \in Nat /\ low <= clock /\ \A y \in others : low <= y
    BY FloorIs
  <1> HIDE DEF low
  <1>3. \A g \in Tasks : fork[g].pc # "idle" => low <= fork[g].now
    BY <1>2
  <1> HIDE DEF others
  <1> DEFINE k == IF what = "thread" THEN "group" ELSE "subtree"
             h == what = "process" /\ type = 2
             a == IF what = "thread" THEN leader[f] ELSE f
             pc == IF child \notin Eligible \/ (what = "process" /\ type = 0)
                   THEN "skip" ELSE IF h THEN "up" ELSE "check"
  <1>4. /\ clock \in Nat /\ a \in Tasks /\ Root \in Tasks /\ Root \in Nodes
    BY Constants, NodeFacts DEF TreeInv, TypeInv, TimeTyped, TreeTyped
  <1>5. k \in Kinds /\ h \in BOOLEAN /\ pc \in {"skip", "up", "check"}
        /\ (k = "group" <=> what = "thread") /\ (h => k = "subtree")
    BY DEF Kinds
  <1> DEFINE b == [Idle EXCEPT !.child = child, !.now = clock, !.calm = TRUE,
                               !.kind = k, !.hub = h, !.floor = low, !.anc = a]
             n == [b EXCEPT !.pc = pc]
  <1>6. fork' = [fork EXCEPT ![f] = n]
    <2>1. base(child, what, type) = b
      OBVIOUS
    <2>2. b.hub = h
      <3>1. Idle \in Calls
        BY IdleTyped
      <3> HIDE DEF k, h, a
      <3> QED
        BY <3>1 DEF Calls
    <2>3. new(child, what, type) = n
      <3> HIDE DEF base, b, h
      <3> QED
        BY <2>1, <2>2
    <2> QED
      BY <1>1, <2>3
  <1>8. a = IF k = "group" THEN leader[f] ELSE f
    BY <1>5
  <1>9. leader' = [leader EXCEPT ![child] = IF k = "group" THEN leader[f] ELSE child]
    BY <1>1, <1>5
  <1> HIDE DEF k, h, a, pc
  <1>10. /\ b \in Calls
         /\ b.child = child /\ b.now = clock /\ b.floor = low /\ b.kind = k /\ b.anc = a
         /\ b.up = Root /\ b.first = Root /\ b.cursor = Root /\ b.desc = Root
         /\ b.count = 0 /\ b.total = 0 /\ b.seen = <<>> /\ b.scans = 0
         /\ b.sole = 0 /\ b.hub = h
    <2>1. /\ Idle \in Calls /\ Idle.count = 0 /\ Idle.total = 0 /\ Idle.seen = <<>>
          /\ Idle.up = Root /\ Idle.first = Root /\ Idle.cursor = Root
          /\ Idle.desc = Root /\ Idle.scans = 0 /\ Idle.sole = 0
      BY IdleTyped DEF Idle
    <2> QED
      BY <1>2, <1>4, <1>5, <2>1 DEF Calls
  <1> HIDE DEF b
  <1>11. /\ n \in Calls
         /\ n.child = child /\ n.now = clock /\ n.floor = low /\ n.kind = k /\ n.anc = a
         /\ n.up = Root /\ n.first = Root /\ n.cursor = Root /\ n.desc = Root
         /\ n.count = 0 /\ n.total = 0 /\ n.seen = <<>> /\ n.scans = 0 /\ n.pc = pc
         /\ n.sole = 0 /\ n.hub = h
    BY <1>5, <1>10 DEF Calls, Pcs
  <1> HIDE DEF n
  <1>12. Begun(f, child, n)
    BY <1>2, <1>3, <1>5, <1>8, <1>11 DEF Begun
  <1>13. Bounded(n)
    BY <1>5, <1>11, Constants DEF Bounded, Descending
  <1>14. /\ state[f] = "live" /\ fork[f].pc = "idle"
         /\ UNCHANGED <<clock, parent, nxt, grace>>
    BY DEF Begin
  <1> QED
    BY <1>1, <1>6, <1>9, <1>11, <1>12, <1>13, <1>14 DEF Starts

\* A list is its nodes, their owners and their links.
LEMMA ChainSame ==
    ASSUME NEW L, NEW O, NEW P, NEW nx, NEW ny, Chain(L, O, nx),
           \A n \in L : P[n] = O[n] /\ ny[n] = nx[n]
    PROVE  Chain(L, P, ny)
  BY DEF Chain

LEMMA BeginTree ==
    ASSUME TreeInv, NEW f \in Tasks, Begin(f)
    PROVE  TreeInv'
  <1>1. PICK child \in Tasks, new \in Calls : Starts(f, child, new)
    BY BeginFacts
  <1>2. /\ ForkTyped' /\ fork'[f] = new
        /\ \A g \in Tasks : g # f => fork'[g] = fork[g]
    BY <1>1, OneFork DEF Starts, TreeInv, TypeInv
  <1>3. /\ state'[child] = "new" /\ \A t \in Tasks : t # child => state'[t] = state[t]
        /\ \A t \in Tasks : t # child => leader'[t] = leader[t]
        /\ leader'[child] = IF new.kind = "group" THEN leader[f] ELSE child
        /\ TreeTyped'
    BY <1>1 DEF Starts, TreeInv, TypeInv, TreeTyped
  <1>4. /\ state[child] = "unborn" /\ state[f] = "live" /\ fork[f].pc = "idle"
        /\ parent' = parent /\ nxt' = nxt /\ clock' = clock
    BY <1>1 DEF Starts
  <1>5. \A t \in Tasks : Hashed(t)' = Hashed(t) /\ (Hashed(t) => t # child)
    BY <1>3, <1>4 DEF Hashed
  <1>6. ListsSound'
    <2> SUFFICES ASSUME NEW k \in Kinds
                 PROVE  Chain(Node(k)', Owner(k)', nxt'[k])
      BY DEF ListsSound
    <2>1. Node(k)' = Node(k)
      BY <1>3, <1>5 DEF Node
    <2>2. \A n \in Node(k) : Owner(k)'[n] = Owner(k)[n]
      <3>1. \A n \in Node(k) : n \in Nodes /\ n # child
        BY <1>5, NodesTyped, NodeFacts DEF Node, TreeInv, TypeInv
      <3> QED
        BY <1>3, <1>4, <3>1 DEF Owner
    <2> QED
      BY <1>4, <2>1, <2>2, ChainSame DEF TreeInv, ListsSound
  <1>7. TreeSound'
    <2>1. /\ state'[Root] = "live" /\ leader'[Root] = Root
      BY <1>3, <1>4, Constants DEF TreeInv, TreeSound
    <2>2. ASSUME NEW u \in Tasks, Hashed(u)'
          PROVE  /\ state'[parent'[u]] = "live"
                 /\ Hashed(leader[u])' /\ leader'[leader'[u]] = leader'[u]
      <3>1. /\ Hashed(u) /\ u # child /\ parent[u] \in Tasks /\ leader[u] \in Tasks
            /\ state[parent[u]] = "live" /\ Hashed(leader[u])
            /\ leader[leader[u]] = leader[u]
        BY <1>5, <2>2 DEF TreeInv, TreeSound, TypeInv, TreeTyped
      <3>2. parent[u] # child /\ leader[u] # child
        BY <1>4, <1>5, <3>1
      <3>3. leader'[u] = leader[u] /\ parent'[u] = parent[u]
        BY <1>3, <1>4, <3>1
      <3>4. /\ state'[leader[u]] = state[leader[u]] /\ leader'[leader[u]] = leader[u]
            /\ state'[parent[u]] = "live"
        BY <1>3, <3>1, <3>2
      <3> QED
        BY <3>1, <3>3, <3>4 DEF Hashed
    <2> QED
      BY <2>1, <2>2 DEF TreeSound
  <1>8. TimeTyped'
    <2>1. new.now = clock /\ new.floor <= clock
      BY <1>1 DEF Starts, Begun
    <2>2. clock \in FirstTime .. LastTime /\ clock <= clock
      BY Constants DEF TreeInv, TypeInv, TimeTyped
    <2> QED
      BY <1>2, <1>4, <2>1, <2>2 DEF TreeInv, TypeInv, TimeTyped
  <1>9. ValuesTyped'
    <2>1. penalty' \in [Tasks -> Halves]
      BY <1>1, Constants DEF Starts, TreeInv, TypeInv, ValuesTyped
    <2>2. /\ bc' \in [Kinds -> [Tasks -> Caches]]
          /\ \A k \in Kinds, t \in Tasks :
               bc'[k][t] = IF t = child THEN Unfilled ELSE bc[k][t]
      BY <1>1, UnfilledTyped DEF Starts, TreeInv, TypeInv, ValuesTyped
    <2>3. Unfilled.timestamp = 0
      BY DEF Unfilled
    <2> QED
      BY <2>1, <2>2, <2>3, Constants DEF TreeInv, TypeInv, ValuesTyped
  <1>10. ForksSound'
    <2>1. new.child = child /\ new.pc # "idle"
      BY <1>1 DEF Starts, Begun
    <2>2. \A g \in Tasks : g # f /\ InRcu(g)' =>
             /\ InRcu(g) /\ state[g] = "live" /\ state[fork[g].child] = "new"
             /\ fork[g].child \in Tasks /\ fork[g].child # child /\ g # child
             /\ leader[fork[g].child] = IF fork[g].kind = "group" THEN leader[g]
                                        ELSE fork[g].child
      <3> SUFFICES ASSUME NEW g \in Tasks, g # f, InRcu(g)'
                   PROVE  /\ InRcu(g) /\ state[g] = "live" /\ state[fork[g].child] = "new"
                          /\ fork[g].child \in Tasks /\ fork[g].child # child /\ g # child
                          /\ leader[fork[g].child] = IF fork[g].kind = "group" THEN leader[g]
                                                     ELSE fork[g].child
        OBVIOUS
      <3>1. InRcu(g)
        BY <1>2 DEF InRcu
      <3>2. /\ state[g] = "live" /\ state[fork[g].child] = "new"
            /\ leader[fork[g].child] = IF fork[g].kind = "group" THEN leader[g]
                                       ELSE fork[g].child
        BY <3>1 DEF TreeInv, ForksSound
      <3>3. fork[g].child \in Tasks
        BY DEF TreeInv, TypeInv, ForkTyped, Calls
      <3> QED
        BY <1>4, <3>1, <3>2, <3>3
    <2>3. f # child
      BY <1>4
    <2>4. ASSUME NEW g \in Tasks, InRcu(g)'
          PROVE  /\ state'[g] = "live" /\ state'[fork'[g].child] = "new"
                 /\ leader'[fork'[g].child] = IF fork'[g].kind = "group" THEN leader'[g]
                                              ELSE fork'[g].child
      <3>1. CASE g = f
        BY <1>2, <1>3, <1>4, <2>1, <2>3, <3>1
      <3>2. CASE g # f
        BY <1>2, <1>3, <2>2, <2>4, <3>2
      <3> QED
        BY <3>1, <3>2
    <2>5. ASSUME NEW g \in Tasks, NEW e \in Tasks, InRcu(g)', InRcu(e)',
                 fork'[g].child = fork'[e].child
          PROVE  g = e
      BY <1>2, <2>1, <2>2, <2>5 DEF TreeInv, ForksSound
    <2> QED
      BY <2>4, <2>5 DEF ForksSound
  <1> QED
    BY <1>2, <1>3, <1>6, <1>7, <1>8, <1>9, <1>10 DEF TreeInv, TypeInv

LEMMA ChargeTree ==
    ASSUME TreeInv, NEW t \in Tasks, Charge(t)
    PROVE  TreeInv'
  <1>1. /\ UNCHANGED <<clock, tree, bc, fork>>
        /\ \E p \in Penalties : penalty' = [penalty EXCEPT ![t] = p]
    BY DEF Charge
  <1>2. TreeTyped' /\ ListsSound' /\ TreeSound'
    BY <1>1, TreeSame DEF TreeInv, TypeInv
  <1>3. ForkTyped' /\ TimeTyped'
    BY <1>1 DEF TreeInv, TypeInv, ForkTyped, TimeTyped
  <1>4. ValuesTyped'
    BY <1>1, Constants DEF TreeInv, TypeInv, ValuesTyped
  <1>5. ForksSound'
    BY <1>1 DEF TreeInv, ForksSound, tree, InRcu
  <1> QED
    BY <1>2, <1>3, <1>4, <1>5 DEF TreeInv, TypeInv

LEMMA TickTree ==
    ASSUME TreeInv, Tick
    PROVE  TreeInv'
  <1>1. /\ UNCHANGED <<tree, penalty, bc, fork>>
        /\ clock' = clock + 1 /\ clock < LastTime
    BY DEF Tick
  <1>2. TreeTyped' /\ ListsSound' /\ TreeSound'
    BY <1>1, TreeSame DEF TreeInv, TypeInv
  <1>3. ForkTyped'
    BY <1>1 DEF TreeInv, TypeInv, ForkTyped
  <1>4. TimeTyped'
    <2>1. clock \in Nat /\ clock \in FirstTime .. LastTime /\ FirstTime \in Nat
          /\ LastTime \in Nat
      BY Constants DEF TreeInv, TypeInv, TimeTyped
    <2>2. clock' \in FirstTime .. LastTime
      BY <1>1, <2>1
    <2>3. \A g \in Tasks : fork[g].now \in Nat /\ fork[g].now <= clock
                           /\ fork[g].floor <= fork[g].now
      BY DEF TreeInv, TypeInv, TimeTyped, ForkTyped, Calls
    <2> QED
      BY <1>1, <2>1, <2>2, <2>3 DEF TimeTyped
  <1>5. ValuesTyped'
    BY <1>1 DEF TreeInv, TypeInv, ValuesTyped
  <1>6. ForksSound'
    BY <1>1 DEF TreeInv, ForksSound, tree, InRcu
  <1> QED
    BY <1>2, <1>3, <1>4, <1>5, <1>6 DEF TreeInv, TypeInv

\* All locals but calm.
SameLocals(c, d) ==
    /\ d.pc = c.pc /\ d.kind = c.kind /\ d.hub = c.hub /\ d.child = c.child
    /\ d.now = c.now /\ d.floor = c.floor /\ d.anc = c.anc /\ d.up = c.up
    /\ d.first = c.first /\ d.cursor = c.cursor /\ d.desc = c.desc
    /\ d.scans = c.scans /\ d.count = c.count /\ d.total = c.total /\ d.seen = c.seen

LEMMA Disturb ==
    ASSUME ForkTyped, NEW t \in Tasks, fork' = Disturbed(t)
    PROVE  /\ ForkTyped' /\ fork'[t] = Idle /\ fork'[t].pc = "idle"
           /\ \A f \in Tasks : f # t => SameLocals(fork[f], fork'[f])
           /\ TimeTyped /\ clock' = clock => TimeTyped'
  <1>1. ASSUME NEW c \in Calls
        PROVE  /\ [c EXCEPT !.calm = FALSE] \in Calls
               /\ SameLocals(c, [c EXCEPT !.calm = FALSE])
               /\ Bounded(c) => Bounded([c EXCEPT !.calm = FALSE])
    BY DEF Calls, SameLocals, Bounded
  <1>2. /\ \A f \in Tasks : fork'[f] = IF f = t THEN Idle
                                       ELSE [fork[f] EXCEPT !.calm = FALSE]
        /\ fork' \in [Tasks -> {fork'[f] : f \in Tasks}]
    BY DEF Disturbed
  <1>3. \A f \in Tasks : fork[f] \in Calls /\ Bounded(fork[f])
    BY DEF ForkTyped
  <1>4. ASSUME NEW f \in Tasks
        PROVE  /\ fork'[f] \in Calls /\ Bounded(fork'[f])
               /\ f # t => SameLocals(fork[f], fork'[f])
    <2>1. CASE f = t
      BY <1>2, <2>1, IdleTyped
    <2>2. CASE f # t
      BY <1>1, <1>2, <1>3, <2>2
    <2> QED
      BY <2>1, <2>2
  <1>5. ForkTyped'
    <2>1. \A f \in Tasks : Bounded(fork[f])'
      BY <1>4 DEF Bounded
    <2>2. fork' \in [Tasks -> Calls]
      BY <1>2, <1>4 DEF Disturbed
    <2> QED
      BY <2>1, <2>2 DEF ForkTyped
  <1>6. fork'[t] = Idle /\ fork'[t].pc = "idle" /\ fork'[t].now = 0 /\ fork'[t].floor = 0
    BY <1>2 DEF Idle
  <1>7. ASSUME TimeTyped, clock' = clock
        PROVE  TimeTyped'
    <2>1. \A f \in Tasks : f # t => fork'[f].now = fork[f].now
                                    /\ fork'[f].floor = fork[f].floor
      BY <1>4 DEF SameLocals
    <2>2. clock \in Nat /\ 0 <= 0
      BY <1>7, Constants DEF TimeTyped
    <2> QED
      BY <1>6, <1>7, <2>1, <2>2 DEF TimeTyped
  <1> QED
    BY <1>4, <1>5, <1>6, <1>7

LEMMA ReleaseTree ==
    ASSUME TreeInv, NEW t \in Tasks, Release(t)
    PROVE  /\ TreeInv' /\ t # Root
           /\ \A k \in Kinds : Node(k)' = Node(k) \ {t} /\ Owner(k)' = Owner(k)
           /\ \A u \in Tasks : Hashed(u)' <=> Hashed(u) /\ u # t
  <1> DEFINE ny(k) == [n \in Nodes |->
                         IF nxt[k][n] = t /\ n # t /\ (n \in Tasks => Hashed(n))
                         THEN nxt[k][t]
                         ELSE IF n = t /\ k = "subtree" THEN t ELSE nxt[k][n]]
  <1>1. /\ state[t] = "zombie" /\ (leader[t] = t => Members("group", t) = {t})
        /\ state' = [state EXCEPT ![t] = "dead"]
        /\ nxt' = [k \in Kinds |-> ny(k)]
        /\ grace' = [grace EXCEPT ![t] = {f \in Tasks : InRcu(f)}]
        /\ fork' = Disturbed(t)
        /\ UNCHANGED <<clock, parent, leader, penalty, bc>>
    BY DEF Release
  <1>2. /\ ForkTyped' /\ fork'[t] = Idle /\ fork'[t].pc = "idle"
        /\ \A f \in Tasks : f # t => SameLocals(fork[f], fork'[f])
        /\ TimeTyped'
    BY <1>1, Disturb DEF TreeInv, TypeInv
  <1>3. /\ t # Root /\ state'[t] = "dead"
        /\ \A u \in Tasks : u # t => state'[u] = state[u]
    BY <1>1 DEF TreeInv, TreeSound, TypeInv, TreeTyped
  <1>4. \A u \in Tasks : Hashed(u)' <=> Hashed(u) /\ u # t
    BY <1>3 DEF Hashed
  <1>5. TreeTyped'
    <2>1. \A k \in Kinds : ny(k) \in [Nodes -> Nodes]
      BY NodeFacts DEF TreeInv, TypeInv, TreeTyped
    <2> HIDE DEF ny
    <2> QED
      BY <1>1, <2>1 DEF TreeInv, TypeInv, TreeTyped
  <1>6. \A k \in Kinds : Node(k)' = Node(k) \ {t} /\ Owner(k)' = Owner(k)
    <2>1. t \notin Heads
      BY NodeFacts
    <2> QED
      BY <1>1, <1>4, <2>1 DEF Node, Owner
  <1>7. ListsSound'
    <2> SUFFICES ASSUME NEW k \in Kinds
                 PROVE  Chain(Node(k)', Owner(k)', nxt'[k])
      BY DEF ListsSound
    <2>1. Chain(Node(k), Owner(k), nxt[k]) /\ Node(k) \in SUBSET Nodes
      BY NodesTyped DEF TreeInv, TypeInv, ListsSound
    <2>2. \A n \in Node(k) \ {t} :
             nxt'[k][n] = IF nxt[k][n] = t THEN nxt[k][t] ELSE nxt[k][n]
      <3>1. \A n \in Node(k) : n \in Nodes /\ (n \in Tasks => Hashed(n))
        BY <2>1, NodeFacts DEF Node
      <3> QED
        BY <1>1, <3>1
    <2>3. CASE t \in Node(k)
      BY <1>6, <2>1, <2>2, <2>3, Unlinking
    <2>4. CASE t \notin Node(k)
      <3>1. \A n \in Node(k) : nxt[k][n] # t
        BY <2>1, <2>4 DEF Chain
      <3>2. Node(k)' = Node(k) /\ \A n \in Node(k) : nxt'[k][n] = nxt[k][n]
        BY <1>6, <2>2, <2>4, <3>1
      <3> QED
        BY <1>6, <2>1, <3>2, ChainSame
    <2> QED
      BY <2>3, <2>4
  <1>8. TreeSound'
    <2>1. state'[Root] = "live" /\ leader'[Root] = Root
      BY <1>1, <1>3, Constants DEF TreeInv, TreeSound
    <2>2. ASSUME NEW u \in Tasks, Hashed(u)'
          PROVE  /\ state'[parent'[u]] = "live"
                 /\ Hashed(leader[u])' /\ leader'[leader'[u]] = leader'[u]
      <3>1. /\ Hashed(u) /\ u # t /\ parent[u] \in Tasks /\ leader[u] \in Tasks
            /\ state[parent[u]] = "live" /\ Hashed(leader[u])
            /\ leader[leader[u]] = leader[u]
        BY <1>4, <2>2 DEF TreeInv, TreeSound, TypeInv, TreeTyped
      <3>2. leader[u] # t
        <4>1. SUFFICES ASSUME leader[u] = t
                       PROVE  FALSE
          OBVIOUS
        <4>2. Members("group", t) = {t} /\ u # Root
          BY <1>1, <1>3, <3>1, <4>1 DEF TreeInv, TreeSound
        <4> QED
          BY <3>1, <4>1, <4>2 DEF Members
      <3>3. state'[parent[u]] = "live" /\ state'[leader[u]] = state[leader[u]]
        BY <1>1, <1>3, <3>1, <3>2
      <3> QED
        BY <1>1, <3>1, <3>3 DEF Hashed
    <2> QED
      BY <2>1, <2>2 DEF TreeSound
  <1>9. ForksSound'
    <2>1. \A g \in Tasks : InRcu(g)' => g # t /\ InRcu(g)
                              /\ fork'[g].child = fork[g].child
                              /\ fork'[g].kind = fork[g].kind
      BY <1>2 DEF InRcu, SameLocals
    <2>2. \A g \in Tasks : fork[g].child \in Tasks
      BY DEF TreeInv, TypeInv, ForkTyped, Calls
    <2>3. ASSUME NEW g \in Tasks, InRcu(g)'
          PROVE  /\ state'[g] = "live" /\ state'[fork'[g].child] = "new"
                 /\ leader'[fork'[g].child] = IF fork'[g].kind = "group" THEN leader'[g]
                                              ELSE fork'[g].child
      <3>1. /\ state[g] = "live" /\ state[fork[g].child] = "new"
            /\ leader[fork[g].child] = IF fork[g].kind = "group" THEN leader[g]
                                       ELSE fork[g].child
        BY <2>1, <2>3 DEF TreeInv, ForksSound
      <3>2. fork[g].child # t
        BY <1>1, <3>1
      <3> QED
        BY <1>1, <1>3, <2>1, <2>2, <2>3, <3>1, <3>2
    <2>4. ASSUME NEW g \in Tasks, NEW e \in Tasks, InRcu(g)', InRcu(e)',
                 fork'[g].child = fork'[e].child
          PROVE  g = e
      BY <2>1, <2>4 DEF TreeInv, ForksSound
    <2> QED
      BY <2>3, <2>4 DEF ForksSound
  <1>10. ValuesTyped'
    BY <1>1 DEF TreeInv, TypeInv, ValuesTyped
  <1>11. TreeInv'
    BY <1>2, <1>5, <1>7, <1>8, <1>9, <1>10 DEF TreeInv, TypeInv
  <1> QED
    BY <1>3, <1>4, <1>6, <1>11

\* Children are the tasks of a list.
LEMMA MembersAre ==
    ASSUME TreeTyped, NEW k \in Kinds, NEW t \in Tasks
    PROVE  Members(k, t) = {u \in Node(k) \cap Tasks : Owner(k)[u] = t}
  <1>1. \A u \in Tasks : u \in Node(k) <=>
            u # Root /\ Hashed(u) /\ (k = "subtree" => leader[u] = u)
    BY NodeFacts DEF Node
  <1>2. \A u \in Tasks : Owner(k)[u] = IF k = "group" THEN leader[u] ELSE parent[u]
    BY NodeFacts DEF Owner
  <1>3. k = "group" \/ k = "subtree"
    BY DEF Kinds
  <1> QED
    BY <1>1, <1>2, <1>3 DEF Members

\* What an exit does to the children and their list.
Reparents(t, reaper) ==
    /\ reaper \in Tasks /\ reaper # t /\ state[reaper] = "live"
    /\ t # Root /\ state[t] = "live" /\ fork[t].pc = "idle"
    /\ parent' = [u \in Tasks |-> IF parent[u] = t /\ Hashed(u)
                                  THEN reaper ELSE parent[u]]
    /\ nxt'["group"] = nxt["group"]
    /\ nxt' \in [Kinds -> [Nodes -> Nodes]]
    /\ Members("subtree", t) = {} => nxt'["subtree"] = nxt["subtree"]
    /\ Members("subtree", t) # {} => \A n \in Nodes :
         nxt'["subtree"][n] =
            CASE n = Anchor(t) -> Anchor(t)
              [] n \in Members("subtree", t) /\ nxt["subtree"][n] = Anchor(t)
                   -> Anchor(reaper)
              [] n \in {Anchor(reaper)} \cup Members("subtree", reaper)
                   /\ nxt["subtree"][n] = Anchor(reaper) -> nxt["subtree"][Anchor(t)]
              [] OTHER -> nxt["subtree"][n]
    /\ state' = [state EXCEPT ![t] = "zombie"]
    /\ fork' = Disturbed(t)
    /\ UNCHANGED <<clock, leader, grace, penalty, bc>>

LEMMA ExitFacts ==
    ASSUME TreeInv, NEW t \in Tasks, Exit(t)
    PROVE  \E reaper \in Tasks : Reparents(t, reaper)
  <1> DEFINE heirs == {u \in Tasks \ {t} : leader[u] = leader[t] /\ state[u] = "live"}
             kids == Members("subtree", t)
             ny(reaper) == [n \in Nodes |->
                           CASE n = Anchor(t) -> Anchor(t)
                             [] n \in kids /\ nxt["subtree"][n] = Anchor(t) -> Anchor(reaper)
                             [] n \in {Anchor(reaper)} \cup Members("subtree", reaper)
                                  /\ nxt["subtree"][n] = Anchor(reaper)
                                -> nxt["subtree"][Anchor(t)]
                             [] OTHER -> nxt["subtree"][n]]
  <1>1. PICK reaper \in IF heirs = {} THEN {Root} ELSE heirs :
            /\ parent' = [u \in Tasks |-> IF parent[u] = t /\ Hashed(u)
                                          THEN reaper ELSE parent[u]]
            /\ nxt' = IF kids = {} THEN nxt
                      ELSE [nxt EXCEPT !["subtree"] = ny(reaper)]
    BY DEF Exit
  <1>2. /\ t # Root /\ state[t] = "live" /\ fork[t].pc = "idle"
        /\ state' = [state EXCEPT ![t] = "zombie"]
        /\ fork' = Disturbed(t)
        /\ UNCHANGED <<clock, leader, grace, penalty, bc>>
    BY DEF Exit
  <1>3. reaper \in Tasks /\ reaper # t /\ state[reaper] = "live"
    BY <1>2, Constants DEF TreeInv, TreeSound
  <1>4. nxt \in [Kinds -> [Nodes -> Nodes]] /\ Kinds = {"subtree", "group"}
    BY DEF TreeInv, TypeInv, TreeTyped, Kinds
  <1>5. ny(reaper) \in [Nodes -> Nodes]
    BY <1>3, <1>4, NodeFacts
  <1>6. \A n \in Nodes : ny(reaper)[n] =
            CASE n = Anchor(t) -> Anchor(t)
              [] n \in Members("subtree", t) /\ nxt["subtree"][n] = Anchor(t)
                   -> Anchor(reaper)
              [] n \in {Anchor(reaper)} \cup Members("subtree", reaper)
                   /\ nxt["subtree"][n] = Anchor(reaper) -> nxt["subtree"][Anchor(t)]
              [] OTHER -> nxt["subtree"][n]
    OBVIOUS
  <1> HIDE DEF ny, kids
  <1>7. /\ nxt'["group"] = nxt["group"] /\ nxt' \in [Kinds -> [Nodes -> Nodes]]
        /\ kids = {} => nxt'["subtree"] = nxt["subtree"]
        /\ kids # {} => nxt'["subtree"] = ny(reaper)
    BY <1>1, <1>4, <1>5
  <1> QED
    BY <1>1, <1>2, <1>3, <1>6, <1>7 DEF Reparents, kids

LEMMA ExitTree ==
    ASSUME TreeInv, NEW t \in Tasks, Exit(t)
    PROVE  /\ TreeInv'
           /\ \A k \in Kinds : Node(k)' = Node(k)
           /\ \A u \in Tasks : Hashed(u)' = Hashed(u)
  <1>1. PICK reaper \in Tasks : Reparents(t, reaper)
    BY ExitFacts
  <1>2. /\ reaper # t /\ state[reaper] = "live"
        /\ t # Root /\ state[t] = "live" /\ fork[t].pc = "idle"
        /\ state' = [state EXCEPT ![t] = "zombie"]
        /\ fork' = Disturbed(t)
        /\ UNCHANGED <<clock, leader, grace, penalty, bc>>
        /\ nxt' \in [Kinds -> [Nodes -> Nodes]]
    BY <1>1 DEF Reparents
  <1>3. /\ state'[t] = "zombie" /\ \A u \in Tasks : u # t => state'[u] = state[u]
        /\ \A u \in Tasks : parent'[u] = IF parent[u] = t /\ Hashed(u)
                                         THEN reaper ELSE parent[u]
    BY <1>1, <1>2 DEF Reparents, TreeInv, TypeInv, TreeTyped
  <1>4. TreeTyped'
    BY <1>1, <1>2 DEF Reparents, TreeInv, TypeInv, TreeTyped
  <1>5. \A u \in Tasks : Hashed(u)' = Hashed(u)
    BY <1>2, <1>3 DEF Hashed
  <1>6. \A k \in Kinds : Node(k)' = Node(k)
    BY <1>2, <1>5 DEF Node
  <1>7. /\ ForkTyped' /\ TimeTyped' /\ fork'[t].pc = "idle"
        /\ \A f \in Tasks : f # t => SameLocals(fork[f], fork'[f])
    BY <1>2, Disturb DEF TreeInv, TypeInv
  <1>8. ListsSound'
    <2>1. Chain(Node("group")', Owner("group")', nxt'["group"])
      <3>1. "group" \in Kinds /\ nxt'["group"] = nxt["group"]
        BY <1>1 DEF Reparents, Kinds
      <3>2. Owner("group")' = Owner("group")
        BY <1>2 DEF Owner
      <3> QED
        BY <1>6, <3>1, <3>2, ChainSame DEF TreeInv, ListsSound
    <2>2. Chain(Node("subtree")', Owner("subtree")', nxt'["subtree"])
      <3> DEFINE L == Node("subtree")
                 O == Owner("subtree")
                 P == Owner("subtree")'
                 nx == nxt["subtree"]
                 ny == nxt'["subtree"]
                 K == Members("subtree", t)
      <3>1. "subtree" \in Kinds /\ TreeTyped /\ Node("subtree")' = L
        BY <1>6 DEF Kinds, TreeInv, TypeInv
      <3>2. Chain(L, O, nx)
        BY <3>1 DEF TreeInv, ListsSound
      <3>3. /\ L \in SUBSET Nodes /\ Heads \subseteq L
            /\ \A u \in Tasks : O[Anchor(u)] = u
        BY <3>1, NodesTyped
      <3>4. /\ K = {u \in L \cap Tasks : O[u] = t}
            /\ Members("subtree", reaper) = {u \in L \cap Tasks : O[u] = reaper}
        BY <3>1, MembersAre
      <3>5. \A n \in L : P[n] = IF n \in K THEN reaper ELSE O[n]
        <4>1. \A n \in Nodes : P[n] = IF n \notin Tasks THEN n[2] ELSE parent'[n]
          BY DEF Owner
        <4>2. \A n \in Nodes : O[n] = IF n \notin Tasks THEN n[2] ELSE parent[n]
          BY DEF Owner
        <4>3. \A n \in L : n \in Tasks => Hashed(n)
          BY NodeFacts DEF Node
        <4> HIDE DEF L, O, P, K
        <4> QED
          BY <1>3, <3>3, <3>4, <4>1, <4>2, <4>3
      <3>6. CASE K = {}
        <4>1. ny = nx
          BY <1>1, <3>6 DEF Reparents
        <4> HIDE DEF L, O, P, K, nx, ny
        <4>2. Chain(L, P, ny)
          BY <3>2, <3>5, <3>6, <4>1, ChainSame
        <4> QED
          BY <3>1, <4>2 DEF P, ny
      <3>7. CASE K # {}
        <4>1. \A n \in Nodes :
                 ny[n] = CASE n = Anchor(t) -> Anchor(t)
                           [] n \in K /\ nx[n] = Anchor(t) -> Anchor(reaper)
                           [] n \in {Anchor(reaper)} \cup Members("subtree", reaper)
                                /\ nx[n] = Anchor(reaper) -> nx[Anchor(t)]
                           [] OTHER -> nx[n]
          BY <1>1, <3>7 DEF Reparents
        <4> HIDE DEF L, O, P, K, nx, ny
        <4>2. \A n \in L : O[nx[n]] = O[n]
          BY <3>2 DEF Chain
        <4>3. /\ Anchor(t) \notin Tasks /\ Anchor(reaper) \notin Tasks
              /\ Anchor(t) # Anchor(reaper)
              /\ O[Anchor(t)] = t /\ O[Anchor(reaper)] = reaper /\ Anchor(t) \in L
          BY <1>2, <3>3, NodeFacts
        <4>4. ASSUME NEW n \in L
              PROVE  /\ O[n] = t => n = Anchor(t) \/ n \in K
                     /\ O[n] = reaper => n = Anchor(reaper)
                                         \/ n \in Members("subtree", reaper)
          <5>1. n \in Tasks \/ \E u \in Tasks : n = Anchor(u)
            BY <3>3, NodeFacts
          <5> QED
            BY <3>3, <3>4, <5>1
        <4>5. ASSUME NEW n \in L \ {Anchor(t)}
              PROVE  ny[n] = IF nx[n] = Anchor(t) THEN Anchor(reaper)
                             ELSE IF nx[n] = Anchor(reaper) THEN nx[Anchor(t)]
                             ELSE nx[n]
          <5>1. nx[n] = Anchor(t) => n \in K
            BY <4>2, <4>3, <4>4
          <5>2. nx[n] = Anchor(reaper)
                  => n \in {Anchor(reaper)} \cup Members("subtree", reaper)
            BY <4>2, <4>3, <4>4
          <5>3. n \in Nodes
            BY <3>3
          <5> QED
            BY <4>1, <4>3, <5>1, <5>2, <5>3
        <4>6. ny[Anchor(t)] = Anchor(t)
          <5>1. Anchor(t) \in Nodes /\ Anchor(t) \notin K
                /\ Anchor(t) \notin {Anchor(reaper)} \cup Members("subtree", reaper)
            BY <3>3, <3>4, <4>3
          <5> QED
            BY <4>1, <5>1
        <4>7. Spliced(L, O, P, nx, ny, t, reaper, K)
          BY <1>2, <3>2, <3>3, <3>4, <3>5, <3>7, <4>5, <4>6 DEF Spliced
        <4>8. Chain(L, P, ny)
          BY <4>7, Splicing
        <4> QED
          BY <3>1, <4>8 DEF P, ny
      <3> QED
        BY <3>6, <3>7
    <2> QED
      BY <2>1, <2>2 DEF ListsSound, Kinds
  <1>9. TreeSound'
    <2>1. state'[Root] = "live" /\ leader'[Root] = Root
      BY <1>2, <1>3, Constants DEF TreeInv, TreeSound
    <2>2. ASSUME NEW u \in Tasks, Hashed(u)'
          PROVE  /\ state'[parent'[u]] = "live"
                 /\ Hashed(leader[u])' /\ leader'[leader'[u]] = leader'[u]
      <3>1. /\ Hashed(u) /\ parent[u] \in Tasks /\ leader[u] \in Tasks
            /\ state[parent[u]] = "live" /\ Hashed(leader[u])
            /\ leader[leader[u]] = leader[u]
        BY <1>5, <2>2 DEF TreeInv, TreeSound, TypeInv, TreeTyped
      <3>2. state'[parent'[u]] = "live"
        BY <1>2, <1>3, <3>1
      <3>3. state'[leader[u]] \in {"live", "zombie"}
        BY <1>2, <1>3, <3>1 DEF Hashed
      <3> QED
        BY <1>2, <3>1, <3>2, <3>3 DEF Hashed
    <2> QED
      BY <2>1, <2>2 DEF TreeSound
  <1>10. ForksSound'
    <2>1. \A g \in Tasks : InRcu(g)' => g # t /\ InRcu(g)
                              /\ fork'[g].child = fork[g].child
                              /\ fork'[g].kind = fork[g].kind
      BY <1>7 DEF InRcu, SameLocals
    <2>2. \A g \in Tasks : fork[g].child \in Tasks
      BY DEF TreeInv, TypeInv, ForkTyped, Calls
    <2>3. ASSUME NEW g \in Tasks, InRcu(g)'
          PROVE  /\ state'[g] = "live" /\ state'[fork'[g].child] = "new"
                 /\ leader'[fork'[g].child] = IF fork'[g].kind = "group" THEN leader'[g]
                                              ELSE fork'[g].child
      <3>1. /\ state[g] = "live" /\ state[fork[g].child] = "new"
            /\ leader[fork[g].child] = IF fork[g].kind = "group" THEN leader[g]
                                       ELSE fork[g].child
        BY <2>1, <2>3 DEF TreeInv, ForksSound
      <3>2. fork[g].child # t
        BY <1>2, <3>1
      <3> QED
        BY <1>2, <1>3, <2>1, <2>2, <2>3, <3>1, <3>2
    <2>4. ASSUME NEW g \in Tasks, NEW e \in Tasks, InRcu(g)', InRcu(e)',
                 fork'[g].child = fork'[e].child
          PROVE  g = e
      BY <2>1, <2>4 DEF TreeInv, ForksSound
    <2> QED
      BY <2>3, <2>4 DEF ForksSound
  <1>11. ValuesTyped'
    BY <1>2 DEF TreeInv, TypeInv, ValuesTyped
  <1>12. TreeInv'
    BY <1>4, <1>7, <1>8, <1>9, <1>10, <1>11 DEF TreeInv, TypeInv
  <1> QED
    BY <1>5, <1>6, <1>12

\* A child is linked.
LEMMA LinkedAt ==
    ASSUME TreeInv, NEW k \in Kinds, NEW t \in Tasks, NEW c \in Tasks, c \notin Node(k)
    PROVE  /\ Linked(k, t, c) \in [Kinds -> [Nodes -> Nodes]]
           /\ Linked(k, t, c)[k][c] = Anchor(t)
           /\ \A n \in Node(k) : n # c =>
                Linked(k, t, c)[k][n] = IF nxt[k][n] = Anchor(t) THEN c ELSE nxt[k][n]
           /\ \A n \in Nodes : n # c /\ n \notin Node(k) => Linked(k, t, c)[k][n] = nxt[k][n]
           /\ \A j \in Kinds : j # k => Linked(k, t, c)[j] = nxt[j]
  <1> DEFINE ny == [m \in Nodes |->
            CASE m = c -> Anchor(t)
              [] m \in {Anchor(t)} \cup Members(k, t) /\ nxt[k][m] = Anchor(t) -> c
              [] OTHER -> nxt[k][m]]
  <1>1. nxt \in [Kinds -> [Nodes -> Nodes]] /\ TreeTyped
    BY DEF TreeInv, TypeInv, TreeTyped
  <1>2. Linked(k, t, c) = [nxt EXCEPT ![k] = ny]
    BY DEF Linked
  <1>3. Anchor(t) \in Nodes /\ c \in Nodes /\ Anchor(t) \notin Tasks
    BY NodeFacts
  <1>4. Anchor(t) \in Node(k) /\ Members(k, t) = {u \in Node(k) \cap Tasks : Owner(k)[u] = t}
        /\ Node(k) \subseteq Nodes
    BY <1>1, NodesTyped, NodeFacts, MembersAre
  <1>5. ny \in [Nodes -> Nodes]
    BY <1>1, <1>3
  <1>6. ny[c] = Anchor(t)
    <2>1. c \notin {Anchor(t)} \cup Members(k, t)
      BY <1>3, <1>4
    <2> QED
      BY <1>3, <2>1
  <1>7. ASSUME NEW n \in Node(k), n # c
        PROVE  ny[n] = IF nxt[k][n] = Anchor(t) THEN c ELSE nxt[k][n]
    <2>1. nxt[k][n] = Anchor(t) => Owner(k)[n] = t
      <3>1. Owner(k)[nxt[k][n]] = Owner(k)[n]
        BY DEF TreeInv, ListsSound, Chain
      <3> QED
        BY <1>1, <3>1, NodesTyped
    <2>2. Owner(k)[n] = t => n = Anchor(t) \/ n \in Members(k, t)
      <3>1. n \in Tasks \/ \E u \in Tasks : n = Anchor(u)
        BY <1>4, NodeFacts
      <3> QED
        BY <1>1, <1>4, <3>1, NodesTyped
    <2> QED
      BY <1>4, <1>7, <2>1, <2>2
  <1>8. \A n \in Nodes : n # c /\ n \notin Node(k) => ny[n] = nxt[k][n]
    BY <1>4
  <1> HIDE DEF ny
  <1> QED
    BY <1>1, <1>2, <1>5, <1>6, <1>7, <1>8

\* What the end of a fork does to the trees and lists.
Links(f, c) ==
    /\ c = fork[f] /\ c.pc \in {"read", "skip"} /\ Bounded(c)
    /\ state[f] = "live" /\ state[c.child] = "new" /\ InRcu(f)
    /\ state' = [state EXCEPT ![c.child] = "live"]
    /\ penalty' = [penalty EXCEPT ![c.child] =
           update_penalty(0, IF c.pc = "read" THEN bc[c.kind][c.anc].penalty ELSE 0,
                          c.child \in Protected)]
    /\ grace' = [t \in Tasks |-> grace[t] \ {f}]
    /\ fork' = Disturbed(f)
    /\ UNCHANGED <<clock, leader, bc>>
    /\ \/ /\ c.kind = "group" /\ leader[c.child] = leader[f]
          /\ parent' = [parent EXCEPT ![c.child] = parent[f]]
          /\ nxt' = Linked("group", leader[f], c.child)
       \/ /\ c.kind = "subtree" /\ leader[c.child] = c.child
          /\ parent' = [parent EXCEPT ![c.child] = f]
          /\ nxt' = [Linked("subtree", f, c.child) EXCEPT
                        !["group"][Anchor(c.child)] = c.child,
                        !["group"][c.child] = Anchor(c.child)]

LEMMA FinishFacts ==
    ASSUME TreeInv, NEW f \in Tasks, Finish(f)
    PROVE  \E c \in Calls : Links(f, c)
  <1>1. PICK c \in Calls : c = fork[f]
    BY DEF TreeInv, TypeInv, ForkTyped
  <1>2. c.pc \in {"read", "skip"} /\ Bounded(c) /\ InRcu(f)
    BY <1>1 DEF TreeInv, TypeInv, ForkTyped, Finish, InRcu
  <1>3. /\ state[f] = "live" /\ state[c.child] = "new"
        /\ leader[c.child] = IF c.kind = "group" THEN leader[f] ELSE c.child
    BY <1>1, <1>2 DEF TreeInv, ForksSound
  <1>4. c.kind = "group" \/ c.kind = "subtree"
    BY DEF Calls, Kinds
  <1>5. /\ state' = [state EXCEPT ![c.child] = "live"]
        /\ penalty' = [penalty EXCEPT ![c.child] =
               update_penalty(0, IF c.pc = "read" THEN bc[c.kind][c.anc].penalty ELSE 0,
                              c.child \in Protected)]
        /\ grace' = [t \in Tasks |-> grace[t] \ {f}]
        /\ fork' = Disturbed(f)
        /\ UNCHANGED <<clock, leader, bc>>
    BY <1>1 DEF Finish
  <1>6. IF c.kind = "group"
        THEN /\ parent' = [parent EXCEPT ![c.child] = parent[f]]
             /\ nxt' = Linked("group", leader[f], c.child)
        ELSE /\ parent' = [parent EXCEPT ![c.child] = f]
             /\ nxt' = [Linked("subtree", f, c.child) EXCEPT
                           !["group"][Anchor(c.child)] = c.child,
                           !["group"][c.child] = Anchor(c.child)]
    BY <1>1 DEF Finish
  <1>7. CASE c.kind = "group"
    BY <1>1, <1>2, <1>3, <1>5, <1>6, <1>7 DEF Links
  <1>8. CASE c.kind = "subtree"
    <2>1. c.kind # "group"
      BY <1>8
    <2> QED
      BY <1>1, <1>2, <1>3, <1>5, <1>6, <1>8, <2>1 DEF Links
  <1> QED
    BY <1>4, <1>7, <1>8

LEMMA FinishTree ==
    ASSUME TreeInv, NEW f \in Tasks, NEW c \in Calls, Links(f, c)
    PROVE  /\ TreeInv'
           /\ \A u \in Tasks : Hashed(u)' <=> Hashed(u) \/ u = c.child
           /\ \A k \in Kinds : Node(k) \subseteq Node(k)' /\ c.child \notin Node(k)
           /\ \A u \in Tasks : u # c.child => /\ parent'[u] = parent[u]
                                              /\ state'[u] = state[u]
           /\ \A k \in Kinds, u \in Tasks : u \notin Node(k) /\ u # c.child
                => nxt'[k][u] = nxt[k][u]
  <1> DEFINE child == c.child
  <1>1. /\ child \in Tasks /\ state[child] = "new" /\ state[f] = "live"
        /\ state' = [state EXCEPT ![child] = "live"] /\ fork' = Disturbed(f)
        /\ UNCHANGED <<clock, leader, bc>> /\ c = fork[f] /\ c.pc # "idle"
        /\ grace' = [t \in Tasks |-> grace[t] \ {f}]
    BY DEF Links, Calls
  <1>2. /\ \/ /\ c.kind = "group" /\ leader[child] = leader[f]
              /\ parent' = [parent EXCEPT ![child] = parent[f]]
              /\ nxt' = Linked("group", leader[f], child)
           \/ /\ c.kind = "subtree" /\ leader[child] = child
              /\ parent' = [parent EXCEPT ![child] = f]
              /\ nxt' = [Linked("subtree", f, child) EXCEPT
                            !["group"][Anchor(child)] = child,
                            !["group"][child] = Anchor(child)]
    BY DEF Links
  <1> HIDE DEF child
  <1>3. /\ TreeTyped /\ TreeSound /\ ListsSound
        /\ parent \in [Tasks -> Tasks] /\ leader \in [Tasks -> Tasks]
        /\ state \in [Tasks -> {"unborn", "new", "live", "zombie", "dead"}]
        /\ nxt \in [Kinds -> [Nodes -> Nodes]]
    BY DEF TreeInv, TypeInv, TreeTyped
  <1>4. /\ state'[child] = "live" /\ \A u \in Tasks : u # child => state'[u] = state[u]
        /\ \A u \in Tasks : u # child => parent'[u] = parent[u]
        /\ parent' \in [Tasks -> Tasks]
    BY <1>1, <1>2, <1>3
  <1>5. \A u \in Tasks : Hashed(u)' <=> Hashed(u) \/ u = child
    BY <1>1, <1>4 DEF Hashed
  <1>6. /\ child # Root /\ ~Hashed(child) /\ child # f /\ Hashed(f)
        /\ leader[f] \in Tasks /\ Hashed(leader[f]) /\ leader[f] # child
        /\ leader[leader[f]] = leader[f] /\ parent[f] \in Tasks
        /\ state[parent[f]] = "live"
    BY <1>1, <1>3 DEF TreeSound, Hashed
  <1>7. \A k \in Kinds : child \notin Node(k)
    BY <1>1, <1>6, NodeFacts DEF Node
  <1>8. \A k \in Kinds : Node(k)' = Node(k) \cup
                           (IF k = "subtree" => leader[child] = child THEN {child} ELSE {})
    <2>1. leader' = leader
      BY <1>1
    <2> QED
      BY <1>1, <1>5, <1>6, <2>1 DEF Node
  <1>9. /\ ForkTyped' /\ TimeTyped' /\ fork'[f].pc = "idle"
        /\ \A g \in Tasks : g # f => SameLocals(fork[g], fork'[g])
    BY <1>1, Disturb DEF TreeInv, TypeInv
  <1>10. \A k \in Kinds : \A n \in Node(k) :
            n \in Nodes /\ n # child /\ Owner(k)'[n] = Owner(k)[n]
    <2>1. \A k \in Kinds : \A n \in Node(k) : n \in Nodes /\ n # child
      BY <1>3, <1>7, NodesTyped
    <2> QED
      BY <1>1, <1>4, <2>1 DEF Owner
  <1>11. \A k \in Kinds : /\ Chain(Node(k), Owner(k), nxt[k]) /\ Node(k) \in SUBSET Nodes
                          /\ \A t \in Tasks : Anchor(t) \in Node(k)
                                              /\ Owner(k)[Anchor(t)] = t
    <2>1. \A t \in Tasks : Anchor(t) \in Heads
      BY NodeFacts
    <2> QED
      BY <1>3, <2>1, NodesTyped DEF ListsSound
  <1>12. ASSUME NEW k \in Kinds, NEW t \in Tasks, Owner(k)'[child] = t,
                Node(k)' = Node(k) \cup {child},
                nxt'[k][child] = Anchor(t),
                \A n \in Node(k) : nxt'[k][n] = IF nxt[k][n] = Anchor(t) THEN child
                                                ELSE nxt[k][n]
         PROVE  Chain(Node(k)', Owner(k)', nxt'[k])
    <2>1. Appended(Node(k), Owner(k), Owner(k)', nxt[k], nxt'[k], t, child)
      BY <1>1, <1>7, <1>10, <1>11, <1>12 DEF Appended
    <2>2. Chain(Node(k) \cup {child}, Owner(k)', nxt'[k])
      BY <2>1, Appending
    <2> QED
      BY <1>12, <2>2
  <1>13. /\ "group" \in Kinds /\ "subtree" \in Kinds /\ Kinds = {"group", "subtree"}
         /\ "group" # "subtree" /\ child \in Nodes /\ Anchor(child) \in Nodes
         /\ Anchor(child) # child
    BY <1>1, NodeFacts DEF Kinds
  <1> DEFINE Linking ==
               /\ nxt' \in [Kinds -> [Nodes -> Nodes]] /\ ListsSound'
               /\ state'[parent'[child]] = "live" /\ Hashed(leader[child])'
               /\ leader'[leader'[child]] = leader'[child]
               /\ \A k \in Kinds, u \in Tasks : u \notin Node(k) /\ u # child
                    => nxt'[k][u] = nxt[k][u]
  <1>14. ASSUME c.kind = "group"
         PROVE  Linking
    <2>1. /\ leader[child] = leader[f] /\ parent'[child] = parent[f]
          /\ nxt' = Linked("group", leader[f], child)
      BY <1>1, <1>2, <1>3, <1>13, <1>14
    <2>2. /\ nxt' \in [Kinds -> [Nodes -> Nodes]]
          /\ nxt'["group"][child] = Anchor(leader[f])
          /\ \A n \in Node("group") : n # child =>
               nxt'["group"][n] = IF nxt["group"][n] = Anchor(leader[f]) THEN child
                                  ELSE nxt["group"][n]
          /\ \A n \in Nodes : n # child /\ n \notin Node("group")
               => nxt'["group"][n] = nxt["group"][n]
          /\ \A j \in Kinds : j # "group" => nxt'[j] = nxt[j]
      BY <1>1, <1>6, <1>7, <1>13, <2>1, LinkedAt
    <2>3. Chain(Node("group")', Owner("group")', nxt'["group"])
      <3>1. Owner("group")'[child] = leader[f]
        BY <1>1, <1>13, <2>1 DEF Owner
      <3>2. Node("group")' = Node("group") \cup {child}
        BY <1>8, <1>13
      <3> QED
        BY <1>6, <1>10, <1>12, <1>13, <2>2, <3>1, <3>2
    <2>4. Chain(Node("subtree")', Owner("subtree")', nxt'["subtree"])
      <3>1. Node("subtree")' = Node("subtree") /\ nxt'["subtree"] = nxt["subtree"]
        BY <1>6, <1>8, <1>13, <2>1, <2>2
      <3> QED
        BY <1>10, <1>11, <1>13, <3>1, ChainSame
    <2>5. ListsSound'
      BY <1>13, <2>3, <2>4 DEF ListsSound
    <2>6. /\ state'[parent'[child]] = "live" /\ Hashed(leader[child])'
          /\ leader'[leader'[child]] = leader'[child]
      <3>1. state'[parent[f]] = "live" /\ state'[leader[f]] = state[leader[f]]
        BY <1>4, <1>6
      <3> QED
        BY <1>1, <1>6, <2>1, <3>1 DEF Hashed
    <2>7. \A k \in Kinds, u \in Tasks : u \notin Node(k) /\ u # child
                => nxt'[k][u] = nxt[k][u]
      <3>1. \A u \in Tasks : u \in Nodes
        BY NodeFacts
      <3> QED
        BY <1>13, <2>2, <3>1
    <2> QED
      BY <2>2, <2>5, <2>6, <2>7
  <1>15. ASSUME c.kind = "subtree"
         PROVE  Linking
    <2> DEFINE ln == Linked("subtree", f, child)
    <2>1. /\ leader[child] = child /\ parent'[child] = f
          /\ nxt' = [ln EXCEPT !["group"][Anchor(child)] = child,
                               !["group"][child] = Anchor(child)]
      BY <1>1, <1>2, <1>3, <1>13, <1>15
    <2>2. /\ ln \in [Kinds -> [Nodes -> Nodes]]
          /\ ln["subtree"][child] = Anchor(f)
          /\ \A n \in Node("subtree") : n # child =>
               ln["subtree"][n] = IF nxt["subtree"][n] = Anchor(f) THEN child
                                  ELSE nxt["subtree"][n]
          /\ \A n \in Nodes : n # child /\ n \notin Node("subtree")
               => ln["subtree"][n] = nxt["subtree"][n]
          /\ \A j \in Kinds : j # "subtree" => ln[j] = nxt[j]
      BY <1>1, <1>7, <1>13, LinkedAt
    <2> HIDE DEF ln
    <2>3. /\ nxt' \in [Kinds -> [Nodes -> Nodes]]
          /\ nxt'["subtree"] = ln["subtree"]
          /\ nxt'["group"][child] = Anchor(child)
          /\ nxt'["group"][Anchor(child)] = child
          /\ \A n \in Nodes : n # child /\ n # Anchor(child)
               => nxt'["group"][n] = nxt["group"][n]
      BY <1>13, <2>1, <2>2
    <2>4. Chain(Node("subtree")', Owner("subtree")', nxt'["subtree"])
      <3>1. Owner("subtree")'[child] = f
        BY <1>1, <1>13, <2>1 DEF Owner
      <3>2. Node("subtree")' = Node("subtree") \cup {child}
        BY <1>8, <1>13, <2>1
      <3> QED
        BY <1>10, <1>12, <1>13, <2>2, <2>3, <3>1, <3>2
    <2>5. nxt["group"][Anchor(child)] = Anchor(child)
      <3>1. SUFFICES ASSUME nxt["group"][Anchor(child)] \in Tasks
                     PROVE  FALSE
        BY <1>1, <1>3, <1>13, HeadLeads
      <3> DEFINE u == nxt["group"][Anchor(child)]
      <3>2. u \in Node("group") /\ Owner("group")[u] = child /\ u \in Tasks
        BY <1>1, <1>3, <1>13, <3>1, HeadLeads
      <3> HIDE DEF u
      <3>3. Hashed(u) /\ leader[u] = child
        BY <3>2, NodeFacts DEF Node, Owner
      <3> QED
        BY <1>3, <1>6, <3>2, <3>3 DEF TreeSound
    <2>6. Chain(Node("group")', Owner("group")', nxt'["group"])
      <3>1. Owner("group")'[child] = child
        BY <1>1, <1>13, <2>1 DEF Owner
      <3>2. Node("group")' = Node("group") \cup {child}
        BY <1>8, <1>13
      <3>3. ASSUME NEW n \in Node("group")
            PROVE  nxt'["group"][n] = IF nxt["group"][n] = Anchor(child) THEN child
                                      ELSE nxt["group"][n]
        <4>1. CASE n = Anchor(child)
          BY <2>3, <2>5, <4>1
        <4>2. CASE n # Anchor(child)
          <5>1. nxt["group"][n] # Anchor(child)
            BY <1>1, <1>11, <1>13, <2>5, <4>2 DEF Chain
          <5> QED
            BY <1>10, <1>13, <2>3, <4>2, <5>1
        <4> QED
          BY <4>1, <4>2
      <3> QED
        BY <1>1, <1>12, <1>13, <2>3, <3>1, <3>2, <3>3
    <2>7. ListsSound'
      BY <1>13, <2>4, <2>6 DEF ListsSound
    <2>8. /\ state'[parent'[child]] = "live" /\ Hashed(leader[child])'
          /\ leader'[leader'[child]] = leader'[child]
      BY <1>1, <1>4, <1>6, <2>1 DEF Hashed
    <2>9. \A k \in Kinds, u \in Tasks : u \notin Node(k) /\ u # child
                => nxt'[k][u] = nxt[k][u]
      <3>1. \A u \in Tasks : u \in Nodes /\ u # Anchor(child)
        BY <1>1, NodeFacts
      <3> QED
        BY <1>13, <2>2, <2>3, <3>1
    <2> QED
      BY <2>3, <2>7, <2>8, <2>9
  <1>16. Linking
    BY <1>2, <1>14, <1>15
  <1>17. TreeTyped'
    <2>1. \A t \in Tasks : grace'[t] \subseteq Tasks
      BY <1>1, <1>3 DEF TreeTyped
    <2>2. grace' \in [Tasks -> SUBSET Tasks]
      BY <1>1, <2>1
    <2>3. state' \in [Tasks -> {"unborn", "new", "live", "zombie", "dead"}]
      BY <1>1, <1>3
    <2> QED
      BY <1>1, <1>3, <1>4, <1>16, <2>2, <2>3 DEF TreeTyped
  <1>18. TreeSound'
    <2>1. state'[Root] = "live" /\ leader'[Root] = Root
      BY <1>1, <1>3, <1>4, <1>6, Constants DEF TreeSound
    <2>2. ASSUME NEW u \in Tasks, Hashed(u)'
          PROVE  /\ state'[parent'[u]] = "live"
                 /\ Hashed(leader[u])' /\ leader'[leader'[u]] = leader'[u]
      <3>1. CASE u = child
        <4>1. Hashed(leader[u])'
          BY <1>1, <1>16, <3>1 DEF Hashed
        <4> QED
          BY <1>16, <3>1, <4>1
      <3>2. CASE u # child
        <4>1. /\ Hashed(u) /\ parent[u] \in Tasks /\ leader[u] \in Tasks
              /\ state[parent[u]] = "live" /\ Hashed(leader[u])
              /\ leader[leader[u]] = leader[u]
          BY <1>3, <1>5, <2>2, <3>2 DEF TreeSound
        <4>2. state'[parent[u]] = "live" /\ state'[leader[u]] = state[leader[u]]
              /\ parent'[u] = parent[u]
          BY <1>4, <1>6, <3>2, <4>1
        <4> QED
          BY <1>1, <4>1, <4>2 DEF Hashed
      <3> QED
        BY <3>1, <3>2
    <2> QED
      BY <2>1, <2>2 DEF TreeSound
  <1>19. ForksSound'
    <2>1. \A g \in Tasks : InRcu(g)' => g # f /\ InRcu(g)
                              /\ fork'[g].child = fork[g].child
                              /\ fork'[g].kind = fork[g].kind
      BY <1>9 DEF InRcu, SameLocals
    <2>2. \A g \in Tasks : fork[g].child \in Tasks
      BY DEF TreeInv, TypeInv, ForkTyped, Calls
    <2>3. ASSUME NEW g \in Tasks, InRcu(g)'
          PROVE  /\ state'[g] = "live" /\ state'[fork'[g].child] = "new"
                 /\ leader'[fork'[g].child] = IF fork'[g].kind = "group" THEN leader'[g]
                                              ELSE fork'[g].child
      <3>1. /\ state[g] = "live" /\ state[fork[g].child] = "new"
            /\ leader[fork[g].child] = IF fork[g].kind = "group" THEN leader[g]
                                       ELSE fork[g].child
        BY <2>1, <2>3 DEF TreeInv, ForksSound
      <3>2. fork[g].child # child
        <4>1. InRcu(f)
          BY <1>1 DEF InRcu
        <4> QED
          BY <1>1, <2>1, <2>3, <4>1 DEF TreeInv, ForksSound, child
      <3>3. state'[fork[g].child] = "new" /\ state'[g] = "live"
        BY <1>1, <1>4, <2>2, <3>1, <3>2
      <3> QED
        BY <1>1, <2>1, <2>3, <3>1, <3>3
    <2>4. ASSUME NEW g \in Tasks, NEW e \in Tasks, InRcu(g)', InRcu(e)',
                 fork'[g].child = fork'[e].child
          PROVE  g = e
      BY <2>1, <2>4 DEF TreeInv, ForksSound
    <2> QED
      BY <2>3, <2>4 DEF ForksSound
  <1>20. ValuesTyped'
    <2> DEFINE i == IF c.pc = "read" THEN bc[c.kind][c.anc].penalty ELSE 0
    <2>1. i \in Halves
      BY Constants DEF TreeInv, TypeInv, ValuesTyped, Caches, Calls
    <2>2. update_penalty(0, i, child \in Protected) \in Halves
      <3> HIDE DEF i
      <3> QED
        BY <2>1, Constants DEF update_penalty, Larger
    <2>3. penalty' = [penalty EXCEPT ![child] = update_penalty(0, i, child \in Protected)]
      BY DEF Links, child
    <2> HIDE DEF i
    <2>4. penalty' \in [Tasks -> Halves]
      BY <2>2, <2>3 DEF TreeInv, TypeInv, ValuesTyped
    <2> QED
      BY <1>1, <2>4 DEF TreeInv, TypeInv, ValuesTyped
  <1>21. TreeInv'
    BY <1>9, <1>16, <1>17, <1>18, <1>19, <1>20 DEF TreeInv, TypeInv
  <1>22. \A k \in Kinds : Node(k) \subseteq Node(k)'
    BY <1>8
  <1> QED
    BY <1>4, <1>5, <1>7, <1>16, <1>21, <1>22 DEF child

\* Every step.
LEMMA StepCases ==
    ASSUME Next
    PROVE  \/ \E t \in Tasks : \/ Begin(t) \/ LocalStep(t) \/ update_burst_cache(t)
                               \/ Finish(t) \/ Charge(t) \/ Exit(t) \/ Release(t)
           \/ Tick
  BY DEF Next, ForkStep, inherit_from_parent, inherit_from_ancestor_hub,
         inherit_from_thread_group, LocalStep

LEMMA TreeStep ==
    ASSUME TreeInv, [Next]_vars
    PROVE  TreeInv'
  <1>1. CASE UNCHANGED vars
    <2>1. UNCHANGED tree /\ UNCHANGED <<clock, penalty, bc, fork>>
      BY <1>1 DEF vars, tree
    <2>2. TreeTyped' /\ ListsSound' /\ TreeSound'
      BY <2>1, TreeSame DEF TreeInv, TypeInv
    <2>3. ForkTyped' /\ TimeTyped' /\ ValuesTyped'
      BY <2>1 DEF TreeInv, TypeInv, ForkTyped, TimeTyped, ValuesTyped
    <2>4. ForksSound'
      BY <2>1 DEF TreeInv, ForksSound, tree, InRcu
    <2> QED
      BY <2>2, <2>3, <2>4 DEF TreeInv, TypeInv
  <1>2. ASSUME NEW t \in Tasks, Finish(t)
        PROVE  TreeInv'
    <2>1. PICK c \in Calls : Links(t, c)
      BY <1>2, FinishFacts
    <2> QED
      BY <2>1, FinishTree
  <1>3. CASE Next
    BY <1>2, <1>3, StepCases, BeginTree, LocalTree, UpdateTree, ChargeTree, ExitTree,
       ReleaseTree, TickTree
  <1> QED
    BY <1>1, <1>3

LEMMA TreeAlways == Spec => []TreeInv
  BY InitTree, TreeStep, PTL DEF Spec

\* The types, for any lists, at any time of any fork: the samples of a scan
\* are never more than the table of reciprocals has entries for, the sum of
\* their penalties fits, the scan ends at its limit, and a descent is always
\* at a task.
THEOREM InheritTypeCorrect == Spec => []TypeOK
  <1>1. TreeInv => TypeOK
    <2> SUFFICES ASSUME TreeInv
                 PROVE  TypeOK
      OBVIOUS
    <2>1. \A k \in Kinds, t \in Tasks :
            /\ bc[k][t].timestamp \in 0 .. LastTime \div pow2[Shift]
            /\ bc[k][t].penalty \in Halves
      BY Constants DEF TreeInv, TypeInv, ValuesTyped, Caches
    <2>2. ASSUME NEW f \in Tasks, NEW c \in Calls, c = fork[f]
          PROVE  /\ c.kind \in Kinds /\ {c.hub, c.calm} \subseteq BOOLEAN
                 /\ c.child \in Tasks
                 /\ c.anc \in Tasks /\ c.up \in Tasks /\ c.first \in Nodes
                 /\ c.cursor \in Nodes /\ c.desc \in Nodes
                 /\ c.now \in 0 .. clock /\ c.floor \in 0 .. c.now
                 /\ c.sole \in {0, 1}
                 /\ c.count \in 0 .. SampleLimit /\ c.scans \in 0 .. ScanLimit
                 /\ c.total \in 0 .. c.count * (pow2[HalfBits] - 1)
                 /\ c.count = Len(c.seen)
      <3>1. /\ c.kind \in Kinds /\ c.hub \in BOOLEAN /\ c.calm \in BOOLEAN
            /\ c.child \in Tasks
            /\ c.anc \in Tasks /\ c.up \in Tasks /\ c.first \in Nodes
            /\ c.cursor \in Nodes /\ c.desc \in Nodes /\ c.sole \in {0, 1}
            /\ c.now \in Nat /\ c.floor \in Nat /\ c.count \in Nat
            /\ c.scans \in Nat /\ c.total \in Nat
        BY DEF Calls
      <3>2. /\ c.now <= clock /\ c.floor <= c.now /\ clock \in Nat
        BY <2>2, Constants DEF TreeInv, TypeInv, TimeTyped
      <3>3. /\ c.count <= SampleLimit /\ c.scans <= ScanLimit
            /\ c.total <= c.count * (pow2[HalfBits] - 1) /\ c.count = Len(c.seen)
        BY <2>2 DEF TreeInv, TypeInv, ForkTyped, Bounded
      <3>4. c.count * (pow2[HalfBits] - 1) \in Int
        BY <3>1, Constants
      <3> QED
        BY <3>1, <3>2, <3>3, <3>4, Constants
    <2>3. \A f \in Tasks : fork[f] \in Calls
      BY DEF TreeInv, TypeInv, ForkTyped
    <2>4. /\ clock \in FirstTime .. LastTime
          /\ penalty \in [Tasks -> Halves]
      BY DEF TreeInv, TypeInv, TimeTyped, ValuesTyped
    <2> QED
      BY <2>1, <2>2, <2>3, <2>4 DEF TreeInv, TypeInv, TreeTyped, TypeOK
  <1> QED
    BY <1>1, TreeAlways, PTL

-----------------------------------------------------------------------------
(* No use after free *)

\* What is visible of the trees.
LEMMA Sight ==
    ASSUME SafeInv, NEW f \in Tasks, NEW t \in Tasks, Visible(f, t)
    PROVE  /\ Visible(f, parent[t]) /\ parent[t] \in Tasks
           /\ Visible(f, Of(nxt["subtree"][Anchor(t)]))
           /\ nxt["subtree"][Anchor(t)] \in Nodes
  <1>1. TreeTyped /\ ListsSound /\ TreeSound /\ GraceSound
    BY DEF SafeInv, TreeInv, TypeInv
  <1>2. parent[t] \in Tasks /\ "subtree" \in Kinds
    BY <1>1 DEF TreeTyped, Kinds
  <1>3. Visible(f, parent[t])
    <2>1. CASE Hashed(t)
      BY <1>1, <2>1 DEF TreeSound, Visible, Hashed
    <2>2. CASE f \in grace[t]
      BY <1>1, <2>2 DEF GraceSound
    <2> QED
      BY <2>1, <2>2 DEF Visible
  <1> DEFINE n == nxt["subtree"][Anchor(t)]
  <1>4. n \in Node("subtree") /\ (n = Anchor(t) \/ n \in Tasks)
    BY <1>1, <1>2, HeadLeads
  <1>5. n \in Nodes
    BY <1>1, <1>2, <1>4, NodesTyped
  <1> HIDE DEF n
  <1>6. Visible(f, Of(n))
    <2>1. CASE n = Anchor(t)
      BY <2>1, NodeFacts
    <2>2. CASE n \in Tasks
      BY <1>4, <2>2, NodeFacts DEF Node, Visible
    <2> QED
      BY <1>4, <2>1, <2>2
  <1> QED
    BY <1>2, <1>3, <1>5, <1>6 DEF n

\* Where a scan goes on, from a task in the list, from one that has been
\* moved to another or from one that is gone.
LEMMA ScanSight ==
    ASSUME SafeInv, NEW f \in Tasks, NEW c \in Calls, LocalsVisible(f, c),
           c.pc = "scan"
    PROVE  /\ Visible(f, Of(nxt[c.kind][c.cursor])) /\ nxt[c.kind][c.cursor] \in Nodes
           /\ nxt[c.kind][c.cursor] \in Tasks =>
                \/ nxt[c.kind][c.cursor] \in Node(c.kind)
                \/ state[nxt[c.kind][c.cursor]] = "dead"
  <1>1. TreeTyped /\ ListsSound /\ TreeSound /\ GraceSound
    BY DEF SafeInv, TreeInv, TypeInv
  <1>2. /\ c.kind \in Kinds /\ c.cursor \in Nodes /\ Visible(f, Of(c.cursor))
        /\ c.cursor \in Tasks => c.cursor \in Node(c.kind) \/ state[c.cursor] = "dead"
    BY DEF Calls, LocalsVisible
  <1> DEFINE k == c.kind
             m == c.cursor
             n == nxt[k][m]
  <1> HIDE DEF k, m
  <1>3. /\ k \in Kinds /\ m \in Nodes /\ Visible(f, Of(m))
        /\ m \in Tasks => m \in Node(k) \/ state[m] = "dead"
    BY <1>2 DEF k, m
  <1>4. n \in Nodes
    BY <1>1, <1>3, NodesTyped
  <1>5. \A u \in Node(k) : u \in Tasks => Visible(f, u) /\ Of(u) = u
    BY NodeFacts DEF Node, Visible
  <1>6. ASSUME m \notin Tasks
        PROVE  Visible(f, Of(n)) /\ (n \in Tasks => n \in Node(k))
    <2>1. m = Anchor(m[2]) /\ m[2] \in Tasks /\ Of(m) = m[2]
      BY <1>3, <1>6, NodeFacts DEF Of
    <2>2. n \in Node(k) /\ (n = m \/ n \in Tasks)
      BY <1>1, <1>3, <2>1, HeadLeads
    <2> QED
      BY <1>3, <1>5, <2>2
  <1>7. ASSUME m \in Tasks, m \in Node(k)
        PROVE  Visible(f, Of(n)) /\ (n \in Tasks => n \in Node(k))
    <2>1. n \in Node(k) /\ Owner(k)[n] = Owner(k)[m]
      BY <1>1, <1>3, <1>7 DEF ListsSound, Chain
    <2>2. CASE n \in Tasks
      BY <1>5, <2>1, <2>2
    <2>3. CASE n \notin Tasks
      <3>1. Of(n) = Owner(k)[n]
        BY <1>4, <2>3 DEF Of, Owner
      <3>2. Owner(k)[m] = IF k = "group" THEN leader[m] ELSE parent[m]
        BY <1>3, <1>7 DEF Owner
      <3>3. Hashed(m)
        BY <1>7, NodeFacts DEF Node
      <3>4. Hashed(Owner(k)[m])
        BY <1>1, <1>7, <3>2, <3>3 DEF TreeSound, Hashed
      <3> QED
        BY <2>1, <2>3, <3>1, <3>4 DEF Visible
    <2> QED
      BY <2>2, <2>3
  <1>8. ASSUME m \in Tasks, state[m] = "dead"
        PROVE  /\ Visible(f, Of(n))
               /\ n \in Tasks => n \in Node(k) \/ state[n] = "dead"
    <2>1. f \in grace[m]
      BY <1>3, <1>8, NodeFacts DEF Visible, Hashed
    <2>2. CASE k = "subtree"
      <3>1. n = m
        BY <1>1, <1>8, <2>2 DEF GraceSound
      <3> QED
        BY <1>3, <1>8, <3>1
    <2>3. CASE k = "group"
      <3>1. n # Root /\ Visible(f, Of(n))
        BY <1>1, <1>8, <2>1, <2>3 DEF GraceSound
      <3>2. ASSUME n \in Tasks
            PROVE  n \in Node(k) \/ state[n] = "dead"
        <4>1. Hashed(n) \/ f \in grace[n]
          BY <3>1, <3>2, NodeFacts DEF Visible
        <4>2. CASE Hashed(n)
          BY <2>3, <3>1, <3>2, <4>2 DEF Node
        <4>3. CASE f \in grace[n]
          BY <1>1, <3>2, <4>3 DEF GraceSound
        <4> QED
          BY <4>1, <4>2, <4>3
      <3> QED
        BY <3>1, <3>2
    <2> QED
      BY <1>3, <2>2, <2>3 DEF Kinds
  <1>9. /\ Visible(f, Of(n))
        /\ n \in Tasks => n \in Node(k) \/ state[n] = "dead"
    BY <1>3, <1>6, <1>7, <1>8
  <1> QED
    BY <1>4, <1>9 DEF n, k, m

\* Every step of the hook before its end leaves its locals visible.
LEMMA LocalSight ==
    ASSUME SafeInv, NEW f \in Tasks, LocalStep(f)
    PROVE  \E new \in Calls : /\ Locally(f, new) /\ Bounded(new) /\ Keeps(fork[f], new)
                              /\ LocalsVisible(f, new)
  <1>1. PICK new \in Calls : Locally(f, new) /\ Bounded(new) /\ Keeps(fork[f], new)
    BY LocalTyped DEF SafeInv
  <1>2. PICK c \in Calls : c = fork[f]
    BY DEF SafeInv, TreeInv, TypeInv, ForkTyped
  <1>3. /\ fork' = [fork EXCEPT ![f] = new] /\ fork'[f] = new /\ c.pc # "idle"
        /\ new.kind = c.kind
    BY <1>1, <1>2 DEF Locally, Keeps, SafeInv, TreeInv, TypeInv, ForkTyped
  <1>4. LocalsVisible(f, c)
    BY <1>2, <1>3 DEF SafeInv, SightSound, InRcu
  <1>5. /\ \A t \in {c.anc, c.up, Of(c.first), Of(c.cursor), Of(c.desc)} : Visible(f, t)
        /\ c.pc \in Descending \cup {"scan", "sample"} /\ c.cursor \in Tasks
             => c.cursor \in Node(c.kind) \/ state[c.cursor] = "dead"
        /\ c.anc \in Tasks /\ c.up \in Tasks /\ c.desc \in Nodes
    BY <1>4 DEF LocalsVisible, Calls
  <1>6. \A x : Locally(f, x) => fork'[f] = x
    BY DEF Locally, SafeInv, TreeInv, TypeInv, ForkTyped
  <1>7. CASE Climb(f)
    <2>1. /\ Visible(f, parent[c.anc])
          /\ Visible(f, Of(nxt["subtree"][Anchor(c.anc)]))
      BY <1>5, Sight
    <2>2. \/ new = [c EXCEPT !.pc = "check"]
          \/ new = [c EXCEPT !.pc = "first", !.up = parent[c.anc]]
          \/ new = [c EXCEPT !.pc = "second", !.first = nxt["subtree"][Anchor(c.anc)]]
          \/ new = [c EXCEPT !.pc = "up", !.anc = c.up, !.sole = 1]
      BY <1>2, <1>3, <1>6, <1>7 DEF Climb
    <2>3. LocalsVisible(f, new)
      <3>1. CASE new = [c EXCEPT !.pc = "check"]
        BY <1>5, <3>1 DEF LocalsVisible, Calls, Descending
      <3>2. CASE new = [c EXCEPT !.pc = "first", !.up = parent[c.anc]]
        BY <1>5, <2>1, <3>2 DEF LocalsVisible, Calls, Descending
      <3>3. CASE new = [c EXCEPT !.pc = "second", !.first = nxt["subtree"][Anchor(c.anc)]]
        BY <1>5, <2>1, <3>3 DEF LocalsVisible, Calls, Descending
      <3>4. CASE new = [c EXCEPT !.pc = "up", !.anc = c.up, !.sole = 1]
        BY <1>5, <3>4 DEF LocalsVisible, Calls, Descending
      <3> QED
        BY <2>2, <3>1, <3>2, <3>3, <3>4
    <2> QED
      BY <1>1, <2>3
  <1>8. CASE Check(f)
    <2>1. \/ new = [c EXCEPT !.pc = "scan", !.cursor = Anchor(c.anc)]
          \/ new = [c EXCEPT !.pc = "read"]
      BY <1>2, <1>3, <1>6, <1>8 DEF Check
    <2>2. Of(Anchor(c.anc)) = c.anc /\ Anchor(c.anc) \notin Tasks
      BY <1>5, NodeFacts
    <2>3. LocalsVisible(f, new)
      <3>1. CASE new = [c EXCEPT !.pc = "scan", !.cursor = Anchor(c.anc)]
        BY <1>5, <2>2, <3>1 DEF LocalsVisible, Calls
      <3>2. CASE new = [c EXCEPT !.pc = "read"]
        BY <1>5, <3>2 DEF LocalsVisible, Calls, Descending
      <3> QED
        BY <2>1, <3>1, <3>2
    <2> QED
      BY <1>1, <2>3
  <1>9. CASE Scan(f)
    <2> DEFINE n == nxt[c.kind][c.cursor]
               at == [c EXCEPT !.cursor = n, !.scans = Scanned(c, n)]
    <2>1. c.pc = "scan"
      BY <1>2, <1>9 DEF Scan
    <2>2. Visible(f, Of(n)) /\ (n \in Tasks => n \in Node(c.kind) \/ state[n] = "dead")
      BY <1>4, <2>1, ScanSight
    <2>3. \/ new = [c EXCEPT !.pc = "update"]
          \/ new = [at EXCEPT !.pc = IF c.hub /\ n \in Tasks THEN "down" ELSE "sample",
                              !.desc = n]
      BY <1>2, <1>3, <1>6, <1>9 DEF Scan
    <2> HIDE DEF n
    <2>4. LocalsVisible(f, new)
      <3>1. CASE new = [c EXCEPT !.pc = "update"]
        BY <1>5, <3>1 DEF LocalsVisible, Calls, Descending
      <3>2. CASE new = [at EXCEPT !.pc = IF c.hub /\ n \in Tasks THEN "down" ELSE "sample",
                                  !.desc = n]
        <4>1. /\ new.anc = c.anc /\ new.up = c.up /\ new.first = c.first
              /\ new.cursor = n /\ new.desc = n /\ new.kind = c.kind
          BY <3>2 DEF Calls
        <4> QED
          BY <1>5, <2>2, <4>1 DEF LocalsVisible
      <3> QED
        BY <2>3, <3>1, <3>2
    <2> QED
      BY <1>1, <2>4
  <1>10. CASE Descend(f)
    <2> DEFINE n == nxt["subtree"][Anchor(c.desc)]
    <2>1. c.pc \in Descending /\ c.desc \in Tasks
      <3>1. c.pc \in Descending
        BY <1>2, <1>10 DEF Descend, Descending
      <3> QED
        BY <1>2, <3>1 DEF SafeInv, TreeInv, TypeInv, ForkTyped, Bounded
    <2>2. Visible(f, Of(n))
      BY <1>5, <2>1, Sight, NodeFacts
    <2>3. \/ new = [c EXCEPT !.pc = "down2", !.first = n]
          \/ new = [c EXCEPT !.pc = "down3"]
          \/ new = [c EXCEPT !.pc = "sample"]
          \/ new = [c EXCEPT !.pc = "down", !.desc = n]
      BY <1>2, <1>3, <1>6, <1>10 DEF Descend
    <2> HIDE DEF n
    <2>4. LocalsVisible(f, new)
      <3>1. /\ new.anc = c.anc /\ new.up = c.up /\ new.first \in {c.first, n}
            /\ new.cursor = c.cursor /\ new.desc \in {c.desc, n}
        BY <2>3 DEF Calls
      <3> QED
        BY <1>3, <1>5, <2>1, <2>2, <3>1 DEF LocalsVisible
    <2> QED
      BY <1>1, <2>4
  <1>11. CASE TakeSample(f)
    <2>1. c.pc = "sample"
      BY <1>2, <1>11 DEF TakeSample
    <2>2. \/ \E p \in Halves : new = Sampled(c, c.desc, p, clock)
          \/ new = [c EXCEPT !.pc = "scan"]
      BY <1>2, <1>3, <1>6, <1>11, SampleCases DEF SafeInv
    <2>3. /\ new.anc = c.anc /\ new.up = c.up /\ new.first = c.first
          /\ new.cursor = c.cursor /\ new.desc = c.desc
      BY <2>2 DEF Calls, Sampled
    <2>4. LocalsVisible(f, new)
      BY <1>3, <1>5, <2>1, <2>3 DEF LocalsVisible
    <2> QED
      BY <1>1, <2>4
  <1> QED
    BY <1>7, <1>8, <1>9, <1>10, <1>11 DEF LocalStep

\* What other tasks' steps leave visible.
VisibleKept(f) == \A t \in Tasks : Visible(f, t) => Visible(f, t)'

NodesKept ==
    \A k \in Kinds, t \in Tasks : t \in Node(k) \/ state[t] = "dead"
        => t \in Node(k)' \/ state'[t] = "dead"

LEMMA SightKept ==
    ASSUME NEW f \in Tasks, ForkTyped, LocalsVisible(f, fork[f]),
           SameLocals(fork[f], fork'[f]), VisibleKept(f), NodesKept
    PROVE  LocalsVisible(f, fork[f])'
  <1>1. PICK c \in Calls : c = fork[f]
    BY DEF ForkTyped
  <1>2. /\ \A t \in {c.anc, c.up, Of(c.first), Of(c.cursor), Of(c.desc)} : Visible(f, t)
        /\ c.pc \in Descending \cup {"scan", "sample"} /\ c.cursor \in Tasks
             => c.cursor \in Node(c.kind) \/ state[c.cursor] = "dead"
    BY <1>1 DEF LocalsVisible
  <1>3. /\ c.anc \in Tasks /\ c.up \in Tasks /\ Of(c.first) \in Tasks
        /\ Of(c.cursor) \in Tasks /\ Of(c.desc) \in Tasks /\ c.kind \in Kinds
    BY NodeFacts DEF Calls
  <1>4. /\ \A t \in {c.anc, c.up, Of(c.first), Of(c.cursor), Of(c.desc)} : Visible(f, t)'
        /\ c.pc \in Descending \cup {"scan", "sample"} /\ c.cursor \in Tasks
             => c.cursor \in Node(c.kind)' \/ state'[c.cursor] = "dead"
    BY <1>2, <1>3 DEF VisibleKept, NodesKept
  <1>5. /\ fork'[f].pc = c.pc /\ fork'[f].kind = c.kind /\ fork'[f].anc = c.anc
        /\ fork'[f].up = c.up /\ fork'[f].first = c.first
        /\ fork'[f].cursor = c.cursor /\ fork'[f].desc = c.desc
    BY <1>1 DEF SameLocals
  <1>6. \A t \in {fork'[f].anc, fork'[f].up, Of(fork'[f].first), Of(fork'[f].cursor),
                  Of(fork'[f].desc)} : Visible(f, t)'
    BY <1>4, <1>5
  <1>7. fork'[f].pc \in Descending \cup {"scan", "sample"} /\ fork'[f].cursor \in Tasks
             => fork'[f].cursor \in Node(fork[f].kind)' \/ state'[fork'[f].cursor] = "dead"
    BY <1>4, <1>5 DEF Node, Hashed
  <1> QED
    BY <1>6, <1>7 DEF LocalsVisible, Visible, Hashed, Of, Descending

\* A step of one fork with the trees as they are.
LEMMA SightOfFork ==
    ASSUME SafeInv, NEW f \in Tasks, NEW new \in Calls, UNCHANGED tree,
           fork' = [fork EXCEPT ![f] = new], Keeps(fork[f], new),
           LocalsVisible(f, new)
    PROVE  GraceSound' /\ SightSound'
  <1>1. /\ fork'[f] = new /\ \A g \in Tasks : g # f => fork'[g] = fork[g]
        /\ \A g \in Tasks : InRcu(g)' = InRcu(g)
    BY DEF SafeInv, TreeInv, TypeInv, ForkTyped, Keeps, InRcu
  <1>2. /\ state' = state /\ parent' = parent /\ nxt' = nxt /\ grace' = grace
        /\ leader' = leader
    BY DEF tree
  <1>3. \A g, t \in Tasks : Visible(g, t)' = Visible(g, t)
    BY <1>2 DEF Visible, Hashed
  <1>4. GraceSound'
    <2>1. grace \in [Tasks -> SUBSET Tasks]
      BY DEF SafeInv, TreeInv, TypeInv, TreeTyped
    <2> QED
      BY <1>1, <1>2, <2>1 DEF SafeInv, GraceSound, Visible, Hashed
  <1>5. ASSUME NEW g \in Tasks, InRcu(g)'
        PROVE  LocalsVisible(g, fork[g])'
    <2>1. LocalsVisible(g, fork'[g])
      BY <1>1, <1>5 DEF SafeInv, SightSound
    <2>2. \A k \in Kinds : Node(k)' = Node(k)
      BY TreeSame
    <2>3. /\ \A t \in {fork'[g].anc, fork'[g].up, Of(fork'[g].first),
                       Of(fork'[g].cursor), Of(fork'[g].desc)} : Visible(g, t)
          /\ fork'[g].pc \in Descending \cup {"scan", "sample"}
               /\ fork'[g].cursor \in Tasks
               => fork'[g].cursor \in Node(fork'[g].kind)
                  \/ state[fork'[g].cursor] = "dead"
      BY <2>1 DEF LocalsVisible
    <2> QED
      BY <1>2, <2>3 DEF LocalsVisible, Visible, Hashed, Node
  <1> QED
    BY <1>4, <1>5 DEF SightSound

\* A step that changes neither the trees nor a fork.
LEMMA SightSame ==
    ASSUME SafeInv, UNCHANGED <<tree, fork>>
    PROVE  GraceSound' /\ SightSound'
  <1>1. /\ state' = state /\ parent' = parent /\ nxt' = nxt /\ grace' = grace
        /\ leader' = leader /\ fork' = fork
    BY DEF tree
  <1>2. GraceSound'
    BY <1>1 DEF SafeInv, GraceSound, Visible, Hashed, InRcu
  <1>3. SightSound'
    BY <1>1 DEF SafeInv, SightSound, LocalsVisible, Visible, Hashed, InRcu, Node
  <1> QED
    BY <1>2, <1>3

LEMMA InitSafe == Init => SafeInv
  <1> SUFFICES ASSUME Init
               PROVE  SafeInv
    OBVIOUS
  <1>1. TreeInv
    BY InitTree
  <1>2. GraceSound
    BY DEF Init, GraceSound
  <1>3. SightSound
    BY DEF Init, SightSound, InRcu, Idle
  <1> QED
    BY <1>1, <1>2, <1>3 DEF SafeInv

\* A dead task's part of GraceSound, when its links and parent stay.
LEMMA GraceKept ==
    ASSUME SafeInv, NEW u \in Tasks, NEW f \in grace[u], VisibleKept(f), InRcu(f)',
           state'[u] = "dead", parent'[u] = parent[u],
           nxt'["group"][u] = nxt["group"][u]
    PROVE  /\ InRcu(f)' /\ state'[u] = "dead" /\ Visible(f, parent[u])'
           /\ nxt'["group"][u] # Root /\ Visible(f, Of(nxt["group"][u]))'
  <1>1. /\ Visible(f, parent[u]) /\ nxt["group"][u] # Root
        /\ Visible(f, Of(nxt["group"][u]))
    BY DEF SafeInv, GraceSound
  <1>2. parent[u] \in Tasks /\ Of(nxt["group"][u]) \in Tasks
    BY NodeFacts DEF SafeInv, TreeInv, TypeInv, TreeTyped, Kinds
  <1> DEFINE a == parent[u]
             b == Of(nxt["group"][u])
  <1>3. \A t \in {a, b} : state'[t] \in {"live", "zombie"} \/ f \in grace'[t]
    BY <1>1, <1>2 DEF VisibleKept, Visible, Hashed
  <1>4. Of(nxt'["group"][u]) = b
    OBVIOUS
  <1> HIDE DEF a, b
  <1>5. parent'[u] = a
    BY DEF a
  <1> QED
    BY <1>1, <1>3, <1>4, <1>5 DEF Visible, Hashed, Of

LEMMA BeginSafe ==
    ASSUME SafeInv, NEW f \in Tasks, Begin(f)
    PROVE  SafeInv'
  <1>0. TreeInv
    BY DEF SafeInv
  <1>1. PICK child \in Tasks, new \in Calls : Starts(f, child, new)
    BY <1>0, BeginFacts
  <1>2. TreeInv'
    BY <1>0, BeginTree
  <1>3. /\ fork'[f] = new /\ \A g \in Tasks : g # f => fork'[g] = fork[g]
        /\ state'[child] = "new" /\ \A t \in Tasks : t # child => state'[t] = state[t]
        /\ state[child] = "unborn" /\ state[f] = "live"
        /\ \A t \in Tasks : t # child => leader'[t] = leader[t]
        /\ parent' = parent /\ nxt' = nxt /\ grace' = grace
    BY <1>0, <1>1 DEF Starts, TreeInv, TypeInv, TreeTyped, ForkTyped
  <1>4. \A t \in Tasks : Hashed(t)' = Hashed(t) /\ (Hashed(t) => t # child)
    BY <1>3 DEF Hashed
  <1>5. \A g \in Tasks : VisibleKept(g)
    BY <1>3, <1>4 DEF VisibleKept, Visible
  <1>6. NodesKept
    <2>1. \A k \in Kinds : Node(k)' = Node(k)
      BY <1>3, <1>4 DEF Node
    <2> QED
      BY <1>3, <2>1 DEF NodesKept
  <1>7. \A g \in Tasks : InRcu(g) => InRcu(g)'
    <2>1. new.pc # "idle"
      BY <1>1 DEF Starts, Begun
    <2> QED
      BY <1>3, <2>1 DEF InRcu
  <1>8. GraceSound'
    <2>1. ASSUME NEW t \in Tasks, state'[t] = "dead"
          PROVE  nxt'["subtree"][t] = t
      BY <1>3, <2>1 DEF SafeInv, GraceSound
    <2>2. ASSUME NEW t \in Tasks, NEW g \in grace'[t]
          PROVE  /\ InRcu(g)' /\ state'[t] = "dead" /\ Visible(g, parent[t])'
                 /\ nxt'["group"][t] # Root /\ Visible(g, Of(nxt["group"][t]))'
      <3>1. g \in grace[t] /\ g \in Tasks
        BY <1>0, <1>3, <2>2 DEF TreeInv, TypeInv, TreeTyped
      <3>2. InRcu(g) /\ state[t] = "dead"
        BY <3>1 DEF SafeInv, GraceSound
      <3>3. InRcu(g)' /\ state'[t] = "dead"
        BY <1>3, <1>7, <3>1, <3>2
      <3> QED
        BY <1>3, <1>5, <3>1, <3>3, GraceKept
    <2> QED
      BY <2>1, <2>2 DEF GraceSound
  <1>9. ASSUME NEW g \in Tasks, InRcu(g)'
        PROVE  LocalsVisible(g, fork[g])'
    <2>1. CASE g # f
      <3>1. InRcu(g) /\ SameLocals(fork[g], fork'[g])
        BY <1>3, <1>9, <2>1 DEF InRcu, SameLocals
      <3>2. LocalsVisible(g, fork[g]) /\ ForkTyped
        BY <1>0, <3>1 DEF SafeInv, SightSound, TreeInv, TypeInv
      <3> QED
        BY <1>5, <1>6, <3>1, <3>2, SightKept
    <2>2. CASE g = f
      <3>1. /\ new.anc = (IF new.kind = "group" THEN leader[f] ELSE f)
            /\ new.up = Root /\ new.first = Root /\ new.cursor = Root /\ new.desc = Root
            /\ new.pc \in {"skip", "up", "check"}
        BY <1>1 DEF Starts, Begun
      <3>2. /\ Hashed(f) /\ Hashed(leader[f]) /\ Hashed(Root) /\ leader[f] \in Tasks
            /\ Root \in Tasks /\ Of(Root) = Root
        BY <1>0, <1>3, Constants, NodeFacts
          DEF TreeInv, TypeInv, TreeTyped, TreeSound, Hashed
      <3>3. new.anc \in Tasks /\ Hashed(new.anc)
        BY <3>1, <3>2
      <3>4. \A t \in {fork'[g].anc, fork'[g].up, Of(fork'[g].first), Of(fork'[g].cursor),
                      Of(fork'[g].desc)} : t \in Tasks /\ Hashed(t)
        BY <1>3, <2>2, <3>1, <3>2, <3>3
      <3>5. \A t \in {fork'[g].anc, fork'[g].up, Of(fork'[g].first), Of(fork'[g].cursor),
                      Of(fork'[g].desc)} : Visible(g, t)'
        BY <1>4, <3>4 DEF Visible
      <3>6. fork'[g].pc \notin Descending \cup {"scan", "sample"}
        BY <1>3, <2>2, <3>1 DEF Descending
      <3> QED
        BY <3>5, <3>6 DEF LocalsVisible, Visible, Hashed, Of, Descending
    <2> QED
      BY <2>1, <2>2
  <1> QED
    BY <1>2, <1>8, <1>9 DEF SafeInv, SightSound

LEMMA ReleaseSafe ==
    ASSUME SafeInv, NEW t \in Tasks, Release(t)
    PROVE  SafeInv'
  <1>0. TreeInv
    BY DEF SafeInv
  <1>1. /\ TreeInv' /\ t # Root
        /\ \A k \in Kinds : Node(k)' = Node(k) \ {t} /\ Owner(k)' = Owner(k)
        /\ \A u \in Tasks : Hashed(u)' <=> Hashed(u) /\ u # t
    BY <1>0, ReleaseTree
  <1>2. /\ state[t] = "zombie" /\ state' = [state EXCEPT ![t] = "dead"]
        /\ grace' = [grace EXCEPT ![t] = {f \in Tasks : InRcu(f)}]
        /\ fork' = Disturbed(t) /\ parent' = parent
    BY DEF Release
  <1>3. /\ TreeTyped /\ ListsSound /\ TreeSound /\ ForksSound /\ ForkTyped
    BY <1>0 DEF TreeInv, TypeInv
  <1>4. /\ state'[t] = "dead" /\ \A u \in Tasks : u # t => state'[u] = state[u]
        /\ grace'[t] = {f \in Tasks : InRcu(f)}
        /\ \A u \in Tasks : u # t => grace'[u] = grace[u]
    BY <1>2, <1>3 DEF TreeTyped
  <1>5. /\ fork'[t].pc = "idle" /\ ~InRcu(t)
        /\ \A f \in Tasks : f # t => SameLocals(fork[f], fork'[f])
    <2>1. ~InRcu(t)
      BY <1>2, <1>3 DEF ForksSound
    <2> QED
      BY <1>2, <1>3, <2>1, Disturb
  <1>6. \A f \in Tasks : InRcu(f)' <=> InRcu(f)
    BY <1>5 DEF InRcu, SameLocals
  <1>7. \A f \in Tasks : InRcu(f) => VisibleKept(f)
    <2>1. SUFFICES ASSUME NEW f \in Tasks, InRcu(f), NEW u \in Tasks, Visible(f, u)
                   PROVE  Visible(f, u)'
      BY DEF VisibleKept
    <2>2. CASE u = t
      BY <1>4, <2>1, <2>2 DEF Visible
    <2>3. CASE u # t
      BY <1>1, <1>4, <2>1, <2>3 DEF Visible
    <2> QED
      BY <2>2, <2>3
  <1>8. NodesKept
    <2>1. SUFFICES ASSUME NEW k \in Kinds, NEW u \in Tasks,
                          u \in Node(k) \/ state[u] = "dead"
                   PROVE  u \in Node(k)' \/ state'[u] = "dead"
      BY DEF NodesKept
    <2> QED
      BY <1>1, <1>4, <2>1
  <1>9. /\ nxt'["subtree"][t] = t /\ nxt'["group"][t] = nxt["group"][t]
        /\ \A u \in Tasks, k \in Kinds : u # t /\ ~Hashed(u) => nxt'[k][u] = nxt[k][u]
    <2> DEFINE ny(k) == [n \in Nodes |->
                           IF nxt[k][n] = t /\ n # t /\ (n \in Tasks => Hashed(n))
                           THEN nxt[k][t]
                           ELSE IF n = t /\ k = "subtree" THEN t ELSE nxt[k][n]]
    <2>1. nxt' = [k \in Kinds |-> ny(k)]
      BY DEF Release
    <2>2. \A k \in Kinds : nxt'[k] = ny(k)
      BY <2>1
    <2>3. t \in Nodes /\ \A u \in Tasks : u \in Nodes
      BY NodeFacts
    <2>4. ny("subtree")[t] = t /\ ny("group")[t] = nxt["group"][t]
      BY <2>3
    <2>5. \A u \in Tasks, k \in Kinds : u # t /\ ~Hashed(u) => ny(k)[u] = nxt[k][u]
      BY <2>3
    <2> HIDE DEF ny
    <2> QED
      BY <2>2, <2>4, <2>5 DEF Kinds
  <1>10. ASSUME NEW f \in Tasks, InRcu(f)
         PROVE  /\ Visible(f, parent[t])' /\ nxt'["group"][t] # Root
                /\ Visible(f, Of(nxt["group"][t]))'
    <2> DEFINE n == nxt["group"][t]
    <2>1. t \in Node("group") /\ "group" \in Kinds
      BY <1>1, <1>2 DEF Node, Hashed, Kinds
    <2>2. n \in Node("group") /\ Owner("group")[n] = Owner("group")[t] /\ n \in Nodes
      BY <1>3, <2>1, NodesTyped DEF ListsSound, Chain
    <2>3. /\ parent[t] \in Tasks /\ Hashed(parent[t]) /\ Hashed(leader[t])
          /\ leader[t] \in Tasks
      BY <1>2, <1>3 DEF TreeSound, TreeTyped, Hashed
    <2>4. Owner("group")[t] = leader[t]
      BY NodeFacts DEF Owner
    <2> HIDE DEF n
    <2>5. n # Root /\ Hashed(Of(n)) /\ Of(n) \in Tasks
      <3>1. CASE n \in Tasks
        BY <2>2, <3>1, NodeFacts DEF Node
      <3>2. CASE n \notin Tasks
        <4>1. Of(n) = leader[t]
          BY <2>2, <2>4, <3>2 DEF Of, Owner
        <4> QED
          BY <2>3, <3>2, <4>1, Constants
      <3> QED
        BY <3>1, <3>2
    <2>6. \A u \in {parent[t], Of(n)} : Visible(f, u)'
      BY <1>7, <1>10, <2>3, <2>5 DEF VisibleKept, Visible
    <2>7. \A u \in {parent[t], Of(n)} : state'[u] \in {"live", "zombie"} \/ f \in grace'[u]
      BY <2>6 DEF Visible, Hashed
    <2>8. nxt'["group"][t] = n /\ parent'[t] = parent[t]
      BY <1>2, <1>9 DEF n
    <2> QED
      BY <2>5, <2>7, <2>8 DEF Visible, Hashed, Of
  <1>11. GraceSound'
    <2>1. ASSUME NEW u \in Tasks, state'[u] = "dead"
          PROVE  nxt'["subtree"][u] = u
      <3>1. CASE u = t
        BY <1>9, <3>1
      <3>2. CASE u # t
        <4>1. state[u] = "dead" /\ ~Hashed(u) /\ "subtree" \in Kinds
          BY <1>4, <2>1, <3>2 DEF Hashed, Kinds
        <4> QED
          BY <1>9, <3>2, <4>1 DEF SafeInv, GraceSound
      <3> QED
        BY <3>1, <3>2
    <2>2. ASSUME NEW u \in Tasks, NEW g \in grace'[u]
          PROVE  /\ InRcu(g)' /\ state'[u] = "dead" /\ Visible(g, parent[u])'
                 /\ nxt'["group"][u] # Root /\ Visible(g, Of(nxt["group"][u]))'
      <3>1. CASE u = t
        <4>1. g \in Tasks /\ InRcu(g)
          BY <1>4, <2>2, <3>1
        <4> QED
          BY <1>4, <1>6, <1>10, <3>1, <4>1
      <3>2. CASE u # t
        <4>1. g \in grace[u] /\ g \in Tasks
          BY <1>3, <1>4, <2>2, <3>2 DEF TreeTyped
        <4>2. InRcu(g) /\ state[u] = "dead"
          BY <4>1 DEF SafeInv, GraceSound
        <4>3. InRcu(g)' /\ state'[u] = "dead" /\ VisibleKept(g)
          BY <1>4, <1>6, <1>7, <3>2, <4>1, <4>2
        <4>4. nxt'["group"][u] = nxt["group"][u] /\ parent'[u] = parent[u]
          BY <1>2, <1>9, <3>2, <4>2 DEF Hashed, Kinds
        <4> QED
          BY <4>1, <4>3, <4>4, GraceKept
      <3> QED
        BY <3>1, <3>2
    <2> QED
      BY <2>1, <2>2 DEF GraceSound
  <1>12. ASSUME NEW g \in Tasks, InRcu(g)'
         PROVE  LocalsVisible(g, fork[g])'
    <2>1. InRcu(g) /\ g # t
      BY <1>5, <1>6, <1>12
    <2>2. LocalsVisible(g, fork[g]) /\ SameLocals(fork[g], fork'[g])
      BY <1>5, <2>1 DEF SafeInv, SightSound
    <2> QED
      BY <1>3, <1>7, <1>8, <2>1, <2>2, SightKept
  <1> QED
    BY <1>1, <1>11, <1>12 DEF SafeInv, SightSound

LEMMA ExitSafe ==
    ASSUME SafeInv, NEW t \in Tasks, Exit(t)
    PROVE  SafeInv'
  <1>0. TreeInv
    BY DEF SafeInv
  <1>1. /\ TreeInv' /\ \A k \in Kinds : Node(k)' = Node(k)
        /\ \A u \in Tasks : Hashed(u)' = Hashed(u)
    BY <1>0, ExitTree
  <1>2. PICK reaper \in Tasks : Reparents(t, reaper)
    BY <1>0, ExitFacts
  <1>3. /\ TreeTyped /\ ForkTyped
    BY <1>0 DEF TreeInv, TypeInv
  <1>4. /\ state[t] = "live" /\ state'[t] = "zombie"
        /\ \A u \in Tasks : u # t => state'[u] = state[u]
        /\ grace' = grace /\ fork[t].pc = "idle" /\ fork' = Disturbed(t)
        /\ \A u \in Tasks : ~Hashed(u) => parent'[u] = parent[u]
        /\ nxt'["group"] = nxt["group"]
    BY <1>2, <1>3 DEF Reparents, TreeTyped
  <1>5. /\ fork'[t].pc = "idle" /\ ~InRcu(t)
        /\ \A f \in Tasks : f # t => SameLocals(fork[f], fork'[f])
    BY <1>3, <1>4, Disturb DEF InRcu
  <1>6. \A f \in Tasks : InRcu(f)' <=> InRcu(f)
    BY <1>5 DEF InRcu, SameLocals
  <1>7. \A f \in Tasks : VisibleKept(f)
    BY <1>1, <1>4 DEF VisibleKept, Visible
  <1>8. NodesKept
    BY <1>1, <1>4 DEF NodesKept
  <1>9. \A u \in Tasks : ~Hashed(u) => nxt'["subtree"][u] = nxt["subtree"][u]
    <2>1. SUFFICES ASSUME NEW u \in Tasks, ~Hashed(u)
                   PROVE  nxt'["subtree"][u] = nxt["subtree"][u]
      OBVIOUS
    <2>2. /\ u \in Nodes /\ u # Anchor(t) /\ u # Anchor(reaper)
          /\ u \notin Members("subtree", t) /\ u \notin Members("subtree", reaper)
      BY <2>1, NodeFacts DEF Members
    <2>3. CASE Members("subtree", t) = {}
      BY <1>2, <2>3 DEF Reparents
    <2>4. CASE Members("subtree", t) # {}
      BY <1>2, <2>2, <2>4 DEF Reparents
    <2> QED
      BY <2>3, <2>4
  <1>10. GraceSound'
    <2>1. ASSUME NEW u \in Tasks, state'[u] = "dead"
          PROVE  nxt'["subtree"][u] = u
      <3>1. state[u] = "dead" /\ ~Hashed(u)
        BY <1>4, <2>1 DEF Hashed
      <3> QED
        BY <1>9, <3>1 DEF SafeInv, GraceSound
    <2>2. ASSUME NEW u \in Tasks, NEW g \in grace'[u]
          PROVE  /\ InRcu(g)' /\ state'[u] = "dead" /\ Visible(g, parent[u])'
                 /\ nxt'["group"][u] # Root /\ Visible(g, Of(nxt["group"][u]))'
      <3>1. g \in grace[u] /\ g \in Tasks
        BY <1>3, <1>4, <2>2 DEF TreeTyped
      <3>2. InRcu(g) /\ state[u] = "dead" /\ ~Hashed(u)
        BY <3>1 DEF SafeInv, GraceSound, Hashed
      <3>3. InRcu(g)' /\ state'[u] = "dead"
        BY <1>4, <1>6, <3>1, <3>2
      <3>4. parent'[u] = parent[u] /\ nxt'["group"][u] = nxt["group"][u]
        BY <1>4, <3>2
      <3> QED
        BY <1>7, <3>1, <3>3, <3>4, GraceKept
    <2> QED
      BY <2>1, <2>2 DEF GraceSound
  <1>11. ASSUME NEW g \in Tasks, InRcu(g)'
         PROVE  LocalsVisible(g, fork[g])'
    <2>1. InRcu(g) /\ g # t
      BY <1>5, <1>6, <1>11
    <2>2. LocalsVisible(g, fork[g]) /\ SameLocals(fork[g], fork'[g])
      BY <1>5, <2>1 DEF SafeInv, SightSound
    <2> QED
      BY <1>3, <1>7, <1>8, <2>2, SightKept
  <1> QED
    BY <1>1, <1>10, <1>11 DEF SafeInv, SightSound

LEMMA FinishSafe ==
    ASSUME SafeInv, NEW f \in Tasks, Finish(f)
    PROVE  SafeInv'
  <1>0. TreeInv
    BY DEF SafeInv
  <1>1. PICK c \in Calls : Links(f, c)
    BY <1>0, FinishFacts
  <1> DEFINE child == c.child
  <1>2. /\ TreeInv'
        /\ \A u \in Tasks : Hashed(u)' <=> Hashed(u) \/ u = child
        /\ \A k \in Kinds : Node(k) \subseteq Node(k)' /\ child \notin Node(k)
        /\ \A u \in Tasks : u # child => parent'[u] = parent[u] /\ state'[u] = state[u]
        /\ \A k \in Kinds, u \in Tasks : u \notin Node(k) /\ u # child
             => nxt'[k][u] = nxt[k][u]
    BY <1>0, <1>1, FinishTree
  <1>3. /\ child \in Tasks /\ state[child] = "new" /\ state'[child] = "live"
        /\ grace' = [u \in Tasks |-> grace[u] \ {f}] /\ fork' = Disturbed(f)
    BY <1>0, <1>1 DEF Links, Calls, TreeInv, TypeInv, TreeTyped
  <1> HIDE DEF child
  <1>4. TreeTyped /\ ForkTyped
    BY <1>0 DEF TreeInv, TypeInv
  <1>5. /\ fork'[f].pc = "idle"
        /\ \A g \in Tasks : g # f => SameLocals(fork[g], fork'[g])
    BY <1>3, <1>4, Disturb
  <1>6. \A g \in Tasks : InRcu(g)' <=> InRcu(g) /\ g # f
    BY <1>5 DEF InRcu, SameLocals
  <1>7. \A g \in Tasks : g # f => VisibleKept(g)
    BY <1>2, <1>3 DEF VisibleKept, Visible
  <1>8. NodesKept
    <2>1. SUFFICES ASSUME NEW k \in Kinds, NEW u \in Tasks,
                          u \in Node(k) \/ state[u] = "dead"
                   PROVE  u \in Node(k)' \/ state'[u] = "dead"
      BY DEF NodesKept
    <2> QED
      BY <1>2, <1>3, <2>1
  <1>9. \A u \in Tasks : state[u] = "dead" =>
            /\ u # child /\ \A k \in Kinds : u \notin Node(k)
    BY <1>3, NodeFacts DEF Node, Hashed
  <1>10. GraceSound'
    <2>1. ASSUME NEW u \in Tasks, state'[u] = "dead"
          PROVE  nxt'["subtree"][u] = u
      <3>1. state[u] = "dead"
        BY <1>2, <1>3, <2>1
      <3> QED
        BY <1>2, <1>9, <3>1 DEF SafeInv, GraceSound, Kinds
    <2>2. ASSUME NEW u \in Tasks, NEW g \in grace'[u]
          PROVE  /\ InRcu(g)' /\ state'[u] = "dead" /\ Visible(g, parent[u])'
                 /\ nxt'["group"][u] # Root /\ Visible(g, Of(nxt["group"][u]))'
      <3>1. g \in grace[u] /\ g \in Tasks /\ g # f
        BY <1>3, <1>4, <2>2 DEF TreeTyped
      <3>2. InRcu(g) /\ state[u] = "dead"
        BY <3>1 DEF SafeInv, GraceSound
      <3>3. InRcu(g)' /\ state'[u] = "dead"
        BY <1>2, <1>6, <1>9, <3>1, <3>2
      <3>4. parent'[u] = parent[u] /\ nxt'["group"][u] = nxt["group"][u]
        BY <1>2, <1>9, <3>2 DEF Kinds
      <3> QED
        BY <1>7, <3>1, <3>3, <3>4, GraceKept
    <2> QED
      BY <2>1, <2>2 DEF GraceSound
  <1>11. ASSUME NEW g \in Tasks, InRcu(g)'
         PROVE  LocalsVisible(g, fork[g])'
    <2>1. InRcu(g) /\ g # f
      BY <1>6, <1>11
    <2>2. LocalsVisible(g, fork[g]) /\ SameLocals(fork[g], fork'[g])
      BY <1>5, <2>1 DEF SafeInv, SightSound
    <2> QED
      BY <1>4, <1>7, <1>8, <2>1, <2>2, SightKept
  <1> QED
    BY <1>2, <1>10, <1>11 DEF SafeInv, SightSound

LEMMA SafeStep ==
    ASSUME SafeInv, [Next]_vars
    PROVE  SafeInv'
  <1>0. TreeInv /\ TreeInv'
    BY TreeStep DEF SafeInv
  <1>1. ASSUME UNCHANGED <<tree, fork>>
        PROVE  SafeInv'
    BY <1>0, <1>1, SightSame DEF SafeInv
  <1>2. CASE UNCHANGED vars
    BY <1>1, <1>2 DEF vars, tree
  <1>3. CASE Tick
    BY <1>1, <1>3 DEF Tick
  <1>4. ASSUME NEW t \in Tasks, Charge(t)
        PROVE  SafeInv'
    BY <1>1, <1>4 DEF Charge
  <1>5. ASSUME NEW f \in Tasks, LocalStep(f)
        PROVE  SafeInv'
    <2>1. PICK new \in Calls : /\ Locally(f, new) /\ Bounded(new)
                               /\ Keeps(fork[f], new) /\ LocalsVisible(f, new)
      BY <1>5, LocalSight
    <2>2. UNCHANGED tree /\ fork' = [fork EXCEPT ![f] = new]
      BY <2>1 DEF Locally
    <2> QED
      BY <1>0, <2>1, <2>2, SightOfFork DEF SafeInv
  <1>6. ASSUME NEW f \in Tasks, update_burst_cache(f)
        PROVE  SafeInv'
    <2>1. PICK c \in Calls, new \in Caches, done \in Calls : Writes(f, c, new, done)
      BY <1>0, <1>6, UpdateFacts
    <2>2. /\ UNCHANGED tree /\ fork' = [fork EXCEPT ![f] = done]
          /\ done = [c EXCEPT !.pc = "read"] /\ Keeps(fork[f], done) /\ c = fork[f]
      BY <2>1 DEF Writes
    <2>3. LocalsVisible(f, c)
      BY <2>2 DEF SafeInv, SightSound, InRcu, Keeps
    <2>4. LocalsVisible(f, done)
      <3>1. /\ done.anc = c.anc /\ done.up = c.up /\ done.first = c.first
            /\ done.cursor = c.cursor /\ done.desc = c.desc /\ done.pc = "read"
        BY <2>2 DEF Calls
      <3> QED
        BY <2>3, <3>1 DEF LocalsVisible, Descending
    <2> QED
      BY <1>0, <2>2, <2>4, SightOfFork DEF SafeInv
  <1>7. CASE Next
    BY <1>3, <1>4, <1>5, <1>6, <1>7, StepCases, BeginSafe, FinishSafe, ExitSafe,
       ReleaseSafe
  <1> QED
    BY <1>2, <1>7

LEMMA SafeAlways == Spec => []SafeInv
  BY InitSafe, SafeStep, PTL DEF Spec

\* The hook never reads a task that has been freed, whatever it has followed
\* to get there: a parent that has exited since, a sibling that has moved to
\* another parent's list or has been unlinked and points to itself, or a
\* thread that is gone and whose pointer leads to others that are gone.
THEOREM ScanNeverUsesFreed == Spec => []NoUseAfterFree
  <1>1. SafeInv => NoUseAfterFree
    <2> SUFFICES ASSUME SafeInv, NEW f \in Tasks, NEW t \in InUse(fork[f]),
                        state[t] = "dead"
                 PROVE  f \in grace[t]
      BY DEF NoUseAfterFree
    <2>1. PICK c \in Calls : c = fork[f]
      BY DEF SafeInv, TreeInv, TypeInv, ForkTyped
    <2>2. c.pc # "idle" /\ t \in {c.anc, Of(c.first), Of(c.cursor), Of(c.desc)}
      <3>1. t \in InUse(c)
        BY <2>1
      <3>2. c.pc \in Pcs
        BY DEF Calls
      <3> QED
        BY <3>1, <3>2 DEF InUse, Of, Pcs
    <2>3. LocalsVisible(f, c)
      BY <2>1, <2>2 DEF SafeInv, SightSound, InRcu
    <2>4. Visible(f, t)
      BY <2>2, <2>3 DEF LocalsVisible
    <2> QED
      BY <2>4 DEF Visible, Hashed
  <1> QED
    BY <1>1, SafeAlways, PTL

-----------------------------------------------------------------------------
(* Fresh samples *)

\* What a step of the hook before its end does to its samples, and when it
\* takes the cache as it is.
LEMMA LocalEffect ==
    ASSUME TreeInv, NEW f \in Tasks, LocalStep(f), NEW c \in Calls, c = fork[f],
           NEW new \in Calls, Locally(f, new)
    PROVE  /\ \/ new.seen = c.seen /\ new.count = c.count /\ new.total = c.total
              \/ c.pc = "sample" /\ \E p \in Samples(c.desc) :
                                      p \in Halves /\ new = Sampled(c, c.desc, p, clock)
           /\ new.pc = "read" =>
                new.anc = c.anc /\ ~burst_cache_expired(bc[c.kind][c.anc], c.now)
  <1>1. \A x : Locally(f, x) => new = x
    <2>1. \A x : Locally(f, x) => fork'[f] = x
      BY DEF Locally, TreeInv, TypeInv, ForkTyped
    <2> QED
      BY <2>1
  <1>2. CASE Climb(f)
    <2>1. \/ new = [c EXCEPT !.pc = "check"]
          \/ new = [c EXCEPT !.pc = "first", !.up = parent[c.anc]]
          \/ new = [c EXCEPT !.pc = "second", !.first = nxt["subtree"][Anchor(c.anc)]]
          \/ new = [c EXCEPT !.pc = "up", !.anc = c.up, !.sole = 1]
      BY <1>1, <1>2 DEF Climb
    <2> QED
      BY <2>1 DEF Calls
  <1>3. CASE Check(f)
    <2>1. \/ new = [c EXCEPT !.pc = "scan", !.cursor = Anchor(c.anc)]
          \/ /\ new = [c EXCEPT !.pc = "read"]
             /\ ~burst_cache_expired(bc[c.kind][c.anc], c.now)
      BY <1>1, <1>3 DEF Check
    <2> QED
      BY <2>1 DEF Calls
  <1>4. CASE Scan(f)
    <2> DEFINE n == nxt[c.kind][c.cursor]
               at == [c EXCEPT !.cursor = n, !.scans = Scanned(c, n)]
    <2>1. \/ new = [c EXCEPT !.pc = "update"]
          \/ new = [at EXCEPT !.pc = IF c.hub /\ n \in Tasks THEN "down" ELSE "sample",
                              !.desc = n]
      BY <1>1, <1>4 DEF Scan
    <2> HIDE DEF n
    <2> QED
      BY <2>1 DEF Calls
  <1>5. CASE Descend(f)
    <2> DEFINE n == nxt["subtree"][Anchor(c.desc)]
    <2>1. \/ new = [c EXCEPT !.pc = "down2", !.first = n]
          \/ new = [c EXCEPT !.pc = "down3"]
          \/ new = [c EXCEPT !.pc = "sample"]
          \/ new = [c EXCEPT !.pc = "down", !.desc = n]
      BY <1>1, <1>5 DEF Descend
    <2> HIDE DEF n
    <2> QED
      BY <2>1 DEF Calls
  <1>6. CASE TakeSample(f)
    <2>1. c.pc = "sample"
      BY <1>6 DEF TakeSample
    <2>2. \/ \E p \in Samples(c.desc) : p \in Halves /\ new = Sampled(c, c.desc, p, clock)
          \/ new = [c EXCEPT !.pc = "scan"]
      BY <1>1, <1>6, SampleCases
    <2>3. CASE new = [c EXCEPT !.pc = "scan"]
      BY <2>3 DEF Calls
    <2>4. ASSUME NEW p \in Samples(c.desc), p \in Halves, new = Sampled(c, c.desc, p, clock)
          PROVE  new.pc = "scan"
      BY <2>4 DEF Sampled, Calls
    <2> QED
      BY <2>1, <2>2, <2>3, <2>4
  <1> QED
    BY <1>2, <1>3, <1>4, <1>5, <1>6 DEF LocalStep

LEMMA SampledSeen ==
    ASSUME NEW c \in Calls, NEW n, NEW p, NEW at
    PROVE  LET new == Sampled(c, n, p, at)
           IN  /\ Len(new.seen) = Len(c.seen) + 1 /\ Len(c.seen) \in Nat
               /\ \A i \in 1 .. Len(c.seen) : new.seen[i] = c.seen[i]
               /\ new.seen[Len(c.seen) + 1].penalty = p
               /\ new.seen[Len(c.seen) + 1].at = at
               /\ new.count = c.count + 1 /\ new.total = c.total + p
  <1> DEFINE new == Sampled(c, n, p, at)
             r == [task |-> n, penalty |-> p, at |-> at]
             s == Append(c.seen, r)
  <1>1. new.seen = s /\ new.count = c.count + 1 /\ new.total = c.total + p
    BY DEF Sampled, Calls
  <1>2. r.penalty = p /\ r.at = at
    OBVIOUS
  <1>3. c.seen \in Seq(Reads)
    BY DEF Calls
  <1> HIDE DEF r
  <1>4. /\ Len(s) = Len(c.seen) + 1 /\ Len(c.seen) \in Nat
        /\ \A i \in 1 .. Len(c.seen) : s[i] = c.seen[i]
        /\ s[Len(c.seen) + 1] = r
    BY <1>3
  <1> HIDE DEF s, new
  <1>5. /\ Len(new.seen) = Len(c.seen) + 1 /\ Len(c.seen) \in Nat
        /\ \A i \in 1 .. Len(c.seen) : new.seen[i] = c.seen[i]
        /\ new.seen[Len(c.seen) + 1].penalty = p
        /\ new.seen[Len(c.seen) + 1].at = at
        /\ new.count = c.count + 1 /\ new.total = c.total + p
    BY <1>1, <1>2, <1>4
  <1> QED
    BY <1>5 DEF new

LEMMA ModSmall ==
    ASSUME NEW a \in Nat, NEW d \in Nat, a < d
    PROVE  a % d = a
  OBVIOUS

\* A cache that has not expired was filled from recent samples: its time is
\* not more than its lifetime ago, or ahead.
LEMMA NotExpired ==
    ASSUME TreeInv, CacheTimes, NEW c \in Calls, FirstTime <= c.now, c.now <= clock,
           c.floor <= c.now,
           ~burst_cache_expired(bc[c.kind][c.anc], c.now)
    PROVE  Recent(c, bc[c.kind][c.anc])
  <1> DEFINE cache == bc[c.kind][c.anc]
             d == pow2[Shift]
             T == pow2[TimeBits]
             x == cache.timestamp * d
  <1>1. c.kind \in Kinds /\ c.anc \in Tasks /\ c.now \in Nat /\ c.floor \in Nat
    BY DEF Calls
  <1>2. /\ cache \in Caches /\ cache.timestamp <= LastTime \div d
        /\ \A i \in 1 .. Len(cache.seen) : x <= cache.seen[i].at
    BY <1>1 DEF TreeInv, TypeInv, ValuesTyped, CacheTimes
  <1>3. /\ cache.timestamp \in Nat /\ cache.seen \in Seq(Reads)
    BY <1>2 DEF Caches
  <1>4. \A i \in 1 .. Len(cache.seen) : cache.seen[i].at \in Nat
    <2> HIDE DEF cache
    <2>1. \A i \in 1 .. Len(cache.seen) : cache.seen[i] \in Reads
      BY <1>3
    <2> QED
      BY <2>1 DEF Reads
  <1>5. d \in Nat /\ d >= 1 /\ LastTime \in Nat /\ Lifetime \in Nat
        /\ FirstTime \in Nat /\ T \in Nat
    <2>1. TimeBits \in 0 .. Bits
      BY BoreMathAssumption
    <2> QED
      BY <2>1, Constants, Powers
  <1>6. LastTime < T /\ FirstTime > Lifetime
    BY Constants, BoreInheritAssumption
  <1>7. (c.now - x) % T <= Lifetime
    <2>1. (c.now - x) % T \in Int
      <3>1. T \in Nat \ {0} /\ x \in Int
        BY <1>3, <1>5, <1>6
      <3> HIDE DEF x, T
      <3> QED
        BY <1>1, <3>1
    <2>2. ~((c.now - x) % T > Lifetime)
      BY DEF burst_cache_expired
    <2> HIDE DEF x, T
    <2> QED
      BY <1>5, <2>1, <2>2
  <1> HIDE DEF cache, d, T
  <1>8. x \in Nat /\ x <= LastTime
    <2>1. x \in Nat
      BY <1>3, <1>5
    <2> DEFINE q == LastTime \div d
    <2>2. q \in Nat /\ d * q <= LastTime
      BY <1>5, Quotient
    <2>3. cache.timestamp <= q
      BY <1>2
    <2> HIDE DEF q
    <2>4. PICK z \in Nat : q = cache.timestamp + z
      <3>1. q - cache.timestamp \in Nat /\ q = cache.timestamp + (q - cache.timestamp)
        BY <1>3, <2>2, <2>3
      <3> QED
        BY <3>1
    <2>5. d * q = x + d * z /\ d * z >= 0 /\ d * z \in Int
      BY <1>3, <1>5, <2>4
    <2> HIDE DEF x
    <2> QED
      BY <1>5, <2>1, <2>2, <2>5
  <1>9. cache.timestamp = 0 => x = 0
    BY <1>5
  <1> HIDE DEF x
  <1>10. CASE x <= c.now
    <2>1. c.now - x \in Nat /\ c.now - x < T
      <3>1. c.now <= LastTime
        <4>1. clock \in Nat /\ clock <= LastTime
          BY Constants DEF TreeInv, TypeInv, TimeTyped
        <4> QED
          BY <1>1, <1>5, <4>1
      <3> QED
        BY <1>1, <1>5, <1>6, <1>8, <1>10, <3>1
    <2>2. c.now - x <= Lifetime
      <3>1. (c.now - x) % T = c.now - x
        BY <1>5, <2>1, ModSmall
      <3> QED
        BY <1>7, <3>1
    <2>3. cache.timestamp >= 1
      BY <1>1, <1>3, <1>5, <1>6, <1>9, <2>2
    <2>4. ASSUME NEW i \in 1 .. Len(cache.seen)
          PROVE  c.floor <= cache.seen[i].at + Lifetime
      <3>1. x <= cache.seen[i].at /\ cache.seen[i].at \in Nat
        BY <1>2, <1>4
      <3> QED
        BY <1>1, <1>5, <1>8, <2>2, <3>1, SMTT(30)
    <2> QED
      BY <2>3, <2>4 DEF Recent, cache
  <1>11. CASE c.now < x
    <2>1. cache.timestamp >= 1
      BY <1>1, <1>3, <1>8, <1>9, <1>11
    <2>2. ASSUME NEW i \in 1 .. Len(cache.seen)
          PROVE  c.floor <= cache.seen[i].at + Lifetime
      <3>1. x <= cache.seen[i].at /\ cache.seen[i].at \in Nat
        BY <1>2, <1>4
      <3> QED
        BY <1>1, <1>5, <1>8, <1>11, <3>1, SMTT(30)
    <2> QED
      BY <2>1, <2>2 DEF Recent, cache
  <1> QED
    BY <1>1, <1>8, <1>10, <1>11

\* Only the child of a fork that begins gets a new context, and no other fork
\* is looking at it.
LEMMA AncestorBorn ==
    ASSUME SafeInv, NEW f \in Tasks, InRcu(f)
    PROVE  fork[f].anc \in Tasks /\ state[fork[f].anc] # "unborn"
  <1>1. PICK c \in Calls : c = fork[f]
    BY DEF SafeInv, TreeInv, TypeInv, ForkTyped
  <1>2. c.anc \in Tasks /\ Visible(f, c.anc)
    BY <1>1 DEF SafeInv, SightSound, LocalsVisible, Calls
  <1>3. Hashed(c.anc) \/ state[c.anc] = "dead"
    BY <1>2 DEF Visible, SafeInv, GraceSound
  <1> QED
    BY <1>1, <1>2, <1>3 DEF Hashed

\* What the times of a fork say of its locals.
Timed(c) ==
    /\ FirstTime <= c.now
    /\ \A i \in 1 .. Len(c.seen) : c.now <= c.seen[i].at

LEMMA FreshLocal ==
    ASSUME FreshInv, NEW f \in Tasks, LocalStep(f)
    PROVE  ForkTimes' /\ CacheTimes' /\ ReadsRecent'
  <1>0. TreeInv
    BY DEF FreshInv, SafeInv
  <1>1. PICK new \in Calls : Locally(f, new) /\ Bounded(new) /\ Keeps(fork[f], new)
    BY <1>0, LocalTyped
  <1>2. PICK c \in Calls : c = fork[f]
    BY <1>0 DEF TreeInv, TypeInv, ForkTyped
  <1>3. /\ bc' = bc /\ fork'[f] = new /\ \A g \in Tasks : g # f => fork'[g] = fork[g]
    BY <1>0, <1>1 DEF Locally, TreeInv, TypeInv, ForkTyped
  <1>4. /\ new.now = c.now /\ new.floor = c.floor /\ new.kind = c.kind
        /\ c.pc # "idle" /\ new.pc # "idle"
    BY <1>1, <1>2 DEF Keeps
  <1>5. /\ \/ new.seen = c.seen /\ new.count = c.count /\ new.total = c.total
           \/ c.pc = "sample" /\ \E p \in Samples(c.desc) :
                                   p \in Halves /\ new = Sampled(c, c.desc, p, clock)
        /\ new.pc = "read" =>
             new.anc = c.anc /\ ~burst_cache_expired(bc[c.kind][c.anc], c.now)
    BY <1>0, <1>1, <1>2, LocalEffect
  <1>6. /\ InRcu(f) /\ Timed(c) /\ c.now <= clock /\ c.floor <= c.now
        /\ clock \in Nat /\ c.now \in Nat
    <2>1. InRcu(f)
      BY <1>2, <1>4 DEF InRcu
    <2>2. clock \in Nat /\ c.now \in Nat /\ c.now <= clock
      BY <1>0, <1>2, Constants DEF TreeInv, TypeInv, TimeTyped, Calls
    <2>3. ForkTimes
      BY DEF FreshInv
    <2> QED
      BY <1>2, <2>1, <2>2, <2>3 DEF ForkTimes, Timed
  <1>7. Timed(new)
    <2>1. CASE new.seen = c.seen
      BY <1>4, <1>6, <2>1 DEF Timed
    <2>2. ASSUME NEW p, new = Sampled(c, c.desc, p, clock)
          PROVE  Timed(new)
      <3>1. /\ Len(new.seen) = Len(c.seen) + 1 /\ Len(c.seen) \in Nat
            /\ \A i \in 1 .. Len(c.seen) : new.seen[i] = c.seen[i]
            /\ new.seen[Len(c.seen) + 1].at = clock
        BY <2>2, SampledSeen
      <3>2. ASSUME NEW i \in 1 .. Len(new.seen)
            PROVE  c.now <= new.seen[i].at
        <4>1. i \in 1 .. Len(c.seen) \/ i = Len(c.seen) + 1
          BY <3>1, <3>2
        <4> QED
          BY <1>6, <3>1, <4>1 DEF Timed
      <3> QED
        BY <1>4, <1>6, <3>2 DEF Timed
    <2> QED
      BY <1>5, <2>1, <2>2
  <1>8. \A g \in Tasks : /\ InRcu(g)' = InRcu(g) /\ fork'[g].now = fork[g].now
                         /\ fork'[g].floor = fork[g].floor
    BY <1>2, <1>3, <1>4 DEF InRcu
  <1>9. ForkTimes'
    <2>1. ASSUME NEW g \in Tasks, InRcu(g)'
          PROVE  /\ FirstTime <= fork'[g].now
                 /\ \A i \in 1 .. Len(fork'[g].seen) : fork'[g].now <= fork'[g].seen[i].at
                 /\ \A e \in Tasks : InRcu(e)' => fork'[g].floor <= fork'[e].now
      <3>1. /\ FirstTime <= fork'[g].now
            /\ \A i \in 1 .. Len(fork'[g].seen) : fork'[g].now <= fork'[g].seen[i].at
        <4>1. CASE g = f
          BY <1>3, <1>7, <4>1 DEF Timed
        <4>2. CASE g # f
          BY <1>3, <1>8, <2>1, <4>2 DEF FreshInv, ForkTimes
        <4> QED
          BY <4>1, <4>2
      <3>2. ASSUME NEW e \in Tasks, InRcu(e)'
            PROVE  fork'[g].floor <= fork'[e].now
        BY <1>8, <2>1, <3>2 DEF FreshInv, ForkTimes
      <3> QED
        BY <3>1, <3>2
    <2> QED
      BY <2>1 DEF ForkTimes
  <1>10. CacheTimes'
    BY <1>3 DEF FreshInv, CacheTimes
  <1>11. ASSUME NEW g \in Tasks, fork'[g].pc = "read"
         PROVE  Recent(fork[g], bc[fork[g].kind][fork[g].anc])'
    <2>1. CASE g # f
      BY <1>3, <1>11, <2>1 DEF FreshInv, ReadsRecent, Recent
    <2>2. CASE g = f
      <3>1. new.anc = c.anc /\ ~burst_cache_expired(bc[c.kind][c.anc], c.now)
        BY <1>3, <1>5, <1>11, <2>2
      <3>2. Recent(c, bc[c.kind][c.anc])
        BY <1>0, <1>6, <3>1, NotExpired DEF FreshInv, Timed
      <3>3. bc'[fork'[g].kind][fork'[g].anc] = bc[c.kind][c.anc] /\ fork'[g].floor = c.floor
        BY <1>3, <1>4, <2>2, <3>1
      <3> QED
        BY <3>2, <3>3 DEF Recent
    <2> QED
      BY <2>1, <2>2
  <1> QED
    BY <1>9, <1>10, <1>11 DEF ReadsRecent

LEMMA FreshUpdate ==
    ASSUME FreshInv, NEW f \in Tasks, update_burst_cache(f)
    PROVE  ForkTimes' /\ CacheTimes' /\ ReadsRecent'
  <1>0. TreeInv
    BY DEF FreshInv, SafeInv
  <1>1. PICK c \in Calls, new \in Caches, done \in Calls : Writes(f, c, new, done)
    BY <1>0, UpdateFacts
  <1>2. /\ c = fork[f] /\ c.pc = "update" /\ bc' = [bc EXCEPT ![c.kind][c.anc] = new]
        /\ done.seen = c.seen /\ done.anc = c.anc /\ done.pc = "read"
        /\ done.now = c.now /\ done.floor = c.floor /\ done.kind = c.kind
        /\ fork' = [fork EXCEPT ![f] = done]
    BY <1>1 DEF Writes, Keeps
  <1>3. fork'[f] = done /\ \A g \in Tasks : g # f => fork'[g] = fork[g]
    BY <1>0, <1>2 DEF TreeInv, TypeInv, ForkTyped
  <1>4. c.kind \in Kinds /\ c.anc \in Tasks /\ c.now \in Nat
    BY DEF Calls
  <1>5. /\ bc'[c.kind][c.anc] = new
        /\ \A k \in Kinds, u \in Tasks : k # c.kind \/ u # c.anc => bc'[k][u] = bc[k][u]
    BY <1>0, <1>2, <1>4, OneCache DEF TreeInv, TypeInv, ValuesTyped
  <1>6. /\ InRcu(f) /\ FirstTime <= c.now /\ c.floor <= c.now
        /\ \A i \in 1 .. Len(c.seen) : c.now <= c.seen[i].at
    BY <1>0, <1>2 DEF FreshInv, ForkTimes, InRcu, TreeInv, TypeInv, TimeTyped
  <1>7. /\ new.timestamp * pow2[Shift] <= c.now /\ new.timestamp >= 1
        /\ new.timestamp \in Nat /\ new.seen = c.seen
    <2>1. new = [timestamp |-> Stamp(c),
                 penalty |-> Larger(Average(c.count, c.total), penalty[c.anc]),
                 seen |-> c.seen]
      BY <1>1 DEF Writes
    <2>2. new.timestamp = Stamp(c) /\ new.seen = c.seen
      BY <2>1
    <2>3. c.now <= LastTime
      <3>1. c.now <= clock /\ clock <= LastTime /\ clock \in Nat
        BY <1>0, <1>2, Constants DEF TreeInv, TypeInv, TimeTyped
      <3> QED
        BY <1>4, <3>1, Constants
    <2>4. pow2[Shift] <= c.now
      <3>1. pow2[Shift] <= FirstTime
        BY BoreInheritAssumption
      <3> QED
        BY <1>4, <1>6, <3>1, Constants
    <2> QED
      BY <2>2, <2>3, <2>4, StampBound
  <1>8. \A i \in 1 .. Len(c.seen) : c.seen[i].at \in Nat
    <2>1. c.seen \in Seq(Reads)
      BY DEF Calls
    <2>2. \A i \in 1 .. Len(c.seen) : c.seen[i] \in Reads
      BY <2>1
    <2> QED
      BY <2>2 DEF Reads
  <1>9. \A g \in Tasks : /\ InRcu(g)' = InRcu(g) /\ fork'[g].now = fork[g].now
                         /\ fork'[g].floor = fork[g].floor
                         /\ fork'[g].seen = fork[g].seen
                         /\ fork'[g].kind = fork[g].kind /\ fork'[g].anc = fork[g].anc
    BY <1>2, <1>3 DEF InRcu
  <1>10. ForkTimes'
    BY <1>9 DEF FreshInv, ForkTimes
  <1>11. CacheTimes'
    <2> SUFFICES ASSUME NEW k \in Kinds, NEW t \in Tasks,
                        NEW i \in 1 .. Len(bc'[k][t].seen)
                 PROVE  bc'[k][t].timestamp * pow2[Shift] <= bc'[k][t].seen[i].at
      BY DEF CacheTimes
    <2>1. CASE k = c.kind /\ t = c.anc
      <3>1. bc'[k][t] = new /\ i \in 1 .. Len(c.seen)
        BY <1>5, <1>7, <2>1
      <3>2. new.timestamp * pow2[Shift] \in Int /\ c.seen[i].at \in Nat
            /\ c.now <= c.seen[i].at
        BY <1>6, <1>7, <1>8, <3>1, Constants
      <3> QED
        BY <1>4, <1>7, <3>1, <3>2
    <2>2. CASE k # c.kind \/ t # c.anc
      BY <1>5, <2>2 DEF FreshInv, CacheTimes
    <2> QED
      BY <2>1, <2>2
  <1>12. ASSUME NEW g \in Tasks, fork'[g].pc = "read"
         PROVE  Recent(fork[g], bc[fork[g].kind][fork[g].anc])'
    <2> DEFINE k == fork[g].kind
               a == fork[g].anc
    <2>1. k \in Kinds /\ a \in Tasks /\ fork[g].floor \in Nat
      BY <1>0 DEF TreeInv, TypeInv, ForkTyped, Calls
    <2>2. CASE k = c.kind /\ a = c.anc
      <3>1. InRcu(g) /\ fork[g].floor <= c.now
        <4>1. InRcu(g)
          BY <1>9, <1>12 DEF InRcu
        <4> QED
          BY <1>2, <1>6, <4>1 DEF FreshInv, ForkTimes
      <3>2. ASSUME NEW i \in 1 .. Len(c.seen)
            PROVE  fork[g].floor <= c.seen[i].at + Lifetime
        <4>1. c.now <= c.seen[i].at /\ c.seen[i].at \in Nat /\ Lifetime \in Nat
          BY <1>6, <1>8, Constants
        <4> QED
          BY <1>4, <2>1, <3>1, <4>1
      <3>3. bc'[fork'[g].kind][fork'[g].anc] = new /\ fork'[g].floor = fork[g].floor
        BY <1>5, <1>9, <2>2
      <3> QED
        BY <1>7, <3>2, <3>3 DEF Recent
    <2>3. CASE k # c.kind \/ a # c.anc
      <3>1. g # f
        BY <1>2, <2>3
      <3>2. fork'[g] = fork[g] /\ bc'[k][a] = bc[k][a]
        BY <1>3, <1>5, <2>1, <2>3, <3>1
      <3>3. Recent(fork[g], bc[k][a])
        BY <1>12, <3>2 DEF FreshInv, ReadsRecent
      <3> QED
        BY <3>2, <3>3 DEF Recent
    <2> QED
      BY <2>2, <2>3
  <1> QED
    BY <1>10, <1>11, <1>12 DEF ReadsRecent

LEMMA FreshBegin ==
    ASSUME FreshInv, NEW f \in Tasks, Begin(f)
    PROVE  ForkTimes' /\ CacheTimes' /\ ReadsRecent'
  <1>0. TreeInv /\ SafeInv
    BY DEF FreshInv, SafeInv
  <1>1. PICK child \in Tasks, new \in Calls : Starts(f, child, new)
    BY <1>0, BeginFacts
  <1>2. /\ fork'[f] = new /\ \A g \in Tasks : g # f => fork'[g] = fork[g]
        /\ state[child] = "unborn" /\ fork[f].pc = "idle"
        /\ \A k \in Kinds, t \in Tasks :
             bc'[k][t] = IF t = child THEN Unfilled ELSE bc[k][t]
    BY <1>0, <1>1 DEF Starts, TreeInv, TypeInv, ForkTyped, ValuesTyped
  <1>3. /\ new.now = clock /\ new.floor <= clock /\ new.seen = <<>>
        /\ new.pc # "idle" /\ new.pc # "read"
        /\ \A g \in Tasks : fork[g].pc # "idle" => new.floor <= fork[g].now
    BY <1>1 DEF Starts, Begun
  <1>4. /\ clock \in Nat /\ FirstTime <= clock
        /\ \A g \in Tasks : /\ fork[g].now \in Nat /\ fork[g].floor \in Nat
                            /\ fork[g].now <= clock /\ fork[g].floor <= fork[g].now
    BY <1>0, Constants DEF TreeInv, TypeInv, TimeTyped, ForkTyped, Calls
  <1>5. \A g \in Tasks : fork[g].floor <= clock
    BY <1>4
  <1>6. ForkTimes'
    <2> SUFFICES ASSUME NEW g \in Tasks, InRcu(g)'
                 PROVE  /\ FirstTime <= fork'[g].now
                        /\ \A i \in 1 .. Len(fork'[g].seen) :
                              fork'[g].now <= fork'[g].seen[i].at
                        /\ \A e \in Tasks : InRcu(e)' => fork'[g].floor <= fork'[e].now
      BY DEF ForkTimes
    <2>1. CASE g = f
      <3>1. ASSUME NEW e \in Tasks, InRcu(e)'
            PROVE  new.floor <= fork'[e].now
        <4>1. CASE e = f
          BY <1>2, <1>3, <4>1
        <4>2. CASE e # f
          BY <1>2, <1>3, <3>1, <4>2 DEF InRcu
        <4> QED
          BY <4>1, <4>2
      <3>2. Len(new.seen) = 0 /\ 1 .. 0 = {}
        BY <1>3
      <3> QED
        BY <1>2, <1>3, <1>4, <2>1, <3>1, <3>2
    <2>2. CASE g # f
      <3>1. InRcu(g) /\ fork'[g] = fork[g]
        BY <1>2, <2>2 DEF InRcu
      <3>2. ASSUME NEW e \in Tasks, InRcu(e)'
            PROVE  fork[g].floor <= fork'[e].now
        <4>1. CASE e = f
          BY <1>2, <1>3, <1>5, <4>1
        <4>2. CASE e # f
          BY <1>2, <3>1, <3>2, <4>2 DEF InRcu, FreshInv, ForkTimes
        <4> QED
          BY <4>1, <4>2
      <3> QED
        BY <3>1, <3>2 DEF FreshInv, ForkTimes
    <2> QED
      BY <2>1, <2>2
  <1>7. CacheTimes'
    <2> SUFFICES ASSUME NEW k \in Kinds, NEW t \in Tasks,
                        NEW i \in 1 .. Len(bc'[k][t].seen)
                 PROVE  bc'[k][t].timestamp * pow2[Shift] <= bc'[k][t].seen[i].at
      BY DEF CacheTimes
    <2>1. Len(Unfilled.seen) = 0 /\ 1 .. 0 = {}
      BY DEF Unfilled
    <2>2. t # child /\ bc'[k][t] = bc[k][t]
      BY <1>2, <2>1
    <2> QED
      BY <2>2 DEF FreshInv, CacheTimes
  <1>8. ASSUME NEW g \in Tasks, fork'[g].pc = "read"
        PROVE  Recent(fork[g], bc[fork[g].kind][fork[g].anc])'
    <2>1. g # f /\ fork'[g] = fork[g] /\ InRcu(g)
      BY <1>2, <1>3, <1>8 DEF InRcu
    <2>2. fork[g].anc # child /\ fork[g].anc \in Tasks /\ fork[g].kind \in Kinds
      BY <1>0, <1>2, <2>1, AncestorBorn, ZenonT(60) DEF TreeInv, TypeInv, ForkTyped, Calls
    <2>3. bc'[fork[g].kind][fork[g].anc] = bc[fork[g].kind][fork[g].anc]
      BY <1>2, <2>2
    <2>4. Recent(fork[g], bc[fork[g].kind][fork[g].anc])
      BY <1>8, <2>1 DEF FreshInv, ReadsRecent
    <2> QED
      BY <2>1, <2>3, <2>4 DEF Recent
  <1> QED
    BY <1>6, <1>7, <1>8 DEF ReadsRecent

\* Steps of others, which change no cache, and no fork but their own.
LEMMA FreshOthers ==
    ASSUME FreshInv, bc' = bc, NEW t \in Tasks, fork'[t].pc = "idle",
           \A g \in Tasks : g # t => SameLocals(fork[g], fork'[g])
    PROVE  ForkTimes' /\ CacheTimes' /\ ReadsRecent'
  <1>1. \A g \in Tasks : fork'[g].pc # "idle" =>
            /\ g # t /\ fork'[g].pc = fork[g].pc /\ fork'[g].kind = fork[g].kind
            /\ fork'[g].anc = fork[g].anc /\ fork'[g].now = fork[g].now
            /\ fork'[g].floor = fork[g].floor /\ fork'[g].seen = fork[g].seen
    BY DEF SameLocals
  <1>2. ForkTimes'
    BY <1>1 DEF FreshInv, ForkTimes, InRcu
  <1>3. CacheTimes'
    BY DEF FreshInv, CacheTimes
  <1>4. ReadsRecent'
    <2> SUFFICES ASSUME NEW g \in Tasks, fork'[g].pc = "read"
                 PROVE  Recent(fork[g], bc[fork[g].kind][fork[g].anc])'
      BY DEF ReadsRecent
    <2>1. Recent(fork[g], bc[fork[g].kind][fork[g].anc])
      BY <1>1 DEF FreshInv, ReadsRecent
    <2>2. bc'[fork'[g].kind][fork'[g].anc] = bc[fork[g].kind][fork[g].anc]
          /\ fork'[g].floor = fork[g].floor
      BY <1>1
    <2> QED
      BY <2>1, <2>2 DEF Recent
  <1> QED
    BY <1>2, <1>3, <1>4

LEMMA InitFresh == Init => FreshInv
  <1> SUFFICES ASSUME Init
               PROVE  FreshInv
    OBVIOUS
  <1>1. SafeInv
    BY InitSafe
  <1>2. ForkTimes /\ ReadsRecent
    BY DEF Init, ForkTimes, ReadsRecent, InRcu, Idle
  <1>3. CacheTimes
    <2>1. Len(Unfilled.seen) = 0 /\ 1 .. 0 = {}
      BY DEF Unfilled
    <2> QED
      BY <2>1 DEF Init, CacheTimes
  <1> QED
    BY <1>1, <1>2, <1>3 DEF FreshInv

LEMMA FreshStep ==
    ASSUME FreshInv, [Next]_vars
    PROVE  FreshInv'
  <1>0. SafeInv' /\ TreeInv /\ ForkTyped
    BY SafeStep DEF FreshInv, SafeInv, TreeInv, TypeInv
  <1>1. ASSUME UNCHANGED <<bc, fork>>
        PROVE  ForkTimes' /\ CacheTimes' /\ ReadsRecent'
    BY <1>1 DEF FreshInv, ForkTimes, CacheTimes, ReadsRecent, Recent, InRcu
  <1>2. ASSUME NEW t \in Tasks, fork' = Disturbed(t), bc' = bc
        PROVE  ForkTimes' /\ CacheTimes' /\ ReadsRecent'
    BY <1>0, <1>2, Disturb, FreshOthers
  <1>3. CASE UNCHANGED vars
    BY <1>0, <1>1, <1>3 DEF vars, FreshInv
  <1>4. ASSUME NEW t \in Tasks, Charge(t)
        PROVE  FreshInv'
    BY <1>0, <1>1, <1>4 DEF Charge, FreshInv
  <1>5. ASSUME NEW t \in Tasks, Finish(t) \/ Exit(t) \/ Release(t)
        PROVE  FreshInv'
    BY <1>0, <1>2, <1>5 DEF Finish, Exit, Release, FreshInv
  <1>6. CASE Tick
    BY <1>0, <1>1, <1>6 DEF Tick, FreshInv
  <1>7. ASSUME NEW t \in Tasks, Begin(t) \/ LocalStep(t) \/ update_burst_cache(t)
        PROVE  FreshInv'
    BY <1>0, <1>7, FreshBegin, FreshLocal, FreshUpdate DEF FreshInv
  <1>8. CASE Next
    BY <1>4, <1>5, <1>6, <1>7, <1>8, StepCases
  <1> QED
    BY <1>3, <1>8

LEMMA FreshAlways == Spec => []FreshInv
  BY InitFresh, FreshStep, PTL DEF Spec

\* What a child inherits was never computed from samples older than the
\* lifetime of the cache, counted from the earliest of the forks under way
\* when its fork began, and never comes from a cache that nobody has filled,
\* for any number of forks that fill each other's caches, any lifetime and any
\* granularity of the time in a cache, with the wrap-around of the difference
\* when the cache's time is ahead.
THEOREM AlwaysInheritsFresh == Spec => []InheritsFresh
  <1>1. FreshInv => InheritsFresh
    <2> SUFFICES ASSUME FreshInv, NEW f \in Tasks, fork[f].pc = "read"
                 PROVE  Fresh(bc[fork[f].kind][fork[f].anc], fork[f].floor - Lifetime)
      BY DEF InheritsFresh
    <2> DEFINE cache == bc[fork[f].kind][fork[f].anc]
               fl == fork[f].floor
    <2>1. /\ cache.timestamp >= 1
          /\ \A i \in 1 .. Len(cache.seen) : fl <= cache.seen[i].at + Lifetime
      BY DEF FreshInv, ReadsRecent, Recent
    <2>2. /\ fork[f].kind \in Kinds /\ fork[f].anc \in Tasks /\ fl \in Nat
      BY DEF FreshInv, SafeInv, TreeInv, TypeInv, ForkTyped, Calls
    <2>3. cache \in Caches
      BY <2>2 DEF FreshInv, SafeInv, TreeInv, TypeInv, ValuesTyped
    <2> HIDE DEF cache, fl
    <2>4. \A i \in 1 .. Len(cache.seen) : cache.seen[i] \in Reads
      BY <2>3 DEF Caches
    <2>5. cache # Unfilled
      <3>1. Unfilled.timestamp = 0
        BY DEF Unfilled
      <3> QED
        BY <2>1, <3>1
    <2>6. ASSUME NEW i \in 1 .. Len(cache.seen)
          PROVE  cache.seen[i].at >= fl - Lifetime
      <3>1. cache.seen[i].at \in Nat
        BY <2>4 DEF Reads
      <3> QED
        BY <2>1, <2>2, <3>1, Constants
    <2> QED
      BY <2>5, <2>6 DEF Fresh, cache, fl
  <1> QED
    BY <1>1, FreshAlways, PTL

-----------------------------------------------------------------------------
(* Averages *)

LEMMA AddedBelow ==
    ASSUME NEW n \in Nat, NEW a \in Nat, NEW t \in Nat, NEW p \in Nat, n * a <= t
    PROVE  (n + 1) * a <= t + p \/ (n + 1) * p <= t + p
  <1>1. n * a \in Nat /\ n * p \in Nat
    OBVIOUS
  <1>2. (n + 1) * a = n * a + a /\ (n + 1) * p = n * p + p
    OBVIOUS
  <1>3. p <= a => n * p <= n * a
    OBVIOUS
  <1> QED
    BY <1>1, <1>2, <1>3

LEMMA AddedAbove ==
    ASSUME NEW n \in Nat, NEW a \in Nat, NEW t \in Nat, NEW p \in Nat, t <= n * a
    PROVE  t + p <= (n + 1) * a \/ t + p <= (n + 1) * p
  <1>1. n * a \in Nat /\ n * p \in Nat
    OBVIOUS
  <1>2. (n + 1) * a = n * a + a /\ (n + 1) * p = n * p + p
    OBVIOUS
  <1>3. a <= p => n * a <= n * p
    OBVIOUS
  <1> QED
    BY <1>1, <1>2, <1>3

LEMMA SeenTyped ==
    ASSUME NEW c \in Calls
    PROVE  \A i \in 1 .. Len(c.seen) : c.seen[i] \in Reads /\ c.seen[i].penalty \in Nat
  <1>1. c.seen \in Seq(Reads)
    BY DEF Calls
  <1>2. \A i \in 1 .. Len(c.seen) : c.seen[i] \in Reads
    BY <1>1
  <1> QED
    BY <1>2, Constants DEF Reads

\* A sample more.
LEMMA BalancedSample ==
    ASSUME NEW c \in Calls, Bounded(c), Balanced(c), NEW n, NEW p \in Nat, NEW at
    PROVE  Balanced(Sampled(c, n, p, at))
  <1> DEFINE new == Sampled(c, n, p, at)
             m == Len(c.seen)
  <1>1. /\ Len(new.seen) = m + 1 /\ m \in Nat
        /\ \A i \in 1 .. m : new.seen[i] = c.seen[i]
        /\ new.seen[m + 1].penalty = p
        /\ new.count = c.count + 1 /\ new.total = c.total + p
    BY SampledSeen
  <1>2. c.count = m /\ c.total \in Nat /\ c.total <= c.count * (pow2[HalfBits] - 1)
    BY DEF Bounded, Calls
  <1>3. \A i \in 1 .. m : c.seen[i].penalty \in Nat
    BY SeenTyped
  <1>4. m >= 1 => /\ \E i \in 1 .. m : m * c.seen[i].penalty <= c.total
                  /\ \E i \in 1 .. m : c.total <= m * c.seen[i].penalty
    BY <1>2 DEF Balanced
  <1>5. m + 1 \in 1 .. Len(new.seen) /\ \A i \in 1 .. m : i \in 1 .. Len(new.seen)
    BY <1>1
  <1> HIDE DEF new, m
  <1>6. CASE m = 0
    <2>1. c.total = 0
      BY <1>2, <1>6, Constants
    <2>2. new.count = 1 /\ new.total = p
      BY <1>1, <1>2, <1>6, <2>1
    <2> QED
      BY <1>1, <1>5, <2>2 DEF Balanced, new
  <1>7. CASE m >= 1
    <2>1. \E i \in 1 .. Len(new.seen) : new.count * new.seen[i].penalty <= new.total
      <3>1. PICK i \in 1 .. m : m * c.seen[i].penalty <= c.total
        BY <1>4, <1>7
      <3>2. (m + 1) * c.seen[i].penalty <= c.total + p \/ (m + 1) * p <= c.total + p
        BY <1>1, <1>2, <1>3, <3>1, AddedBelow
      <3> QED
        BY <1>1, <1>2, <1>5, <3>2
    <2>2. \E i \in 1 .. Len(new.seen) : new.total <= new.count * new.seen[i].penalty
      <3>1. PICK i \in 1 .. m : c.total <= m * c.seen[i].penalty
        BY <1>4, <1>7
      <3>2. c.total + p <= (m + 1) * c.seen[i].penalty \/ c.total + p <= (m + 1) * p
        BY <1>1, <1>2, <1>3, <3>1, AddedAbove
      <3> QED
        BY <1>1, <1>2, <1>5, <3>2
    <2> QED
      BY <2>1, <2>2 DEF Balanced, new
  <1> QED
    BY <1>1, <1>6, <1>7

\* A scan never leaves its list where nothing exits, and so takes no list head
\* for a task.
LEMMA InListLocal ==
    ASSUME TreeInv, NEW f \in Tasks, LocalStep(f), NEW c \in Calls, c = fork[f],
           NEW new \in Calls, Locally(f, new), InList(c), Bounded(c)
    PROVE  InList(new)
  <1>1. \A x : Locally(f, x) => new = x
    <2>1. \A x : Locally(f, x) => fork'[f] = x
      BY DEF Locally, TreeInv, TypeInv, ForkTyped
    <2> QED
      BY <2>1
  <1>2. CASE Climb(f)
    <2>1. \/ new = [c EXCEPT !.pc = "check"]
          \/ new = [c EXCEPT !.pc = "first", !.up = parent[c.anc]]
          \/ new = [c EXCEPT !.pc = "second", !.first = nxt["subtree"][Anchor(c.anc)]]
          \/ new = [c EXCEPT !.pc = "up", !.anc = c.up, !.sole = 1]
      BY <1>1, <1>2 DEF Climb
    <2>2. new.pc \in {"check", "first", "second", "up"}
      BY <2>1 DEF Calls
    <2> QED
      BY <2>2 DEF InList, Descending
  <1>3. CASE Check(f)
    <2>1. \/ new = [c EXCEPT !.pc = "scan", !.cursor = Anchor(c.anc)]
          \/ new = [c EXCEPT !.pc = "read"]
      BY <1>1, <1>3 DEF Check
    <2>2. \/ new.pc = "scan" /\ new.cursor = Anchor(c.anc) /\ new.kind = c.kind
             /\ new.anc = c.anc
          \/ new.pc = "read"
      BY <2>1 DEF Calls
    <2>3. c.kind \in Kinds /\ c.anc \in Tasks
      BY DEF Calls
    <2>4. Anchor(c.anc) \in Node(c.kind) /\ Owner(c.kind)[Anchor(c.anc)] = c.anc
      BY <2>3, NodesTyped, NodeFacts DEF TreeInv, TypeInv
    <2> QED
      BY <2>2, <2>4 DEF InList, Descending
  <1>4. CASE Scan(f)
    <2> DEFINE n == nxt[c.kind][c.cursor]
               at == [c EXCEPT !.cursor = n, !.scans = Scanned(c, n)]
    <2>1. \/ new = [c EXCEPT !.pc = "update"]
          \/ /\ new = [at EXCEPT !.pc = IF c.hub /\ n \in Tasks THEN "down" ELSE "sample",
                                 !.desc = n]
             /\ n # Anchor(c.anc)
      BY <1>1, <1>4 DEF Scan
    <2>2. c.pc = "scan"
      BY <1>4 DEF Scan
    <2>3. c.kind \in Kinds /\ c.cursor \in Node(c.kind) /\ Owner(c.kind)[c.cursor] = c.anc
      BY <2>2 DEF InList, Calls
    <2>4. n \in Node(c.kind) /\ Owner(c.kind)[n] = c.anc
      BY <2>3 DEF TreeInv, ListsSound, Chain
    <2>5. n # Anchor(c.anc) => n \in Tasks
      <3>1. \A x \in Node(c.kind) : x \notin Tasks => x = Anchor(Owner(c.kind)[x])
        BY <2>3, NodesTyped, NodeFacts DEF Owner, TreeInv, TypeInv
      <3> QED
        BY <2>4, <3>1
    <2> HIDE DEF n
    <2>6. \/ new.pc = "update"
          \/ /\ new.cursor = n /\ new.desc = n /\ new.kind = c.kind /\ new.anc = c.anc
             /\ n # Anchor(c.anc)
      BY <2>1 DEF Calls
    <2> QED
      BY <2>4, <2>5, <2>6 DEF InList, Descending
  <1>5. CASE Descend(f)
    <2> DEFINE n == nxt["subtree"][Anchor(c.desc)]
    <2>1. \/ new = [c EXCEPT !.pc = "down2", !.first = n]
          \/ new = [c EXCEPT !.pc = "down3"]
          \/ new = [c EXCEPT !.pc = "sample"]
          \/ new = [c EXCEPT !.pc = "down", !.desc = n]
      BY <1>1, <1>5 DEF Descend
    <2>2. c.pc \in Descending /\ c.desc \in Tasks
      BY <1>5 DEF Descend, Descending, Bounded
    <2> HIDE DEF n
    <2>3. /\ new.cursor = c.cursor /\ new.kind = c.kind /\ new.anc = c.anc
          /\ new.pc = "sample" => new.desc = c.desc
      BY <2>1 DEF Calls
    <2> QED
      BY <2>2, <2>3 DEF InList
  <1>6. CASE TakeSample(f)
    <2>1. c.pc = "sample"
      BY <1>6 DEF TakeSample
    <2>2. \/ \E p \in Samples(c.desc) : p \in Halves /\ new = Sampled(c, c.desc, p, clock)
          \/ new = [c EXCEPT !.pc = "scan"]
      BY <1>1, <1>6, SampleCases
    <2>3. new.pc = "scan" /\ new.cursor = c.cursor /\ new.kind = c.kind /\ new.anc = c.anc
      <3>1. CASE new = [c EXCEPT !.pc = "scan"]
        BY <3>1 DEF Calls
      <3>2. ASSUME NEW p, new = Sampled(c, c.desc, p, clock)
            PROVE  new.pc = "scan" /\ new.cursor = c.cursor /\ new.kind = c.kind
                   /\ new.anc = c.anc
        BY <3>2 DEF Sampled, Calls
      <3> QED
        BY <2>2, <3>1, <3>2
    <2> QED
      BY <2>1, <2>3 DEF InList
  <1> QED
    BY <1>2, <1>3, <1>4, <1>5, <1>6 DEF LocalStep

LEMMA AverageLocal ==
    ASSUME AverageInv, NEW f \in Tasks, LocalStep(f)
    PROVE  AverageInv'
  <1>0. TreeInv /\ TreeInv'
    BY LocalTree DEF AverageInv
  <1>1. PICK new \in Calls : Locally(f, new) /\ Bounded(new) /\ Keeps(fork[f], new)
    BY <1>0, LocalTyped
  <1>2. PICK c \in Calls : c = fork[f]
    BY <1>0 DEF TreeInv, TypeInv, ForkTyped
  <1>3. /\ bc' = bc /\ penalty' = penalty /\ UNCHANGED tree /\ fork'[f] = new
        /\ \A g \in Tasks : g # f => fork'[g] = fork[g]
    BY <1>0, <1>1 DEF Locally, TreeInv, TypeInv, ForkTyped
  <1>4. \/ new.seen = c.seen /\ new.count = c.count /\ new.total = c.total
        \/ c.pc = "sample" /\ \E p \in Samples(c.desc) :
                                p \in Halves /\ new = Sampled(c, c.desc, p, clock)
    BY <1>0, <1>1, <1>2, LocalEffect
  <1>5. Bounded(c) /\ Balanced(c)
    BY <1>0, <1>2 DEF TreeInv, TypeInv, ForkTyped, AverageInv
  <1>6. Balanced(new)
    <2>1. CASE new.seen = c.seen /\ new.count = c.count /\ new.total = c.total
      BY <1>5, <2>1 DEF Balanced
    <2>2. ASSUME NEW p \in Halves, new = Sampled(c, c.desc, p, clock)
          PROVE  Balanced(new)
      BY <1>5, <2>2, BalancedSample, Constants
    <2> QED
      BY <1>4, <2>1, <2>2
  <1>7. \A g \in Tasks : Balanced(fork[g])'
    BY <1>3, <1>6 DEF AverageInv, Balanced
  <1>8. NotBelow'
    BY <1>3 DEF AverageInv, NotBelow
  <1>9. ASSUME NothingExits
        PROVE  NothingExits'
    <2>1. \A k \in Kinds : Node(k)' = Node(k) /\ Owner(k)' = Owner(k)
      BY <1>3, TreeSame
    <2>2. InList(c) /\ \A i \in 1 .. Len(c.seen) : Earned(c.seen[i].penalty)
      BY <1>2, <1>9 DEF NothingExits
    <2>3. InList(new)
      BY <1>0, <1>1, <1>2, <1>5, <2>2, InListLocal
    <2>4. \A i \in 1 .. Len(new.seen) : Earned(new.seen[i].penalty)
      <3>1. CASE new.seen = c.seen
        BY <2>2, <3>1
      <3>2. ASSUME c.pc = "sample", NEW p \in Samples(c.desc),
                   new = Sampled(c, c.desc, p, clock)
            PROVE  \A i \in 1 .. Len(new.seen) : Earned(new.seen[i].penalty)
        <4>1. c.desc \in Tasks
          BY <2>2, <3>2 DEF InList
        <4>2. Earned(p)
          BY <1>9, <3>2, <4>1 DEF Samples, NothingExits
        <4>3. /\ Len(new.seen) = Len(c.seen) + 1 /\ Len(c.seen) \in Nat
              /\ \A i \in 1 .. Len(c.seen) : new.seen[i] = c.seen[i]
              /\ new.seen[Len(c.seen) + 1].penalty = p
          BY <3>2, SampledSeen
        <4>4. ASSUME NEW i \in 1 .. Len(new.seen)
              PROVE  Earned(new.seen[i].penalty)
          <5>1. i \in 1 .. Len(c.seen) \/ i = Len(c.seen) + 1
            BY <4>3
          <5> QED
            BY <2>2, <4>2, <4>3, <5>1
        <4> QED
          BY <4>4
      <3> QED
        BY <1>4, <3>1, <3>2
    <2>5. \A g \in Tasks : InList(fork[g])'
      <3> SUFFICES ASSUME NEW g \in Tasks
                   PROVE  InList(fork[g])'
        OBVIOUS
      <3>1. fork'[g].kind \in Kinds
        BY <1>0 DEF TreeInv, TypeInv, ForkTyped, Calls
      <3>2. InList(fork'[g])
        BY <1>3, <1>9, <2>3 DEF NothingExits
      <3> QED
        BY <2>1, <3>1, <3>2 DEF InList
    <2>6. \A g \in Tasks : \A i \in 1 .. Len(fork'[g].seen) :
            Earned(fork'[g].seen[i].penalty)
      BY <1>3, <1>9, <2>4 DEF NothingExits
    <2>7. state' = state
      BY <1>3 DEF tree
    <2> QED
      BY <1>3, <1>9, <2>5, <2>6, <2>7 DEF NothingExits
  <1> QED
    BY <1>0, <1>7, <1>8, <1>9 DEF AverageInv

\* What a fork writes is not below all of its samples, and nobody need have
\* earned more where nothing exits.
LEMMA WrittenAverage ==
    ASSUME NEW c \in Calls, Bounded(c), Balanced(c), NEW old \in Nat, NEW new,
           new = Larger(Average(c.count, c.total), old)
    PROVE  /\ c.seen # <<>> => \E i \in 1 .. Len(c.seen) : c.seen[i].penalty <= new
           /\ Earned(old) /\ (\A i \in 1 .. Len(c.seen) : Earned(c.seen[i].penalty))
                => Earned(new)
  <1> DEFINE a == Average(c.count, c.total)
  <1>1. /\ a \in Nat
        /\ c.count = 0 => a = 0
        /\ c.count >= 1 => a = c.total \div c.count
    BY AverageTyped, Constants
  <1>2. new = Larger(a, old)
    OBVIOUS
  <1>3. /\ c.count \in Nat /\ c.total \in Nat /\ c.count = Len(c.seen)
        /\ c.seen \in Seq(Reads)
    BY DEF Bounded, Calls
  <1>4. \A i \in 1 .. Len(c.seen) : c.seen[i].penalty \in Nat
    BY SeenTyped
  <1> HIDE DEF a
  <1>5. /\ new = a \/ new = old
        /\ a <= new /\ new \in Nat
    BY <1>1, <1>2 DEF Larger
  <1>6. ASSUME c.seen # <<>>
        PROVE  \E i \in 1 .. Len(c.seen) : c.seen[i].penalty <= new
    <2>1. c.count >= 1
      BY <1>3, <1>6
    <2>2. PICK i \in 1 .. Len(c.seen) : c.count * c.seen[i].penalty <= c.total
      BY <2>1 DEF Balanced
    <2>3. c.seen[i].penalty <= a
      BY <1>1, <1>3, <1>4, <2>1, <2>2, QuotientBelow
    <2> QED
      BY <1>1, <1>4, <1>5, <2>3
  <1>7. ASSUME Earned(old), \A i \in 1 .. Len(c.seen) : Earned(c.seen[i].penalty)
        PROVE  Earned(new)
    <2>1. CASE c.count = 0
      BY <1>1, <1>5, <1>7, <2>1 DEF Earned
    <2>2. CASE c.count >= 1
      <3>1. PICK i \in 1 .. Len(c.seen) : c.total <= c.count * c.seen[i].penalty
        BY <2>2 DEF Balanced
      <3>2. c.total < c.count * c.seen[i].penalty + c.count
        <4>1. c.count * c.seen[i].penalty \in Nat
          BY <1>3, <1>4
        <4> QED
          BY <1>3, <2>2, <3>1, <4>1
      <3>3. a <= c.seen[i].penalty
        BY <1>1, <1>3, <1>4, <2>2, <3>2, QuotientBelow
      <3>4. Earned(a)
        <4>1. Earned(c.seen[i].penalty) /\ c.seen[i].penalty \in Nat
          BY <1>4, <1>7
        <4>2. \A q \in Penalties : q \in Nat
          BY Constants
        <4> QED
          BY <1>1, <3>3, <4>1, <4>2 DEF Earned
      <3> QED
        BY <1>5, <1>7, <3>4
    <2> QED
      BY <1>3, <2>1, <2>2
  <1> QED
    BY <1>6, <1>7

LEMMA AverageUpdate ==
    ASSUME AverageInv, NEW f \in Tasks, update_burst_cache(f)
    PROVE  AverageInv'
  <1>0. TreeInv /\ TreeInv'
    BY UpdateTree DEF AverageInv
  <1>1. PICK c \in Calls, new \in Caches, done \in Calls : Writes(f, c, new, done)
    BY <1>0, UpdateFacts
  <1>2. /\ c = fork[f] /\ bc' = [bc EXCEPT ![c.kind][c.anc] = new] /\ Bounded(c)
        /\ done.seen = c.seen /\ done.count = c.count /\ done.total = c.total
        /\ done.pc = "read" /\ fork' = [fork EXCEPT ![f] = done]
        /\ UNCHANGED tree /\ penalty' = penalty
    BY <1>1 DEF Writes
  <1>3. fork'[f] = done /\ \A g \in Tasks : g # f => fork'[g] = fork[g]
    BY <1>0, <1>2 DEF TreeInv, TypeInv, ForkTyped
  <1>4. c.kind \in Kinds /\ c.anc \in Tasks
    BY DEF Calls
  <1>5. /\ bc'[c.kind][c.anc] = new
        /\ \A k \in Kinds, u \in Tasks : k # c.kind \/ u # c.anc => bc'[k][u] = bc[k][u]
    BY <1>0, <1>2, <1>4, OneCache DEF TreeInv, TypeInv, ValuesTyped
  <1>6. /\ new.penalty = Larger(Average(c.count, c.total), penalty[c.anc])
        /\ new.seen = c.seen
    BY <1>1 DEF Writes
  <1>7. Balanced(c) /\ penalty[c.anc] \in Nat
    BY <1>0, <1>2, <1>4, Constants DEF AverageInv, TreeInv, TypeInv, ValuesTyped
  <1>8. /\ c.seen # <<>> => \E i \in 1 .. Len(c.seen) : c.seen[i].penalty <= new.penalty
        /\ Earned(penalty[c.anc]) /\ (\A i \in 1 .. Len(c.seen) : Earned(c.seen[i].penalty))
             => Earned(new.penalty)
    BY <1>2, <1>6, <1>7, WrittenAverage
  <1>9. \A g \in Tasks : Balanced(fork[g])'
    BY <1>2, <1>3, <1>7 DEF AverageInv, Balanced
  <1>10. NotBelow'
    <2> SUFFICES ASSUME NEW k \in Kinds, NEW t \in Tasks, bc'[k][t].seen # <<>>
                 PROVE  \E i \in 1 .. Len(bc'[k][t].seen) :
                           bc'[k][t].seen[i].penalty <= bc'[k][t].penalty
      BY DEF NotBelow
    <2>1. CASE k = c.kind /\ t = c.anc
      BY <1>5, <1>6, <1>8, <2>1
    <2>2. CASE k # c.kind \/ t # c.anc
      BY <1>5, <2>2 DEF AverageInv, NotBelow
    <2> QED
      BY <2>1, <2>2
  <1>11. ASSUME NothingExits
         PROVE  NothingExits'
    <2>1. \A k \in Kinds : Node(k)' = Node(k) /\ Owner(k)' = Owner(k)
      BY <1>2, TreeSame
    <2>2. Earned(new.penalty)
      BY <1>2, <1>4, <1>8, <1>11 DEF NothingExits
    <2>3. \A k \in Kinds, t \in Tasks : Earned(bc'[k][t].penalty)
      BY <1>5, <1>11, <2>2 DEF NothingExits
    <2>4. \A g \in Tasks : InList(fork[g])'
      <3> SUFFICES ASSUME NEW g \in Tasks
                   PROVE  InList(fork[g])'
        OBVIOUS
      <3>1. CASE g = f
        BY <1>2, <1>3, <3>1 DEF InList, Descending
      <3>2. CASE g # f
        <4>1. fork[g].kind \in Kinds /\ fork'[g] = fork[g] /\ InList(fork[g])
          BY <1>0, <1>3, <1>11, <3>2 DEF TreeInv, TypeInv, ForkTyped, Calls, NothingExits
        <4> QED
          BY <2>1, <4>1 DEF InList
      <3> QED
        BY <3>1, <3>2
    <2>5. \A g \in Tasks : \A i \in 1 .. Len(fork'[g].seen) :
            Earned(fork'[g].seen[i].penalty)
      BY <1>2, <1>3, <1>11 DEF NothingExits
    <2>6. state' = state
      BY <1>2 DEF tree
    <2> QED
      BY <1>2, <1>11, <2>3, <2>4, <2>5, <2>6 DEF NothingExits
  <1> QED
    BY <1>0, <1>9, <1>10, <1>11 DEF AverageInv

LEMMA NoneSeen == Balanced(Idle) /\ Idle.seen = <<>> /\ Idle.pc = "idle"
  BY DEF Balanced, Idle

LEMMA AverageBegin ==
    ASSUME AverageInv, NEW f \in Tasks, Begin(f)
    PROVE  AverageInv'
  <1>0. TreeInv /\ TreeInv'
    BY BeginTree DEF AverageInv
  <1>1. PICK child \in Tasks, new \in Calls : Starts(f, child, new)
    BY <1>0, BeginFacts
  <1>2. /\ fork'[f] = new /\ \A g \in Tasks : g # f => fork'[g] = fork[g]
        /\ state[child] = "unborn" /\ parent' = parent
        /\ \A k \in Kinds, t \in Tasks :
             bc'[k][t] = IF t = child THEN Unfilled ELSE bc[k][t]
    BY <1>0, <1>1 DEF Starts, TreeInv, TypeInv, ForkTyped, ValuesTyped
  <1>3. /\ state'[child] = "new" /\ penalty'[child] = 0
        /\ \A t \in Tasks : t # child => /\ state'[t] = state[t] /\ leader'[t] = leader[t]
                                         /\ penalty'[t] = penalty[t]
    BY <1>0, <1>1 DEF Starts, TreeInv, TypeInv, TreeTyped, ValuesTyped
  <1>4. new.count = 0 /\ new.seen = <<>> /\ new.pc \in {"skip", "up", "check"}
    BY <1>1 DEF Starts, Begun
  <1>5. \A g \in Tasks : Balanced(fork[g])'
    <2>1. Balanced(new)'
      BY <1>4 DEF Balanced
    <2>2. ASSUME NEW g \in Tasks, g # f
          PROVE  Balanced(fork[g])'
      <3>1. Balanced(fork[g]) /\ fork'[g] = fork[g]
        BY <1>2, <2>2 DEF AverageInv
      <3> QED
        BY <3>1 DEF Balanced
    <2>3. Balanced(fork[f])'
      BY <1>2, <2>1
    <2> QED
      BY <2>2, <2>3
  <1>6. Unfilled.seen = <<>> /\ Unfilled.penalty = 0
    BY DEF Unfilled
  <1>7. NotBelow'
    BY <1>2, <1>6 DEF AverageInv, NotBelow
  <1>8. ASSUME NothingExits
        PROVE  NothingExits'
    <2>1. \A t \in Tasks : state'[t] \notin {"zombie", "dead"} /\ Earned(penalty'[t])
      <3> SUFFICES ASSUME NEW t \in Tasks
                   PROVE  state'[t] \notin {"zombie", "dead"} /\ Earned(penalty'[t])
        OBVIOUS
      <3>1. CASE t = child
        BY <1>3, <3>1 DEF Earned
      <3>2. CASE t # child
        BY <1>3, <1>8, <3>2 DEF NothingExits
      <3> QED
        BY <3>1, <3>2
    <2>2. \A k \in Kinds, t \in Tasks : Earned(bc'[k][t].penalty)
      <3>1. Earned(0)
        BY DEF Earned
      <3> QED
        BY <1>2, <1>6, <1>8, <3>1 DEF NothingExits
    <2>3. \A g \in Tasks : \A i \in 1 .. Len(fork'[g].seen) :
            Earned(fork'[g].seen[i].penalty)
      <3>1. Len(new.seen) = 0 /\ 1 .. 0 = {}
        BY <1>4
      <3> QED
        BY <1>2, <1>8, <3>1 DEF NothingExits
    <2>4. \A t \in Tasks : Hashed(t)' = Hashed(t) /\ (Hashed(t) => t # child)
      BY <1>2, <1>3 DEF Hashed
    <2>5. ASSUME NEW k \in Kinds
          PROVE  /\ Node(k)' = Node(k)
                 /\ \A n \in Node(k) : Owner(k)'[n] = Owner(k)[n]
      <3>1. Node(k)' = Node(k)
        BY <1>3, <2>4 DEF Node
      <3>2. \A n \in Node(k) : n \in Nodes /\ n # child
        BY <1>0, <2>4, NodesTyped, NodeFacts DEF Node, TreeInv, TypeInv
      <3> QED
        BY <1>2, <1>3, <3>1, <3>2 DEF Owner
    <2>6. \A g \in Tasks : InList(fork[g])'
      <3> SUFFICES ASSUME NEW g \in Tasks
                   PROVE  InList(fork[g])'
        OBVIOUS
      <3>1. CASE g = f
        BY <1>2, <1>4, <3>1 DEF InList, Descending
      <3>2. CASE g # f
        <4>1. fork[g].kind \in Kinds /\ fork'[g] = fork[g] /\ InList(fork[g])
          BY <1>0, <1>2, <1>8, <3>2 DEF TreeInv, TypeInv, ForkTyped, Calls, NothingExits
        <4> QED
          BY <2>5, <4>1 DEF InList
      <3> QED
        BY <3>1, <3>2
    <2> QED
      BY <2>1, <2>2, <2>3, <2>6 DEF NothingExits
  <1> QED
    BY <1>0, <1>5, <1>7, <1>8 DEF AverageInv

\* Steps that end a fork or disturb the others change no sums and no caches.
LEMMA AverageOthers ==
    ASSUME AverageInv, bc' = bc, NEW t \in Tasks, fork'[t] = Idle,
           \A g \in Tasks : g # t => SameLocals(fork[g], fork'[g])
    PROVE  (\A g \in Tasks : Balanced(fork[g])') /\ NotBelow'
  <1>1. ASSUME NEW g \in Tasks
        PROVE  Balanced(fork[g])'
    <2>1. CASE g = t
      BY <2>1, NoneSeen DEF Balanced
    <2>2. CASE g # t
      BY <2>2 DEF AverageInv, Balanced, SameLocals
    <2> QED
      BY <2>1, <2>2
  <1>2. NotBelow'
    BY DEF AverageInv, NotBelow
  <1> QED
    BY <1>1, <1>2

LEMMA AverageFinish ==
    ASSUME AverageInv, NEW f \in Tasks, Finish(f)
    PROVE  AverageInv'
  <1>0. TreeInv /\ ForkTyped
    BY DEF AverageInv, TreeInv, TypeInv
  <1>1. PICK c \in Calls : Links(f, c)
    BY <1>0, FinishFacts
  <1>2. /\ TreeInv'
        /\ \A k \in Kinds : Node(k) \subseteq Node(k)' /\ c.child \notin Node(k)
        /\ \A u \in Tasks : u # c.child => /\ parent'[u] = parent[u]
                                           /\ state'[u] = state[u]
    BY <1>0, <1>1, FinishTree
  <1>3. /\ c.child \in Tasks /\ state' = [state EXCEPT ![c.child] = "live"]
        /\ leader' = leader /\ bc' = bc /\ fork' = Disturbed(f)
        /\ penalty' = [penalty EXCEPT ![c.child] =
             update_penalty(0, IF c.pc = "read" THEN bc[c.kind][c.anc].penalty ELSE 0,
                            c.child \in Protected)]
    BY <1>1 DEF Links, Calls
  <1>4. fork'[f] = Idle /\ \A g \in Tasks : g # f => SameLocals(fork[g], fork'[g])
    BY <1>0, <1>3, Disturb
  <1>5. (\A g \in Tasks : Balanced(fork[g])') /\ NotBelow'
    BY <1>3, <1>4, AverageOthers
  <1>6. ASSUME NothingExits
        PROVE  NothingExits'
    <2> DEFINE q == IF c.pc = "read" THEN bc[c.kind][c.anc].penalty ELSE 0
    <2>1. q \in Nat /\ Earned(q)
      <3>1. c.kind \in Kinds /\ c.anc \in Tasks
        BY DEF Calls
      <3>2. bc[c.kind][c.anc] \in Caches /\ Earned(bc[c.kind][c.anc].penalty)
        BY <1>0, <1>6, <3>1 DEF TreeInv, TypeInv, ValuesTyped, NothingExits
      <3>3. bc[c.kind][c.anc].penalty \in Nat
        BY <3>2, Constants DEF Caches
      <3> QED
        BY <3>2, <3>3 DEF Earned
    <2> HIDE DEF q
    <2>2. \A b : Earned(update_penalty(0, q, b))
      BY <2>1 DEF update_penalty, Larger, Earned
    <2>3. penalty' = [penalty EXCEPT ![c.child] =
                        update_penalty(0, q, c.child \in Protected)]
      BY <1>3 DEF q
    <2>4. /\ \A t \in Tasks : Earned(penalty'[t])
          /\ \A t \in Tasks : state'[t] \notin {"zombie", "dead"}
      <3>1. penalty \in [Tasks -> Halves] /\ state'[c.child] = "live"
        BY <1>0, <1>3 DEF TreeInv, TypeInv, ValuesTyped, TreeTyped
      <3>2. \A t \in Tasks : Earned(penalty[t]) /\ state[t] \notin {"zombie", "dead"}
        BY <1>6 DEF NothingExits
      <3>3. \A t \in Tasks : Earned(penalty'[t])
        BY <1>3, <2>2, <2>3, <3>1, <3>2
      <3>4. \A t \in Tasks : state'[t] \notin {"zombie", "dead"}
        BY <1>2, <3>1, <3>2
      <3> QED
        BY <3>3, <3>4
    <2>5. \A g \in Tasks : \A i \in 1 .. Len(fork'[g].seen) :
            Earned(fork'[g].seen[i].penalty)
      <3>1. Len(Idle.seen) = 0 /\ 1 .. 0 = {}
        BY NoneSeen
      <3> QED
        BY <1>4, <1>6, <3>1 DEF NothingExits, SameLocals
    <2>6. \A g \in Tasks : InList(fork[g])'
      <3> SUFFICES ASSUME NEW g \in Tasks
                   PROVE  InList(fork[g])'
        OBVIOUS
      <3>1. CASE g = f
        BY <1>4, <3>1, NoneSeen DEF InList, Descending
      <3>2. CASE g # f
        <4>1. PICK e \in Calls : e = fork[g]
          BY <1>0 DEF ForkTyped
        <4>2. e.kind \in Kinds /\ InList(e) /\ SameLocals(e, fork'[g])
          BY <1>4, <1>6, <3>2, <4>1 DEF NothingExits, Calls
        <4>3. \A n \in Node(e.kind) : Owner(e.kind)'[n] = Owner(e.kind)[n]
          <5>1. \A n \in Node(e.kind) : n \in Nodes /\ n # c.child
            BY <1>0, <1>2, <4>2, NodesTyped DEF TreeInv, TypeInv
          <5> QED
            BY <1>2, <1>3, <5>1 DEF Owner
        <4>4. Node(e.kind) \subseteq Node(e.kind)'
          BY <1>2, <4>2
        <4> QED
          BY <4>2, <4>3, <4>4 DEF InList, SameLocals
      <3> QED
        BY <3>1, <3>2
    <2> QED
      BY <1>3, <1>6, <2>4, <2>5, <2>6 DEF NothingExits
  <1> QED
    BY <1>2, <1>5, <1>6 DEF AverageInv

LEMMA AverageSame ==
    ASSUME AverageInv, TreeInv', UNCHANGED <<tree, bc, fork>>,
           NothingExits => \A t \in Tasks : Earned(penalty'[t])
    PROVE  AverageInv'
  <1>1. (\A g \in Tasks : Balanced(fork[g])') /\ NotBelow'
    BY DEF AverageInv, Balanced, NotBelow
  <1>2. ASSUME NothingExits
        PROVE  NothingExits'
    <2>1. state' = state /\ \A k \in Kinds : Node(k)' = Node(k) /\ Owner(k)' = Owner(k)
      BY TreeSame DEF tree
    <2>2. \A g \in Tasks : fork[g].kind \in Kinds /\ InList(fork[g]) /\ fork'[g] = fork[g]
      BY <1>2 DEF NothingExits, AverageInv, TreeInv, TypeInv, ForkTyped, Calls
    <2>3. \A g \in Tasks : InList(fork[g])'
      BY <2>1, <2>2 DEF InList
    <2> QED
      BY <1>2, <2>1, <2>3 DEF NothingExits
  <1> QED
    BY <1>1, <1>2 DEF AverageInv

LEMMA InitAverage == Init => AverageInv
  <1> SUFFICES ASSUME Init
               PROVE  AverageInv
    OBVIOUS
  <1>1. TreeInv
    BY InitTree
  <1>2. \A f \in Tasks : fork[f] = Idle
    BY DEF Init
  <1>3. \A k \in Kinds, t \in Tasks : bc[k][t] = Unfilled
    BY DEF Init
  <1>4. Unfilled.seen = <<>> /\ Unfilled.penalty = 0
    BY DEF Unfilled
  <1>5. (\A f \in Tasks : Balanced(fork[f])) /\ NotBelow
    BY <1>2, <1>3, <1>4, NoneSeen DEF NotBelow
  <1>6. NothingExits
    <2>1. Earned(0) /\ Len(Idle.seen) = 0 /\ 1 .. 0 = {}
      BY NoneSeen DEF Earned
    <2>2. \A t \in Tasks : state[t] \notin {"zombie", "dead"} /\ penalty[t] = 0
      BY DEF Init
    <2>3. InList(Idle)
      BY NoneSeen DEF InList, Descending
    <2> QED
      BY <1>2, <1>3, <1>4, <2>1, <2>2, <2>3 DEF NothingExits
  <1> QED
    BY <1>1, <1>5, <1>6 DEF AverageInv

LEMMA AverageStep ==
    ASSUME AverageInv, [Next]_vars
    PROVE  AverageInv'
  <1>0. TreeInv' /\ TreeInv /\ ForkTyped
    BY TreeStep DEF AverageInv, TreeInv, TypeInv
  <1>1. CASE UNCHANGED vars
    BY <1>0, <1>1, AverageSame DEF vars, tree, NothingExits
  <1>2. CASE Tick
    BY <1>0, <1>2, AverageSame DEF Tick, NothingExits
  <1>3. ASSUME NEW t \in Tasks, Charge(t)
        PROVE  AverageInv'
    <2>1. PICK p \in Penalties : penalty' = [penalty EXCEPT ![t] = p]
      BY <1>3 DEF Charge
    <2>2. Earned(p)
      <3>1. p \in Nat
        BY Constants
      <3> QED
        BY <3>1 DEF Earned
    <2>3. NothingExits => \A u \in Tasks : Earned(penalty'[u])
      BY <1>0, <2>1, <2>2 DEF NothingExits, TreeInv, TypeInv, ValuesTyped
    <2>4. UNCHANGED <<tree, bc, fork>>
      BY <1>3 DEF Charge
    <2> QED
      BY <1>0, <2>3, <2>4, AverageSame
  <1>4. ASSUME NEW t \in Tasks, Exit(t) \/ Release(t)
        PROVE  AverageInv'
    <2>1. fork' = Disturbed(t) /\ bc' = bc
      BY <1>4 DEF Exit, Release
    <2>2. (\A g \in Tasks : Balanced(fork[g])') /\ NotBelow'
      BY <1>0, <2>1, Disturb, AverageOthers
    <2>3. "exit" \in Env
      <3>1. CASE Exit(t)
        BY <3>1 DEF Exit
      <3>2. CASE Release(t)
        BY <3>2 DEF Release, AverageInv, NothingExits
      <3> QED
        BY <1>4, <3>1, <3>2
    <2> QED
      BY <1>0, <2>2, <2>3 DEF AverageInv
  <1>5. CASE Next
    BY <1>2, <1>3, <1>4, <1>5, StepCases, AverageLocal, AverageUpdate, AverageBegin,
       AverageFinish
  <1> QED
    BY <1>1, <1>5

LEMMA AverageAlways == Spec => []AverageInv
  BY InitAverage, AverageStep, PTL DEF Spec

\* The penalty in a cache is never below all of the samples it was computed
\* from, with the division by a table of reciprocals whose first entry does
\* not fit; and where no task exits, however many fork at a time and descend
\* among each other's children, it is never above all of them and every
\* penalty a task may earn, as no scan leaves its list.
THEOREM CacheAlwaysWithinSamples == Spec => []CachedWithinSamples
  <1>1. AverageInv => CachedWithinSamples
    <2> SUFFICES ASSUME AverageInv, NEW k \in Kinds, NEW t \in Tasks,
                        bc[k][t].seen # <<>>
                 PROVE  LET seen == bc[k][t].seen
                            read == {seen[i].penalty : i \in 1 .. Len(seen)}
                        IN  /\ \E p \in read : p <= bc[k][t].penalty
                            /\ \/ "exit" \in Env
                               \/ \E p \in read \cup Penalties : p >= bc[k][t].penalty
      BY DEF CachedWithinSamples
    <2> DEFINE seen == bc[k][t].seen
               read == {seen[i].penalty : i \in 1 .. Len(seen)}
    <2>1. PICK i \in 1 .. Len(seen) : seen[i].penalty <= bc[k][t].penalty
      BY DEF AverageInv, NotBelow
    <2>2. bc[k][t] \in Caches
      BY DEF AverageInv, TreeInv, TypeInv, ValuesTyped
    <2>3. seen[i].penalty \in Nat /\ bc[k][t].penalty \in Nat
      <3>1. seen \in Seq(Reads) /\ bc[k][t].penalty \in Halves
        BY <2>2 DEF Caches
      <3> HIDE DEF seen
      <3>2. seen[i] \in Reads
        BY <3>1
      <3> QED
        BY <3>1, <3>2, Constants DEF Reads
    <2>4. seen[i].penalty \in read
      OBVIOUS
    <2>5. ASSUME "exit" \notin Env
          PROVE  \E p \in read \cup Penalties : p >= bc[k][t].penalty
      <3>1. Earned(bc[k][t].penalty)
        BY <2>5 DEF AverageInv, NothingExits
      <3>2. \A q \in Penalties : q \in Nat
        BY Constants
      <3> HIDE DEF read, seen
      <3> QED
        BY <2>3, <2>4, <3>1, <3>2 DEF Earned
    <2> HIDE DEF read
    <2> QED
      BY <2>1, <2>4, <2>5 DEF read
  <1> QED
    BY <1>1, AverageAlways, PTL

-----------------------------------------------------------------------------
(* The forking process among the samples *)

\* u is the only child of d.
Only(d, u) == nxt["subtree"][Anchor(d)] = u /\ nxt["subtree"][u] = Anchor(d)

\* Going from only child to only child leads from b to f.
Descent(b, f) ==
    \A S \in SUBSET Tasks :
        b \in S /\ (\A d \in S, u \in Tasks : Only(d, u) => u \in S) => f \in S

\* The list leads from n to b before it comes to a head.
Ahead(n, b) ==
    \A S \in SUBSET Nodes :
        /\ nxt["subtree"][n] \in S
        /\ \A t \in S \cap Tasks : nxt["subtree"][t] \in S
        => b \in S

\* b is the child of a that f is below, as the loops see it.
Under(a, b, f) ==
    /\ b \in Node("subtree") \cap Tasks /\ parent[b] = a
    /\ Descent(b, f) /\ nxt["subtree"][Anchor(f)] = Anchor(f)

Got(f, c) == \E i \in 1 .. Len(c.seen) : c.seen[i].task = f

\* Until the scan has come to f it has b before it, or is on the way from
\* there to f.
Scanning(f, c, b) ==
    LET pending == ~Got(f, c) /\ ~Ahead(c.cursor, b)
    IN  /\ c.pc = "scan" => ~pending
        /\ c.pc \in Descending /\ pending => Descent(c.desc, f)
        /\ c.pc = "sample" /\ pending => c.desc = f
        /\ c.pc = "update" => Got(f, c) \/ AtLimit(c)

Meets(f, c) ==
    /\ c.kind = "subtree" /\ c.anc \in Ancestors(f)
    /\ c.pc \in {"first", "second"} => c.up = parent[c.anc] /\ c.up # c.anc
    /\ c.pc = "second" => c.first = nxt["subtree"][Anchor(c.anc)]
    /\ c.pc \in {"down2", "down3"} => c.first = nxt["subtree"][Anchor(c.desc)]
    /\ c.pc = "down3" => c.first \in Tasks /\ Only(c.desc, c.first)
    /\ c.sole = 0 => c.anc = f
    /\ c.sole = 1 => \E b \in Tasks : Under(c.anc, b, f) /\ Scanning(f, c, b)

\* The forks the statement is about.
Undisturbed(f) ==
    /\ f \in Eligible /\ fork[f].pc # "idle" /\ fork[f].hub /\ fork[f].calm
    /\ \A t \in Ancestors(f) : leader[t] = t

SampledInv ==
    /\ TreeInv /\ parent[Root] = Root
    /\ \A f \in Tasks : Undisturbed(f) => Meets(f, fork[f])

\* What is linked to itself in a finite set without two leading to the same is
\* led to everywhere.
LEMMA LedTo ==
    ASSUME NEW N, IsFiniteSet(N), NEW nx, \A n \in N : nx[n] \in N,
           \A m, n \in N : nx[m] = nx[n] => m = n, NEW z \in N
    PROVE  \E n \in N : nx[n] = z
  <1> SUFFICES ASSUME \A n \in N : nx[n] # z
               PROVE  FALSE
    OBVIOUS
  <1> DEFINE T == N \ {z}
             h == [n \in N |-> nx[n]]
  <1>1. IsFiniteSet(T) /\ Cardinality(T) = Cardinality(N) - 1
    BY FS_RemoveElement
  <1>2. Cardinality(N) \in Nat
    BY FS_CardinalityType
  <1>3. h \in [N -> T] /\ \A n \in N : h[n] = nx[n]
    OBVIOUS
  <1> HIDE DEF T, h
  <1>4. Cardinality(T) < Cardinality(N)
    BY <1>1, <1>2
  <1>5. \E m, n \in N : m # n /\ h[m] = h[n]
    BY <1>1, <1>3, <1>4, FS_PigeonHole
  <1> QED
    BY <1>3, <1>5

\* From its head a list leads to all that are in it.
LEMMA HeadBefore ==
    ASSUME TreeInv, NEW a \in Tasks, NEW b \in Node("subtree") \cap Tasks,
           parent[b] = a
    PROVE  Ahead(Anchor(a), b)
  <1> DEFINE L == Node("subtree")
             O == Owner("subtree")
             nx == nxt["subtree"]
  <1>1. Chain(L, O, nx) /\ "subtree" \in Kinds /\ TreeTyped
    BY DEF TreeInv, TypeInv, ListsSound, Kinds
  <1>2. /\ L \subseteq Nodes /\ Anchor(a) \in L /\ O[Anchor(a)] = a
        /\ \A n \in L : n \notin Tasks /\ O[n] = a => n = Anchor(a)
    <2>1. L \subseteq Nodes /\ Anchor(a) \in L /\ O[Anchor(a)] = a
      BY <1>1, NodesTyped, NodeFacts
    <2>2. \A n \in L : n \notin Tasks /\ O[n] = a => n = Anchor(a)
      BY <2>1, NodeFacts DEF Owner
    <2> QED
      BY <2>1, <2>2
  <1>3. O[b] = a /\ b \in L /\ b \in Tasks /\ Anchor(a) \notin Tasks
    BY NodeFacts DEF Owner
  <1>4. IsFiniteSet(L)
    <2>1. IsFiniteSet(Tasks) /\ IsFiniteSet(Heads)
      <3> DEFINE head == [t \in Tasks |-> Anchor(t)]
      <3>1. head \in [Tasks -> Heads] /\ \A n \in Heads : \E t \in Tasks : head[t] = n
        BY DEF Heads
      <3>2. head \in Surjection(Tasks, Heads)
        BY <3>1 DEF Surjection
      <3> QED
        BY <3>2, BoreInheritAssumption, FS_Surjection
    <2>2. IsFiniteSet(Nodes)
      BY <2>1, NodeFacts, FS_Union
    <2> QED
      BY <1>2, <2>2, FS_Subset
  <1>n. nx = nxt["subtree"]
    OBVIOUS
  <1> HIDE DEF L, O, nx
  <1> SUFFICES ASSUME NEW S \in SUBSET Nodes, nx[Anchor(a)] \in S,
                      \A t \in S \cap Tasks : nx[t] \in S
               PROVE  b \in S
    BY <1>n DEF Ahead
  <1> DEFINE N == {n \in L : O[n] = a /\ (n = Anchor(a) \/ n \in S)}
             T == {n \in L \cap Tasks : O[n] = a /\ n \notin S}
  <1>5. \A n \in L : nx[n] \in L /\ O[nx[n]] = O[n]
    BY <1>1 DEF Chain
  <1>6. \A n \in N : nx[n] \in N
    BY <1>2, <1>5
  <1>7. \A m, n \in L : nx[m] = nx[n] => m = n
    BY <1>1 DEF Chain
  <1>8. \A z \in N : \E n \in N : nx[n] = z
    <2>1. IsFiniteSet(N) /\ \A m, n \in N : nx[m] = nx[n] => m = n
      BY <1>4, <1>7, FS_Subset
    <2> HIDE DEF N
    <2> QED
      BY <1>6, <2>1, LedTo
  <1>9. \A t \in T : nx[t] \in T
    <2> SUFFICES ASSUME NEW t \in T
                 PROVE  nx[t] \in T
      OBVIOUS
    <2>1. nx[t] \in L /\ O[nx[t]] = a /\ t \notin N
      BY <1>3, <1>5
    <2>2. nx[t] \notin N
      <3>1. N \subseteq L /\ t \in L
        OBVIOUS
      <3> HIDE DEF N, T
      <3> QED
        BY <1>7, <1>8, <2>1, <3>1
    <2> QED
      BY <1>2, <2>1, <2>2
  <1>10. T = {}
    <2>1. T \in SUBSET (L \cap Tasks)
      OBVIOUS
    <2> HIDE DEF T
    <2> QED
      BY <1>1, <1>9, <2>1 DEF Chain
  <1> QED
    BY <1>3, <1>10

\* What count_children_upto2 says.
LEMMA CountsOnly ==
    ASSUME TreeInv, NEW d \in Tasks, NEW x, x = nxt["subtree"][Anchor(d)]
    PROVE  /\ count_children_upto2(d, x) = 1 => x \in Tasks /\ Only(d, x)
           /\ count_children_upto2(d, x) # 1 => \A u \in Tasks : ~Only(d, u)
           /\ count_children_upto2(d, x) <= 0 => x = Anchor(d)
           /\ count_children_upto2(d, x) <= 1 =>
                x = Anchor(d) \/ (x \in Tasks /\ Only(d, x))
  <1>1. x = Anchor(d) \/ x \in Tasks
    BY HeadLeads DEF TreeInv, TypeInv, Kinds
  <1>2. Anchor(d) \notin Tasks
    BY NodeFacts
  <1>3. CASE x = Anchor(d)
    <2>0. nxt["subtree"][x] = Anchor(d)
      BY <1>3
    <2>1. count_children_upto2(d, x) = 0
      BY <1>3, <2>0 DEF count_children_upto2
    <2> QED
      BY <1>2, <1>3, <2>1 DEF Only
  <1>4. CASE x # Anchor(d) /\ nxt["subtree"][x] = Anchor(d)
    <2>1. count_children_upto2(d, x) = 1
      BY <1>4 DEF count_children_upto2
    <2> QED
      BY <1>1, <1>4, <2>1 DEF Only
  <1>5. CASE x # Anchor(d) /\ nxt["subtree"][x] # Anchor(d)
    <2>1. count_children_upto2(d, x) = 2
      BY <1>5 DEF count_children_upto2
    <2> QED
      BY <1>5, <2>1 DEF Only
  <1> QED
    BY <1>3, <1>4, <1>5

\* A child that the loop passes on its way up is the only one.
LEMMA PassedIsOnly ==
    ASSUME TreeInv, NEW a \in Tasks, NEW b \in Node("subtree") \cap Tasks,
           parent[b] = a,
           count_children_upto2(a, nxt["subtree"][Anchor(a)]) <= 1
    PROVE  Only(a, b)
  <1> DEFINE x == nxt["subtree"][Anchor(a)]
  <1>1. x = Anchor(a) \/ (x \in Tasks /\ Only(a, x))
    BY CountsOnly
  <1>2. Ahead(Anchor(a), b) /\ b \in Tasks
    BY HeadBefore
  <1>3. Anchor(a) \in Nodes /\ Anchor(a) \notin Tasks /\ Tasks \subseteq Nodes
    BY NodeFacts
  <1>4. CASE x = Anchor(a)
    <2>1. {Anchor(a)} \in SUBSET Nodes /\ {Anchor(a)} \cap Tasks = {}
      BY <1>3
    <2>2. b \in {Anchor(a)}
      BY <1>2, <1>4, <2>1 DEF Ahead
    <2> QED
      BY <1>2, <1>3, <2>2
  <1>5. CASE x \in Tasks /\ Only(a, x)
    <2> DEFINE S == {x, Anchor(a)}
    <2>1. S \in SUBSET Nodes /\ x \in S /\ \A t \in S \cap Tasks : t = x
      BY <1>3, <1>5
    <2>2. \A t \in S \cap Tasks : nxt["subtree"][t] \in S
      BY <1>5, <2>1 DEF Only
    <2>3. b \in S
      <3> HIDE DEF S
      <3> QED
        BY <1>2, <2>1, <2>2 DEF Ahead
    <2> QED
      BY <1>2, <1>3, <1>5, <2>3
  <1> QED
    BY <1>1, <1>4, <1>5

\* Descents, from above, from below, and their end.
LEMMA DescentFrom ==
    ASSUME NEW a \in Tasks, NEW b \in Tasks, NEW f \in Tasks, Only(a, b), Descent(b, f)
    PROVE  Descent(a, f)
  BY DEF Descent

LEMMA DescentOn ==
    ASSUME NEW d \in Tasks, NEW u \in Tasks, NEW f \in Tasks, Only(d, u),
           Descent(d, f), nxt["subtree"][Anchor(f)] = Anchor(f)
    PROVE  Descent(u, f)
  <1>1. d # f
    BY NodeFacts DEF Only
  <1> SUFFICES ASSUME NEW S \in SUBSET Tasks, u \in S,
                      \A e \in S, v \in Tasks : Only(e, v) => v \in S
               PROVE  f \in S
    BY DEF Descent
  <1> DEFINE R == S \cup {d}
  <1>2. \A v \in Tasks : Only(d, v) => v = u
    BY DEF Only
  <1>3. \A e \in R, v \in Tasks : Only(e, v) => v \in R
    BY <1>2
  <1>4. R \in SUBSET Tasks /\ d \in R
    OBVIOUS
  <1>5. f \in R
    <2> HIDE DEF R
    <2> QED
      BY <1>3, <1>4 DEF Descent
  <1> QED
    BY <1>1, <1>5

LEMMA DescentEnds ==
    ASSUME NEW d \in Tasks, NEW f \in Tasks, Descent(d, f),
           \A u \in Tasks : ~Only(d, u)
    PROVE  d = f
  <1> DEFINE S == {d}
  <1>1. S \in SUBSET Tasks /\ d \in S
    OBVIOUS
  <1>2. \A e \in S, u \in Tasks : Only(e, u) => u \in S
    OBVIOUS
  <1>3. f \in S
    <2> HIDE DEF S
    <2> QED
      BY <1>1, <1>2 DEF Descent
  <1> QED
    BY <1>3

\* A scan with b before it comes to a task, and is at b or has it before it.
LEMMA AheadOn ==
    ASSUME TreeTyped, NEW n \in Nodes, NEW b \in Tasks, Ahead(n, b)
    PROVE  LET m == nxt["subtree"][n]
           IN  m \in Tasks /\ (m = b \/ Ahead(m, b))
  <1> DEFINE m == nxt["subtree"][n]
  <1>1. m \in Nodes
    BY DEF TreeTyped, Kinds
  <1>2. m \in Tasks
    <2> SUFFICES ASSUME m \notin Tasks
                 PROVE  FALSE
      OBVIOUS
    <2> DEFINE S == {m}
    <2>1. S \in SUBSET Nodes /\ m \in S /\ S \cap Tasks = {}
      BY <1>1
    <2>2. b \in S
      <3> HIDE DEF S
      <3> QED
        BY <2>1 DEF Ahead
    <2> QED
      BY <2>2
  <1>3. ASSUME m # b
        PROVE  Ahead(m, b)
    <2> SUFFICES ASSUME NEW S \in SUBSET Nodes, nxt["subtree"][m] \in S,
                        \A t \in S \cap Tasks : nxt["subtree"][t] \in S
                 PROVE  b \in S
      BY DEF Ahead
    <2> DEFINE R == S \cup {m}
    <2>1. R \in SUBSET Nodes /\ m \in R
      BY <1>1
    <2>2. \A t \in R \cap Tasks : nxt["subtree"][t] \in R
      OBVIOUS
    <2>3. b \in R
      <3> HIDE DEF R
      <3> QED
        BY <2>1, <2>2 DEF Ahead
    <2> QED
      BY <1>3, <2>3
  <1> QED
    BY <1>2, <1>3

\* The tasks above a task run.
LEMMA Above ==
    ASSUME TreeInv, NEW f \in Tasks, Hashed(f)
    PROVE  /\ f \in Ancestors(f)
           /\ \A t \in Ancestors(f) : t \in Tasks /\ Hashed(t) /\ parent[t] \in Ancestors(f)
  <1> DEFINE H == {t \in Tasks : Hashed(t)}
  <1>1. parent \in [Tasks -> Tasks]
    BY DEF TreeInv, TypeInv, TreeTyped
  <1>2. H \in SUBSET Tasks /\ f \in H /\ \A u \in H : parent[u] \in H
    BY <1>1 DEF TreeInv, TreeSound, Hashed
  <1>3. \A t \in Ancestors(f) : t \in H
    <2> HIDE DEF H
    <2> QED
      BY <1>2 DEF Ancestors
  <1>4. f \in Ancestors(f)
    BY DEF Ancestors
  <1>5. \A t \in Ancestors(f) : parent[t] \in Ancestors(f)
    BY <1>1 DEF Ancestors
  <1> QED
    BY <1>3, <1>4, <1>5

\* The statement about a fork is one about its locals, the parents and the
\* lists of children.
LEMMA MeetsSame ==
    ASSUME parent' = parent, nxt' = nxt, Node("subtree")' = Node("subtree"),
           NEW f, NEW c, Meets(f, c)
    PROVE  Meets(f, c)'
  <1>1. Ancestors(f)' = Ancestors(f)
    BY DEF Ancestors
  <1>2. \A d, u : Only(d, u)' = Only(d, u)
    BY DEF Only
  <1>3. \A d : Descent(d, f)' = Descent(d, f)
    BY <1>2 DEF Descent
  <1>4. \A n, b : Ahead(n, b)' = Ahead(n, b)
    BY DEF Ahead
  <1>5. \A b : Under(c.anc, b, f)' = Under(c.anc, b, f)
    BY <1>3 DEF Under
  <1>6. \A b : Scanning(f, c, b)' = Scanning(f, c, b)
    BY <1>3, <1>4 DEF Scanning, Got, AtLimit
  <1> QED
    BY <1>1, <1>2, <1>5, <1>6 DEF Meets

\* What a fork knows that nobody has disturbed.
Calm(f, c) ==
    /\ TreeInv /\ parent[Root] = Root /\ Hashed(f) /\ f \in Eligible
    /\ \A t \in Ancestors(f) : leader[t] = t
    /\ c.hub /\ Bounded(c) /\ Meets(f, c)

LEMMA ClimbMeets ==
    ASSUME NEW f \in Tasks, NEW c \in Calls, Calm(f, c), NEW new \in Calls,
           \/ /\ c.pc = "up" /\ parent[c.anc] = c.anc
              /\ new = [c EXCEPT !.pc = "check"]
           \/ /\ c.pc = "up" /\ parent[c.anc] # c.anc
              /\ new = [c EXCEPT !.pc = "first", !.up = parent[c.anc]]
           \/ /\ c.pc = "first"
              /\ new = [c EXCEPT !.pc = "second",
                                 !.first = nxt["subtree"][Anchor(c.anc)]]
           \/ /\ c.pc = "second"
              /\ count_children_upto2(c.anc, c.first) <= SoleChildren(c)
              /\ new = [c EXCEPT !.pc = "up", !.anc = c.up, !.sole = 1]
           \/ /\ c.pc = "second"
              /\ new = [c EXCEPT !.pc = "check"]
    PROVE  Meets(f, new)
  <1>0. Meets(f, c)
    BY DEF Calm
  <1>1. CASE /\ new.anc = c.anc /\ new.sole = c.sole /\ new.kind = c.kind
             /\ new.pc \in {"check", "first", "second"}
             /\ new.pc \in {"first", "second"} =>
                  new.up = parent[c.anc] /\ new.up # c.anc
             /\ new.pc = "second" => new.first = nxt["subtree"][Anchor(c.anc)]
    <2>1. \A b : Scanning(f, new, b)
      BY <1>1 DEF Scanning, Descending
    <2> QED
      BY <1>0, <1>1, <2>1 DEF Meets
  <1>2. CASE c.pc = "up" /\ parent[c.anc] = c.anc /\ new = [c EXCEPT !.pc = "check"]
    BY <1>1, <1>2 DEF Calls
  <1>3. CASE /\ c.pc = "up" /\ parent[c.anc] # c.anc
             /\ new = [c EXCEPT !.pc = "first", !.up = parent[c.anc]]
    BY <1>1, <1>3 DEF Calls
  <1>4. CASE /\ c.pc = "first"
             /\ new = [c EXCEPT !.pc = "second",
                                !.first = nxt["subtree"][Anchor(c.anc)]]
    <2>1. c.up = parent[c.anc] /\ c.up # c.anc
      BY <1>0, <1>4 DEF Meets
    <2> QED
      BY <1>1, <1>4, <2>1 DEF Calls
  <1>5. CASE c.pc = "second" /\ new = [c EXCEPT !.pc = "check"]
    BY <1>1, <1>5 DEF Calls
  <1>6. CASE /\ c.pc = "second"
             /\ count_children_upto2(c.anc, c.first) <= SoleChildren(c)
             /\ new = [c EXCEPT !.pc = "up", !.anc = c.up, !.sole = 1]
    <2> DEFINE a == c.anc
    <2>1. /\ c.up = parent[a] /\ parent[a] # a /\ a \in Tasks /\ a \in Ancestors(f)
          /\ c.first = nxt["subtree"][Anchor(a)]
      BY <1>0, <1>6 DEF Meets, Calls
    <2>2. Hashed(a) /\ leader[a] = a /\ parent[a] \in Ancestors(f)
      BY <2>1, Above DEF Calm
    <2>3. a \in Node("subtree") \cap Tasks
      BY <2>1, <2>2 DEF Node, Calm
    <2>4. Descent(a, f) /\ nxt["subtree"][Anchor(f)] = Anchor(f)
      <3>1. CASE c.sole = 0
        <4>1. a = f
          BY <1>0, <3>1 DEF Meets
        <4>2. nxt["subtree"][Anchor(f)] = Anchor(f)
          BY <1>6, <2>1, <3>1, <4>1, CountsOnly DEF Calm, SoleChildren
        <4> QED
          BY <4>1, <4>2 DEF Descent
      <3>2. CASE c.sole = 1
        <4>1. PICK b \in Tasks : Under(a, b, f)
          BY <1>0, <3>2 DEF Meets
        <4>2. Only(a, b)
          BY <1>6, <2>1, <3>2, <4>1, PassedIsOnly DEF Calm, SoleChildren, Under
        <4> QED
          BY <2>1, <4>1, <4>2, DescentFrom DEF Under
      <3> QED
        BY <3>1, <3>2 DEF Calls
    <2>5. Under(parent[a], a, f)
      BY <2>3, <2>4 DEF Under
    <2>6. /\ new.anc = parent[a] /\ new.sole = 1 /\ new.kind = c.kind /\ new.pc = "up"
      BY <1>6, <2>1 DEF Calls
    <2>7. Scanning(f, new, a)
      BY <2>6 DEF Scanning, Descending
    <2> QED
      BY <1>0, <2>1, <2>2, <2>5, <2>6, <2>7 DEF Meets
  <1> QED
    BY <1>2, <1>3, <1>4, <1>5, <1>6

LEMMA CheckMeets ==
    ASSUME NEW f \in Tasks, NEW c \in Calls, Calm(f, c), NEW new \in Calls,
           \/ new = [c EXCEPT !.pc = "scan", !.cursor = Anchor(c.anc)]
           \/ new = [c EXCEPT !.pc = "read"]
    PROVE  Meets(f, new)
  <1>0. Meets(f, c) /\ TreeInv
    BY DEF Calm
  <1>1. /\ new.anc = c.anc /\ new.sole = c.sole /\ new.kind = c.kind
        /\ new.pc = "read" \/ (new.pc = "scan" /\ new.cursor = Anchor(c.anc))
    BY DEF Calls
  <1>2. ASSUME NEW b \in Tasks, Under(c.anc, b, f)
        PROVE  Scanning(f, new, b)
    <2>1. Ahead(Anchor(c.anc), b)
      BY <1>0, <1>2, HeadBefore DEF Under, Calls
    <2> QED
      BY <1>1, <2>1 DEF Scanning, Descending
  <1> QED
    BY <1>0, <1>1, <1>2 DEF Meets

\* A round of a hub's scan that comes to n.
Scans(c, n, new) ==
    /\ c.pc = "scan"
    /\ \/ /\ n = Anchor(c.anc) \/ AtLimit(c)
          /\ new = [c EXCEPT !.pc = "update"]
       \/ new = [c EXCEPT !.cursor = n, !.scans = c.scans + 1,
                          !.pc = IF n \in Tasks THEN "down" ELSE "sample",
                          !.desc = n]

LEMMA ScanMeets ==
    ASSUME NEW f \in Tasks, NEW c \in Calls, Calm(f, c), NEW new \in Calls,
           NEW n, n = nxt["subtree"][c.cursor], Scans(c, n, new)
    PROVE  Meets(f, new)
  <1>0. Meets(f, c) /\ TreeTyped /\ c.cursor \in Nodes /\ Anchor(c.anc) \notin Tasks
    BY NodeFacts DEF Calm, TreeInv, TypeInv, Calls
  <1>s. c.pc = "scan"
    BY DEF Scans
  <1>1. CASE /\ n = Anchor(c.anc) \/ AtLimit(c)
             /\ new = [c EXCEPT !.pc = "update"]
    <2>1. /\ new.anc = c.anc /\ new.sole = c.sole /\ new.kind = c.kind
          /\ new.pc = "update" /\ new.seen = c.seen /\ new.scans = c.scans
          /\ new.count = c.count
      BY <1>1 DEF Calls
    <2>2. ASSUME NEW b \in Tasks, Scanning(f, c, b)
          PROVE  Scanning(f, new, b)
      <3>1. Got(f, c) \/ Ahead(c.cursor, b)
        BY <1>s, <2>2 DEF Scanning
      <3>2. Ahead(c.cursor, b) => n \in Tasks
        BY <1>0, AheadOn
      <3>3. Got(f, new) \/ AtLimit(new)
        BY <1>0, <1>1, <2>1, <3>1, <3>2 DEF Got, AtLimit
      <3> QED
        BY <2>1, <3>3 DEF Scanning, Descending
    <2> QED
      BY <1>0, <2>1, <2>2 DEF Meets
  <1>2. CASE new = [c EXCEPT !.cursor = n, !.scans = c.scans + 1,
                             !.pc = IF n \in Tasks THEN "down" ELSE "sample",
                             !.desc = n]
    <2>1. /\ new.anc = c.anc /\ new.sole = c.sole /\ new.kind = c.kind
          /\ new.pc = IF n \in Tasks THEN "down" ELSE "sample"
          /\ new.seen = c.seen /\ new.cursor = n /\ new.desc = n
      BY <1>2 DEF Calls
    <2>2. ASSUME NEW b \in Tasks, Scanning(f, c, b), Under(c.anc, b, f)
          PROVE  Scanning(f, new, b)
      <3>1. Got(f, c) \/ Ahead(c.cursor, b)
        BY <1>s, <2>2 DEF Scanning
      <3>2. Ahead(c.cursor, b) => n \in Tasks /\ (n = b \/ Ahead(n, b))
        BY <1>0, AheadOn
      <3>3. Descent(b, f)
        BY <2>2 DEF Under
      <3>4. Got(f, c) => Got(f, new)
        BY <2>1 DEF Got
      <3> QED
        BY <2>1, <3>1, <3>2, <3>3, <3>4 DEF Scanning, Descending
    <2> QED
      BY <1>0, <2>1, <2>2 DEF Meets
  <1> QED
    BY <1>1, <1>2 DEF Scans

\* A step of the descent, where the list of children begins with n.
Descends(c, n, new) ==
    \/ c.pc = "down" /\ new = [c EXCEPT !.pc = "down2", !.first = n]
    \/ /\ c.pc = "down2" /\ count_children_upto2(c.desc, c.first) = 1
       /\ new = [c EXCEPT !.pc = "down3"]
    \/ /\ c.pc = "down2" /\ count_children_upto2(c.desc, c.first) # 1
       /\ new = [c EXCEPT !.pc = "sample"]
    \/ c.pc = "down3" /\ n = Anchor(c.desc) /\ new = [c EXCEPT !.pc = "sample"]
    \/ c.pc = "down3" /\ new = [c EXCEPT !.pc = "down", !.desc = n]

LEMMA DescendMeets ==
    ASSUME NEW f \in Tasks, NEW c \in Calls, Calm(f, c), NEW new \in Calls,
           NEW n, n = nxt["subtree"][Anchor(c.desc)], Descends(c, n, new)
    PROVE  Meets(f, new)
  <1>0. /\ Meets(f, c) /\ TreeInv /\ c.pc \in Descending /\ c.desc \in Tasks
        /\ Anchor(c.desc) \notin Tasks
    <2>1. c.pc \in Descending
      BY DEF Descending, Descends
    <2> QED
      BY <2>1, NodeFacts DEF Calm, Bounded
  <1>1. /\ new.anc = c.anc /\ new.sole = c.sole /\ new.kind = c.kind
        /\ new.seen = c.seen /\ new.cursor = c.cursor
    BY DEF Calls, Descends
  <1>2. \A b : /\ Got(f, new) = Got(f, c)
               /\ Ahead(new.cursor, b) = Ahead(c.cursor, b)
    BY <1>1 DEF Got
  <1>3. CASE c.pc = "down" /\ new = [c EXCEPT !.pc = "down2", !.first = n]
    <2>1. new.pc = "down2" /\ new.desc = c.desc /\ new.first = n
      BY <1>3 DEF Calls
    <2>2. \A b : Scanning(f, c, b) => Scanning(f, new, b)
      BY <1>2, <1>3, <2>1 DEF Scanning, Descending
    <2> QED
      BY <1>0, <1>1, <2>1, <2>2 DEF Meets
  <1>4. CASE /\ c.pc = "down2" /\ count_children_upto2(c.desc, c.first) = 1
             /\ new = [c EXCEPT !.pc = "down3"]
    <2>1. new.pc = "down3" /\ new.desc = c.desc /\ new.first = c.first
      BY <1>4 DEF Calls
    <2>2. \A b : Scanning(f, c, b) => Scanning(f, new, b)
      BY <1>2, <1>4, <2>1 DEF Scanning, Descending
    <2>3. c.first = n
      BY <1>0, <1>4 DEF Meets
    <2>4. c.first \in Tasks /\ Only(c.desc, c.first)
      BY <1>0, <1>4, <2>3, CountsOnly
    <2> QED
      BY <1>0, <1>1, <2>1, <2>2, <2>3, <2>4 DEF Meets
  <1>5. CASE /\ c.pc = "down2" /\ count_children_upto2(c.desc, c.first) # 1
             /\ new = [c EXCEPT !.pc = "sample"]
    <2>1. new.pc = "sample" /\ new.desc = c.desc
      BY <1>5 DEF Calls
    <2>2. c.first = n
      BY <1>0, <1>5 DEF Meets
    <2>3. \A u \in Tasks : ~Only(c.desc, u)
      BY <1>0, <1>5, <2>2, CountsOnly
    <2>4. Descent(c.desc, f) => c.desc = f
      BY <1>0, <2>3, DescentEnds
    <2>5. \A b : Scanning(f, c, b) => Scanning(f, new, b)
      BY <1>0, <1>2, <2>1, <2>4 DEF Scanning, Descending
    <2> QED
      BY <1>0, <1>1, <2>1, <2>5 DEF Meets
  <1>6. CASE c.pc = "down3" /\ n = Anchor(c.desc)
    BY <1>0, <1>6 DEF Meets
  <1>7. CASE c.pc = "down3" /\ new = [c EXCEPT !.pc = "down", !.desc = n]
    <2>1. new.pc = "down" /\ new.desc = n
      BY <1>7 DEF Calls
    <2>2. n \in Tasks /\ Only(c.desc, n)
      BY <1>0, <1>7 DEF Meets
    <2>3. ASSUME NEW b \in Tasks, Under(c.anc, b, f), Scanning(f, c, b)
          PROVE  Scanning(f, new, b)
      <3>1. nxt["subtree"][Anchor(f)] = Anchor(f)
        BY <2>3 DEF Under
      <3>2. Descent(c.desc, f) => Descent(n, f)
        BY <1>0, <2>2, <3>1, DescentOn
      <3> QED
        BY <1>0, <1>2, <2>1, <2>3, <3>2 DEF Scanning, Descending
    <2> QED
      BY <1>0, <1>1, <2>1, <2>3 DEF Meets
  <1> QED
    BY <1>3, <1>4, <1>5, <1>6, <1>7 DEF Descends

LEMMA SampledTask ==
    ASSUME NEW c \in Calls, NEW n, NEW p, NEW at, NEW f
    PROVE  LET new == Sampled(c, n, p, at)
           IN  Got(f, c) \/ n = f => Got(f, new)
  <1> DEFINE r == [task |-> n, penalty |-> p, at |-> at]
             s == Append(c.seen, r)
             new == Sampled(c, n, p, at)
  <1>1. new.seen = s
    BY DEF Sampled, Calls
  <1>2. r.task = n
    OBVIOUS
  <1>3. c.seen \in Seq(Reads)
    BY DEF Calls
  <1> HIDE DEF r
  <1>4. /\ Len(s) = Len(c.seen) + 1 /\ Len(c.seen) \in Nat
        /\ \A i \in 1 .. Len(c.seen) : s[i] = c.seen[i]
        /\ s[Len(c.seen) + 1] = r
    BY <1>3
  <1> HIDE DEF s, new
  <1>5. CASE n = f
    <2>1. Len(c.seen) + 1 \in 1 .. Len(new.seen) /\ new.seen[Len(c.seen) + 1].task = f
      BY <1>1, <1>2, <1>4, <1>5
    <2> QED
      BY <2>1 DEF Got, new
  <1>6. CASE Got(f, c)
    <2>1. PICK i \in 1 .. Len(c.seen) : c.seen[i].task = f
      BY <1>6 DEF Got
    <2>2. i \in 1 .. Len(new.seen) /\ new.seen[i].task = f
      BY <1>1, <1>4, <2>1
    <2> QED
      BY <2>2 DEF Got, new
  <1> QED
    BY <1>5, <1>6 DEF new

LEMMA SampleMeets ==
    ASSUME NEW f \in Tasks, NEW c \in Calls, Calm(f, c), NEW new \in Calls,
           c.pc = "sample",
           \/ \E p : new = Sampled(c, c.desc, p, clock)
           \/ c.desc # f /\ new = [c EXCEPT !.pc = "scan"]
    PROVE  Meets(f, new)
  <1>0. Meets(f, c)
    BY DEF Calm
  <1>1. /\ new.anc = c.anc /\ new.sole = c.sole /\ new.kind = c.kind
        /\ new.pc = "scan" /\ new.cursor = c.cursor
    BY DEF Calls, Sampled
  <1>2. Got(f, c) \/ c.desc = f => Got(f, new)
    <2>1. ASSUME NEW p, new = Sampled(c, c.desc, p, clock)
          PROVE  Got(f, c) \/ c.desc = f => Got(f, new)
      BY <2>1, SampledTask
    <2>2. CASE c.desc # f /\ new = [c EXCEPT !.pc = "scan"]
      <3>1. new.seen = c.seen
        BY <2>2 DEF Calls
      <3> QED
        BY <2>2, <3>1 DEF Got
    <2> QED
      BY <2>1, <2>2
  <1>3. \A b : Scanning(f, c, b) => Scanning(f, new, b)
    BY <1>1, <1>2 DEF Scanning, Descending
  <1> QED
    BY <1>0, <1>1, <1>3 DEF Meets

\* No step of the hook makes a disturbed fork calm.
LEMMA CalmBefore ==
    ASSUME TreeInv, NEW f \in Tasks, LocalStep(f), NEW c \in Calls, c = fork[f],
           NEW new \in Calls, Locally(f, new), new.calm
    PROVE  c.calm
  <1>1. \A x : Locally(f, x) => new = x
    <2>1. \A x : Locally(f, x) => fork'[f] = x
      BY DEF Locally, TreeInv, TypeInv, ForkTyped
    <2> QED
      BY <2>1
  <1>2. CASE Climb(f)
    <2>1. \/ new = [c EXCEPT !.pc = "check"]
          \/ new = [c EXCEPT !.pc = "first", !.up = parent[c.anc]]
          \/ new = [c EXCEPT !.pc = "second", !.first = nxt["subtree"][Anchor(c.anc)]]
          \/ new = [c EXCEPT !.pc = "up", !.anc = c.up, !.sole = 1]
      BY <1>1, <1>2 DEF Climb
    <2> QED
      BY <2>1 DEF Calls
  <1>3. CASE Check(f)
    BY <1>1, <1>3 DEF Check, Calls
  <1>4. CASE Scan(f)
    <2> DEFINE n == nxt[c.kind][c.cursor]
               at == [c EXCEPT !.cursor = n, !.scans = Scanned(c, n)]
    <2>1. \/ new = [c EXCEPT !.pc = "update"]
          \/ new = [at EXCEPT !.pc = IF c.hub /\ n \in Tasks THEN "down" ELSE "sample",
                              !.desc = n]
      BY <1>1, <1>4 DEF Scan
    <2> HIDE DEF n
    <2> QED
      BY <2>1 DEF Calls
  <1>5. CASE Descend(f)
    <2> DEFINE n == nxt["subtree"][Anchor(c.desc)]
    <2>1. \/ new = [c EXCEPT !.pc = "down2", !.first = n]
          \/ new = [c EXCEPT !.pc = "down3"]
          \/ new = [c EXCEPT !.pc = "sample"]
          \/ new = [c EXCEPT !.pc = "down", !.desc = n]
      BY <1>1, <1>5 DEF Descend
    <2> HIDE DEF n
    <2> QED
      BY <2>1 DEF Calls
  <1>6. CASE TakeSample(f)
    <2>1. \/ \E p \in Samples(c.desc) : new = Sampled(c, c.desc, p, clock)
          \/ new = [c EXCEPT !.pc = "scan"]
      BY <1>1, <1>6, SampleCases
    <2> QED
      BY <2>1 DEF Sampled, Calls
  <1> QED
    BY <1>2, <1>3, <1>4, <1>5, <1>6 DEF LocalStep

\* The steps of the fork itself.
LEMMA LocalMeets ==
    ASSUME NEW f \in Tasks, LocalStep(f), NEW c \in Calls, c = fork[f], Calm(f, c),
           NEW new \in Calls, Locally(f, new)
    PROVE  Meets(f, new)
  <1>0. TreeInv /\ c.kind = "subtree" /\ c.hub
    BY DEF Calm, Meets
  <1>1. \A x : Locally(f, x) => new = x
    <2>1. \A x : Locally(f, x) => fork'[f] = x
      BY <1>0 DEF Locally, TreeInv, TypeInv, ForkTyped
    <2> QED
      BY <2>1
  <1>2. CASE Climb(f)
    <2>1. \/ /\ c.pc = "up" /\ parent[c.anc] = c.anc
             /\ new = [c EXCEPT !.pc = "check"]
          \/ /\ c.pc = "up" /\ parent[c.anc] # c.anc
             /\ new = [c EXCEPT !.pc = "first", !.up = parent[c.anc]]
          \/ /\ c.pc = "first"
             /\ new = [c EXCEPT !.pc = "second",
                                !.first = nxt["subtree"][Anchor(c.anc)]]
          \/ /\ c.pc = "second"
             /\ count_children_upto2(c.anc, c.first) <= SoleChildren(c)
             /\ new = [c EXCEPT !.pc = "up", !.anc = c.up, !.sole = 1]
          \/ /\ c.pc = "second"
             /\ new = [c EXCEPT !.pc = "check"]
      BY <1>1, <1>2 DEF Climb
    <2> QED
      BY <2>1, ClimbMeets
  <1>3. CASE Check(f)
    <2>1. \/ new = [c EXCEPT !.pc = "scan", !.cursor = Anchor(c.anc)]
          \/ new = [c EXCEPT !.pc = "read"]
      BY <1>1, <1>3 DEF Check
    <2> QED
      BY <2>1, CheckMeets
  <1>4. CASE Scan(f)
    <2> DEFINE n == nxt[c.kind][c.cursor]
               at == [c EXCEPT !.cursor = n, !.scans = Scanned(c, n)]
    <2>1. /\ c.pc = "scan"
          /\ \/ /\ n = Anchor(c.anc) \/ AtLimit(c)
                /\ new = [c EXCEPT !.pc = "update"]
             \/ new = [at EXCEPT !.pc = IF c.hub /\ n \in Tasks THEN "down" ELSE "sample",
                                 !.desc = n]
      BY <1>1, <1>4 DEF Scan
    <2>2. n = nxt["subtree"][c.cursor]
      BY <1>0
    <2> HIDE DEF n
    <2>3. Scans(c, n, new)
      <3>1. [at EXCEPT !.pc = IF c.hub /\ n \in Tasks THEN "down" ELSE "sample",
                       !.desc = n]
            = [c EXCEPT !.cursor = n, !.scans = c.scans + 1,
                        !.pc = IF n \in Tasks THEN "down" ELSE "sample", !.desc = n]
        BY <1>0 DEF Calls, Scanned
      <3> HIDE DEF at
      <3> QED
        BY <2>1, <3>1 DEF Scans
    <2> QED
      BY <2>2, <2>3, ScanMeets
  <1>5. CASE Descend(f)
    <2> DEFINE n == nxt["subtree"][Anchor(c.desc)]
    <2>1. Descends(c, n, new)
      BY <1>1, <1>5 DEF Descend, Descends
    <2> QED
      BY <2>1, DescendMeets
  <1>6. CASE TakeSample(f)
    <2>1. c.pc = "sample" /\ Sample(f, c.desc)
      BY <1>6 DEF TakeSample
    <2>2. \/ \E p : new = Sampled(c, c.desc, p, clock)
          \/ c.desc # f /\ new = [c EXCEPT !.pc = "scan"]
      <3>1. CASE c.desc = f
        <4>1. ~Ineligible(c.desc)
          BY <3>1 DEF Ineligible, Calm
        <4> DEFINE d == [c EXCEPT !.pc = "scan"]
        <4>2. PICK p \in Samples(c.desc) :
                 Locally(f, [d EXCEPT !.count = d.count + 1, !.total = d.total + p,
                                      !.seen = Append(d.seen, [task |-> c.desc,
                                                 penalty |-> p, at |-> clock])])
          BY <2>1, <4>1 DEF Sample
        <4>3. [d EXCEPT !.count = d.count + 1, !.total = d.total + p,
                        !.seen = Append(d.seen, [task |-> c.desc, penalty |-> p,
                                                 at |-> clock])]
              = Sampled(c, c.desc, p, clock)
          BY DEF Calls, Sampled
        <4> HIDE DEF d
        <4>4. new = Sampled(c, c.desc, p, clock)
          BY <1>1, <4>2, <4>3
        <4> QED
          BY <4>4
      <3>2. CASE c.desc # f
        BY <1>0, <1>1, <1>6, <3>2, SampleCases
      <3> QED
        BY <3>1, <3>2
    <2> QED
      BY <2>1, <2>2, SampleMeets
  <1> QED
    BY <1>2, <1>3, <1>4, <1>5, <1>6 DEF LocalStep

\* A fork that nobody disturbs and that takes no step.
LEMMA OthersMeet ==
    ASSUME SampledInv, parent' = parent, nxt' = nxt,
           Node("subtree")' = Node("subtree"), NEW f \in Tasks, fork'[f] = fork[f],
           Undisturbed(f)', \A t \in Tasks : Hashed(t) => leader'[t] = leader[t]
    PROVE  Meets(f, fork[f])'
  <1>1. Hashed(f) /\ fork[f].pc # "idle"
    BY DEF Undisturbed, SampledInv, TreeInv, ForksSound, InRcu, Hashed
  <1>2. Ancestors(f)' = Ancestors(f)
    BY DEF Ancestors
  <1>3. \A t \in Ancestors(f) : leader[t] = t
    BY <1>1, <1>2, Above DEF Undisturbed, SampledInv
  <1>4. Undisturbed(f)
    BY <1>1, <1>2, <1>3 DEF Undisturbed
  <1>5. PICK c : c = fork[f]
    OBVIOUS
  <1>6. Meets(f, c)'
    BY <1>4, <1>5, MeetsSame DEF SampledInv
  <1>7. c = fork'[f]
    BY <1>5
  <1> QED
    BY <1>6, <1>7

LEMMA SampledLocal ==
    ASSUME SampledInv, TreeInv', NEW f \in Tasks, LocalStep(f)
    PROVE  SampledInv'
  <1>0. TreeInv /\ ForkTyped
    BY DEF SampledInv, TreeInv, TypeInv
  <1>1. PICK new \in Calls : Locally(f, new) /\ Bounded(new) /\ Keeps(fork[f], new)
    BY <1>0, LocalTyped
  <1>2. fork' = [fork EXCEPT ![f] = new] /\ UNCHANGED tree
    BY <1>1 DEF Locally
  <1>3. fork'[f] = new /\ \A g \in Tasks : g # f => fork'[g] = fork[g]
    BY <1>0, <1>1, <1>2, OneFork
  <1>4. /\ parent' = parent /\ nxt' = nxt /\ leader' = leader
        /\ Node("subtree")' = Node("subtree")
    BY <1>2, TreeSame DEF tree, Kinds
  <1>5. ASSUME Undisturbed(f)'
        PROVE  Meets(f, fork[f])'
    <2>1. PICK c \in Calls : c = fork[f]
      BY <1>0 DEF ForkTyped
    <2>2. Ancestors(f)' = Ancestors(f)
      BY <1>4 DEF Ancestors
    <2>3. Keeps(c, new) /\ Locally(f, new)
      BY <1>1, <2>1
    <2>4. new.hub = c.hub /\ c.pc # "idle"
      BY <2>3 DEF Keeps
    <2>5. f \in Eligible /\ new.hub /\ new.calm /\ \A t \in Ancestors(f) : leader[t] = t
      BY <1>3, <1>4, <1>5, <2>2 DEF Undisturbed
    <2>6. c.calm
      BY <1>0, <1>1, <2>1, <2>5, CalmBefore
    <2>7. Meets(f, c)
      BY <2>1, <2>4, <2>5, <2>6 DEF SampledInv, Undisturbed
    <2>8. Hashed(f) /\ Bounded(c)
      BY <1>0, <2>1, <2>4 DEF TreeInv, ForksSound, InRcu, Hashed, ForkTyped
    <2>9. Calm(f, c)
      BY <2>4, <2>5, <2>7, <2>8 DEF Calm, SampledInv
    <2>10. Meets(f, new)
      BY <2>1, <2>3, <2>9, LocalMeets
    <2>11. Meets(f, new)'
      BY <1>4, <2>10, MeetsSame
    <2> QED
      BY <1>3, <2>11
  <1>6. ASSUME NEW g \in Tasks, g # f, Undisturbed(g)'
        PROVE  Meets(g, fork[g])'
    BY <1>3, <1>4, <1>6, OthersMeet
  <1> QED
    BY <1>4, <1>5, <1>6 DEF SampledInv

LEMMA SampledUpdate ==
    ASSUME SampledInv, TreeInv', NEW f \in Tasks, update_burst_cache(f)
    PROVE  SampledInv'
  <1>0. TreeInv /\ ForkTyped
    BY DEF SampledInv, TreeInv, TypeInv
  <1>1. PICK c \in Calls : c = fork[f]
    BY <1>0 DEF ForkTyped
  <1> DEFINE new == [c EXCEPT !.pc = "read"]
  <1>2. c.pc = "update" /\ fork' = [fork EXCEPT ![f].pc = "read"] /\ UNCHANGED tree
    BY <1>1 DEF update_burst_cache
  <1>3. fork'[f] = new /\ \A g \in Tasks : g # f => fork'[g] = fork[g]
    BY <1>0, <1>1, <1>2 DEF ForkTyped
  <1>4. /\ parent' = parent /\ nxt' = nxt /\ leader' = leader
        /\ Node("subtree")' = Node("subtree")
    BY <1>2, TreeSame DEF tree, Kinds
  <1>5. new \in Calls /\ new.hub = c.hub /\ new.calm = c.calm
    BY DEF Calls, Pcs
  <1> HIDE DEF new
  <1>6. ASSUME Undisturbed(f)'
        PROVE  Meets(f, fork[f])'
    <2>1. Ancestors(f)' = Ancestors(f)
      BY <1>4 DEF Ancestors
    <2>2. Undisturbed(f)
      BY <1>1, <1>2, <1>3, <1>4, <1>5, <1>6, <2>1 DEF Undisturbed
    <2>3. Hashed(f) /\ Bounded(c)
      BY <1>0, <1>1, <1>2 DEF TreeInv, ForksSound, InRcu, Hashed, ForkTyped
    <2>4. Calm(f, c)
      BY <1>1, <2>2, <2>3 DEF Calm, SampledInv, Undisturbed
    <2>5. Meets(f, new)
      BY <1>5, <2>4, CheckMeets DEF new
    <2>6. Meets(f, new)'
      BY <1>4, <2>5, MeetsSame
    <2> QED
      BY <1>3, <2>6
  <1>7. ASSUME NEW g \in Tasks, g # f, Undisturbed(g)'
        PROVE  Meets(g, fork[g])'
    BY <1>3, <1>4, <1>7, OthersMeet
  <1> QED
    BY <1>4, <1>6, <1>7 DEF SampledInv

LEMMA SampledBegin ==
    ASSUME SampledInv, TreeInv', NEW f \in Tasks, Begin(f)
    PROVE  SampledInv'
  <1>0. TreeInv /\ ForkTyped /\ TreeTyped
    BY DEF SampledInv, TreeInv, TypeInv
  <1>1. PICK child \in Tasks, new \in Calls : Starts(f, child, new)
    BY <1>0, BeginFacts
  <1>2. /\ state[child] = "unborn" /\ parent' = parent /\ nxt' = nxt
        /\ state' = [state EXCEPT ![child] = "new"]
        /\ \A t \in Tasks : t # child => leader'[t] = leader[t]
        /\ fork' = [fork EXCEPT ![f] = new]
    BY <1>0, <1>1 DEF Starts, TreeTyped
  <1>3. fork'[f] = new /\ \A g \in Tasks : g # f => fork'[g] = fork[g]
    BY <1>0, <1>2 DEF ForkTyped
  <1>4. /\ \A t \in Tasks : Hashed(t)' = Hashed(t)
        /\ \A t \in Tasks : Hashed(t) => leader'[t] = leader[t]
    BY <1>0, <1>2 DEF Hashed, TreeTyped
  <1>5. Node("subtree")' = Node("subtree")
    BY <1>4 DEF Node
  <1>6. ASSUME Undisturbed(f)'
        PROVE  Meets(f, fork[f])'
    <2>1. new.hub
      BY <1>3, <1>6 DEF Undisturbed
    <2>2. /\ new.kind = "subtree" /\ new.anc = f /\ new.sole = 0
          /\ new.pc \in {"skip", "up", "check"}
      BY <1>1, <2>1 DEF Starts, Begun
    <2>3. f \in Ancestors(f)
      BY DEF Ancestors
    <2>4. Meets(f, new)
      BY <2>2, <2>3 DEF Meets
    <2>5. Meets(f, new)'
      BY <1>2, <1>5, <2>4, MeetsSame
    <2> QED
      BY <1>3, <2>5
  <1>7. ASSUME NEW g \in Tasks, g # f, Undisturbed(g)'
        PROVE  Meets(g, fork[g])'
    BY <1>2, <1>3, <1>4, <1>5, <1>7, OthersMeet
  <1> QED
    BY <1>2, <1>6, <1>7 DEF SampledInv

\* A step that changes the lists disturbs all the forks.
LEMMA SampledDisturbed ==
    ASSUME SampledInv, TreeInv', NEW t \in Tasks, fork' = Disturbed(t),
           parent'[Root] = Root
    PROVE  SampledInv'
  <1>1. \A f \in Tasks : fork'[f].pc = "idle" \/ ~fork'[f].calm
    <2>1. \A c \in Calls : ~[c EXCEPT !.calm = FALSE].calm
      BY DEF Calls
    <2> QED
      BY <2>1 DEF Disturbed, Idle, SampledInv, TreeInv, TypeInv, ForkTyped
  <1> QED
    BY <1>1 DEF SampledInv, Undisturbed

LEMMA RootStays ==
    ASSUME SampledInv, NEW t \in Tasks, Finish(t) \/ Exit(t) \/ Release(t)
    PROVE  parent'[Root] = Root
  <1>0. /\ TreeInv /\ parent[Root] = Root /\ Root \in Tasks /\ state[Root] = "live"
        /\ parent \in [Tasks -> Tasks]
    BY Constants DEF SampledInv, TreeInv, TypeInv, TreeTyped, TreeSound
  <1>1. CASE Finish(t)
    <2>1. PICK c \in Calls : Links(t, c)
      BY <1>0, <1>1, FinishFacts
    <2>2. c.child # Root
      BY <1>0, <2>1 DEF Links
    <2> QED
      BY <1>0, <2>1, <2>2 DEF Links
  <1>2. CASE Exit(t)
    BY <1>0, <1>2 DEF Exit
  <1>3. CASE Release(t)
    BY <1>0, <1>3 DEF Release
  <1> QED
    BY <1>1, <1>2, <1>3

LEMMA SampledStep ==
    ASSUME SampledInv, [Next]_vars
    PROVE  SampledInv'
  <1>0. TreeInv'
    BY TreeStep DEF SampledInv
  <1>1. ASSUME UNCHANGED <<tree, fork>>
        PROVE  SampledInv'
    <2>1. /\ parent' = parent /\ nxt' = nxt /\ leader' = leader
          /\ Node("subtree")' = Node("subtree")
      BY <1>1, TreeSame DEF tree, Kinds
    <2>2. ASSUME NEW f \in Tasks, Undisturbed(f)'
          PROVE  Meets(f, fork[f])'
      BY <1>1, <2>1, <2>2, OthersMeet
    <2> QED
      BY <1>0, <2>1, <2>2 DEF SampledInv
  <1>2. CASE UNCHANGED vars
    BY <1>1, <1>2 DEF vars, tree
  <1>3. CASE Tick
    BY <1>1, <1>3 DEF Tick
  <1>4. ASSUME NEW t \in Tasks, Charge(t)
        PROVE  SampledInv'
    BY <1>1, <1>4 DEF Charge
  <1>5. ASSUME NEW t \in Tasks, Finish(t) \/ Exit(t) \/ Release(t)
        PROVE  SampledInv'
    <2>1. fork' = Disturbed(t)
      BY <1>5 DEF Finish, Exit, Release
    <2> QED
      BY <1>0, <1>5, <2>1, RootStays, SampledDisturbed
  <1>6. CASE Next
    BY <1>0, <1>3, <1>4, <1>5, <1>6, StepCases, SampledLocal, SampledUpdate,
       SampledBegin
  <1> QED
    BY <1>2, <1>6

LEMMA InitSampled == Init => SampledInv
  <1> SUFFICES ASSUME Init
               PROVE  SampledInv
    OBVIOUS
  <1>1. TreeInv
    BY InitTree
  <1>2. parent[Root] = Root
    BY BoreInheritAssumption DEF Init
  <1>3. \A f \in Tasks : fork[f].pc = "idle"
    BY DEF Init, Idle
  <1> QED
    BY <1>1, <1>2, <1>3 DEF SampledInv, Undisturbed

LEMMA SampledAlways == Spec => []SampledInv
  BY InitSampled, SampledStep, PTL DEF Spec

\* The loops of inherit_from_ancestor_hub up to the hub and down from it meet,
\* in every tree that forks and exits can leave: a process below main threads
\* is one of the samples it inherits from, unless the scan ended at a limit or
\* a list changed meanwhile.
THEOREM ForkerAlwaysSampled == Spec => []ForkerIsSampled
  <1>1. SampledInv => ForkerIsSampled
    <2> SUFFICES ASSUME SampledInv, NEW f \in Eligible, NEW c, c = fork[f],
                        c.pc = "update", c.hub, c.calm, c.anc # f, ~AtLimit(c),
                        \A t \in Ancestors(f) : leader[t] = t
                 PROVE  Got(f, c)
      BY DEF ForkerIsSampled, Got
    <2>1. f \in Tasks
      BY BoreInheritAssumption
    <2>2. Meets(f, c)
      BY <2>1 DEF SampledInv, Undisturbed
    <2>3. c.sole \in {0, 1}
      BY <2>1 DEF SampledInv, TreeInv, TypeInv, ForkTyped, Calls
    <2>4. c.sole = 1
      BY <2>2, <2>3 DEF Meets
    <2>5. PICK b \in Tasks : Scanning(f, c, b)
      BY <2>2, <2>4 DEF Meets
    <2> QED
      BY <2>5 DEF Scanning
  <1> QED
    BY <1>1, SampledAlways, PTL

=============================================================================
