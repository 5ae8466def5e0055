----------------------------- MODULE MCDragonite -----------------------------
(***************************************************************************)
(* Instances of Dragonite for TLC: a process A of up to three threads, a   *)
(* process B of up to two that bears kswapd's name, and a kernel thread.   *)
(***************************************************************************)
EXTENDS Dragonite, TLC

CONSTANTS a1, a2, a3, b1, b2, k1, A, B, K

MCGroupOf == [t \in Threads |-> CASE t \in {a1, a2, a3} -> A
                                  [] t \in {b1, b2} -> B
                                  [] OTHER -> K]

MCLeaderOf == [g \in Groups |-> CASE g = A -> a1
                                  [] g = B -> b1
                                  [] OTHER -> k1]

MCPidOf == [t \in Threads |-> CASE t = a1 -> 11
                                [] t = a2 -> 12
                                [] t = a3 -> 14
                                [] t = b1 -> 13
                                [] t = b2 -> 15
                                [] OTHER -> 2]

MCNameOf == [t \in Threads |-> CASE t \in {a1, a3, b2} -> "main"
                                 [] t = a2 -> "render"
                                 [] OTHER -> KswapdName]

MCStartTime == [t \in Threads |-> CASE t = k1 -> 1
                                    [] t = a1 -> 2
                                    [] t = a2 -> 3
                                    [] t = a3 -> 4
                                    [] t = b1 -> 5
                                    [] OTHER -> 6]

\* The writers are alike.
WriterSymmetry == Permutations(Writers)

Request(k, p, n, m, v) ==
    [kind |-> k, pid |-> p, comm |-> n, mask |-> m, level |-> v]

\* For the references: a call that keeps them and one that relies on RCU.
RefRequests ==
    {Request("set", 11, AnyName, {1}, 0), Request("boost", 11, AnyName, {}, 1)}

\* For the interleavings: calls for A by its pid, for the target, for kswapd.
MixedRequests ==
    {Request("set", 11, AnyName, {1}, 0), Request("set", 0, "render", {2}, 0),
     Request("reset", 1, AnyName, {}, 0), Request("pin", 0, AnyName, {1, 2}, 0)}

\* For the effect of calls one after the other: A does not fit the array and is
\* addressed by the wildcard, B fits and is addressed by name too.
PlainRequests ==
    {Request("set", 0, AnyName, {1}, 0), Request("set", 15, KswapdName, {2}, 0),
     Request("set", 12, AnyName, {}, 0), Request("reset", 1, AnyName, {}, 0),
     Request("boost", 12, AnyName, {}, 1), Request("boost", 13, AnyName, {}, 0),
     Request("pin", 0, AnyName, {2}, 0)}
=============================================================================
