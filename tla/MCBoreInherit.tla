---------------------------- MODULE MCBoreInherit ----------------------------
(***************************************************************************)
(* Instances of BoreInherit for TLC.                                       *)
(***************************************************************************)
EXTENDS BoreInherit

CONSTANTS tr, ta, tb, tc, td, te

MCpow2 == [i \in 0 .. Bits |-> 2 ^ i]

\* tc is a thread of ta, and has its parent.
Pair == [t \in Tasks |-> IF t = tc THEN ta ELSE t]

\* tr has the child ta, whose thread is tb and whose child is tc.
Line == [t \in Tasks |-> IF t = tc THEN ta ELSE tr]

Threaded == [t \in Tasks |-> IF t = tb THEN ta ELSE t]

Fan == [t \in Tasks |-> tr]

\* In the order tr, ta, tb, tc, td, te.
Order ==
    LET place == [i \in 1 .. 6 |-> <<tr, ta, tb, tc, td, te>>[i]]
        upto(t) == {i \in 1 .. 6 : \E j \in i .. 6 : place[j] = t}
    IN  [t \in Tasks |-> Cardinality({i \in upto(t) : place[i] \in Tasks})]
=============================================================================
