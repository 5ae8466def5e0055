----------------------------- MODULE MCSharedSlot -----------------------------
(***************************************************************************)
(* SharedSlot with offsets of four bits, nice values of six and two bits   *)
(* above them.                                                             *)
(***************************************************************************)
EXTENDS SharedSlot

CONSTANTS t1, t2

MCpow2 == [i \in 0 .. Bits |-> 2 ^ i]

MCDefaults == [sched_bore |-> TRUE, smoothness |-> 1, offset |-> 9, scale |-> 6]
=============================================================================
