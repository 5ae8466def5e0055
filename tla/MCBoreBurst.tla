----------------------------- MODULE MCBoreBurst -----------------------------
(***************************************************************************)
(* BoreBurst with four priority levels of four steps each, ten-bit words   *)
(* and five-bit times.                                                     *)
(***************************************************************************)
EXTENDS BoreBurst

MCpow2 == [i \in 0 .. Bits |-> 2 ^ i]

\* Half-way settings, as the module's own defaults are.
MCDefaults == [sched_bore |-> TRUE, smoothness |-> 1, offset |-> 2, scale |-> 6]

=============================================================================
