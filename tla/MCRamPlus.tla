------------------------------ MODULE MCRamPlus ------------------------------
(***************************************************************************)
(* RamPlusSetup on a tiny /data: requests of two and three blocks.          *)
(***************************************************************************)
EXTENDS RamPlusSetup

CONSTANTS z1, z2

\* Every call may fail.
MCAllCalls == Calls

=============================================================================
