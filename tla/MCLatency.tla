------------------------------- MODULE MCLatency -------------------------------
(***************************************************************************)
(* Instances of LatencySched for TLC.                                      *)
(***************************************************************************)
EXTENDS LatencySched

CONSTANTS t1, t2

TwoTasks == {t1, t2}

\* Maxima that fit an s32 of IntHalf = 16.
FittingMaxes == {0, 3, 12}
=============================================================================
