----------------------------- MODULE MCLmkdHooks -----------------------------
(***************************************************************************)
(* LmkdHooks with small devices.                                           *)
(***************************************************************************)
EXTENDS LmkdHooks

\* Negative values too: lmkd's easy_available is a difference.
MCInputs == (-2) .. 4

=============================================================================
