----------------------------- MODULE SwapService -----------------------------
(***************************************************************************)
(* What the RAM Plus setup service promises to the rest of the system,     *)
(* without how it keeps the promise: it changes the disk swap only while   *)
(* it runs, never changes the size of a swap that is in use, and ends with *)
(* a verdict that fits the swap it leaves behind.  RamPlusSetup implements *)
(* this specification; LmkdHooks relies on it.                             *)
(***************************************************************************)
EXTENDS Naturals

CONSTANT Totals  \* the sizes an active disk swap may have

ASSUME TotalsAssumption == Totals \subseteq Nat \ {0}

VARIABLES
    running,  \* the service has a process
    total,    \* the size of the active disk swap, 0 when there is none
    verdict   \* how the last run of this boot ended

serviceVars == <<running, total, verdict>>

Verdicts == {"none", "active", "disabled", "failed"}

ServiceInit == running = FALSE /\ total = 0 /\ verdict = "none"

\* init starts the service.
Begin ==
    /\ ~running
    /\ running' = TRUE
    /\ verdict' = "none"
    /\ UNCHANGED total

\* swapoff.
TurnOff ==
    /\ running /\ total > 0
    /\ total' = 0
    /\ UNCHANGED <<running, verdict>>

\* swapon.
TurnOn ==
    /\ running /\ total = 0
    /\ total' \in Totals
    /\ UNCHANGED <<running, verdict>>

\* The service exits, or dies without a verdict.
End ==
    /\ running
    /\ running' = FALSE
    /\ verdict' \in Verdicts
    /\ verdict' = "active" => total > 0
    /\ verdict' = "disabled" => total = 0
    /\ UNCHANGED total

Reboot ==
    /\ running' = FALSE
    /\ total' = 0
    /\ verdict' = "none"

ServiceNext == Begin \/ TurnOff \/ TurnOn \/ End \/ Reboot

ServiceSpec == ServiceInit /\ [][ServiceNext]_serviceVars

=============================================================================
