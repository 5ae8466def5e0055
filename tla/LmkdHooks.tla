------------------------------ MODULE LmkdHooks ------------------------------
(***************************************************************************)
(* config/ramplus/lmkd/ram_plus_lmkd_hooks.cpp: the hooks that teach lmkd  *)
(* about the disk swap, composed with the setup service (by its abstract   *)
(* specification), with init, which has lmkd re-read its settings when the *)
(* service stops, and with the kernel filling zram before the disk swap.   *)
(***************************************************************************)
EXTENDS SwapService, Integers

CONSTANTS
    ZramTotal,     \* the size of the zram swap
    SwapsMayFail,  \* whether lmkd's fopen of /proc/swaps may fail
    Inputs         \* values of easy_available and the compression ratio

ASSUME LmkdAssumption ==
    /\ ZramTotal \in Nat
    /\ SwapsMayFail \in BOOLEAN
    /\ Inputs \subseteq Int

VARIABLES
    gRamPlusSwapKb,  \* lmkd's copy of the disk swap's size
    reinit,          \* init has yet to run lmkd --reinit
    zramUsed,        \* pages swapped to zram
    diskUsed         \* pages swapped to the disk swap

lmkdVars == <<gRamPlusSwapKb, reinit>>
pageVars == <<zramUsed, diskUsed>>
vars == <<serviceVars, lmkdVars, pageVars>>

-----------------------------------------------------------------------------
(* The hook's arithmetic *)

Lower(a, b) == IF a <= b THEN a ELSE b
Higher(a, b) == IF a >= b THEN a ELSE b

\* C's integer division, which truncates towards zero; b > 0.
Quotient(a, b) == IF a >= 0 THEN a \div b ELSE -((-a) \div b)

\* Slip: free_swap is taken to hold all of the disk swap.
AdjustUnlimited(disk_total, free_swap, easy, ratio, ratio_div, adjusted) ==
    IF disk_total <= 0 \/ ratio <= 0 \/ ratio_div <= 0
    THEN adjusted
    ELSE disk_total + Lower(Higher(0, free_swap - disk_total),
                            Quotient(easy * ratio, ratio_div))

\* Slip: free zram below zero.
AdjustUnclamped(disk_total, free_swap, easy, ratio, ratio_div, adjusted) ==
    IF disk_total <= 0 \/ ratio <= 0 \/ ratio_div <= 0
    THEN adjusted
    ELSE Lower(free_swap, disk_total)
             + Lower(free_swap - disk_total, Quotient(easy * ratio, ratio_div))

\* lmkd_adjust_free_swap_hook, with gRamPlusSwapKb = disk_total.
AdjustFreeSwap(disk_total, free_swap, easy, ratio, ratio_div, adjusted) ==
    LET disk_free == Lower(free_swap, disk_total)
        zram_free == Higher(0, free_swap - disk_total)
    IN  IF disk_total <= 0 \/ ratio <= 0 \/ ratio_div <= 0
        THEN adjusted
        ELSE disk_free + Lower(zram_free, Quotient(easy * ratio, ratio_div))

\* What lmkd passes in: all free swap, and its own estimate, which takes it
\* all to be zram (lmkd.cpp, external).
FreeSwap == (ZramTotal - zramUsed) + (total - diskUsed)

Estimate(easy, ratio, ratio_div) ==
    AdjustFreeSwap(gRamPlusSwapKb, FreeSwap, easy, ratio, ratio_div,
                   Lower(FreeSwap, Quotient(easy * ratio, ratio_div)))

\* What the estimate stands for: free disk swap counts in full, free zram
\* only as far as the memory left can back it.
Usable(easy, ratio, ratio_div) ==
    (total - diskUsed)
        + Lower(ZramTotal - zramUsed, Quotient(easy * ratio, ratio_div))

-----------------------------------------------------------------------------
(* lmkd and init *)

\* Slip: the column behind the size, which is the part in use.
ReadUsedColumn == {diskUsed}

\* ReadRamPlusSwapKb: the entry's size, 0 when it is not there or when
\* /proc/swaps cannot be opened.
ReadRamPlusSwapKb == {total} \cup IF SwapsMayFail THEN {0} ELSE {}

\* exec_background lmkd --reinit, which ends in lmkd_update_props_hook.
Reinit ==
    /\ reinit
    /\ reinit' = FALSE
    /\ gRamPlusSwapKb' \in ReadRamPlusSwapKb
    /\ UNCHANGED <<serviceVars, pageVars>>

\* lmkd itself restarts and updates its settings.
LmkdRestart ==
    /\ gRamPlusSwapKb' \in ReadRamPlusSwapKb
    /\ UNCHANGED <<serviceVars, pageVars, reinit>>

\* The steps of the service, with their effect on init and on the pages.
ServiceStarts == Begin /\ UNCHANGED <<lmkdVars, pageVars>>

\* swapoff brings the pages back; memory pressure may push them to zram.
ServiceTurnsOff ==
    /\ TurnOff
    /\ diskUsed' = 0
    /\ zramUsed' \in zramUsed .. Lower(ZramTotal, zramUsed + diskUsed)
    /\ UNCHANGED lmkdVars

ServiceTurnsOn == TurnOn /\ UNCHANGED <<lmkdVars, pageVars>>

\* Slip: init tells lmkd only about a success.
StopsUnnoticed ==
    /\ End
    /\ reinit' = (verdict' = "active")
    /\ UNCHANGED <<gRamPlusSwapKb, pageVars>>

\* on property:init.svc.ax_ram_plus_setup=stopped.
ServiceStops ==
    /\ End
    /\ reinit' = TRUE
    /\ UNCHANGED <<gRamPlusSwapKb, pageVars>>

\* lmkd starts during the boot, long before the service.
SystemReboots ==
    /\ Reboot
    /\ gRamPlusSwapKb' = 0
    /\ reinit' = FALSE
    /\ zramUsed' = 0
    /\ diskUsed' = 0

-----------------------------------------------------------------------------
(* The kernel: a page goes to the device of highest priority with room,     *)
(* which is zram, and leaves whichever device it is on.                     *)

SwapOutPage ==
    /\ \/ /\ zramUsed < ZramTotal
          /\ zramUsed' = zramUsed + 1
          /\ UNCHANGED diskUsed
       \/ /\ zramUsed = ZramTotal /\ diskUsed < total
          /\ diskUsed' = diskUsed + 1
          /\ UNCHANGED zramUsed
    /\ UNCHANGED <<serviceVars, lmkdVars>>

SwapInPage ==
    /\ \/ /\ zramUsed > 0
          /\ zramUsed' = zramUsed - 1
          /\ UNCHANGED diskUsed
       \/ /\ diskUsed > 0
          /\ diskUsed' = diskUsed - 1
          /\ UNCHANGED zramUsed
    /\ UNCHANGED <<serviceVars, lmkdVars>>

-----------------------------------------------------------------------------

Init ==
    /\ ServiceInit
    /\ gRamPlusSwapKb = 0
    /\ reinit = FALSE
    /\ zramUsed = 0
    /\ diskUsed = 0

Next ==
    \/ ServiceStarts \/ ServiceTurnsOff \/ ServiceTurnsOn \/ ServiceStops
    \/ SystemReboots \/ Reinit \/ LmkdRestart \/ SwapOutPage \/ SwapInPage

\* init gets round to the command it has queued.
Spec == Init /\ [][Next]_vars /\ WF_vars(Reinit)

-----------------------------------------------------------------------------
(* Properties *)

\* The page counts stay within the devices, and lmkd's copy is a size.
TypeOK ==
    /\ running \in BOOLEAN
    /\ total \in Totals \cup {0}
    /\ verdict \in Verdicts
    /\ gRamPlusSwapKb \in Totals \cup {0}
    /\ reinit \in BOOLEAN
    /\ zramUsed \in 0 .. ZramTotal
    /\ diskUsed \in 0 .. total

\* Outside a run, and once init has done what it queued, lmkd's copy is the
\* size of the disk swap; if lmkd could not read it, it is 0.  However runs,
\* crashes, re-reads and restarts of lmkd overlap, no stale size stays.
CopyInSync ==
    (~running /\ ~reinit) =>
        \/ gRamPlusSwapKb = total
        \/ SwapsMayFail /\ gRamPlusSwapKb = 0

\* With a copy that is up to date, the hook never counts less than what is
\* usable, and more only by pages that sit on disk while zram has room.
EstimateNear ==
    \A easy, ratio, ratio_div \in Inputs :
        (gRamPlusSwapKb = total /\ total > 0 /\ ratio > 0 /\ ratio_div > 0
            /\ easy >= 0) =>
        LET excess == Estimate(easy, ratio, ratio_div)
                          - Usable(easy, ratio, ratio_div)
        IN  /\ excess >= 0
            /\ excess <= Lower(diskUsed, ZramTotal - zramUsed)

\* Whatever the copy says, current or stale, the hook never reports more
\* free swap than there is.
EstimateWithinFree ==
    \A easy, ratio, ratio_div \in Inputs :
        ratio_div > 0 => Estimate(easy, ratio, ratio_div) <= FreeSwap

\* Once the service has stopped, a copy that is out of date does not stay so:
\* init's command brings it up to date, or the next run begins.
CopyCatchesUp ==
    (~running /\ gRamPlusSwapKb # total)
        ~> (running \/ gRamPlusSwapKb = total)

=============================================================================
