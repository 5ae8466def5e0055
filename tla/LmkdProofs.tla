------------------------------ MODULE LmkdProofs ------------------------------
(***************************************************************************)
(* Proofs about LmkdHooks, for every set of swap sizes, any zram and any   *)
(* arguments of the hook.                                                  *)
(***************************************************************************)
EXTENDS LmkdHooks, TLAPS

\* The page counts and lmkd's copy stay within what the devices hold, through
\* every interleaving of the service, init, lmkd and the kernel.
THEOREM LmkdTypeCorrect == Spec => []TypeOK
  <1> USE TotalsAssumption, LmkdAssumption
  <1>0. 0 \in 0 .. ZramTotal /\ 0 \in 0 .. 0
    OBVIOUS
  <1>1. Init => TypeOK
    <2> SUFFICES ASSUME Init PROVE TypeOK
      OBVIOUS
    <2>1. zramUsed \in 0 .. ZramTotal /\ diskUsed \in 0 .. total
      BY <1>0 DEF Init, ServiceInit
    <2>2. running \in BOOLEAN /\ reinit \in BOOLEAN
      BY DEF Init, ServiceInit
    <2> QED
      BY <2>1, <2>2 DEF Init, ServiceInit, TypeOK, Verdicts
  <1>2. TypeOK /\ [Next]_vars => TypeOK'
    <2> SUFFICES ASSUME TypeOK, [Next]_vars
                 PROVE  TypeOK'
      OBVIOUS
    <2>t. total \in Nat /\ total' \in Totals \cup {0} => total' \in Nat
      BY DEF TypeOK
    <2> USE DEF TypeOK, lmkdVars, pageVars, serviceVars
    <2>1. CASE ServiceStarts
      BY <2>1 DEF ServiceStarts, Begin, Verdicts
    <2>2. CASE ServiceTurnsOff
      BY <2>2, <2>t DEF ServiceTurnsOff, TurnOff, Lower
    <2>3. CASE ServiceTurnsOn
      BY <2>3, <2>t DEF ServiceTurnsOn, TurnOn
    <2>4. CASE ServiceStops
      BY <2>4 DEF ServiceStops, End
    <2>5. CASE SystemReboots
      <3>1. zramUsed' \in 0 .. ZramTotal /\ diskUsed' \in 0 .. total'
        BY <1>0, <2>5 DEF SystemReboots, Reboot
      <3>2. running' \in BOOLEAN /\ reinit' \in BOOLEAN
        BY <2>5 DEF SystemReboots, Reboot
      <3> QED
        BY <2>5, <3>1, <3>2 DEF SystemReboots, Reboot, Verdicts
    <2>6. CASE Reinit \/ LmkdRestart
      BY <2>6 DEF Reinit, LmkdRestart, ReadRamPlusSwapKb
    <2>7. CASE SwapOutPage
      BY <2>7, <2>t DEF SwapOutPage
    <2>8. CASE SwapInPage
      BY <2>8, <2>t DEF SwapInPage
    <2>9. CASE UNCHANGED vars
      BY <2>9 DEF vars
    <2> QED
      BY <2>1, <2>2, <2>3, <2>4, <2>5, <2>6, <2>7, <2>8, <2>9 DEF Next
  <1> QED
    BY <1>1, <1>2, PTL DEF Spec

\* No stale size stays in lmkd once init has done what it queued.
THEOREM CopySynchronized == Spec => []CopyInSync
  <1>1. Init => CopyInSync
    BY DEF Init, ServiceInit, CopyInSync
  <1>2. CopyInSync /\ [Next]_vars => CopyInSync'
    <2> SUFFICES ASSUME CopyInSync, [Next]_vars
                 PROVE  CopyInSync'
      OBVIOUS
    <2> USE DEF CopyInSync, lmkdVars, pageVars, serviceVars
    <2>1. CASE ServiceStarts \/ ServiceTurnsOff \/ ServiceTurnsOn
               \/ ServiceStops
      BY <2>1 DEF ServiceStarts, Begin, ServiceTurnsOff, TurnOff,
        ServiceTurnsOn, TurnOn, ServiceStops
    <2>2. CASE SystemReboots
      BY <2>2 DEF SystemReboots, Reboot
    <2>3. CASE Reinit \/ LmkdRestart
      BY <2>3 DEF Reinit, LmkdRestart, ReadRamPlusSwapKb
    <2>4. CASE SwapOutPage \/ SwapInPage \/ UNCHANGED vars
      BY <2>4 DEF SwapOutPage, SwapInPage, vars
    <2> QED
      BY <2>1, <2>2, <2>3, <2>4 DEF Next
  <1> QED
    BY <1>1, <1>2, PTL DEF Spec

-----------------------------------------------------------------------------
(* The hook's arithmetic *)

\* C's division gives an integer and keeps the sign.
LEMMA QuotientInt ==
    ASSUME NEW a \in Int, NEW b \in Int, b > 0
    PROVE  Quotient(a, b) \in Int /\ (a >= 0 => Quotient(a, b) >= 0)
  BY DEF Quotient

\* lmkd_adjust_free_swap_hook reports at most the free swap, whatever size
\* lmkd believes the disk swap has.
LEMMA AdjustAtMostFree ==
    ASSUME NEW disk_total \in Nat, NEW free_swap \in Int,
           NEW easy \in Int, NEW ratio \in Int, NEW ratio_div \in Int,
           ratio_div > 0, NEW adjusted \in Int, adjusted <= free_swap
    PROVE  AdjustFreeSwap(disk_total, free_swap, easy, ratio, ratio_div,
                          adjusted) <= free_swap
  <1> DEFINE backed == Quotient(easy * ratio, ratio_div)
  <1>1. easy * ratio \in Int
    OBVIOUS
  <1>2. backed \in Int
    BY <1>1, QuotientInt
  <1> HIDE DEF backed
  <1>3. Lower(free_swap, disk_total)
            + Lower(Higher(0, free_swap - disk_total), backed) <= free_swap
    BY <1>2 DEF Lower, Higher
  <1> QED
    BY <1>3 DEF AdjustFreeSwap, backed

\* The estimate lmkd works with is never more than the free swap there is.
THEOREM EstimateSound == Spec => []EstimateWithinFree
  <1>1. TypeOK => EstimateWithinFree
    <2> SUFFICES ASSUME TypeOK, NEW easy \in Inputs, NEW ratio \in Inputs,
                        NEW ratio_div \in Inputs, ratio_div > 0
                 PROVE  Estimate(easy, ratio, ratio_div) <= FreeSwap
      BY DEF EstimateWithinFree
    <2> DEFINE backed == Quotient(easy * ratio, ratio_div)
    <2>1. easy \in Int /\ ratio \in Int /\ ratio_div \in Int
      BY LmkdAssumption
    <2>2. gRamPlusSwapKb \in Nat /\ total \in Nat
      BY TotalsAssumption DEF TypeOK
    <2>3. FreeSwap \in Int
      BY <2>2, LmkdAssumption DEF TypeOK, FreeSwap
    <2>4. easy * ratio \in Int
      BY <2>1
    <2>5. backed \in Int
      BY <2>1, <2>4, QuotientInt
    <2> HIDE DEF backed
    <2>6. Lower(FreeSwap, backed) \in Int /\ Lower(FreeSwap, backed) <= FreeSwap
      BY <2>3, <2>5 DEF Lower
    <2> QED
      BY <2>1, <2>2, <2>3, <2>6, AdjustAtMostFree DEF Estimate, backed
  <1> QED
    BY <1>1, LmkdTypeCorrect, PTL

\* With an up-to-date copy the hook counts at least the usable swap, and more
\* only by pages that sit on disk while zram has room.
THEOREM EstimateAccurate == Spec => []EstimateNear
  <1>1. TypeOK => EstimateNear
    <2> SUFFICES ASSUME TypeOK, NEW easy \in Inputs, NEW ratio \in Inputs,
                        NEW ratio_div \in Inputs, gRamPlusSwapKb = total,
                        total > 0, ratio > 0, ratio_div > 0, easy >= 0
                 PROVE  LET excess == Estimate(easy, ratio, ratio_div)
                                          - Usable(easy, ratio, ratio_div)
                        IN  /\ excess >= 0
                            /\ excess <= Lower(diskUsed, ZramTotal - zramUsed)
      BY DEF EstimateNear
    <2> DEFINE backed == Quotient(easy * ratio, ratio_div)
    <2>1. easy \in Int /\ ratio \in Int /\ ratio_div \in Int
      BY LmkdAssumption
    <2>2. total \in Nat /\ ZramTotal \in Nat
      BY TotalsAssumption, LmkdAssumption DEF TypeOK
    <2>3. zramUsed \in 0 .. ZramTotal /\ diskUsed \in 0 .. total
      BY DEF TypeOK
    <2>4. ASSUME NEW a \in Int, NEW b \in Int, a >= 0, b > 0
          PROVE  a * b \in Int /\ a * b >= 0
      BY <2>4
    <2>5. easy * ratio \in Int /\ easy * ratio >= 0
      BY <2>1, <2>4
    <2>6. backed \in Int /\ backed >= 0
      BY <2>1, <2>5, QuotientInt
    <2> HIDE DEF backed
    <2>7. Estimate(easy, ratio, ratio_div)
            = Lower(FreeSwap, total) + Lower(Higher(0, FreeSwap - total), backed)
      BY <2>1, <2>2 DEF Estimate, AdjustFreeSwap, backed
    <2>8. Usable(easy, ratio, ratio_div)
            = (total - diskUsed) + Lower(ZramTotal - zramUsed, backed)
      BY DEF Usable, backed
    <2> QED
      BY <2>2, <2>3, <2>6, <2>7, <2>8 DEF FreeSwap, Lower, Higher
  <1> QED
    BY <1>1, LmkdTypeCorrect, PTL

=============================================================================
