---------------------------- MODULE LedgerTiming ----------------------------
(***************************************************************************)
(* The close-time arithmetic of consensus/LedgerTiming.h: the table of     *)
(* close-time resolutions, the rule that picks the resolution of the next  *)
(* ledger, and the two rounding functions.  Times are whole seconds since  *)
(* the network epoch, as in NetClock; time 0 is NetClock::time_point{},    *)
(* which stands for "no close time".                                       *)
(***************************************************************************)
EXTENDS Integers

(* The possible resolutions, in seconds. *)
ledgerPossibleTimeResolutions == {10, 20, 30, 60, 90, 120}

ledgerDefaultTimeResolution == 30

increaseLedgerTimeResolutionEvery == 8

decreaseLedgerTimeResolutionEvery == 1

(* The next bin up and down the table; the ends of the table stay put, as  *)
(* the iterator comparisons with std::end and std::begin make them.        *)
Coarser(r) ==
    CASE r = 10 -> 20
      [] r = 20 -> 30
      [] r = 30 -> 60
      [] r = 60 -> 90
      [] r \in {90, 120} -> 120

Finer(r) ==
    CASE r \in {10, 20} -> 10
      [] r = 30 -> 20
      [] r = 60 -> 30
      [] r = 90 -> 60
      [] r = 120 -> 90

getNextLedgerTimeResolution(previousResolution, previousAgree, ledgerSeq) ==
    CASE previousResolution \notin ledgerPossibleTimeResolutions
            -> previousResolution
      [] /\ previousResolution \in ledgerPossibleTimeResolutions
         /\ ~previousAgree
         /\ ledgerSeq % decreaseLedgerTimeResolutionEvery = 0
            -> Coarser(previousResolution)
      [] /\ previousResolution \in ledgerPossibleTimeResolutions
         /\ previousAgree
         /\ ledgerSeq % increaseLedgerTimeResolutionEvery = 0
            -> Finer(previousResolution)
      [] OTHER -> previousResolution

(* Nearest multiple of the resolution, midpoints up; 0 is kept. *)
roundCloseTime(closeTime, closeResolution) ==
    IF closeTime = 0
      THEN 0
      ELSE LET t == closeTime + (closeResolution \div 2)
           IN  t - (t % closeResolution)

effCloseTimeUnclamped(closeTime, resolution, priorCloseTime) ==
    roundCloseTime(closeTime, resolution)

effCloseTime(closeTime, resolution, priorCloseTime) ==
    IF closeTime = 0
      THEN 0
      ELSE LET r == roundCloseTime(closeTime, resolution)
           IN  IF r >= priorCloseTime + 1 THEN r ELSE priorCloseTime + 1

=============================================================================
