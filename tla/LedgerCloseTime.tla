-------------------------- MODULE LedgerCloseTime --------------------------
(***************************************************************************)
(* The close time of a chain of ledgers built by consensus.  A round ends  *)
(* in RCLConsensus::Adaptor::doAccept, which turns the close time of our   *)
(* position into the close time of the new ledger; Ledger::setAccepted     *)
(* stores it with the resolution of the round and with whether the close   *)
(* time was agreed on; the next round starts from those three values.      *)
(*                                                                         *)
(* ledger is the header of the last closed ledger.  streak is a history    *)
(* variable: how many ledgers in a row were closed without agreement on    *)
(* the close time.                                                         *)
(***************************************************************************)
EXTENDS LedgerTiming

CONSTANTS
    CloseTimes,  (* close times a position may carry, without 0            *)
    MaxSeq       (* bound: the last ledger sequence the model closes       *)

ASSUME CloseTimesAssumption == CloseTimes \subseteq Nat \ {0}
ASSUME MaxSeqAssumption == MaxSeq \in Nat

VARIABLES ledger, streak

vars == <<ledger, streak>>

Headers ==
    [seq : Nat, closeTime : Nat, parentCloseTime : Nat,
     closeTimeResolution : Nat, closeAgree : BOOLEAN]

(* The resolution a round on top of the ledger prev works with. *)
RoundResolution(prev) ==
    getNextLedgerTimeResolution(
        prev.closeTimeResolution, prev.closeAgree, prev.seq + 1)

(* The close time of the ledger built on prev from a position's close      *)
(* time: one second after prev when the round agreed to disagree (0).      *)
AcceptedCloseTime(prev, closeTime) ==
    IF closeTime = 0
      THEN prev.closeTime + 1
      ELSE effCloseTime(closeTime, RoundResolution(prev), prev.closeTime)

(* A fresh network starts consensus on ledger 2, made from the genesis     *)
(* ledger (sequence 1, no close time, no flags) at a rounded wall time.    *)
FirstLedger(now) ==
    LET resolution ==
            getNextLedgerTimeResolution(ledgerDefaultTimeResolution, TRUE, 2)
    IN  [seq |-> 2, closeTime |-> roundCloseTime(now, resolution),
         parentCloseTime |-> 0, closeTimeResolution |-> resolution,
         closeAgree |-> TRUE]

Init ==
    /\ \E now \in CloseTimes : ledger = FirstLedger(now)
    /\ streak = 0

(* A round ends: the ledger is built and becomes the last closed ledger. *)
Accept(closeTime) ==
    /\ ledger.seq < MaxSeq
    /\ ledger' =
         [seq |-> ledger.seq + 1,
          closeTime |-> AcceptedCloseTime(ledger, closeTime),
          parentCloseTime |-> ledger.closeTime,
          closeTimeResolution |-> RoundResolution(ledger),
          closeAgree |-> closeTime # 0]
    /\ streak' = IF closeTime = 0 THEN streak + 1 ELSE 0

Next == \E closeTime \in CloseTimes \cup {0} : Accept(closeTime)

Spec == Init /\ [][Next]_vars

-----------------------------------------------------------------------------

(* Every value has its type, and the resolution is always an entry of the  *)
(* table: the assertion "iter != std::end(ledgerPossibleTimeResolutions)"  *)
(* of getNextLedgerTimeResolution can never fail.                          *)
TypeOK ==
    /\ ledger \in Headers
    /\ ledger.closeTimeResolution \in ledgerPossibleTimeResolutions
    /\ streak \in Nat

(* The close time of a built ledger is later than its parent's, whatever   *)
(* the validators' clocks said: a position may lag behind the parent's     *)
(* close time, and the round may end without any agreed close time.        *)
CloseTimeAdvances ==
    ledger.seq > 2 => ledger.closeTime > ledger.parentCloseTime

(* The test of Consensus::phaseOpen for "the previous close time was       *)
(* agreed by consensus and not made up".                                   *)
PreviousCloseCorrect(l) ==
    l.closeAgree /\ l.closeTime # l.parentCloseTime + 1

(* phaseOpen measures how long the ledger has been open from the previous  *)
(* close time when PreviousCloseCorrect holds.  Then that time really is a *)
(* rounded consensus close time, never one that was pushed past the        *)
(* parent's, so every validator measures from the same bin.                *)
CorrectCloseIsBinned ==
    PreviousCloseCorrect(ledger)
        => ledger.closeTime % ledger.closeTimeResolution = 0

(* Disagreement always gets a wider bin to end it: after five ledgers in a *)
(* row without close-time agreement the next round runs at the coarsest    *)
(* resolution, whatever resolution the streak began with.                  *)
DisagreementReachesCoarsest ==
    streak >= 5 => RoundResolution(ledger) = 120

=============================================================================
