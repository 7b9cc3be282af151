----------------------------- MODULE RulesProofs -----------------------------
(***************************************************************************)
(* Proofs about the rules a round goes by: chains of close times, for any  *)
(* set of close times and any length of the chain; the close time loop,    *)
(* for any votes and thresholds; and a disputed transaction, for any       *)
(* finite set of peers and any percentages.                                *)
(***************************************************************************)
EXTENDS LedgerCloseTime, CloseTimeVote, DisputedTx, FiniteSetTheorems, TLAPS

-----------------------------------------------------------------------------
(* Chains of close times.                                                  *)

(* Moving along the table of resolutions stays in the table, and without   *)
(* agreement the next resolution is the next coarser one.                  *)
LEMMA NextResolution ==
    ASSUME NEW r \in ledgerPossibleTimeResolutions,
           NEW agree \in BOOLEAN, NEW seq \in Nat
    PROVE  /\ getNextLedgerTimeResolution(r, agree, seq)
                 \in ledgerPossibleTimeResolutions
           /\ ~agree => getNextLedgerTimeResolution(r, agree, seq)
                          = Coarser(r)
  BY DEF getNextLedgerTimeResolution, ledgerPossibleTimeResolutions, Coarser,
         Finer, decreaseLedgerTimeResolutionEvery,
         increaseLedgerTimeResolutionEvery

(* roundCloseTime returns a time on the bin of its resolution. *)
LEMMA RoundIsBinned ==
    ASSUME NEW t \in Nat, NEW r \in ledgerPossibleTimeResolutions
    PROVE  roundCloseTime(t, r) \in Nat /\ roundCloseTime(t, r) % r = 0
  BY DEF roundCloseTime, ledgerPossibleTimeResolutions

(* effCloseTime of a time that is not 0 is on its bin or just after the    *)
(* prior close time, and always after it.                                  *)
LEMMA EffectiveAdvances ==
    ASSUME NEW t \in Nat \ {0}, NEW r \in ledgerPossibleTimeResolutions,
           NEW prior \in Nat
    PROVE  /\ effCloseTime(t, r, prior) \in Nat
           /\ effCloseTime(t, r, prior) > prior
           /\ \/ effCloseTime(t, r, prior) % r = 0
              \/ effCloseTime(t, r, prior) = prior + 1
  BY RoundIsBinned DEF effCloseTime

-----------------------------------------------------------------------------

(* The resolution a streak of disagreement has reached at least. *)
StreakInv ==
    /\ streak >= 1 => ~ledger.closeAgree
    /\ streak >= 2 => ledger.closeTimeResolution >= 20
    /\ streak >= 3 => ledger.closeTimeResolution >= 30
    /\ streak >= 4 => ledger.closeTimeResolution >= 60
    /\ streak >= 5 => ledger.closeTimeResolution >= 90

ChainInv ==
    /\ TypeOK
    /\ CloseTimeAdvances
    /\ CorrectCloseIsBinned
    /\ StreakInv

LEMMA ChainInit == Init => ChainInv
  <1> SUFFICES ASSUME NEW now \in CloseTimes, ledger = FirstLedger(now),
                      streak = 0
               PROVE  ChainInv
    BY DEF Init
  <1> DEFINE res == getNextLedgerTimeResolution(
                        ledgerDefaultTimeResolution, TRUE, 2)
  <1>1. res \in ledgerPossibleTimeResolutions
    BY NextResolution
    DEF ledgerDefaultTimeResolution, ledgerPossibleTimeResolutions
  <1>2. now \in Nat
    BY CloseTimesAssumption
  <1>3. roundCloseTime(now, res) \in Nat /\ roundCloseTime(now, res) % res = 0
    BY <1>1, <1>2, RoundIsBinned
  <1>4. ledger = [seq |-> 2, closeTime |-> roundCloseTime(now, res),
                  parentCloseTime |-> 0, closeTimeResolution |-> res,
                  closeAgree |-> TRUE]
    BY DEF FirstLedger
  <1> HIDE DEF res
  <1>5. res \in Nat
    BY <1>1 DEF ledgerPossibleTimeResolutions
  <1> QED
    BY <1>1, <1>3, <1>4, <1>5
    DEF ChainInv, TypeOK, Headers, CloseTimeAdvances, CorrectCloseIsBinned,
        PreviousCloseCorrect, StreakInv

LEMMA ChainNext == ChainInv /\ [Next]_vars => ChainInv'
  <1> SUFFICES ASSUME ChainInv, [Next]_vars PROVE ChainInv'
    OBVIOUS
  <1> USE DEF ChainInv
  <1>1. CASE UNCHANGED vars
    BY <1>1 DEF vars, TypeOK, CloseTimeAdvances, CorrectCloseIsBinned,
                PreviousCloseCorrect, StreakInv
  <1>2. ASSUME NEW closeTime \in CloseTimes \cup {0}, Accept(closeTime)
        PROVE  ChainInv'
    <2> DEFINE res == RoundResolution(ledger)
               new == AcceptedCloseTime(ledger, closeTime)
    <2>1. /\ ledger.seq \in Nat
          /\ ledger.closeTime \in Nat
          /\ ledger.closeAgree \in BOOLEAN
          /\ ledger.closeTimeResolution \in ledgerPossibleTimeResolutions
          /\ streak \in Nat
      BY DEF TypeOK, Headers
    <2>2. /\ res \in ledgerPossibleTimeResolutions
          /\ ~ledger.closeAgree => res = Coarser(ledger.closeTimeResolution)
      BY <2>1, NextResolution DEF RoundResolution
    <2>3. closeTime \in Nat
      BY CloseTimesAssumption
    <2>4. new = IF closeTime = 0
                THEN ledger.closeTime + 1
                ELSE effCloseTime(closeTime, res, ledger.closeTime)
      BY DEF AcceptedCloseTime
    <2>5. /\ ledger' = [seq |-> ledger.seq + 1, closeTime |-> new,
                        parentCloseTime |-> ledger.closeTime,
                        closeTimeResolution |-> res,
                        closeAgree |-> closeTime # 0]
          /\ streak' = IF closeTime = 0 THEN streak + 1 ELSE 0
      BY <1>2 DEF Accept
    <2> HIDE DEF new, res
    <2>6. /\ new \in Nat
          /\ new > ledger.closeTime
          /\ new % res = 0 \/ new = ledger.closeTime + 1
      <3>1. CASE closeTime = 0
        BY <2>1, <2>4, <3>1
      <3>2. CASE closeTime # 0
        <4>1. closeTime \in Nat \ {0}
          BY <2>3, <3>2
        <4>2. new = effCloseTime(closeTime, res, ledger.closeTime)
          BY <2>4, <3>2
        <4> QED
          BY <2>1, <2>2, <4>1, <4>2, EffectiveAdvances
      <3> QED
        BY <3>1, <3>2
    <2>r. res \in Nat
      BY <2>2 DEF ledgerPossibleTimeResolutions
    <2>7. StreakInv'
      <3>1. /\ ledger'.closeTimeResolution = res
            /\ ledger'.closeAgree = (closeTime # 0)
        BY <2>5
      <3>2. /\ streak >= 1 => res = Coarser(ledger.closeTimeResolution)
            /\ res >= 10
        BY <2>1, <2>2 DEF StreakInv, ledgerPossibleTimeResolutions
      <3>3. Coarser(ledger.closeTimeResolution) >= 20
            /\ (ledger.closeTimeResolution >= 20
                  => Coarser(ledger.closeTimeResolution) >= 30)
            /\ (ledger.closeTimeResolution >= 30
                  => Coarser(ledger.closeTimeResolution) >= 60)
            /\ (ledger.closeTimeResolution >= 60
                  => Coarser(ledger.closeTimeResolution) >= 90)
        BY <2>1 DEF Coarser, ledgerPossibleTimeResolutions
      <3> QED
        <4>1. CASE closeTime = 0
          <5>1. ~ledger'.closeAgree /\ streak' = streak + 1
            BY <2>5, <4>1
          <5>2. /\ streak >= 1 => res >= 20
                /\ streak >= 2 => res >= 30
                /\ streak >= 3 => res >= 60
                /\ streak >= 4 => res >= 90
            BY <2>1, <3>2, <3>3 DEF StreakInv
          <5> QED
            BY <2>1, <2>r, <3>1, <5>1, <5>2 DEF StreakInv
        <4>2. CASE closeTime # 0
          BY <2>5, <4>2 DEF StreakInv
        <4> QED
          BY <4>1, <4>2
    <2>8. TypeOK' /\ CloseTimeAdvances' /\ CorrectCloseIsBinned'
      BY <2>1, <2>2, <2>5, <2>6, <2>r
      DEF TypeOK, Headers, CloseTimeAdvances, CorrectCloseIsBinned,
          PreviousCloseCorrect
    <2> QED
      BY <2>7, <2>8
  <1> QED
    BY <1>1, <1>2 DEF Next

(* Every chain of accepted ledgers satisfies ChainInv, which is inductive. *)
LEMMA ChainInvariant == Spec => []ChainInv
  BY ChainInit, ChainNext, PTL DEF Spec

(* The resolution of every ledger is an entry of the table, so the         *)
(* assertion of getNextLedgerTimeResolution never fails.                   *)
THEOREM ChainTypeCorrect == Spec => []TypeOK
  BY ChainInvariant, PTL DEF ChainInv

(* The ledger doAccept builds always closes after its parent.              *)
THEOREM ChainAdvances == Spec => []CloseTimeAdvances
  BY ChainInvariant, PTL DEF ChainInv

(* A close time that phaseOpen takes for a consensus close time is on the  *)
(* bin of its ledger.                                                      *)
THEOREM ChainBinned == Spec => []CorrectCloseIsBinned
  BY ChainInvariant, PTL DEF ChainInv

(* Five ledgers without agreement lead to the coarsest resolution.         *)
THEOREM ChainReachesCoarsest == Spec => []DisagreementReachesCoarsest
  <1>1. ChainInv => DisagreementReachesCoarsest
    <2> SUFFICES ASSUME ChainInv, streak >= 5
                 PROVE  RoundResolution(ledger) = 120
      BY DEF DisagreementReachesCoarsest
    <2>1. /\ ledger.seq \in Nat
          /\ streak \in Nat
          /\ ledger.closeAgree = FALSE
          /\ ledger.closeTimeResolution \in ledgerPossibleTimeResolutions
          /\ ledger.closeTimeResolution >= 90
      BY DEF ChainInv, TypeOK, Headers, StreakInv
    <2>2. ledger.seq + 1 \in Nat
      BY <2>1
    <2>3. RoundResolution(ledger) = Coarser(ledger.closeTimeResolution)
      <3>1. getNextLedgerTimeResolution(ledger.closeTimeResolution, FALSE,
                                        ledger.seq + 1)
              = Coarser(ledger.closeTimeResolution)
        BY <2>1, <2>2, NextResolution
      <3> QED
        BY <2>1, <3>1, Zenon DEF RoundResolution
    <2> QED
      BY <2>1, <2>3 DEF Coarser, ledgerPossibleTimeResolutions
  <1> QED
    BY <1>1, ChainInvariant, PTL

-----------------------------------------------------------------------------
(* The close time loop keeps the winner of the times it has visited.      *)

Visited == DOMAIN closeTimeVotes \ left

(* What the loop has found when some times are left: the candidate is the  *)
(* strongest and latest of the visited times, and consensus is noted when  *)
(* one of them had the votes.                                              *)
LoopInv ==
    /\ VoteTypeOK
    /\ threshVote >= needed
    /\ \A t \in Visited, u \in left : t < u
    /\ \A t \in Visited :
          closeTimeVotes[t] >= needed =>
            /\ chosen \in Visited
            /\ closeTimeVotes[chosen] = threshVote
            /\ closeTimeVotes[t] <= threshVote
            /\ closeTimeVotes[t] = threshVote => t <= chosen
    /\ \/ chosen \in Visited /\ closeTimeVotes[chosen] = threshVote
       \/ chosen = 0 /\ threshVote = needed /\ ~agreed
    /\ agreed => closeTimeVotes[chosen] >= threshConsensus
    /\ \A t \in Visited :
          closeTimeVotes[t] >= needed /\ closeTimeVotes[t] >= threshConsensus
            => agreed

LEMMA LoopInit == VoteInit => LoopInv
  <1> SUFFICES ASSUME VoteInit PROVE LoopInv
    OBVIOUS
  <1>1. PICK S \in SUBSET Times : closeTimeVotes \in [S -> 1 .. MaxVotes]
    <2>1. closeTimeVotes \in UNION {[S -> 1 .. MaxVotes] : S \in SUBSET Times}
      BY DEF VoteInit
    <2> QED
      BY <2>1, Zenon
  <1>2. VoteTypeOK
    <2>1. DOMAIN closeTimeVotes = S
      BY <1>1
    <2>2. closeTimeVotes \in [S -> Nat]
      BY <1>1, CloseTimeVoteAssumption
    <2>3. /\ needed \in 1 .. MaxVotes + 1
          /\ threshConsensus \in 1 .. MaxVotes + 1
          /\ left = DOMAIN closeTimeVotes
          /\ threshVote = needed /\ chosen = 0 /\ agreed = FALSE
      BY DEF VoteInit
    <2>4. needed \in Nat /\ threshConsensus \in Nat
      BY <2>3, CloseTimeVoteAssumption
    <2>5. DOMAIN closeTimeVotes \subseteq Times /\ left \subseteq S
      BY <2>1, <2>3
    <2> QED
      BY <2>1, <2>2, <2>3, <2>4, <2>5 DEF VoteTypeOK
  <1>3. Visited = {}
    BY DEF VoteInit, Visited
  <1> QED
    BY <1>2, <1>3 DEF VoteInit, LoopInv, VoteTypeOK

LEMMA LoopNext == LoopInv /\ [VoteNext]_voteVars => LoopInv'
  <1> SUFFICES ASSUME LoopInv, [VoteNext]_voteVars PROVE LoopInv'
    OBVIOUS
  <1>1. CASE UNCHANGED voteVars
    BY <1>1 DEF voteVars, LoopInv, VoteTypeOK, Visited
  <1>2. ASSUME NEW t \in Times, Visit(t) PROVE LoopInv'
    <2>1. /\ t \in left /\ t \in DOMAIN closeTimeVotes /\ t \in Nat
          /\ closeTimeVotes[t] \in Nat
          /\ \A u \in left : u \in Nat /\ t <= u
          /\ \A u \in Visited : u \in Nat /\ closeTimeVotes[u] \in Nat
                                /\ u < t
          /\ left' = left \ {t}
          /\ UNCHANGED <<closeTimeVotes, needed, threshConsensus>>
      BY <1>2, CloseTimeVoteAssumption DEF Visit, LoopInv, VoteTypeOK, Visited
    <2>2. Visited' = Visited \cup {t}
      BY <2>1 DEF Visited, LoopInv, VoteTypeOK
    <2>3. \A v \in Visited', u \in left' : v < u
      BY <2>1, <2>2 DEF LoopInv
    <2>4. CASE closeTimeVotes[t] >= threshVote
      <3>1. /\ chosen' = t
            /\ threshVote' = closeTimeVotes[t]
            /\ agreed' = (agreed \/ closeTimeVotes[t] >= threshConsensus)
        BY <1>2, <2>4 DEF Visit
      <3>2. VoteTypeOK' /\ threshVote' >= needed'
        BY <2>1, <2>4, <3>1 DEF LoopInv, VoteTypeOK
      <3>3. agreed => threshVote >= threshConsensus
        BY DEF LoopInv
      <3>4. agreed' => closeTimeVotes'[chosen'] >= threshConsensus'
        BY <2>1, <2>4, <3>1, <3>3 DEF LoopInv, VoteTypeOK
      <3>5. \A v \in Visited' :
               /\ closeTimeVotes[v] >= needed
                    => /\ closeTimeVotes[v] <= closeTimeVotes[t]
                       /\ v <= t
               /\ closeTimeVotes[v] >= needed
                  /\ closeTimeVotes[v] >= threshConsensus
                    => agreed'
        <4>1. \A v \in Visited :
                 closeTimeVotes[v] >= needed =>
                   closeTimeVotes[v] <= closeTimeVotes[t] /\ v <= t
          BY <2>1, <2>4 DEF LoopInv, VoteTypeOK
        <4>2. closeTimeVotes[t] <= closeTimeVotes[t] /\ t <= t
          BY <2>1
        <4>3. \A v \in Visited :
                 closeTimeVotes[v] >= needed
                 /\ closeTimeVotes[v] >= threshConsensus => agreed'
          BY <3>1 DEF LoopInv
        <4>4. closeTimeVotes[t] >= threshConsensus => agreed'
          BY <3>1
        <4> QED
          BY <2>2, <4>1, <4>2, <4>3, <4>4
      <3> QED
        BY <2>1, <2>2, <2>3, <3>1, <3>2, <3>4, <3>5 DEF LoopInv
    <2>5. CASE ~(closeTimeVotes[t] >= threshVote)
      <3>1. UNCHANGED <<chosen, threshVote, agreed>>
        BY <1>2, <2>5 DEF Visit
      <3>2. VoteTypeOK'
        BY <2>1, <3>1 DEF LoopInv, VoteTypeOK
      <3>3. closeTimeVotes[t] < threshVote
        BY <2>1, <2>5 DEF LoopInv, VoteTypeOK
      <3>4. closeTimeVotes[t] >= needed =>
              /\ chosen \in Visited
              /\ closeTimeVotes[chosen] = threshVote
              /\ closeTimeVotes[t] >= threshConsensus => agreed
        <4> SUFFICES ASSUME closeTimeVotes[t] >= needed
                     PROVE  /\ chosen \in Visited
                            /\ closeTimeVotes[chosen] = threshVote
                            /\ closeTimeVotes[t] >= threshConsensus => agreed
          OBVIOUS
        <4>1. threshVote # needed
          BY <2>1, <3>3 DEF LoopInv, VoteTypeOK
        <4>2. chosen \in Visited /\ closeTimeVotes[chosen] = threshVote
          BY <4>1 DEF LoopInv
        <4> QED
          BY <2>1, <3>3, <4>2 DEF LoopInv, VoteTypeOK
      <3> QED
        BY <2>1, <2>2, <2>3, <3>1, <3>2, <3>3, <3>4 DEF LoopInv, VoteTypeOK
    <2> QED
      BY <2>4, <2>5
  <1> QED
    BY <1>1, <1>2 DEF VoteNext

LEMMA LoopInvariant == VoteSpec => []LoopInv
  BY LoopInit, LoopNext, PTL DEF VoteSpec

(* Every variable of the loop keeps its type.                              *)
THEOREM LoopTypeCorrect == VoteSpec => []VoteTypeOK
  BY LoopInvariant, PTL DEF LoopInv

(* The consensus the loop of updateOurPositions notes is on the candidate  *)
(* it holds.                                                               *)
THEOREM LoopAgreesOnChosen == VoteSpec => []AgreedOnChosen
  <1>1. LoopInv => AgreedOnChosen
    BY DEF LoopInv, AgreedOnChosen, Visited
  <1> QED
    BY <1>1, LoopInvariant, PTL

(* The loop ends with the winner ConsensusRules defines.                   *)
THEOREM LoopIsCorrect == VoteSpec => []LoopFindsWinner
  <1>1. LoopInv => LoopFindsWinner
    <2> SUFFICES ASSUME LoopInv, left = {}
                 PROVE  /\ chosen = consensusCloseTime(closeTimeVotes, needed)
                        /\ agreed = haveCloseTimeConsensus(
                                       closeTimeVotes, needed, threshConsensus)
      BY DEF LoopFindsWinner
    <2> DEFINE strong == StrongTimes(closeTimeVotes, needed)
               winning == WinningTimes(closeTimeVotes, needed)
    <2>1. /\ strong = {t \in Visited : closeTimeVotes[t] >= needed}
          /\ \A t \in strong : t \in Nat /\ closeTimeVotes[t] \in Nat
      BY CloseTimeVoteAssumption DEF StrongTimes, Visited, LoopInv, VoteTypeOK
    <2>2. winning = {t \in strong : \A u \in strong :
                        \/ closeTimeVotes[u] < closeTimeVotes[t]
                        \/ closeTimeVotes[u] = closeTimeVotes[t] /\ u <= t}
      BY DEF WinningTimes
    <2>3. consensusCloseTime(closeTimeVotes, needed)
            = IF winning = {} THEN 0 ELSE CHOOSE t \in winning : TRUE
      BY DEF consensusCloseTime
    <2>4. haveCloseTimeConsensus(closeTimeVotes, needed, threshConsensus)
            = \E t \in strong : closeTimeVotes[t] >= threshConsensus
      BY DEF haveCloseTimeConsensus
    <2> HIDE DEF strong, winning
    <2>5. CASE strong = {}
      <3>1. winning = {}
        BY <2>2, <2>5
      <3>2. chosen = 0 /\ ~agreed
        BY <2>1, <2>5 DEF LoopInv, VoteTypeOK
      <3> QED
        BY <2>3, <2>4, <2>5, <3>1, <3>2 DEF LoopInv, VoteTypeOK
    <2>6. CASE strong # {}
      <3>1. chosen \in strong /\ closeTimeVotes[chosen] = threshVote
        BY <2>1, <2>6 DEF LoopInv, VoteTypeOK
      <3>2. \A u \in strong : \/ closeTimeVotes[u] < closeTimeVotes[chosen]
                              \/ /\ closeTimeVotes[u] = closeTimeVotes[chosen]
                                 /\ u <= chosen
        BY <2>1, <3>1 DEF LoopInv, VoteTypeOK
      <3>3. winning = {chosen}
        <4>1. chosen \in winning
          BY <2>2, <3>1, <3>2
        <4>2. \A t \in winning : t = chosen
          BY <2>1, <2>2, <3>1, <3>2
        <4> QED
          BY <4>1, <4>2
      <3>4. agreed <=> \E t \in strong : closeTimeVotes[t] >= threshConsensus
        BY <2>1, <3>1 DEF LoopInv
      <3> QED
        BY <2>3, <2>4, <3>3, <3>4 DEF LoopInv, VoteTypeOK
    <2> QED
      BY <2>5, <2>6
  <1> QED
    BY <1>1, LoopInvariant, PTL

-----------------------------------------------------------------------------
(* A disputed transaction.                                                 *)

(* x \div n exceeds w exactly when x has reached (w + 1) * n. *)
LEMMA DivExceeds ==
    ASSUME NEW x \in Nat, NEW n \in Nat \ {0}, NEW w \in {50, 65, 70, 95}
    PROVE  (x \div n > w) <=> (x >= (w + 1) * n)
  OBVIOUS

(* The avalanche threshold only rises with the time of the round. *)
LEMMA WeightRises ==
    ASSUME NEW p \in Nat, NEW q \in Nat, p <= q
    PROVE  /\ neededWeight(p) \in {50, 65, 70, 95}
           /\ neededWeight(p) <= neededWeight(q)
  BY DEF neededWeight, avMID_CONSENSUS_TIME, avLATE_CONSENSUS_TIME,
         avSTUCK_CONSENSUS_TIME, avINIT_CONSENSUS_PCT, avMID_CONSENSUS_PCT,
         avLATE_CONSENSUS_PCT, avSTUCK_CONSENSUS_PCT

(* The number of peers with vote v in the map f. *)
Count(f, v) == Cardinality({q \in Peers : f[q] = v})

(* How that number changes when one peer changes its vote. *)
LEMMA CountAfterChange ==
    ASSUME NEW f \in [Peers -> {"yes", "no", "none"}], NEW p \in Peers,
           NEW b \in {"yes", "no", "none"}, NEW v \in {"yes", "no"}
    PROVE  /\ Count(f, v) \in Nat
           /\ Count([f EXCEPT ![p] = b], v) \in Nat
           /\ Count([f EXCEPT ![p] = b], v)
                = IF f[p] = v
                    THEN IF b = v THEN Count(f, v) ELSE Count(f, v) - 1
                    ELSE IF b = v THEN Count(f, v) + 1 ELSE Count(f, v)
  <1> DEFINE S == {q \in Peers : f[q] = v}
             T == {q \in Peers : [f EXCEPT ![p] = b][q] = v}
  <1>1. /\ f[p] = v /\ b = v => T = S
        /\ f[p] = v /\ b # v => T = S \ {p}
        /\ f[p] # v /\ b = v => T = S \cup {p}
        /\ f[p] # v /\ b # v => T = S
        /\ p \in S <=> f[p] = v
    OBVIOUS
  <1>2. IsFiniteSet(S) /\ IsFiniteSet(T)
    BY DisputedTxAssumption, FS_Subset
  <1> HIDE DEF S, T
  <1>3. Cardinality(S) \in Nat /\ Cardinality(T) \in Nat
    BY <1>2, FS_CardinalityType
  <1>4. /\ Cardinality(S \ {p}) = IF p \in S THEN Cardinality(S) - 1
                                             ELSE Cardinality(S)
        /\ Cardinality(S \cup {p}) = IF p \in S THEN Cardinality(S)
                                                ELSE Cardinality(S) + 1
    BY <1>2, FS_AddElement, FS_RemoveElement
  <1>5. Cardinality(T) = IF f[p] = v
                           THEN IF b = v THEN Cardinality(S)
                                         ELSE Cardinality(S) - 1
                           ELSE IF b = v THEN Cardinality(S) + 1
                                         ELSE Cardinality(S)
    BY <1>1, <1>4
  <1> QED
    BY <1>3, <1>5 DEF S, T, Count

-----------------------------------------------------------------------------

(* What keeps a settled vote at no: our own vote would not have carried    *)
(* the transaction over the threshold in force when it was given up.       *)
SettledInv ==
    settled => /\ proposing
               /\ ~ourVote
               /\ yays * 100 + 100
                     < (neededWeight(percentTime) + 1) * (nays + yays + 1)

DisputeInv == TxTypeOK /\ TallyIsRight /\ SettledInv

LEMMA DisputeInit == TxInit => DisputeInv
  <1> SUFFICES ASSUME TxInit PROVE DisputeInv
    OBVIOUS
  <1>1. Voting("yes") = {} /\ Voting("no") = {}
    BY DEF TxInit, Voting
  <1>2. TallyIsRight
    BY <1>1, FS_EmptySet DEF TxInit, TallyIsRight
  <1> QED
    BY <1>2 DEF TxInit, DisputeInv, TxTypeOK, SettledInv

(* Storing vote b for peer p, with the counters adjusted as setVote and    *)
(* unVote do, keeps the counters right.                                    *)
LEMMA TallyStep ==
    ASSUME TxTypeOK, TallyIsRight, NEW p \in Peers,
           NEW b \in {"yes", "no", "none"},
           votes' = [votes EXCEPT ![p] = b],
           yays' = IF votes[p] = "yes"
                     THEN IF b = "yes" THEN yays ELSE yays - 1
                     ELSE IF b = "yes" THEN yays + 1 ELSE yays,
           nays' = IF votes[p] = "no"
                     THEN IF b = "no" THEN nays ELSE nays - 1
                     ELSE IF b = "no" THEN nays + 1 ELSE nays
    PROVE  /\ votes' \in [Peers -> {"yes", "no", "none"}]
           /\ yays' \in Nat /\ nays' \in Nat
           /\ TallyIsRight'
  <1>1. votes \in [Peers -> {"yes", "no", "none"}]
    BY DEF TxTypeOK
  <1> DEFINE Old(v) == Count(votes, v)
             New(v) == Count([votes EXCEPT ![p] = b], v)
  <1>2. yays = Old("yes") /\ nays = Old("no")
    BY DEF TallyIsRight, Voting, Count
  <1>3. /\ New("yes") \in Nat
        /\ New("yes") = IF votes[p] = "yes"
                          THEN IF b = "yes" THEN Old("yes")
                                            ELSE Old("yes") - 1
                          ELSE IF b = "yes" THEN Old("yes") + 1
                                            ELSE Old("yes")
    BY <1>1, CountAfterChange, ZenonT(30)
  <1>4. /\ New("no") \in Nat
        /\ New("no") = IF votes[p] = "no"
                         THEN IF b = "no" THEN Old("no") ELSE Old("no") - 1
                         ELSE IF b = "no" THEN Old("no") + 1 ELSE Old("no")
    BY <1>1, CountAfterChange, ZenonT(30)
  <1>5. /\ Cardinality(Voting("yes"))' = New("yes")
        /\ Cardinality(Voting("no"))' = New("no")
    BY DEF Voting, Count
  <1> HIDE DEF Old, New
  <1>6. yays' = New("yes") /\ nays' = New("no")
    BY <1>2, <1>3, <1>4
  <1> QED
    BY <1>1, <1>3, <1>4, <1>5, <1>6 DEF TallyIsRight

LEMMA SetVoteStep ==
    ASSUME DisputeInv, NEW p \in Peers, NEW y \in BOOLEAN, setVote(p, y)
    PROVE  DisputeInv'
  <1> DEFINE b == IF y THEN "yes" ELSE "no"
  <1>1. b \in {"yes", "no", "none"}
    OBVIOUS
  <1>2. /\ votes' = [votes EXCEPT ![p] = b]
        /\ yays' = IF votes[p] = "yes"
                     THEN IF b = "yes" THEN yays ELSE yays - 1
                     ELSE IF b = "yes" THEN yays + 1 ELSE yays
        /\ nays' = IF votes[p] = "no"
                     THEN IF b = "no" THEN nays ELSE nays - 1
                     ELSE IF b = "no" THEN nays + 1 ELSE nays
    BY DEF setVote, NewVote, ChangeToYes, ChangeToNo
  <1> HIDE DEF b
  <1>3. /\ votes' \in [Peers -> {"yes", "no", "none"}]
        /\ yays' \in Nat /\ nays' \in Nat
        /\ TallyIsRight'
    BY <1>1, <1>2, TallyStep DEF DisputeInv
  <1> QED
    BY <1>3 DEF DisputeInv, TxTypeOK, SettledInv, setVote

LEMMA UnVoteStep ==
    ASSUME DisputeInv, NEW p \in Peers, unVote(p)
    PROVE  DisputeInv'
  <1>1. /\ votes' = [votes EXCEPT ![p] = "none"]
        /\ yays' = IF votes[p] = "yes" THEN yays - 1 ELSE yays
        /\ nays' = IF votes[p] = "no" THEN nays - 1 ELSE nays
    BY DEF unVote
  <1>2. /\ votes' \in [Peers -> {"yes", "no", "none"}]
        /\ yays' \in Nat /\ nays' \in Nat
        /\ TallyIsRight'
    BY <1>1, TallyStep DEF DisputeInv
  <1> QED
    BY <1>2 DEF DisputeInv, TxTypeOK, SettledInv, unVote

LEMMA UpdateVoteStep ==
    ASSUME DisputeInv, NEW percent \in Percents, updateVote(percent)
    PROVE  DisputeInv'
  <1> DEFINE n == nays + yays + 1
             w == neededWeight(percentTime)
             x == neededWeight(percent)
  <1>1. /\ percent \in Nat /\ percentTime \in Nat /\ percentTime <= percent
        /\ yays \in Nat /\ nays \in Nat
        /\ percentTime' = percent
        /\ UNCHANGED <<votes, yays, nays, proposing>>
    BY DisputedTxAssumption DEF DisputeInv, TxTypeOK, updateVote
  <1>2. /\ n \in Nat \ {0}
        /\ w \in {50, 65, 70, 95} /\ x \in {50, 65, 70, 95} /\ w <= x
    BY <1>1, WeightRises
  <1>3. (w + 1) * n <= (x + 1) * n
    <2> HIDE DEF n, w, x
    <2> QED
      BY <1>2
  <1>4. ourVote' \in BOOLEAN /\ settled' \in BOOLEAN
    BY DEF updateVote, updatedVote, DisputeInv, TxTypeOK
  <1>5. TxTypeOK' /\ TallyIsRight'
    <2>1. TxTypeOK'
      BY <1>1, <1>4 DEF DisputeInv, TxTypeOK
    <2>2. TallyIsRight'
      BY <1>1 DEF DisputeInv, TallyIsRight, Voting
    <2> QED
      BY <2>1, <2>2
  <1>6. CASE settled
    <2>1. /\ proposing /\ ~ourVote
          /\ yays * 100 + 100 < (w + 1) * n
      BY <1>6 DEF DisputeInv, SettledInv
    <2>2. (yays * 100) \div n > x <=> yays * 100 >= (x + 1) * n
      <3> HIDE DEF n, w, x
      <3> QED
        BY <1>1, <1>2, DivExceeds
    <2>3. (x + 1) * n \in Nat /\ (w + 1) * n \in Nat
      <3> HIDE DEF n, w, x
      <3> QED
        BY <1>2
    <2>4. /\ yays * 100 + 100 < (x + 1) * n
          /\ ~((yays * 100) \div n > x)
      <3> HIDE DEF n, w, x
      <3> QED
        BY <1>1, <1>3, <2>1, <2>2, <2>3
    <2>5. ~ourVote'
      <3>1. ourVote' = updatedVote(FALSE, yays, nays, percent, TRUE)
        BY <2>1 DEF updateVote, DisputeInv, TxTypeOK
      <3>2. updatedVote(FALSE, yays, nays, percent, TRUE)
              <=> yays # 0 /\ (yays * 100 + 0) \div n > x
        BY DEF updatedVote
      <3>3. yays * 100 + 0 = yays * 100
        BY <1>1
      <3> QED
        BY <2>4, <3>1, <3>2, <3>3
    <2>6. SettledInv'
      BY <1>1, <2>1, <2>4, <2>5 DEF SettledInv
    <2> QED
      BY <1>5, <2>6 DEF DisputeInv
  <1>7. CASE ~settled /\ settled'
    <2>1. proposing /\ ourVote /\ ~ourVote'
      BY <1>7 DEF updateVote
    <2>2. ~((yays * 100 + 100) \div n > x)
      <3>1. ourVote' = updatedVote(TRUE, yays, nays, percent, TRUE)
        BY <2>1 DEF updateVote, DisputeInv, TxTypeOK
      <3>2. updatedVote(TRUE, yays, nays, percent, TRUE)
              <=> nays = 0 \/ (yays * 100 + 100) \div n > x
        BY DEF updatedVote
      <3> QED
        BY <2>1, <3>1, <3>2
    <2>3. yays * 100 + 100 < (x + 1) * n
      <3> HIDE DEF n, w, x
      <3>1. (x + 1) * n \in Nat
        BY <1>2
      <3> QED
        BY <1>1, <1>2, <2>2, <3>1, DivExceeds
    <2>4. SettledInv'
      BY <1>1, <2>1, <2>3 DEF SettledInv
    <2> QED
      BY <1>5, <2>4 DEF DisputeInv
  <1>8. CASE ~settled'
    BY <1>5, <1>8 DEF DisputeInv, SettledInv
  <1> QED
    BY <1>6, <1>7, <1>8

LEMMA DisputeNext == DisputeInv /\ [TxNext]_txVars => DisputeInv'
  <1> SUFFICES ASSUME DisputeInv, [TxNext]_txVars PROVE DisputeInv'
    OBVIOUS
  <1>1. CASE StopProposing
    BY <1>1 DEF StopProposing, DisputeInv, TxTypeOK, TallyIsRight, Voting,
                SettledInv
  <1>2. CASE UNCHANGED txVars
    BY <1>2 DEF txVars, DisputeInv, TxTypeOK, TallyIsRight, Voting, SettledInv
  <1> QED
    BY <1>1, <1>2, SetVoteStep, UnVoteStep, UpdateVoteStep DEF TxNext

LEMMA DisputeInvariant == TxSpec => []DisputeInv
  BY DisputeInit, DisputeNext, PTL DEF TxSpec

(* The fields of a DisputedTx keep their types; in particular the counters *)
(* yays_ and nays_ never go below zero.                                    *)
THEOREM DisputeTypeCorrect == TxSpec => []TxTypeOK
  BY DisputeInvariant, PTL DEF DisputeInv

(* yays_ and nays_ are the votes in the map after any sequence of setVote  *)
(* and unVote, for any number of peers.                                    *)
THEOREM DisputeTally == TxSpec => []TallyIsRight
  BY DisputeInvariant, PTL DEF DisputeInv

(* A transaction given up to the rising threshold stays given up until a   *)
(* peer changes its vote, for any number of peers and any timing of the    *)
(* calls of updateVote.                                                    *)
THEOREM DisputeSettles == TxSpec => []SettledStaysNo
  <1>1. DisputeInv => SettledStaysNo
    BY DEF DisputeInv, SettledInv, SettledStaysNo
  <1> QED
    BY <1>1, DisputeInvariant, PTL
=============================================================================
