--------------------------- MODULE ConsensusRules ---------------------------
(***************************************************************************)
(* The decision rules of a consensus round, as functions of their inputs:  *)
(* when to close the open ledger, how we vote on a disputed transaction,   *)
(* which close time wins, and when there is consensus                      *)
(* (consensus/Consensus.cpp, Consensus.h, DisputedTx.h).  The              *)
(* percentages are the ones of ConsensusParms; its durations are constants *)
(* because "simulation code" and these models run with other values.       *)
(***************************************************************************)
EXTENDS Integers, FiniteSets

CONSTANTS
    ledgerIDLE_INTERVAL, ledgerMIN_CONSENSUS, ledgerMAX_CONSENSUS,
    ledgerMIN_CLOSE, avMIN_CONSENSUS_TIME, proposeFRESHNESS,
    proposeINTERVAL

ASSUME ParmsAssumption ==
    /\ ledgerIDLE_INTERVAL \in Nat
    /\ ledgerMIN_CONSENSUS \in Nat
    /\ ledgerMAX_CONSENSUS \in Nat
    /\ ledgerMIN_CLOSE \in Nat
    /\ avMIN_CONSENSUS_TIME \in Nat \ {0}
    /\ proposeFRESHNESS \in Nat
    /\ proposeINTERVAL \in Nat

minCONSENSUS_PCT == 80
avINIT_CONSENSUS_PCT == 50
avMID_CONSENSUS_TIME == 50
avMID_CONSENSUS_PCT == 65
avLATE_CONSENSUS_TIME == 85
avLATE_CONSENSUS_PCT == 70
avSTUCK_CONSENSUS_TIME == 200
avSTUCK_CONSENSUS_PCT == 95
avCT_CONSENSUS_PCT == 75

Max2(a, b) == IF a >= b THEN a ELSE b

(* Ten minutes, in ticks of ledgerGRANULARITY (one second) as the other    *)
(* durations: the limit past which timings are taken to be nonsense.       *)
CONSTANT TenMinutes

ASSUME TenMinutesAssumption == TenMinutes \in Nat

shouldCloseNeverIdle(anyTxs, prevProposers, closed, validated, prevRoundTime, sinceClose, openTime, idle) ==
    anyTxs /\ openTime >= ledgerMIN_CLOSE /\ openTime >= prevRoundTime \div 2

(* The alternatives are tried in order, as the early returns of the code:  *)
(* nonsense timings, the others have closed, idle, open too briefly.       *)
shouldCloseLedger(anyTxs, prevProposers, closed, validated, prevRoundTime, sinceClose, openTime, idle) ==
    \/ prevRoundTime < -1
    \/ prevRoundTime > TenMinutes
    \/ sinceClose > TenMinutes
    \/ closed + validated > prevProposers \div 2
    \/ ~anyTxs /\ sinceClose >= idle
    \/ /\ anyTxs
       /\ openTime >= ledgerMIN_CLOSE
       /\ openTime >= prevRoundTime \div 2

checkReachedSelfUncounted(agreeing, total, count_self) ==
    \/ total = 0
    \/ LET self == IF count_self THEN 1 ELSE 0
       IN  ((agreeing + self) * 100) \div total >= minCONSENSUS_PCT

checkConsensusReached(agreeing, total, count_self) ==
    \/ total = 0
    \/ LET self == IF count_self THEN 1 ELSE 0
       IN  ((agreeing + self) * 100) \div (total + self) >= minCONSENSUS_PCT

checkConsensus(prevProposers, proposers, agree, finished, prevTime, time, proposing) ==
    CASE \/ time <= ledgerMIN_CONSENSUS
         \/ /\ proposers < (prevProposers * 3) \div 4
            /\ time < prevTime + ledgerMIN_CONSENSUS
            -> "No"
      [] OTHER
            -> IF checkConsensusReached(agree, proposers, proposing)
                 THEN "Yes"
                 ELSE IF checkConsensusReached(finished, proposers, FALSE)
                        THEN "MovedOn"
                        ELSE "No"

(* How far the round has run, in percent of the time the previous one took *)
convergePercent(roundTime, prevRoundTime) ==
    (roundTime * 100) \div Max2(prevRoundTime, avMIN_CONSENSUS_TIME)

(* The avalanche threshold at a point of the round. *)
neededWeight(percentTime) ==
    IF percentTime < avMID_CONSENSUS_TIME THEN avINIT_CONSENSUS_PCT
    ELSE IF percentTime < avLATE_CONSENSUS_TIME THEN avMID_CONSENSUS_PCT
    ELSE IF percentTime < avSTUCK_CONSENSUS_TIME THEN avLATE_CONSENSUS_PCT
    ELSE avSTUCK_CONSENSUS_PCT

updatedVoteSelfSwapped(ourVote, yays, nays, percentTime, proposing) ==
    \/ ourVote /\ nays = 0
    \/ /\ IF ourVote THEN nays # 0 ELSE yays # 0
       /\ \/ /\ proposing
             /\ (yays * 100 + (IF ourVote THEN 0 ELSE 100))
                    \div (nays + yays + 1) > neededWeight(percentTime)
          \/ ~proposing /\ yays > nays

(* Our vote on a disputed transaction after DisputedTx::updateVote, from   *)
(* our vote before it and the number of peers for and against.             *)
updatedVote(ourVote, yays, nays, percentTime, proposing) ==
    \/ ourVote /\ nays = 0
    \/ /\ IF ourVote THEN nays # 0 ELSE yays # 0
       /\ \/ /\ proposing
             /\ (yays * 100 + (IF ourVote THEN 100 ELSE 0))
                    \div (nays + yays + 1) > neededWeight(percentTime)
          \/ ~proposing /\ yays > nays

participantsNeeded(participants, percent) ==
    LET result == (participants * percent + percent \div 2) \div 100
    IN  IF result = 0 THEN 1 ELSE result

(* The close time the votes choose, and whether it has consensus.  votes   *)
(* maps each time voted for to its number of votes; the loop over them in  *)
(* ascending order keeps the last time that has at least threshVote votes  *)
(* and at least as many as the ones kept before it.  Time 0 stands for     *)
(* "no time".                                                              *)
StrongTimes(votes, threshVote) ==
    {t \in DOMAIN votes : votes[t] >= threshVote}

LatestTimes(votes, threshVote) ==
    {t \in StrongTimes(votes, threshVote) :
        \A u \in StrongTimes(votes, threshVote) : u <= t}

WinningTimes(votes, threshVote) ==
    {t \in StrongTimes(votes, threshVote) :
        \A u \in StrongTimes(votes, threshVote) :
            \/ votes[u] < votes[t]
            \/ votes[u] = votes[t] /\ u <= t}

consensusCloseTime(votes, threshVote) ==
    IF WinningTimes(votes, threshVote) = {}
      THEN 0
      ELSE CHOOSE t \in WinningTimes(votes, threshVote) : TRUE

haveCloseTimeConsensus(votes, threshVote, threshConsensus) ==
    \E t \in StrongTimes(votes, threshVote) : votes[t] >= threshConsensus

=============================================================================
