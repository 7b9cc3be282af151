------------------------------ MODULE MCRules -------------------------------
(***************************************************************************)
(* What is decided by arithmetic, for TLC: the close times of a chain of   *)
(* ledgers, the loop that picks a close time from the votes, one disputed  *)
(* transaction, the metrics of the transaction queue, and the load fee.    *)
(* In one behaviour one of them moves.                                     *)
(*                                                                         *)
(* The close times lie on both sides of the bin borders of every           *)
(* resolution, some of them before the parent's close time, and there are  *)
(* enough ledgers for two passes through the every-eighth-ledger rule.     *)
(* Every distribution of up to four votes over up to four times occurs, 0  *)
(* ("no time") among them.  Five peers are enough for every threshold to   *)
(* separate two tallies.  Ledgers hold up to ten transactions, and the     *)
(* normal fee is 16 with a limit six times as high.                        *)
(***************************************************************************)
EXTENDS LedgerCloseTime, CloseTimeVote, DisputedTx, TLC

CONSTANT NoMaximum

VARIABLES part,
          txnsExpected_, recentTxnCounts_, escalationMultiplier_, closed, slowly,
          localTxnLoadFee_, remoteTxnLoadFee_, clusterTxnLoadFee_, raiseCount_, overloaded,
          stopped

metricsVars == <<txnsExpected_, recentTxnCounts_, escalationMultiplier_, closed, slowly>>
loadVars == <<localTxnLoadFee_, remoteTxnLoadFee_, clusterTxnLoadFee_, raiseCount_, overloaded,
              stopped>>
allVars == <<vars, voteVars, txVars, metricsVars, loadVars, part>>

Metrics == INSTANCE FeeMetrics
            WITH minimumTxnInLedger <- 2, targetTxnInLedger <- 3, maximumTxnInLedger <- 10,
                 ledgersInQueue <- 2, normalConsensusIncreasePercent <- 20,
                 slowConsensusDecreasePercent <- 50, minimumEscalationMultiplier <- 280,
                 baseLevel <- 256, Levels <- {256, 900}, MaxSize <- 10, MaxCurrent <- 10,
                 UInt64Max <- 10000
Load == INSTANCE LoadFeeTrack
            WITH lftNormalFee <- 16, lftFeeIncFraction <- 4, lftFeeDecFraction <- 4,
                 lftFeeMax <- 96, RemoteFees <- {16, 18, 40},
                 Amounts <- {1, 2, 3, 7, 10, 24, 48, 99}, units <- 2, UInt64Max <- 2000

ASSUME Metrics!FeeMetricsAssumption /\ Load!FeeAssumption

MCCloseTimes == {1, 4, 5, 14, 15, 29, 30, 44, 45, 59, 60, 100, 134, 135}
MCTimes == {0, 10, 20, 30}

PeerSymmetry == Permutations(Peers)

(* What does not move stays at one of its initial states. *)
NoVotes ==
    /\ closeTimeVotes = <<>> /\ needed = 1 /\ threshConsensus = 1
    /\ left = {} /\ threshVote = 1 /\ chosen = 0 /\ agreed = FALSE
NoDispute ==
    /\ votes = [p \in Peers |-> "none"] /\ yays = 0 /\ nays = 0
    /\ ourVote = FALSE /\ proposing = FALSE /\ percentTime = 0 /\ settled = FALSE
NoChain == ledger = FirstLedger(1) /\ streak = 0

RulesInit ==
    /\ Metrics!Init /\ Load!Init
    /\ \/ part = "chain" /\ Init /\ NoVotes /\ NoDispute
       \/ part = "vote" /\ VoteInit /\ NoChain /\ NoDispute
       \/ part = "dispute" /\ TxInit /\ NoChain /\ NoVotes
       \/ part \in {"metrics", "load"} /\ NoChain /\ NoVotes /\ NoDispute

RulesNext ==
    /\ part' = part
    /\ \/ /\ \/ part = "chain" /\ Next /\ UNCHANGED <<voteVars, txVars>>
             \/ part = "vote" /\ VoteNext /\ UNCHANGED <<vars, txVars>>
             \/ part = "dispute" /\ TxNext /\ UNCHANGED <<vars, voteVars>>
          /\ UNCHANGED <<metricsVars, loadVars>>
       \/ /\ \/ part = "metrics" /\ Metrics!Next /\ UNCHANGED loadVars
             \/ part = "load" /\ Load!Next /\ UNCHANGED metricsVars
          /\ UNCHANGED <<vars, voteVars, txVars>>

RulesSpec == RulesInit /\ [][RulesNext]_allVars

-----------------------------------------------------------------------------
(* The property of the fees, stated in FeeMetrics and LoadFeeTrack.        *)

\* The fee arithmetic is exact: the expected size stays within its limits, the
\* multiplier is the median of the last ledger, clearing a queue costs the sum of
\* what its transactions would have cost (TxQ.cpp), a scaled fee is the exact
\* quotient unless it does not fit, and a privileged user pays no more than
\* others and at least the network's fee (LoadFeeTrack.cpp).
FeesExact ==
    /\ part = "metrics" =>
          Metrics!ExpectedInLimits /\ Metrics!MultiplierIsMedian /\ Metrics!SeriesIsSum
    /\ part = "load" => Load!ScaledFeeExact /\ Load!UnlimitedPaysFair
=============================================================================
