--------------------------- MODULE CloseTimeVote ---------------------------
(***************************************************************************)
(* The loop of Consensus::updateOurPositions that picks the close time     *)
(* from the votes, step by step: the times are visited in ascending order, *)
(* a time with at least threshVote votes becomes the candidate and raises  *)
(* threshVote to its own votes, and consensus on the close time is noted   *)
(* along the way and never taken back.  ConsensusRules states the outcome  *)
(* without the loop; this module relates the two.                          *)
(***************************************************************************)
EXTENDS ConsensusRules

CONSTANTS
    Times,     (* rounded close times that may get votes                   *)
    MaxVotes   (* bound: votes for one time                                *)

ASSUME CloseTimeVoteAssumption == Times \subseteq Nat /\ MaxVotes \in Nat

VARIABLES
    closeTimeVotes,   (* the map from close time to votes                  *)
    needed,           (* threshVote before the loop                        *)
    threshConsensus,
    left,             (* times the loop has not visited                    *)
    threshVote,
    chosen,           (* consensusCloseTime                                *)
    agreed            (* haveCloseTimeConsensus_                           *)

voteVars == <<closeTimeVotes, needed, threshConsensus, left, threshVote,
          chosen, agreed>>

(* participantsNeeded never asks for less than one participant. *)
VoteInit ==
    /\ closeTimeVotes \in UNION {[S -> 1 .. MaxVotes] : S \in SUBSET Times}
    /\ needed \in 1 .. MaxVotes + 1
    /\ threshConsensus \in 1 .. MaxVotes + 1
    /\ left = DOMAIN closeTimeVotes
    /\ threshVote = needed
    /\ chosen = 0
    /\ agreed = FALSE

VisitKeepsThreshold(t) ==
    /\ t \in left
    /\ \A u \in left : t <= u
    /\ left' = left \ {t}
    /\ IF closeTimeVotes[t] >= threshVote
         THEN /\ chosen' = t
              /\ agreed' = (agreed \/ closeTimeVotes[t] >= threshConsensus)
         ELSE UNCHANGED <<chosen, agreed>>
    /\ UNCHANGED <<closeTimeVotes, needed, threshConsensus, threshVote>>

Visit(t) ==
    /\ t \in left
    /\ \A u \in left : t <= u
    /\ left' = left \ {t}
    /\ IF closeTimeVotes[t] >= threshVote
         THEN /\ chosen' = t
              /\ threshVote' = closeTimeVotes[t]
              /\ agreed' = (agreed \/ closeTimeVotes[t] >= threshConsensus)
         ELSE UNCHANGED <<chosen, threshVote, agreed>>
    /\ UNCHANGED <<closeTimeVotes, needed, threshConsensus>>

VoteNext == \E t \in Times : Visit(t)

VoteSpec == VoteInit /\ [][VoteNext]_voteVars

-----------------------------------------------------------------------------

(* Every variable has its type. *)
VoteTypeOK ==
    /\ DOMAIN closeTimeVotes \subseteq Times
    /\ closeTimeVotes \in [DOMAIN closeTimeVotes -> Nat]
    /\ needed \in Nat
    /\ threshConsensus \in Nat
    /\ left \subseteq DOMAIN closeTimeVotes
    /\ threshVote \in Nat
    /\ chosen \in Nat
    /\ agreed \in BOOLEAN

(* When the loop ends it has found what ConsensusRules says: the time with *)
(* the most votes, the latest of those, or none; and whether some time has *)
(* the votes for consensus.                                                *)
LoopFindsWinner ==
    left = {} =>
        /\ chosen = consensusCloseTime(closeTimeVotes, needed)
        /\ agreed = haveCloseTimeConsensus(
                        closeTimeVotes, needed, threshConsensus)

(* The consensus noted is on the candidate the loop holds, not on one it   *)
(* has replaced: agreed is never taken back, and yet the time the node     *)
(* accepts is one with the votes for consensus.                            *)
AgreedOnChosen ==
    agreed => /\ chosen \in DOMAIN closeTimeVotes
              /\ closeTimeVotes[chosen] >= threshConsensus

=============================================================================
