----------------------------- MODULE DisputedTx -----------------------------
(***************************************************************************)
(* One disputed transaction: class DisputedTx of consensus/DisputedTx.h.   *)
(* It keeps the peers' votes in a map and, beside it, the two counters     *)
(* yays_ and nays_ that updateVote reads instead of the map.  The dispute  *)
(* lives inside one round: the percentage updateVote is given only grows,  *)
(* and a node that stops proposing does not start again.                   *)
(*                                                                         *)
(* settled is a history variable: since the last change of a peer's vote,  *)
(* the rising threshold has turned our vote from yes to no.                *)
(***************************************************************************)
EXTENDS ConsensusRules

CONSTANTS
    Peers,       (* nodes that may vote                                    *)
    Percents     (* the percentages of the previous round's time, in       *)
                 (* convergePercent_                                       *)

ASSUME DisputedTxAssumption == IsFiniteSet(Peers) /\ Percents \subseteq Nat

VARIABLES votes, yays, nays, ourVote, proposing, percentTime, settled

txVars == <<votes, yays, nays, ourVote, proposing, percentTime, settled>>

TxInit ==
    /\ votes = [p \in Peers |-> "none"]
    /\ yays = 0
    /\ nays = 0
    /\ ourVote \in BOOLEAN
    /\ proposing \in BOOLEAN
    /\ percentTime = 0
    /\ settled = FALSE

(* A vote of a peer that has none yet. *)
NewVote(peer, votesYes) ==
    /\ votes[peer] = "none"
    /\ votes' = [votes EXCEPT ![peer] = IF votesYes THEN "yes" ELSE "no"]
    /\ yays' = IF votesYes THEN yays + 1 ELSE yays
    /\ nays' = IF votesYes THEN nays ELSE nays + 1

ChangeToYesKeepsNay(peer) ==
    /\ votes[peer] = "no"
    /\ votes' = [votes EXCEPT ![peer] = "yes"]
    /\ nays' = nays
    /\ yays' = yays + 1

ChangeToYes(peer) ==
    /\ votes[peer] = "no"
    /\ votes' = [votes EXCEPT ![peer] = "yes"]
    /\ nays' = nays - 1
    /\ yays' = yays + 1

ChangeToNo(peer) ==
    /\ votes[peer] = "yes"
    /\ votes' = [votes EXCEPT ![peer] = "no"]
    /\ nays' = nays + 1
    /\ yays' = yays - 1

setVote(peer, votesYes) ==
    /\ \/ NewVote(peer, votesYes)
       \/ votesYes /\ ChangeToYes(peer)
       \/ ~votesYes /\ ChangeToNo(peer)
    /\ settled' = FALSE
    /\ UNCHANGED <<ourVote, proposing, percentTime>>

unVote(peer) ==
    /\ votes[peer] # "none"
    /\ yays' = IF votes[peer] = "yes" THEN yays - 1 ELSE yays
    /\ nays' = IF votes[peer] = "no" THEN nays - 1 ELSE nays
    /\ votes' = [votes EXCEPT ![peer] = "none"]
    /\ settled' = FALSE
    /\ UNCHANGED <<ourVote, proposing, percentTime>>

(* updatedVote is DisputedTx::updateVote, in ConsensusRules. *)
updateVote(percent) ==
    /\ percent >= percentTime
    /\ percentTime' = percent
    /\ ourVote' = updatedVote(ourVote, yays, nays, percent, proposing)
    /\ settled' = (settled \/ (proposing /\ ourVote /\ ~ourVote'))
    /\ UNCHANGED <<votes, yays, nays, proposing>>

(* The node stops proposing (Consensus::leaveConsensus). *)
StopProposing ==
    /\ proposing
    /\ proposing' = FALSE
    /\ settled' = FALSE
    /\ UNCHANGED <<votes, yays, nays, ourVote, percentTime>>

TxNext ==
    \/ \E peer \in Peers, votesYes \in BOOLEAN : setVote(peer, votesYes)
    \/ \E peer \in Peers : unVote(peer)
    \/ \E percent \in Percents : updateVote(percent)
    \/ StopProposing

TxSpec == TxInit /\ [][TxNext]_txVars

-----------------------------------------------------------------------------

Voting(v) == {p \in Peers : votes[p] = v}

(* Every variable has its type; the counters are never negative.           *)
TxTypeOK ==
    /\ votes \in [Peers -> {"yes", "no", "none"}]
    /\ yays \in Nat
    /\ nays \in Nat
    /\ ourVote \in BOOLEAN
    /\ proposing \in BOOLEAN
    /\ percentTime \in Nat
    /\ settled \in BOOLEAN

(* yays_ and nays_ stay the number of yes and no votes in the map through  *)
(* new votes, changed votes and removed votes, so updateVote may use them  *)
(* for the votes.                                                          *)
TallyIsRight ==
    /\ yays = Cardinality(Voting("yes"))
    /\ nays = Cardinality(Voting("no"))

(* "To prevent avalanche stalls, we increase the needed weight slightly    *)
(* over time": once the rising threshold has made a proposing node give up *)
(* a transaction, the node does not take it back until some peer changes   *)
(* its vote, although its own vote no longer counts for it and each later  *)
(* update uses another threshold.                                          *)
SettledStaysNo == settled => ~ourVote

=============================================================================
