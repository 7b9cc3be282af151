----------------------------- MODULE Consensus -----------------------------
(***************************************************************************)
(* One node's generic consensus round: class Consensus<Adaptor> of         *)
(* consensus/Consensus.h, with the rules of ConsensusRules and the close-  *)
(* time arithmetic of LedgerTiming.                                        *)
(*                                                                         *)
(* Everything outside the class is the environment and is free: the        *)
(* proposals peers send and their order, when a transaction set or a       *)
(* ledger can be acquired, which prior ledger the network prefers, what    *)
(* our open ledger holds, and when the timer fires.                        *)
(*                                                                         *)
(* A transaction set is a set of transactions and is its own hash.  The    *)
(* handlers run one at a time under RCLConsensus::mutex_; a handler that   *)
(* replays stored proposals or re-enters timerEntry is a sequence of steps *)
(* here, and pc, todo, after and depth are its call stack: no other        *)
(* handler starts until pc is "idle" again.                                *)
(***************************************************************************)
EXTENDS ConsensusRules, LedgerTiming, Sequences

CONSTANTS
    Peers,               (* trusted validators other than this node        *)
    Txs,                 (* transactions                                   *)
    TxSets,              (* sets of transactions that occur as positions   *)
    Ledgers,             (* ledger ids                                     *)
    LedgerInfo,          (* the header of each ledger                      *)
    CloseTimes,          (* close times in peers' proposals                *)
    ProposeSeqs,         (* sequence numbers in peers' proposals           *)
    seqLeave,            (* the sequence number that says "bowing out"     *)
    NoProposal,          (* no current position for a peer                 *)
    MaxRecent,           (* proposals kept per peer: 10 in the code        *)
    useRoundedCloseTime, (* ConsensusParms::useRoundedCloseTime            *)
    standalone,          (* the server runs without a network              *)
    StartTime,           (* the clock when the server starts               *)
    MaxClock,            (* bound: the clock stops here                    *)
    LastReceipt,         (* bound: no proposal arrives after this time     *)
    MaxProposals,        (* bound: proposals received                      *)
    MaxRounds,           (* bound: calls of startRound                     *)
    MaxDepth             (* bound: activations of timerEntry on the stack  *)

Headers ==
    [seq : Nat, closeTime : Nat, parentCloseTime : Nat,
     closeTimeResolution : Nat \ {0}, closeAgree : BOOLEAN]

Proposals ==
    [nodeID : Peers, prevLedger : Ledgers,
     proposeSeq : ProposeSeqs \cup {seqLeave}, position : TxSets,
     closeTime : CloseTimes, time : Nat]

ASSUME ConsensusAssumption ==
    /\ IsFiniteSet(Peers)
    /\ TxSets \subseteq SUBSET Txs
    /\ LedgerInfo \in [Ledgers -> Headers]
    /\ CloseTimes \subseteq Nat
    /\ ProposeSeqs \subseteq Nat
    /\ seqLeave \in Nat \ ProposeSeqs
    /\ seqLeave > 0
    /\ NoProposal \notin Proposals
    /\ MaxRecent \in Nat \ {0}
    /\ useRoundedCloseTime \in BOOLEAN
    /\ standalone \in BOOLEAN
    /\ StartTime \in Nat
    /\ MaxClock \in Nat
    /\ LastReceipt \in Nat
    /\ MaxProposals \in Nat
    /\ MaxRounds \in Nat
    /\ MaxDepth \in Nat \ {0}

VARIABLES
    (* the round *)
    phase, mode, prevLedgerID, previousLedger, firstRound,
    prevProposers, prevRoundTime, prevCloseTime, openStart,
    (* result_: seated, and what it holds when it is *)
    seated, txns, position, disputes, ourVote, votes, compares, roundStart,
    state,
    (* peers *)
    currPeerPositions, recentPeerPositions, deadNodes, acquired,
    rawPeers, rawSelf,
    (* environment and history *)
    clock, heartbeat, rounds, received, sent,
    (* call stack of the running handler *)
    pc, after, todo, depth

roundVars == <<phase, mode, prevLedgerID, previousLedger, firstRound,
               prevProposers, prevRoundTime, prevCloseTime, openStart>>

disputeVars == <<disputes, ourVote, votes, compares>>

resultVars == <<seated, txns, position, roundStart, state>>

peerVars == <<currPeerPositions, deadNodes, acquired, rawPeers, rawSelf>>

envVars == <<clock, heartbeat, rounds, received>>

stackVars == <<pc, after, todo, depth>>

vars == <<roundVars, disputeVars, resultVars, peerVars,
          recentPeerPositions, envVars, sent, stackVars>>

Modes == {"proposing", "observing", "wrongLedger", "switchedLedger"}

Phases == {"open", "establish", "accepted"}

-----------------------------------------------------------------------------
(* Our position and the disputes *)

NoPosition ==
    [position |-> {}, proposeSeq |-> 0, closeTime |-> 0, time |-> 0]

NoTimes == [t \in CloseTimes |-> 0]

NoVotes == [t \in Txs |-> [p \in Peers |-> "none"]]

Difference(s, o) == (s \ o) \cup (o \ s)

Vote(tx, set) == IF tx \in set THEN "yes" ELSE "no"

AvailableVoteForgotten(tx, pos, have) == "none"

(* createDisputes asks every current position whose set we have. *)
AvailableVote(tx, pos, have) ==
    IF pos # NoProposal /\ pos.position \in have
      THEN Vote(tx, pos.position)
      ELSE "none"

Holding(curr, set) ==
    {p \in Peers : curr[p] # NoProposal /\ curr[p].position = set}

Current(curr) == {p \in Peers : curr[p] # NoProposal}

NewDisputesOfOurs(o) == IF o \in compares THEN {} ELSE (txns \ o) \ disputes

(* Transactions createDisputes(o) finds and that are not in dispute yet. *)
NewDisputes(o) ==
    IF o \in compares \/ o = txns
      THEN {}
      ELSE Difference(txns, o) \ disputes

(* updateDisputes(p, o) for every peer p of who: compare with o unless     *)
(* that was done before, then record these peers' votes.  curr and have    *)
(* are currPeerPositions_ and acquired_ at the time of the call.           *)
UpdateDisputes(who, o, curr, have) ==
    LET new == IF who = {} THEN {} ELSE NewDisputes(o)
    IN  /\ compares' = IF who = {} THEN compares ELSE compares \cup {o}
        /\ disputes' = disputes \cup new
        /\ ourVote' = [t \in Txs |->
                          IF t \in new THEN t \in txns ELSE ourVote[t]]
        /\ votes' = [t \in Txs |-> [p \in Peers |->
              IF p \in who /\ t \in disputes \cup new THEN Vote(t, o)
              ELSE IF t \in new THEN AvailableVote(t, curr[p], have)
              ELSE votes[t][p]]]

-----------------------------------------------------------------------------
(* Peers' proposals and transaction sets *)

(* gotTxSet(set) with our round not accepted yet and the set new to it. *)
AcquireTxSet(set, curr) ==
    /\ acquired' = acquired \cup {set}
    /\ IF seated
         THEN UpdateDisputes(
                  Holding(curr, set), set, curr, acquired \cup {set})
         ELSE UNCHANGED disputeVars

IgnoredUnlessDead(prop) ==
    LET held == currPeerPositions[prop.nodeID]
    IN  \/ phase = "accepted"
        \/ prop.prevLedger # prevLedgerID
        \/ held # NoProposal /\ prop.proposeSeq <= held.proposeSeq

IgnoredUnlessAccepted(prop) ==
    LET held == currPeerPositions[prop.nodeID]
    IN  \/ prop.prevLedger # prevLedgerID
        \/ prop.nodeID \in deadNodes
        \/ held # NoProposal /\ prop.proposeSeq <= held.proposeSeq

(* The three early returns of peerProposalInternal. *)
Ignored(prop) ==
    LET held == currPeerPositions[prop.nodeID]
    IN  \/ phase = "accepted"
        \/ prop.prevLedger # prevLedgerID
        \/ prop.nodeID \in deadNodes
        \/ held # NoProposal /\ prop.proposeSeq <= held.proposeSeq

IgnoreProposal(prop) ==
    /\ Ignored(prop)
    /\ UNCHANGED <<peerVars, disputeVars>>

PeerBowsOut(prop) ==
    /\ ~Ignored(prop)
    /\ prop.proposeSeq = seqLeave
    /\ currPeerPositions' =
         [currPeerPositions EXCEPT ![prop.nodeID] = NoProposal]
    /\ deadNodes' = deadNodes \cup {prop.nodeID}
    /\ votes' = [t \in Txs |-> [votes[t] EXCEPT ![prop.nodeID] = "none"]]
    /\ UNCHANGED <<acquired, rawPeers, rawSelf, disputes, ourVote, compares>>

PeerTakesPosition(prop) ==
    LET curr == [currPeerPositions EXCEPT ![prop.nodeID] = prop]
    IN  /\ ~Ignored(prop)
        /\ prop.proposeSeq # seqLeave
        /\ currPeerPositions' = curr
        /\ rawPeers' = IF prop.proposeSeq = 0
                         THEN [rawPeers EXCEPT ![prop.closeTime] = @ + 1]
                         ELSE rawPeers
        /\ \/ /\ prop.position \in acquired
              /\ acquired' = acquired
              /\ IF seated
                   THEN UpdateDisputes(
                            {prop.nodeID}, prop.position, curr, acquired)
                   ELSE UNCHANGED disputeVars
           \/ /\ prop.position \notin acquired
              /\ AcquireTxSet(prop.position, curr)
           \/ (* not at hand: it is asked for and gotTxSet may follow *)
              /\ prop.position \notin acquired
              /\ UNCHANGED <<acquired, disputeVars>>
        /\ UNCHANGED <<deadNodes, rawSelf>>

peerProposalInternal(prop) ==
    \/ IgnoreProposal(prop)
    \/ PeerBowsOut(prop)
    \/ PeerTakesPosition(prop)

(* The last MaxRecent proposals of a peer. *)
Remember(props, prop) ==
    Append(IF Len(props) >= MaxRecent THEN Tail(props) ELSE props, prop)

PeerProposal(prop) ==
    /\ pc = "idle"
    /\ received < MaxProposals
    /\ clock <= LastReceipt
    /\ prop.time = clock
    /\ recentPeerPositions' =
         [recentPeerPositions EXCEPT
            ![prop.nodeID] = Remember(@, prop)]
    /\ received' = received + 1
    /\ peerProposalInternal(prop)
    /\ UNCHANGED <<roundVars, resultVars, clock, heartbeat, rounds, sent,
                   stackVars>>

GotTxSet(set) ==
    /\ pc = "idle"
    /\ phase # "accepted"
    /\ set \notin acquired
    /\ AcquireTxSet(set, currPeerPositions)
    /\ UNCHANGED <<roundVars, resultVars, currPeerPositions, deadNodes,
                   rawPeers, rawSelf, recentPeerPositions, envVars, sent,
                   stackVars>>

-----------------------------------------------------------------------------
(* Starting a round *)

(* result_.reset(): no position of ours, hence no disputes. *)
resetResult ==
    /\ seated' = FALSE
    /\ txns' = {}
    /\ position' = NoPosition
    /\ disputes' = {}
    /\ ourVote' = [t \in Txs |-> FALSE]
    /\ votes' = NoVotes
    /\ compares' = {}
    /\ roundStart' = 0
    /\ state' = "No"

(* startRoundInternal up to the replay of the stored proposals. *)
startRoundInternal(id, lgr, startMode) ==
    /\ phase' = "open"
    /\ mode' = startMode
    /\ prevLedgerID' = id
    /\ previousLedger' = lgr
    /\ resetResult
    /\ openStart' = clock
    /\ currPeerPositions' = [p \in Peers |-> NoProposal]
    /\ acquired' = {}
    /\ rawPeers' = NoTimes
    /\ rawSelf' = 0
    /\ deadNodes' = {}
    /\ pc' = "playback"
    /\ after' = "started"
    /\ todo' = recentPeerPositions'

(* Called for the next round once the last one is accepted; a standalone   *)
(* server calls it for every ledger it is asked to close.                  *)
StartRound(id, lgr, nowUntrusted, proposing) ==
    /\ pc = "idle"
    /\ phase = "accepted" \/ standalone
    /\ rounds < MaxRounds
    /\ rounds' = rounds + 1
    /\ firstRound' = FALSE
    /\ prevRoundTime' = IF firstRound THEN ledgerIDLE_INTERVAL
                                      ELSE prevRoundTime
    /\ prevCloseTime' = IF firstRound THEN LedgerInfo[lgr].closeTime
                                      ELSE rawSelf
    /\ recentPeerPositions' =
         [p \in Peers |-> IF p \in nowUntrusted
                            THEN <<>> ELSE recentPeerPositions[p]]
    /\ LET startMode == IF proposing THEN "proposing" ELSE "observing"
       IN  \/ lgr = id /\ startRoundInternal(id, lgr, startMode)
           \/ lgr # id /\ startRoundInternal(id, id, startMode)
           \/ lgr # id /\ startRoundInternal(id, lgr, "wrongLedger")
    /\ sent' = <<>>
    /\ UNCHANGED <<prevProposers, clock, heartbeat, received, depth>>

(* One step of playbackProposals.  The map of peers is walked in an order  *)
(* of its own, each peer's proposals oldest first.                         *)
Playback(p) ==
    /\ pc = "playback"
    /\ todo[p] # <<>>
    /\ \A q \in Peers \ {p} : todo[q] \in {<<>>, recentPeerPositions[q]}
    /\ peerProposalInternal(Head(todo[p]))
    /\ todo' = [todo EXCEPT ![p] = Tail(@)]
    /\ UNCHANGED <<roundVars, resultVars, recentPeerPositions, envVars,
                   sent, pc, after, depth>>

PlaybackDone ==
    /\ pc = "playback"
    /\ \A p \in Peers : todo[p] = <<>>
    /\ pc' = after
    /\ UNCHANGED <<roundVars, disputeVars, resultVars, peerVars,
                   recentPeerPositions, envVars, sent, after, todo, depth>>

StartedReturnsToTimer ==
    /\ pc = "started"
    /\ pc' = "phase"
    /\ UNCHANGED <<roundVars, disputeVars, resultVars, peerVars,
                   recentPeerPositions, envVars, sent, after, todo, depth>>

(* The end of startRoundInternal: enter timerEntry at once if more than    *)
(* half of the last round's proposers already have a position, else return *)
(* to the caller.                                                          *)
Started ==
    /\ pc = "started"
    /\ IF Cardinality(Current(currPeerPositions)) > prevProposers \div 2
         THEN /\ pc' = "check"
              /\ depth' = depth + 1
         ELSE /\ pc' = IF depth = 0 THEN "idle" ELSE "phase"
              /\ depth' = depth
    /\ UNCHANGED <<roundVars, disputeVars, resultVars, peerVars,
                   recentPeerPositions, envVars, sent, after, todo>>

-----------------------------------------------------------------------------
(* timerEntry: check the prior ledger, then run the phase *)

(* Called by the heartbeat, whose timer is set for ledgerGRANULARITY, the  *)
(* unit of the clock; a standalone server has none.                        *)
TimerEntry ==
    /\ pc = "idle"
    /\ ~standalone
    /\ phase # "accepted"
    /\ heartbeat < clock
    /\ heartbeat' = clock
    /\ pc' = "check"
    /\ depth' = 1
    /\ UNCHANGED <<roundVars, disputeVars, resultVars, peerVars,
                   recentPeerPositions, clock, rounds, received, sent, after,
                   todo>>

(* checkLedger when the network prefers the ledger we work on. *)
LedgerIsRight(netLgr) ==
    /\ pc = "check"
    /\ netLgr = prevLedgerID
    /\ previousLedger = prevLedgerID
    /\ pc' = "phase"
    /\ UNCHANGED <<roundVars, disputeVars, resultVars, peerVars,
                   recentPeerPositions, envVars, sent, after, todo, depth>>

leaveConsensus ==
    LET proposing == mode = "proposing"
        bowing == proposing /\ seated /\ position.proposeSeq # seqLeave
    IN  /\ mode' = IF proposing THEN "observing" ELSE mode
        /\ position' = IF bowing
                         THEN [position EXCEPT !.proposeSeq = seqLeave,
                                               !.time = clock]
                         ELSE position
        /\ sent' = IF bowing THEN Append(sent, seqLeave) ELSE sent

(* The half of handleWrongLedger before it tries to switch ledgers. *)
handleWrongLedger(netLgr) ==
    /\ pc = "check"
    /\ netLgr # prevLedgerID \/ previousLedger # netLgr
    /\ leaveConsensus
    /\ prevLedgerID' = netLgr
    /\ IF netLgr # prevLedgerID
         THEN /\ disputes' = {}
              /\ compares' = {}
              /\ ourVote' = [t \in Txs |-> FALSE]
              /\ votes' = NoVotes
              /\ currPeerPositions' = [p \in Peers |-> NoProposal]
              /\ rawPeers' = NoTimes
              /\ deadNodes' = {}
              /\ todo' = recentPeerPositions
              /\ pc' = "playback"
              /\ after' = "switch"
         ELSE /\ pc' = "switch"
              /\ UNCHANGED <<disputeVars, currPeerPositions, rawPeers,
                             deadNodes, todo, after>>
    /\ UNCHANGED <<phase, previousLedger, firstRound, prevProposers,
                   prevRoundTime, prevCloseTime, openStart, seated, txns,
                   roundStart, state, acquired, rawSelf,
                   recentPeerPositions, envVars, depth>>

(* The rest of handleWrongLedger: there is nothing to switch, the ledger   *)
(* is acquired, or it is not at hand yet.                                  *)
NothingToSwitch ==
    /\ previousLedger = prevLedgerID
    /\ pc' = "phase"
    /\ UNCHANGED <<roundVars, disputeVars, resultVars, peerVars, after, todo>>

LedgerAcquired ==
    /\ previousLedger # prevLedgerID
    /\ startRoundInternal(prevLedgerID, prevLedgerID, "switchedLedger")
    /\ UNCHANGED <<firstRound, prevProposers, prevRoundTime, prevCloseTime>>

NotAcquiredModeKept ==
    /\ previousLedger # prevLedgerID
    /\ pc' = "phase"
    /\ UNCHANGED <<roundVars, disputeVars, resultVars, peerVars, after, todo>>

LedgerNotAcquired ==
    /\ previousLedger # prevLedgerID
    /\ mode' = "wrongLedger"
    /\ pc' = "phase"
    /\ UNCHANGED <<phase, prevLedgerID, previousLedger, firstRound,
                   prevProposers, prevRoundTime, prevCloseTime, openStart,
                   disputeVars, resultVars, peerVars, after, todo>>

SwitchLedger ==
    /\ pc = "switch"
    /\ UNCHANGED <<recentPeerPositions, envVars, sent, depth>>
    /\ \/ NothingToSwitch
       \/ LedgerAcquired
       \/ LedgerNotAcquired

(* timerEntry returns, to the timerEntry that called it or to nobody. *)
TimerReturns ==
    /\ depth' = depth - 1
    /\ pc' = IF depth = 1 THEN "idle" ELSE "phase"

-----------------------------------------------------------------------------
(* The open phase *)

PrevInfo == LedgerInfo[previousLedger]

closeResolution ==
    getNextLedgerTimeResolution(
        PrevInfo.closeTimeResolution, PrevInfo.closeAgree, PrevInfo.seq + 1)

asCloseTime(raw) ==
    IF useRoundedCloseTime
      THEN roundCloseTime(raw, closeResolution)
      ELSE effCloseTime(raw, closeResolution, PrevInfo.closeTime)

previousCloseCorrect ==
    /\ mode # "wrongLedger"
    /\ PrevInfo.closeAgree
    /\ PrevInfo.closeTime # PrevInfo.parentCloseTime + 1

sinceClose ==
    clock - (IF previousCloseCorrect THEN PrevInfo.closeTime
                                     ELSE prevCloseTime)

idleInterval == Max2(ledgerIDLE_INTERVAL, 2 * PrevInfo.closeTimeResolution)

(* closeLedger, with set the transaction set onClose makes of our open     *)
(* ledger: take the initial position, propose it if we are proposing, and  *)
(* create the disputes with the peers' sets at hand.                       *)
closeLedger(set) ==
    LET have == acquired \cup {set}
        seen == {o \in have : Holding(currPeerPositions, o) # {}}
        disputed == UNION {Difference(set, o) : o \in seen}
    IN  /\ rawSelf' = clock
        /\ seated' = TRUE
        /\ txns' = set
        /\ position' = [position |-> set, proposeSeq |-> 0,
                        closeTime |-> clock, time |-> clock]
        /\ roundStart' = clock
        /\ state' = "No"
        /\ acquired' = have
        /\ sent' = IF mode = "proposing" THEN Append(sent, 0) ELSE sent
        /\ compares' = seen
        /\ disputes' = disputed
        /\ ourVote' = [t \in Txs |-> t \in disputed /\ t \in set]
        /\ votes' = [t \in Txs |-> [p \in Peers |->
              IF t \in disputed
                THEN AvailableVote(t, currPeerPositions[p], have)
                ELSE "none"]]

(* anyTransactions and proposersValidated come from the open ledger and    *)
(* from the validations of our prior ledger.                               *)
ShouldClose(anyTransactions, proposersValidated) ==
    shouldCloseLedger(
        anyTransactions, prevProposers,
        Cardinality(Current(currPeerPositions)), proposersValidated,
        prevRoundTime, sinceClose, clock - openStart, idleInterval)

phaseOpen ==
    /\ pc = "phase"
    /\ phase = "open"
    /\ TimerReturns
    /\ \/ /\ \E any \in BOOLEAN, n \in 0 .. Cardinality(Peers) :
               ~ShouldClose(any, n)
          /\ UNCHANGED <<roundVars, disputeVars, resultVars, peerVars, sent>>
       \/ /\ \E any \in BOOLEAN, n \in 0 .. Cardinality(Peers) :
               ShouldClose(any, n)
          /\ \E set \in TxSets : closeLedger(set)
          /\ phase' = "establish"
          /\ UNCHANGED <<mode, prevLedgerID, previousLedger, firstRound,
                         prevProposers, prevRoundTime, prevCloseTime,
                         openStart, currPeerPositions, deadNodes, rawPeers>>
    /\ UNCHANGED <<recentPeerPositions, envVars, after, todo>>

(* A standalone server closes and accepts in one call. *)
Simulate(set, delay) ==
    /\ standalone
    /\ pc = "idle"
    /\ phase = "open"
    /\ closeLedger(set)
    /\ phase' = "accepted"
    /\ prevProposers' = Cardinality(Current(currPeerPositions))
    /\ prevRoundTime' = delay
    /\ UNCHANGED <<mode, prevLedgerID, previousLedger, firstRound,
                   prevCloseTime, openStart, currPeerPositions, deadNodes,
                   rawPeers, recentPeerPositions, envVars, stackVars>>

-----------------------------------------------------------------------------
(* The establish phase: updateOurPositions *)

roundTime == clock - roundStart

percent == convergePercent(roundTime, prevRoundTime)

isStale(pos, cutoff) == pos.time <= cutoff

(* Peers whose position is removed because it is stale. *)
Stale ==
    {p \in Current(currPeerPositions) :
        isStale(currPeerPositions[p], clock - proposeFRESHNESS)}

Without(gone) ==
    [p \in Peers |-> IF p \in gone THEN NoProposal ELSE currPeerPositions[p]]

(* Our vote on tx once the peers in gone have been unVoted. *)
NewVote(tx, gone) ==
    LET count(v) == Cardinality({p \in Peers \ gone : votes[tx][p] = v})
    IN  updatedVote(ourVote[tx], count("yes"), count("no"), percent,
                    mode = "proposing")

Changed(gone) == {t \in disputes : NewVote(t, gone) # ourVote[t]}

(* The close times voted for, by the peers and by us if we propose, with   *)
(* their number of votes.                                                  *)
closeTimeVotes(curr) ==
    LET time(p) == asCloseTime(curr[p].closeTime)
        own == IF mode = "proposing" THEN {asCloseTime(position.closeTime)}
                                     ELSE {}
    IN  [t \in own \cup {time(p) : p \in Current(curr)} |->
            Cardinality({p \in Current(curr) : time(p) = t})
                + Cardinality(own \cap {t})]

Participants(curr) ==
    Cardinality(Current(curr)) + (IF mode = "proposing" THEN 1 ELSE 0)

threshVote(curr) ==
    participantsNeeded(Participants(curr), neededWeight(percent))

threshConsensus(curr) ==
    participantsNeeded(Participants(curr), avCT_CONSENSUS_PCT)

NewCloseTime(curr) ==
    IF Current(curr) = {}
      THEN asCloseTime(position.closeTime)
      ELSE consensusCloseTime(closeTimeVotes(curr), threshVote(curr))

CloseTimeConsensus(curr) ==
    \/ Current(curr) = {}
    \/ haveCloseTimeConsensus(
           closeTimeVotes(curr), threshVote(curr), threshConsensus(curr))

changePositionSameSeq(set, closeTime) ==
    [position |-> set, closeTime |-> closeTime, time |-> clock,
     proposeSeq |-> position.proposeSeq]

(* changePosition: the sequence number grows unless we have bowed out. *)
changePosition(set, closeTime) ==
    [position |-> set, closeTime |-> closeTime, time |-> clock,
     proposeSeq |-> IF position.proposeSeq = seqLeave
                      THEN seqLeave ELSE position.proposeSeq + 1]

(* Drop the stale positions, vote on the disputes and on the close time,   *)
(* and take a new position if either vote changed ours or it is stale.  A  *)
(* new position whose set is new to us is compared with the peers that     *)
(* hold it; as it is our own set, createDisputes finds no difference.      *)
updateOurPositions ==
    LET gone == Stale
        curr == Without(gone)
        changed == Changed(gone)
        closeTime == NewCloseTime(curr)
        changes == \/ changed # {}
                   \/ closeTime # asCloseTime(position.closeTime)
                   \/ isStale(position, clock - proposeINTERVAL)
        ours == IF changes
                  THEN changePosition(Difference(txns, changed), closeTime)
                  ELSE position
        holders == IF changes /\ ours.position \notin acquired
                     THEN Holding(curr, ours.position) ELSE {}
    IN  /\ currPeerPositions' = curr
        /\ ourVote' = [t \in Txs |-> (t \in changed) # ourVote[t]]
        /\ txns' = ours.position
        /\ position' = ours
        /\ acquired' = acquired \cup {ours.position}
        /\ compares' = compares \cup
                         IF holders = {} THEN {} ELSE {ours.position}
        /\ votes' = [t \in Txs |-> [p \in Peers |->
              IF t \in disputes /\ p \in holders
                THEN Vote(t, ours.position)
              ELSE IF p \in gone THEN "none" ELSE votes[t][p]]]
        /\ sent' = IF /\ changes
                      /\ mode = "proposing"
                      /\ ours.proposeSeq # seqLeave
                     THEN Append(sent, ours.proposeSeq)
                     ELSE sent
        /\ UNCHANGED disputes

-----------------------------------------------------------------------------
(* The establish phase: consensus *)

(* checkConsensus on the positions as updateOurPositions leaves them;      *)
(* finished is the number of peers that validated a later ledger.          *)
ConsensusNow(finished) ==
    checkConsensus(
        prevProposers, Cardinality(Current(currPeerPositions')),
        Cardinality(Holding(currPeerPositions', position'.position)),
        finished, prevRoundTime, roundTime, mode = "proposing")

(* Too early in the round for everybody to have taken a position. *)
EstablishWaits ==
    /\ roundTime < ledgerMIN_CONSENSUS
    /\ UNCHANGED <<roundVars, disputeVars, resultVars, peerVars, sent>>

(* shouldPause: we wait for lagging validators, at most until              *)
(* ledgerMAX_CONSENSUS.                                                    *)
EstablishPauses ==
    /\ roundTime <= ledgerMAX_CONSENSUS
    /\ UNCHANGED <<roundVars, state>>

EstablishContinues(finished) ==
    /\ state' = ConsensusNow(finished)
    /\ state' = "No" \/ ~CloseTimeConsensus(currPeerPositions')
    /\ UNCHANGED roundVars

EstablishAccepts(finished) ==
    /\ state' = ConsensusNow(finished)
    /\ state' # "No"
    /\ CloseTimeConsensus(currPeerPositions')
    /\ prevProposers' = Cardinality(Current(currPeerPositions'))
    /\ prevRoundTime' = roundTime
    /\ phase' = "accepted"
    /\ UNCHANGED <<mode, prevLedgerID, previousLedger, firstRound,
                   prevCloseTime, openStart>>

phaseEstablish ==
    /\ pc = "phase"
    /\ phase = "establish"
    /\ TimerReturns
    /\ \/ EstablishWaits
       \/ /\ roundTime >= ledgerMIN_CONSENSUS
          /\ updateOurPositions
          /\ \/ EstablishPauses
             \/ \E finished \in 0 .. Cardinality(Peers) :
                    \/ EstablishContinues(finished)
                    \/ EstablishAccepts(finished)
          /\ UNCHANGED <<seated, roundStart, deadNodes, rawPeers, rawSelf>>
    /\ UNCHANGED <<recentPeerPositions, envVars, after, todo>>

-----------------------------------------------------------------------------
(* The specification *)

Tick ==
    /\ pc = "idle"
    /\ clock < MaxClock
    /\ clock' = clock + 1
    /\ UNCHANGED <<roundVars, disputeVars, resultVars, peerVars,
                   recentPeerPositions, heartbeat, rounds, received, sent,
                   stackVars>>

(* The object as constructed; start is the ledger id it holds before any   *)
(* round.                                                                  *)
Init ==
    /\ phase = "accepted"
    /\ mode = "observing"
    /\ \E start \in Ledgers : prevLedgerID = start /\ previousLedger = start
    /\ firstRound = TRUE
    /\ prevProposers = 0
    /\ prevRoundTime = 0
    /\ prevCloseTime = 0
    /\ openStart = StartTime
    /\ seated = FALSE
    /\ txns = {}
    /\ position = NoPosition
    /\ disputes = {}
    /\ ourVote = [t \in Txs |-> FALSE]
    /\ votes = NoVotes
    /\ compares = {}
    /\ roundStart = 0
    /\ state = "No"
    /\ currPeerPositions = [p \in Peers |-> NoProposal]
    /\ recentPeerPositions = [p \in Peers |-> <<>>]
    /\ deadNodes = {}
    /\ acquired = {}
    /\ rawPeers = NoTimes
    /\ rawSelf = 0
    /\ clock = StartTime
    /\ heartbeat = 0
    /\ rounds = 0
    /\ received = 0
    /\ sent = <<>>
    /\ pc = "idle"
    /\ after = "started"
    /\ todo = [p \in Peers |-> <<>>]
    /\ depth = 0

ReceiveProposal ==
    \E p \in Peers, l \in Ledgers, s \in ProposeSeqs \cup {seqLeave},
      set \in TxSets, t \in CloseTimes :
        PeerProposal([nodeID |-> p, prevLedger |-> l, proposeSeq |-> s,
                      position |-> set, closeTime |-> t, time |-> clock])

(* A nested timerEntry beyond MaxDepth is left out by keeping the          *)
(* network's preference unchanged at that depth.                           *)
CheckLedger ==
    \E netLgr \in Ledgers :
        /\ depth >= MaxDepth => netLgr = prevLedgerID
        /\ LedgerIsRight(netLgr) \/ handleWrongLedger(netLgr)

(* An accepted phase, in which timerEntry would do nothing more, is not    *)
(* met here: a round started inside timerEntry has lasted no time when the *)
(* outer timerEntry goes on (StackInv of ConsensusProofs).                 *)
RunPhase ==
    \/ phaseOpen
    \/ phaseEstablish

(* The steps of a running handler. *)
Run ==
    \/ \E p \in Peers : Playback(p)
    \/ PlaybackDone
    \/ Started
    \/ CheckLedger
    \/ SwitchLedger
    \/ RunPhase

Next ==
    \/ \E id, lgr \in Ledgers, gone \in SUBSET Peers, proposing \in BOOLEAN :
          StartRound(id, lgr, gone, proposing)
    \/ ReceiveProposal
    \/ \E set \in TxSets : GotTxSet(set)
    \/ TimerEntry
    \/ \E set \in TxSets, delay \in {1} : Simulate(set, delay)
    \/ Run
    \/ Tick

Spec == Init /\ [][Next]_vars

(* A handler that has started runs to its end, the heartbeat comes back    *)
(* (processHeartbeatTimer sets it again on every path) and time passes.    *)
FairSpec ==
    /\ Spec
    /\ WF_vars(Run)
    /\ WF_vars(TimerEntry)
    /\ WF_vars(Tick)

-----------------------------------------------------------------------------
(* Properties *)

Positions ==
    [position : SUBSET Txs, proposeSeq : Nat, closeTime : Nat, time : Nat]

(* Every variable holds a value of its type; the votes on a dispute are    *)
(* "yes", "no" or absent for each peer.                                    *)
TypeOK ==
    /\ phase \in Phases
    /\ mode \in Modes
    /\ prevLedgerID \in Ledgers
    /\ previousLedger \in Ledgers
    /\ firstRound \in BOOLEAN
    /\ prevProposers \in Nat
    /\ prevRoundTime \in Int
    /\ prevCloseTime \in Nat
    /\ openStart \in Nat
    /\ seated \in BOOLEAN
    /\ txns \in SUBSET Txs
    /\ position \in Positions
    /\ disputes \in SUBSET Txs
    /\ ourVote \in [Txs -> BOOLEAN]
    /\ votes \in [Txs -> [Peers -> {"yes", "no", "none"}]]
    /\ compares \in SUBSET SUBSET Txs
    /\ roundStart \in Nat
    /\ state \in {"No", "Yes", "MovedOn"}
    /\ currPeerPositions \in [Peers -> Proposals \cup {NoProposal}]
    /\ recentPeerPositions \in [Peers -> Seq(Proposals)]
    /\ deadNodes \in SUBSET Peers
    /\ acquired \in SUBSET SUBSET Txs
    /\ rawPeers \in [CloseTimes -> Nat]
    /\ rawSelf \in Nat
    /\ clock \in Nat
    /\ heartbeat \in Nat
    /\ rounds \in Nat
    /\ received \in Nat
    /\ sent \in Seq(Nat)
    /\ pc \in {"idle", "playback", "started", "check", "switch", "phase"}
    /\ after \in {"started", "switch"}
    /\ todo \in [Peers -> Seq(Proposals)]
    /\ depth \in Nat

(* The preconditions the round's code asserts: there is no position before *)
(* closeLedger makes one (Consensus.h "assert(!result_)"), there is one    *)
(* whenever phaseEstablish runs ("assert(result_)"), and our own set is    *)
(* the one our position names and is in acquired_ from the moment it       *)
(* exists, so that gotTxSet never sees it as new ("this txSet must         *)
(* differ").                                                               *)
ResultMatchesPhase ==
    /\ phase = "open" => ~seated
    /\ phase = "establish" => seated
    /\ seated => txns = position.position /\ txns \in acquired

(* The positions we count are positions on the prior ledger we work on,    *)
(* of peers that have not bowed out, and none is a bow-out: across         *)
(* replays, switches of ledger and peers that leave and are replayed.      *)
PositionsAreCurrent ==
    \A p \in Current(currPeerPositions) :
        /\ currPeerPositions[p].nodeID = p
        /\ currPeerPositions[p].prevLedger = prevLedgerID
        /\ currPeerPositions[p].proposeSeq # seqLeave
        /\ p \notin deadNodes

(* The tally of every dispute is what the peers' current positions say: a  *)
(* peer whose current set we have is compared with and votes on every      *)
(* dispute as that set does, and a peer without a current position has no  *)
(* vote, whatever order proposals, sets, disputes and ledger switches came *)
(* in.                                                                     *)
VotesFollowPositions ==
    seated =>
        \A p \in Peers :
            /\ (/\ currPeerPositions[p] # NoProposal
                /\ currPeerPositions[p].position \in acquired)
               => /\ currPeerPositions[p].position \in compares
                  /\ \A t \in disputes :
                       votes[t][p] = Vote(t, currPeerPositions[p].position)
            /\ currPeerPositions[p] = NoProposal
               => \A t \in disputes : votes[t][p] = "none"

(* Every transaction on which our set differs from a set we have compared  *)
(* it with is in dispute, and our vote on a dispute is whether our set has *)
(* the transaction: updateOurPositions can reach every compared set, also  *)
(* after it has changed ours.                                              *)
DisputesCoverDifferences ==
    seated =>
        /\ \A o \in compares : Difference(txns, o) \subseteq disputes
        /\ \A t \in disputes : ourVote[t] = (t \in txns)

(* Between handlers, a node that works on another prior ledger than the    *)
(* one it wants is in mode wrongLedger: only then does doAccept know that  *)
(* it does not have the correct last closed ledger.                        *)
WrongLedgerIsKnown ==
    /\ pc = "idle"
    /\ previousLedger # prevLedgerID
    => mode = "wrongLedger"

(* Consensus declared with the peers is consensus they have: when a round  *)
(* ends with state Yes, at least minCONSENSUS_PCT of the positions we      *)
(* count (ours among them if we propose) name the set we accept.           *)
AcceptedIsAgreed ==
    phase = "accepted" /\ state = "Yes" =>
        LET self == IF mode = "proposing" THEN 1 ELSE 0
            total == Cardinality(Current(currPeerPositions))
            agree == Cardinality(Holding(currPeerPositions, txns))
        IN  total = 0 \/ (agree + self) * 100
                            >= minCONSENSUS_PCT * (total + self)

(* The close time we accept is one the peers we count agree on: with the   *)
(* rounded close times of fix1528, at least participantsNeeded of them and *)
(* us vote for the time we accept, although updateOurPositions counts the  *)
(* votes before it moves our own to the winner.                            *)
AcceptedCloseTimeIsAgreed ==
    /\ phase = "accepted"
    /\ useRoundedCloseTime
    /\ Current(currPeerPositions) # {}
    => LET ours == asCloseTime(position.closeTime)
       IN  /\ ours \in DOMAIN closeTimeVotes(currPeerPositions)
           /\ closeTimeVotes(currPeerPositions)[ours]
                 >= threshConsensus(currPeerPositions)

(* "Each successive proposal includes a strictly monotonically increasing  *)
(* number" (ConsensusProposal.h): what we propose in a round only grows,   *)
(* and nothing follows a bow-out, whose number is the largest.             *)
ProposalsIncrease ==
    \A i, j \in 1 .. Len(sent) : i < j => sent[i] < sent[j]

(* "once a ledger is accepted, the consensus results and capture by        *)
(* reference state will not change until startRound is called"             *)
(* (RCLConsensus::onAccept): the accept job reads them without the lock.   *)
AcceptedIsFrozen ==
    [][phase = "accepted" /\ rounds' = rounds =>
        UNCHANGED <<phase, mode, previousLedger, prevLedgerID, resultVars,
                    disputeVars, peerVars>>]_vars

(* An establish phase does not last: once the peers are silent for         *)
(* proposeFRESHNESS, their positions are dropped and the round is accepted *)
(* (or restarted on another prior ledger), even if they never agreed with  *)
(* us, if we paused for laggards or if the preferred ledger keeps          *)
(* changing.  The clock must leave room for the longest wait.              *)
EstablishEnds ==
    (/\ phase = "establish"
     /\ roundStart + ledgerMAX_CONSENSUS < MaxClock
     /\ roundStart + prevRoundTime + ledgerMIN_CONSENSUS < MaxClock)
    ~> phase # "establish"

(* The open phase does not last either while the prior ledger is settled:  *)
(* a ledger with transactions closes once it was open for long enough, and *)
(* an empty one after the idle interval, also when the two alternate.  A   *)
(* switch to another prior ledger starts the wait again.                   *)
OpenEnds ==
    (/\ phase = "open"
     /\ openStart + ledgerMIN_CLOSE < MaxClock
     /\ openStart + prevRoundTime < MaxClock
     /\ idleInterval - sinceClose < MaxClock - clock)
    ~> (phase # "open" \/ mode \in {"wrongLedger", "switchedLedger"})

\* No phase lasts: the two above.
PhasesEnd == EstablishEnds /\ OpenEnds

(* Mode wrongLedger: "We have the wrong ledger and are attempting to       *)
(* acquire it" (ConsensusTypes.h).                                         *)
WrongLedgerModeIsTrue ==
    pc = "idle" /\ mode = "wrongLedger" => previousLedger # prevLedgerID

=============================================================================
