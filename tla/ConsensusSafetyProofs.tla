----------------------- MODULE ConsensusSafetyProofs -----------------------
(***************************************************************************)
(* Proofs of the safety invariants of a consensus round, on top of its     *)
(* type invariant.                                                         *)
(***************************************************************************)
EXTENDS ConsensusProofs

(* The disputes and the tallies are those of our set and of the peers'     *)
(* positions.                                                              *)
TallyInv == VotesFollowPositions /\ DisputesCoverDifferences

tallyVars == <<seated, txns, acquired, disputeVars, currPeerPositions>>

LEMMA TallySame == ASSUME TallyInv, UNCHANGED tallyVars PROVE TallyInv'
  BY DEF TallyInv, tallyVars, disputeVars, VotesFollowPositions,
         DisputesCoverDifferences

LEMMA TallyUnseated == ASSUME ~seated' PROVE TallyInv'
  BY DEF TallyInv, VotesFollowPositions, DisputesCoverDifferences

(* updateDisputes for all the peers that hold o, or for one that has just  *)
(* taken o as its position.                                                *)
LEMMA UpdateDisputesTally ==
    ASSUME TypeOK, TallyInv, seated, UNCHANGED <<seated, txns>>,
           NEW curr \in [Peers -> Proposals \cup {NoProposal}], NEW have,
           NEW o \in SUBSET Txs, NEW who \in SUBSET Peers,
           currPeerPositions' = curr, acquired' = have, o \in have,
           UpdateDisputes(who, o, curr, have),
           \A p \in who : curr[p] # NoProposal /\ curr[p].position = o,
           \A p \in Peers \ who :
               /\ curr[p] = currPeerPositions[p]
               /\ curr[p] # NoProposal /\ curr[p].position \in have
                    => curr[p].position \in acquired
    PROVE  TallyInv'
  <1> USE TypeGroups
  <1> DEFINE new == IF who = {} THEN {} ELSE NewDisputes(o)
  <1>1. /\ compares' = IF who = {} THEN compares ELSE compares \cup {o}
        /\ disputes' = disputes \cup new
        /\ ourVote' = [t \in Txs |->
                         IF t \in new THEN t \in txns ELSE ourVote[t]]
        /\ votes' = [t \in Txs |-> [p \in Peers |->
              IF p \in who /\ t \in disputes \cup new THEN Vote(t, o)
              ELSE IF t \in new THEN AvailableVote(t, curr[p], have)
              ELSE votes[t][p]]]
    BY Zenon DEF UpdateDisputes
  <1>2. new \in SUBSET Txs /\ new \cap disputes = {}
    BY DEF NewDisputes, Difference, DisputeType, ResultType
  <1>3. who # {} => o \in compares \/ Difference(txns, o) \subseteq disputes \cup new
    BY DEF NewDisputes, Difference
  <1> HIDE DEF new
  <1>4. \A t \in disputes' : t \in Txs
    BY <1>1, <1>2 DEF DisputeType
  <1>5. VotesFollowPositions'
    <2> SUFFICES ASSUME NEW p \in Peers
                 PROVE  /\ (/\ curr[p] # NoProposal
                            /\ curr[p].position \in have)
                           => /\ curr[p].position \in compares'
                              /\ \A t \in disputes' :
                                   votes'[t][p] = Vote(t, curr[p].position)
                        /\ curr[p] = NoProposal
                           => \A t \in disputes' : votes'[t][p] = "none"
      BY DEF VotesFollowPositions
    <2>1. \A t \in disputes' :
             votes'[t][p] = IF p \in who THEN Vote(t, o)
                            ELSE IF t \in new
                                   THEN AvailableVote(t, curr[p], have)
                                   ELSE votes[t][p]
      BY <1>1, <1>4
    <2>2. CASE p \in who
      BY <1>1, <2>1, <2>2
    <2>3. CASE p \notin who
      <3>1. /\ curr[p] = currPeerPositions[p]
            /\ curr[p] # NoProposal /\ curr[p].position \in have
                 => curr[p].position \in acquired
        BY <2>3
      <3>2. /\ curr[p] # NoProposal /\ curr[p].position \in have
                 => /\ curr[p].position \in compares
                    /\ \A t \in disputes :
                         votes[t][p] = Vote(t, curr[p].position)
            /\ curr[p] = NoProposal
                 => \A t \in disputes : votes[t][p] = "none"
        BY <3>1 DEF TallyInv, VotesFollowPositions
      <3>3. \A t \in new :
               AvailableVote(t, curr[p], have)
                 = IF curr[p] # NoProposal /\ curr[p].position \in have
                     THEN Vote(t, curr[p].position) ELSE "none"
        BY DEF AvailableVote
      <3> QED
        BY <1>1, <2>1, <2>3, <3>2, <3>3
    <2> QED
      BY <2>2, <2>3
  <1>6. DisputesCoverDifferences'
    <2>1. \A c \in compares' : Difference(txns, c) \subseteq disputes'
      BY <1>1, <1>3 DEF TallyInv, DisputesCoverDifferences
    <2>2. \A t \in disputes' : ourVote'[t] = (t \in txns)
      <3> TAKE t \in disputes'
      <3>1. t \in Txs
        BY <1>4
      <3>2. CASE t \in new
        BY <1>1, <3>1, <3>2, Zenon
      <3>3. CASE t \notin new
        <4>1. t \in disputes
          BY <1>1, <3>3
        <4>2. ourVote[t] = (t \in txns)
          BY <4>1 DEF TallyInv, DisputesCoverDifferences
        <4>3. ourVote'[t] = ourVote[t]
          BY <1>1, <3>1, <3>3, Zenon
        <4> QED
          BY <4>2, <4>3, Zenon
      <3> QED
        BY <3>2, <3>3
    <2> QED
      BY <2>1, <2>2 DEF DisputesCoverDifferences
  <1> QED
    BY <1>5, <1>6 DEF TallyInv

LEMMA AcquireTxSetTally ==
    ASSUME TypeOK, TallyInv, UNCHANGED <<seated, txns>>,
           NEW set \in SUBSET Txs,
           NEW curr \in [Peers -> Proposals \cup {NoProposal}],
           currPeerPositions' = curr, AcquireTxSet(set, curr),
           \A p \in Peers :
               curr[p] # currPeerPositions[p] =>
                   curr[p] # NoProposal /\ curr[p].position = set
    PROVE  TallyInv'
  <1>1. CASE ~seated
    BY <1>1, TallyUnseated
  <1>2. CASE seated
    <2> DEFINE who == Holding(curr, set)
               have == acquired \cup {set}
    <2>1. acquired' = have /\ UpdateDisputes(who, set, curr, have)
      BY <1>2 DEF AcquireTxSet
    <2>2. /\ who \in SUBSET Peers
          /\ \A p \in who : curr[p] # NoProposal /\ curr[p].position = set
          /\ \A p \in Peers \ who : 
                /\ curr[p] = currPeerPositions[p]
                /\ curr[p] # NoProposal /\ curr[p].position \in have
                     => curr[p].position \in acquired
      BY DEF Holding
    <2>3. set \in have
      OBVIOUS
    <2> HIDE DEF who, have
    <2> QED
      BY <1>2, <2>1, <2>2, <2>3, UpdateDisputesTally
  <1> QED
    BY <1>1, <1>2

LEMMA ProposalTally ==
    ASSUME TypeOK, TallyInv, UNCHANGED <<seated, txns>>,
           NEW prop \in Proposals, peerProposalInternal(prop)
    PROVE  TallyInv'
  <1> USE TypeGroups
  <1>1. /\ prop.nodeID \in Peers /\ prop.position \in SUBSET Txs
        /\ prop # NoProposal
    BY ConsensusAssumption DEF Proposals
  <1>2. CASE IgnoreProposal(prop)
    BY <1>2, TallySame DEF IgnoreProposal, tallyVars, peerVars
  <1>3. CASE PeerBowsOut(prop)
    <2>1. /\ currPeerPositions' =
               [currPeerPositions EXCEPT ![prop.nodeID] = NoProposal]
          /\ votes' = [t \in Txs |->
                         [votes[t] EXCEPT ![prop.nodeID] = "none"]]
          /\ UNCHANGED <<acquired, disputes, ourVote, compares>>
      BY <1>3 DEF PeerBowsOut
    <2>2. DisputesCoverDifferences'
      BY <2>1 DEF TallyInv, DisputesCoverDifferences
    <2>3. VotesFollowPositions'
      <3>1. \A t \in disputes : /\ t \in Txs
                                /\ votes[t] \in [Peers -> {"yes", "no", "none"}]
        BY DEF DisputeType
      <3>2. ASSUME NEW p \in Peers, NEW t \in disputes
            PROVE  votes'[t][p] = IF p = prop.nodeID THEN "none"
                                                     ELSE votes[t][p]
        BY <1>1, <2>1, <3>1
      <3>3. ASSUME NEW p \in Peers
            PROVE  currPeerPositions'[p] = IF p = prop.nodeID
                                             THEN NoProposal
                                             ELSE currPeerPositions[p]
        BY <1>1, <2>1 DEF PeerType
      <3> QED
        BY <2>1, <3>2, <3>3 DEF TallyInv, VotesFollowPositions
    <2> QED
      BY <2>2, <2>3 DEF TallyInv
  <1>4. CASE PeerTakesPosition(prop)
    <2> DEFINE curr == [currPeerPositions EXCEPT ![prop.nodeID] = prop]
    <2>1. /\ currPeerPositions' = curr
          /\ \/ /\ prop.position \in acquired
                /\ acquired' = acquired
                /\ IF seated
                     THEN UpdateDisputes(
                              {prop.nodeID}, prop.position, curr, acquired)
                     ELSE UNCHANGED disputeVars
             \/ AcquireTxSet(prop.position, curr)
             \/ /\ prop.position \notin acquired
                /\ UNCHANGED <<acquired, disputeVars>>
      BY <1>4, Zenon DEF PeerTakesPosition
    <2>2. /\ curr \in [Peers -> Proposals \cup {NoProposal}]
          /\ curr[prop.nodeID] = prop
          /\ \A p \in Peers \ {prop.nodeID} : curr[p] = currPeerPositions[p]
      BY <1>1 DEF PeerType
    <2> HIDE DEF curr
    <2>3. CASE ~seated
      BY <2>3, TallyUnseated
    <2>4. CASE /\ seated
               /\ prop.position \in acquired
               /\ acquired' = acquired
               /\ UpdateDisputes(
                      {prop.nodeID}, prop.position, curr, acquired)
      BY <1>1, <2>1, <2>2, <2>4, UpdateDisputesTally
    <2>5. CASE AcquireTxSet(prop.position, curr)
      <3>1. \A p \in Peers :
               curr[p] # currPeerPositions[p] =>
                   curr[p] # NoProposal /\ curr[p].position = prop.position
        BY <1>1, <2>2
      <3> QED
        BY <1>1, <2>1, <2>2, <2>5, <3>1, AcquireTxSetTally
    <2>6. CASE /\ prop.position \notin acquired
               /\ UNCHANGED <<acquired, disputeVars>>
      <3>1. DisputesCoverDifferences'
        BY <2>6 DEF TallyInv, DisputesCoverDifferences, disputeVars
      <3>2. VotesFollowPositions'
        BY <1>1, <2>1, <2>2, <2>6
        DEF TallyInv, VotesFollowPositions, disputeVars
      <3> QED
        BY <3>1, <3>2 DEF TallyInv
    <2> QED
      BY <2>1, <2>3, <2>4, <2>5, <2>6
  <1> QED
    BY <1>2, <1>3, <1>4 DEF peerProposalInternal

(* createDisputes for every set at hand, when closeLedger makes our set.   *)
LEMMA CloseLedgerTally ==
    ASSUME TypeOK, NEW set \in TxSets, closeLedger(set),
           UNCHANGED currPeerPositions
    PROVE  TallyInv'
  <1> USE TypeGroups
  <1> DEFINE have == acquired \cup {set}
             seen == {o \in have : Holding(currPeerPositions, o) # {}}
             disputed == UNION {Difference(set, o) : o \in seen}
  <1>1. /\ txns' = set
        /\ acquired' = have
        /\ compares' = seen
        /\ disputes' = disputed
        /\ ourVote' = [t \in Txs |-> t \in disputed /\ t \in set]
        /\ votes' = [t \in Txs |-> [p \in Peers |->
              IF t \in disputed
                THEN AvailableVote(t, currPeerPositions[p], have)
                ELSE "none"]]
    BY Zenon DEF closeLedger
  <1>2. disputed \in SUBSET Txs
    BY <1>1, CloseLedgerType DEF DisputeType
  <1>3. \A o \in seen : Difference(set, o) \subseteq disputed
    <2> HIDE DEF seen
    <2> QED
      OBVIOUS
  <1>4. \A p \in Peers : (/\ currPeerPositions[p] # NoProposal
                          /\ currPeerPositions[p].position \in have)
                         => currPeerPositions[p].position \in seen
    BY DEF Holding
  <1> HIDE DEF have, seen, disputed
  <1>5. DisputesCoverDifferences'
    <2>1. \A t \in disputed : ourVote'[t] = (t \in set)
      <3> TAKE t \in disputed
      <3>1. ourVote'[t] = (t \in disputed /\ t \in set)
        BY <1>1, <1>2, Zenon
      <3>2. ourVote'[t] \in BOOLEAN
        BY <1>2, CloseLedgerType DEF DisputeType
      <3> QED
        BY <3>1, <3>2
    <2> QED
      BY <1>1, <1>3, <2>1 DEF DisputesCoverDifferences
  <1>6. VotesFollowPositions'
    <2>1. \A p \in Peers, t \in disputed :
             votes'[t][p] = AvailableVote(t, currPeerPositions[p], have)
      BY <1>1, <1>2
    <2> QED
      BY <1>1, <1>4, <2>1 DEF VotesFollowPositions, AvailableVote
  <1> QED
    BY <1>5, <1>6 DEF TallyInv

(* Votes that flip take their transactions into or out of our set.         *)
LEMMA OurNewSet ==
    ASSUME TypeOK, txns = position.position
    PROVE  /\ OurPosition.position = Difference(txns, FlippedVotes)
           /\ ~TakesNewPosition => OurPosition.position = txns
  <1>1. CASE TakesNewPosition
    BY <1>1 DEF OurPosition, changePosition
  <1>2. CASE ~TakesNewPosition
    BY <1>2 DEF OurPosition, TakesNewPosition, Difference
  <1> QED
    BY <1>1, <1>2

LEMMA UpdateTally ==
    ASSUME TypeOK, TallyInv, seated, txns = position.position,
           txns \in acquired, updateOurPositions
    PROVE  TallyInv'
  <1> USE TypeGroups
  <1> DEFINE set == OurPosition.position
  <1>1. set = Difference(txns, FlippedVotes)
    BY OurNewSet
  <1>2. FlippedVotes \subseteq disputes /\ disputes \subseteq Txs
    BY OurPositionType DEF DisputeType
  <1>3. DisputesCoverDifferences'
    <2>1. \A o \in compares' : Difference(set, o) \subseteq disputes
      <3>1. \A o \in compares : Difference(txns, o) \subseteq disputes
        BY DEF TallyInv, DisputesCoverDifferences
      <3>2. \A o : Difference(set, o)
                     \subseteq Difference(txns, o) \cup FlippedVotes
        BY <1>1 DEF Difference
      <3>3. Difference(set, set) = {}
        BY DEF Difference
      <3>4. \A o \in compares' : o \in compares \/ o = set
        BY UpdateParts
      <3> QED
        BY <1>2, <3>1, <3>2, <3>3, <3>4
    <2>2. \A t \in disputes : ourVote'[t] = (t \in set)
      <3> TAKE t \in disputes
      <3>1. ourVote[t] = (t \in txns)
        BY DEF TallyInv, DisputesCoverDifferences
      <3>2. ourVote'[t] = ((t \in FlippedVotes) # ourVote[t])
        <4>1. ourVote' = [s \in Txs |-> (s \in FlippedVotes) # ourVote[s]]
          BY UpdateParts
        <4> QED
          BY <1>2, <4>1, Zenon
      <3>3. (t \in set) = ((t \in FlippedVotes) # (t \in txns))
        BY <1>1 DEF Difference
      <3>4. ourVote[t] \in BOOLEAN /\ ourVote'[t] \in BOOLEAN
        BY <1>2, UpdateType DEF DisputeType
      <3> QED
        BY <3>1, <3>2, <3>3, <3>4
    <2> QED
      BY <2>1, <2>2, UpdateParts DEF DisputesCoverDifferences
  <1>4. VotesFollowPositions'
    <2> SUFFICES ASSUME NEW p \in Peers
                 PROVE  /\ (/\ currPeerPositions'[p] # NoProposal
                            /\ currPeerPositions'[p].position \in acquired')
                           => /\ currPeerPositions'[p].position \in compares'
                              /\ \A t \in disputes' :
                                   votes'[t][p]
                                     = Vote(t, currPeerPositions'[p].position)
                        /\ currPeerPositions'[p] = NoProposal
                           => \A t \in disputes' : votes'[t][p] = "none"
      BY DEF VotesFollowPositions
    <2> DEFINE held == currPeerPositions[p]
    <2>1. /\ currPeerPositions'[p] = IF p \in Stale THEN NoProposal ELSE held
          /\ p \in NewHolders => /\ currPeerPositions'[p] # NoProposal
                                 /\ currPeerPositions'[p].position = set
      BY UpdateParts DEF KeptPositions, Without, NewHolders, Holding
    <2>2. \A t \in disputes' :
             votes'[t][p] = IF p \in NewHolders THEN Vote(t, set)
                            ELSE IF p \in Stale THEN "none" ELSE votes[t][p]
      <3>1. \A t \in disputes' : t \in disputes /\ t \in Txs
        BY <1>2, UpdateParts
      <3> QED
        BY <3>1, UpdateParts
    <2>3. /\ disputes' = disputes
          /\ compares \subseteq compares'
          /\ p \in NewHolders => set \in compares'
          /\ acquired' = acquired \cup {set}
      BY UpdateParts
    <2>4. /\ held # NoProposal /\ held.position \in acquired
               => /\ held.position \in compares
                  /\ \A t \in disputes : votes[t][p] = Vote(t, held.position)
          /\ held = NoProposal => \A t \in disputes : votes[t][p] = "none"
      BY DEF TallyInv, VotesFollowPositions
    <2>5. /\ p \notin Stale /\ held # NoProposal
          /\ held.position = set /\ set \notin acquired
          => p \in NewHolders
      BY OurNewSet, UpdateParts
      DEF NewHolders, Holding, KeptPositions, Without
    <2> HIDE DEF set, held
    <2>6. CASE p \in Stale
      BY <2>1, <2>2, <2>6
    <2>7. CASE p \notin Stale
      BY <2>1, <2>2, <2>3, <2>4, <2>5, <2>7
    <2> QED
      BY <2>6, <2>7
  <1> QED
    BY <1>3, <1>4 DEF TallyInv

-----------------------------------------------------------------------------
(* The inductive invariant *)

(* While a handler may still find out that our prior ledger is the wrong   *)
(* one nothing is claimed; at every other point the mode tells.            *)
LedgerInv ==
    (/\ \/ pc \in {"idle", "started", "check", "phase"}
        \/ pc = "playback" /\ after = "started"
     /\ previousLedger # prevLedgerID)
    => mode = "wrongLedger"

(* A node that proposes has sent nothing beyond the number of its          *)
(* position; only StartRound makes a node propose.                         *)
SentInv ==
    /\ ProposalsIncrease
    /\ mode = "proposing" /\ seated =>
          /\ position.proposeSeq <= seqLeave
          /\ \A i \in 1 .. Len(sent) : sent[i] <= position.proposeSeq
    /\ mode = "proposing" /\ ~seated => sent = <<>>

RoundInv ==
    /\ ResultMatchesPhase
    /\ TallyInv
    /\ PositionsAreCurrent
    /\ SentInv
    /\ AcceptedIsAgreed

SafetyInv == TypeInv /\ LedgerInv /\ RoundInv

LEMMA RoundSame ==
    ASSUME RoundInv,
           UNCHANGED <<roundVars, disputeVars, resultVars, peerVars, sent>>
    PROVE  RoundInv'
  <1>1. ResultMatchesPhase'
    BY DEF RoundInv, ResultMatchesPhase, roundVars, resultVars, peerVars
  <1>2. TallyInv'
    BY TallySame DEF RoundInv, tallyVars, resultVars, peerVars
  <1>3. PositionsAreCurrent'
    BY DEF RoundInv, PositionsAreCurrent, Current, roundVars, peerVars
  <1>4. SentInv'
    BY DEF RoundInv, SentInv, ProposalsIncrease, roundVars, resultVars
  <1>5. AcceptedIsAgreed'
    BY DEF RoundInv, AcceptedIsAgreed, Current, Holding, roundVars,
           resultVars, peerVars
  <1> QED
    BY <1>1, <1>2, <1>3, <1>4, <1>5 DEF RoundInv

LEMMA AppendIncreases ==
    ASSUME NEW s \in Seq(Nat), NEW n \in Nat,
           \A i, j \in 1 .. Len(s) : i < j => s[i] < s[j],
           \A i \in 1 .. Len(s) : s[i] < n
    PROVE  LET a == Append(s, n)
           IN  /\ \A i, j \in 1 .. Len(a) : i < j => a[i] < a[j]
               /\ \A i \in 1 .. Len(a) : a[i] <= n
  OBVIOUS

LEMMA SafetyInit == Init => SafetyInv
  <1> SUFFICES ASSUME Init PROVE SafetyInv
    OBVIOUS
  <1>1. LedgerInv
    BY DEF Init, LedgerInv
  <1>2. ResultMatchesPhase /\ AcceptedIsAgreed
    BY DEF Init, ResultMatchesPhase, AcceptedIsAgreed
  <1>3. TallyInv
    BY DEF Init, TallyInv, VotesFollowPositions, DisputesCoverDifferences
  <1>4. PositionsAreCurrent
    BY DEF Init, PositionsAreCurrent, Current
  <1>5. SentInv
    BY DEF Init, SentInv, ProposalsIncrease
  <1> QED
    BY <1>1, <1>2, <1>3, <1>4, <1>5, TypeInit DEF SafetyInv, RoundInv

LEMMA ProposalSafety ==
    ASSUME TypeOK, RoundInv, NEW prop \in Proposals,
           peerProposalInternal(prop), UNCHANGED <<roundVars, resultVars, sent>>
    PROVE  RoundInv'
  <1> USE TypeGroups
  <1>1. /\ prop.nodeID \in Peers /\ prop # NoProposal
    BY ConsensusAssumption DEF Proposals
  <1>2. acquired \subseteq acquired'
    BY DEF peerProposalInternal, IgnoreProposal, PeerBowsOut,
           PeerTakesPosition, AcquireTxSet, peerVars
  <1>3. ResultMatchesPhase'
    BY <1>2 DEF RoundInv, ResultMatchesPhase, roundVars, resultVars
  <1>4. TallyInv'
    BY ProposalTally DEF RoundInv, resultVars
  <1>5. SentInv'
    BY DEF RoundInv, SentInv, ProposalsIncrease, roundVars, resultVars
  <1>6. PositionsAreCurrent'
    <2>1. CASE IgnoreProposal(prop)
      BY <2>1 DEF IgnoreProposal, RoundInv, PositionsAreCurrent, Current,
                  peerVars, roundVars
    <2>2. CASE PeerBowsOut(prop)
      BY <1>1, <2>2 DEF PeerBowsOut, RoundInv, PositionsAreCurrent, Current,
                        roundVars, PeerType
    <2>3. CASE PeerTakesPosition(prop)
      <3>1. /\ currPeerPositions' =
                 [currPeerPositions EXCEPT ![prop.nodeID] = prop]
            /\ ~Ignored(prop)
            /\ prop.proposeSeq # seqLeave
            /\ deadNodes' = deadNodes /\ prevLedgerID' = prevLedgerID
        BY <2>3 DEF PeerTakesPosition, roundVars
      <3>2. prop.prevLedger = prevLedgerID /\ prop.nodeID \notin deadNodes
        BY <3>1 DEF Ignored
      <3> QED
        BY <1>1, <3>1, <3>2
        DEF RoundInv, PositionsAreCurrent, Current, PeerType
    <2> QED
      BY <2>1, <2>2, <2>3 DEF peerProposalInternal
  <1>7. AcceptedIsAgreed'
    <2>1. CASE phase = "accepted"
      <3>1. IgnoreProposal(prop)
        BY <2>1 DEF peerProposalInternal, PeerBowsOut, PeerTakesPosition,
                    Ignored
      <3> QED
        BY <3>1, RoundSame DEF IgnoreProposal, RoundInv
    <2>2. CASE phase # "accepted"
      BY <2>2 DEF AcceptedIsAgreed, roundVars
    <2> QED
      BY <2>1, <2>2
  <1> QED
    BY <1>3, <1>4, <1>5, <1>6, <1>7 DEF RoundInv

LEMMA GotTxSetSafety ==
    ASSUME TypeOK, RoundInv, NEW set \in TxSets, GotTxSet(set)
    PROVE  RoundInv'
  <1>1. /\ AcquireTxSet(set, currPeerPositions)
        /\ phase # "accepted"
        /\ UNCHANGED <<roundVars, resultVars, currPeerPositions, deadNodes,
                       sent>>
    BY DEF GotTxSet
  <1>2. acquired \subseteq acquired'
    BY <1>1 DEF AcquireTxSet
  <1>3. ResultMatchesPhase'
    BY <1>1, <1>2 DEF RoundInv, ResultMatchesPhase, roundVars, resultVars
  <1>4. TallyInv'
    <2>1. /\ set \in SUBSET Txs
          /\ currPeerPositions \in [Peers -> Proposals \cup {NoProposal}]
      BY ConsensusAssumption, TypeGroups DEF PeerType
    <2> QED
      BY <1>1, <2>1, AcquireTxSetTally DEF RoundInv, resultVars
  <1>5. PositionsAreCurrent' /\ AcceptedIsAgreed'
    BY <1>1 DEF RoundInv, PositionsAreCurrent, Current, AcceptedIsAgreed,
                roundVars
  <1>6. SentInv'
    BY <1>1 DEF RoundInv, SentInv, ProposalsIncrease, roundVars, resultVars
  <1> QED
    BY <1>3, <1>4, <1>5, <1>6 DEF RoundInv

LEMMA StartRoundInternalSafety ==
    ASSUME NEW id, NEW lgr, NEW m, startRoundInternal(id, lgr, m),
           id # lgr => m = "wrongLedger",
           \/ sent' = <<>>
           \/ m # "proposing" /\ sent' = sent /\ RoundInv
    PROVE  RoundInv' /\ LedgerInv'
  <1>1. ResultMatchesPhase' /\ AcceptedIsAgreed' /\ TallyInv'
    BY TallyUnseated
    DEF startRoundInternal, resetResult, ResultMatchesPhase, AcceptedIsAgreed
  <1>2. PositionsAreCurrent'
    BY DEF startRoundInternal, PositionsAreCurrent, Current
  <1>3. SentInv'
    <2>1. ~seated' /\ mode' = m
      BY DEF startRoundInternal, resetResult
    <2>2. CASE sent' = <<>>
      BY <2>1, <2>2 DEF SentInv, ProposalsIncrease
    <2>3. CASE m # "proposing" /\ sent' = sent /\ RoundInv
      BY <2>1, <2>3 DEF RoundInv, SentInv, ProposalsIncrease
    <2> QED
      BY <2>2, <2>3
  <1>4. LedgerInv'
    BY DEF startRoundInternal, LedgerInv
  <1> QED
    BY <1>1, <1>2, <1>3, <1>4 DEF RoundInv

LEMMA StartRoundSafety ==
    ASSUME NEW id, NEW lgr, NEW gone, NEW proposing,
           StartRound(id, lgr, gone, proposing)
    PROVE  RoundInv' /\ LedgerInv'
  <1> DEFINE startMode == IF proposing THEN "proposing" ELSE "observing"
  <1>1. /\ sent' = <<>>
        /\ \/ startRoundInternal(id, lgr, startMode) /\ id = lgr
           \/ startRoundInternal(id, id, startMode)
           \/ startRoundInternal(id, lgr, "wrongLedger")
    BY DEF StartRound
  <1> HIDE DEF startMode
  <1> QED
    BY <1>1, StartRoundInternalSafety

LEMMA WrongLedgerSafety ==
    ASSUME TypeInv, RoundInv, NEW netLgr, handleWrongLedger(netLgr)
    PROVE  RoundInv' /\ LedgerInv'
  <1> USE TypeGroups
  <1>1. /\ pc = "check"
        /\ leaveConsensus
        /\ prevLedgerID' = netLgr
        /\ UNCHANGED <<phase, seated, txns, state, acquired, envVars>>
    BY DEF handleWrongLedger
  <1>2. phase # "accepted"
    BY <1>1 DEF TypeInv, StackInv
  <1>3. ResultMatchesPhase' /\ AcceptedIsAgreed'
    <2>1. position'.position = position.position
      BY <1>1 DEF leaveConsensus, TypeInv, ResultType, Positions
    <2> QED
      BY <1>1, <1>2, <2>1 DEF RoundInv, ResultMatchesPhase, AcceptedIsAgreed
  <1>4. TallyInv' /\ PositionsAreCurrent' /\ LedgerInv'
    <2>1. CASE netLgr # prevLedgerID
      <3>1. /\ disputes' = {} /\ compares' = {}
            /\ currPeerPositions' = [p \in Peers |-> NoProposal]
            /\ pc' = "playback" /\ after' = "switch"
        BY <2>1 DEF handleWrongLedger
      <3> QED
        BY <3>1 DEF TallyInv, VotesFollowPositions, DisputesCoverDifferences,
                    PositionsAreCurrent, Current, LedgerInv
    <2>2. CASE netLgr = prevLedgerID
      <3>1. /\ pc' = "switch"
            /\ UNCHANGED <<disputeVars, currPeerPositions, deadNodes>>
        BY <2>2 DEF handleWrongLedger
      <3>2. TallyInv'
        BY <1>1, <3>1, TallySame DEF RoundInv, tallyVars
      <3>3. PositionsAreCurrent'
        BY <1>1, <2>2, <3>1 DEF RoundInv, PositionsAreCurrent, Current
      <3> QED
        BY <3>1, <3>2, <3>3 DEF LedgerInv
    <2> QED
      BY <2>1, <2>2
  <1>5. SentInv'
    <2>1. CASE mode = "proposing" /\ seated /\ position.proposeSeq # seqLeave
      <3>1. sent' = Append(sent, seqLeave) /\ mode' = "observing"
        BY <1>1, <2>1 DEF leaveConsensus
      <3>2. \A i \in 1 .. Len(sent) : sent[i] < seqLeave
        BY <2>1, ConsensusAssumption
        DEF RoundInv, SentInv, TypeInv, ResultType, Positions, SentType
      <3>3. \A i, j \in 1 .. Len(sent) : i < j => sent[i] < sent[j]
        BY DEF RoundInv, SentInv, ProposalsIncrease
      <3>4. sent \in Seq(Nat) /\ seqLeave \in Nat
        BY ConsensusAssumption DEF TypeInv, SentType
      <3>5. ProposalsIncrease'
        BY <3>1, <3>2, <3>3, <3>4, AppendIncreases DEF ProposalsIncrease
      <3> QED
        BY <3>1, <3>5 DEF SentInv
    <2>2. CASE ~(mode = "proposing" /\ seated
                 /\ position.proposeSeq # seqLeave)
      <3>1. sent' = sent /\ mode' # "proposing"
        BY <1>1, <2>2 DEF leaveConsensus
      <3> QED
        BY <3>1 DEF RoundInv, SentInv, ProposalsIncrease
    <2> QED
      BY <2>1, <2>2
  <1> QED
    BY <1>3, <1>4, <1>5 DEF RoundInv

LEMMA SwitchLedgerSafety ==
    ASSUME TypeInv, RoundInv, SwitchLedger
    PROVE  RoundInv' /\ LedgerInv'
  <1>1. pc = "switch" /\ sent' = sent
    BY DEF SwitchLedger
  <1>2. CASE NothingToSwitch
    <2>1. RoundInv'
      BY <1>1, <1>2, RoundSame DEF NothingToSwitch
    <2>2. LedgerInv'
      BY <1>2 DEF NothingToSwitch, LedgerInv, roundVars
    <2> QED
      BY <2>1, <2>2
  <1>3. CASE LedgerAcquired
    BY <1>1, <1>3, StartRoundInternalSafety DEF LedgerAcquired
  <1>4. CASE LedgerNotAcquired
    <2>1. /\ phase # "accepted"
          /\ mode' = "wrongLedger"
          /\ UNCHANGED <<phase, prevLedgerID, disputeVars, resultVars,
                         peerVars>>
      BY <1>1, <1>4 DEF LedgerNotAcquired, TypeInv, StackInv
    <2>2. ResultMatchesPhase' /\ PositionsAreCurrent' /\ AcceptedIsAgreed'
      BY <2>1 DEF RoundInv, ResultMatchesPhase, PositionsAreCurrent, Current,
                  AcceptedIsAgreed, resultVars, peerVars
    <2>3. TallyInv'
      BY <2>1, TallySame DEF RoundInv, tallyVars, resultVars, peerVars
    <2>4. SentInv' /\ LedgerInv'
      BY <1>1, <2>1 DEF RoundInv, SentInv, ProposalsIncrease, LedgerInv
    <2> QED
      BY <2>2, <2>3, <2>4 DEF RoundInv
  <1> QED
    BY <1>2, <1>3, <1>4 DEF SwitchLedger

LEMMA CloseLedgerSafety ==
    ASSUME TypeOK, RoundInv, phase = "open", NEW set \in TxSets,
           closeLedger(set), phase' \in {"establish", "accepted"},
           UNCHANGED <<mode, prevLedgerID, currPeerPositions, deadNodes>>
    PROVE  RoundInv'
  <1>1. /\ seated' = TRUE /\ txns' = set
        /\ position' = [position |-> set, proposeSeq |-> 0,
                        closeTime |-> clock, time |-> clock]
        /\ state' = "No"
        /\ acquired' = acquired \cup {set}
        /\ sent' = IF mode = "proposing" THEN Append(sent, 0) ELSE sent
    BY DEF closeLedger
  <1>2. ResultMatchesPhase' /\ AcceptedIsAgreed'
    BY <1>1 DEF ResultMatchesPhase, AcceptedIsAgreed
  <1>3. TallyInv'
    BY CloseLedgerTally
  <1>4. PositionsAreCurrent'
    BY DEF RoundInv, PositionsAreCurrent, Current
  <1>5. SentInv'
    <2>1. CASE mode = "proposing"
      <3>1. sent = <<>>
        BY <2>1 DEF RoundInv, SentInv, ResultMatchesPhase
      <3>2. sent' = <<0>>
        BY <1>1, <2>1, <3>1
      <3> QED
        BY <1>1, <3>2, ConsensusAssumption DEF SentInv, ProposalsIncrease
    <2>2. CASE mode # "proposing"
      BY <1>1, <2>2 DEF RoundInv, SentInv, ProposalsIncrease
    <2> QED
      BY <2>1, <2>2
  <1> QED
    BY <1>2, <1>3, <1>4, <1>5 DEF RoundInv

LEMMA UpdateSafety ==
    ASSUME TypeOK, RoundInv, phase = "establish", updateOurPositions,
           UNCHANGED <<mode, prevLedgerID, seated, deadNodes>>
    PROVE  /\ TallyInv' /\ PositionsAreCurrent' /\ SentInv'
           /\ txns' = position'.position /\ txns' \in acquired' /\ seated'
  <1> USE TypeGroups
  <1>1. seated /\ txns = position.position /\ txns \in acquired
    BY DEF RoundInv, ResultMatchesPhase
  <1>2. TallyInv'
    BY <1>1, UpdateTally DEF RoundInv
  <1>3. PositionsAreCurrent'
    <2>1. currPeerPositions' = Without(Stale)
      BY UpdateParts DEF KeptPositions
    <2>2. PositionsAreCurrent
      BY DEF RoundInv
    <2> QED
      BY <2>1, <2>2 DEF Without, PositionsAreCurrent, Current
  <1>4. txns' = position'.position /\ txns' \in acquired' /\ seated'
    BY <1>1, UpdateParts, Zenon
  <1>5. SentInv'
    <2>1. CASE mode # "proposing"
      <3>1. sent' = sent
        BY <2>1, UpdateParts
      <3> QED
        BY <2>1, <3>1 DEF RoundInv, SentInv, ProposalsIncrease
    <2>2. CASE mode = "proposing"
      <3>1. /\ position.proposeSeq \in Nat /\ seqLeave \in Nat
            /\ position.proposeSeq <= seqLeave
            /\ sent \in Seq(Nat)
            /\ \A i \in 1 .. Len(sent) :
                  sent[i] \in Nat /\ sent[i] <= position.proposeSeq
            /\ \A i, j \in 1 .. Len(sent) : i < j => sent[i] < sent[j]
        <4>1. position \in Positions /\ sent \in Seq(Nat) /\ seqLeave \in Nat
          BY ConsensusAssumption DEF ResultType, SentType
        <4>2. position.proposeSeq \in Nat
          BY <4>1 DEF Positions
        <4>3. \A i \in 1 .. Len(sent) : sent[i] \in Nat
          BY <4>1
        <4> QED
          BY <1>1, <2>2, <4>1, <4>2, <4>3
          DEF RoundInv, SentInv, ProposalsIncrease
      <3>2. OurPosition.proposeSeq
              = IF TakesNewPosition /\ position.proposeSeq # seqLeave
                  THEN position.proposeSeq + 1 ELSE position.proposeSeq
        BY DEF OurPosition, changePosition
      <3>3. /\ position' = OurPosition
            /\ sent' = IF TakesNewPosition /\ OurPosition.proposeSeq # seqLeave
                         THEN Append(sent, OurPosition.proposeSeq)
                         ELSE sent
        BY <2>2, UpdateParts
      <3>4. CASE TakesNewPosition /\ OurPosition.proposeSeq # seqLeave
        <4> DEFINE n == OurPosition.proposeSeq
        <4>1. n = position.proposeSeq + 1 /\ n <= seqLeave /\ n \in Nat
          BY <3>1, <3>2, <3>4
        <4>2. sent' = Append(sent, n)
          BY <3>3, <3>4
        <4>3. \A i \in 1 .. Len(sent) : sent[i] < n
          BY <3>1, <4>1
        <4>4. /\ \A i, j \in 1 .. Len(sent') : i < j => sent'[i] < sent'[j]
              /\ \A i \in 1 .. Len(sent') : sent'[i] <= n
          <5> HIDE DEF n
          <5> QED
            BY <3>1, <4>1, <4>2, <4>3, AppendIncreases
        <4> QED
          BY <1>4, <3>3, <4>1, <4>4 DEF SentInv, ProposalsIncrease
      <3>5. CASE ~(TakesNewPosition /\ OurPosition.proposeSeq # seqLeave)
        <4>1. /\ sent' = sent
              /\ OurPosition.proposeSeq <= seqLeave
              /\ OurPosition.proposeSeq >= position.proposeSeq
              /\ OurPosition.proposeSeq \in Nat
          BY <3>1, <3>2, <3>3, <3>5
        <4>2. \A i \in 1 .. Len(sent) : sent[i] <= OurPosition.proposeSeq
          BY <3>1, <4>1
        <4> QED
          BY <1>4, <3>1, <3>3, <4>1, <4>2 DEF SentInv, ProposalsIncrease
      <3> QED
        BY <3>4, <3>5
    <2> QED
      BY <2>1, <2>2
  <1> QED
    BY <1>2, <1>3, <1>4, <1>5

(* A share of at least minCONSENSUS_PCT, as checkConsensusReached computes *)
(* it, is that share of the positions.                                     *)
LEMMA ReachedIsShare ==
    ASSUME NEW agree \in Nat, NEW total \in Nat, NEW self \in {0, 1},
           checkConsensusReached(agree, total, self = 1)
    PROVE  total = 0 \/ (agree + self) * 100
                            >= minCONSENSUS_PCT * (total + self)
  <1>1. ASSUME NEW x \in Nat, NEW n \in Nat \ {0}, x \div n >= 80
        PROVE  x >= 80 * n
    BY <1>1
  <1> SUFFICES ASSUME total # 0
               PROVE  (agree + self) * 100
                          >= minCONSENSUS_PCT * (total + self)
    OBVIOUS
  <1>2. ((agree + self) * 100) \div (total + self) >= 80
    BY DEF checkConsensusReached, minCONSENSUS_PCT
  <1>3. (agree + self) * 100 \in Nat /\ total + self \in Nat \ {0}
    OBVIOUS
  <1> QED
    BY <1>1, <1>2, <1>3 DEF minCONSENSUS_PCT

LEMMA EstablishSafety ==
    ASSUME TypeOK, RoundInv, phaseEstablish PROVE RoundInv'
  <1>1. phase = "establish"
    BY DEF phaseEstablish
  <1>2. CASE EstablishWaits
    BY <1>2, RoundSame DEF EstablishWaits
  <1>3. CASE ~EstablishWaits
    <2>1. /\ updateOurPositions
          /\ UNCHANGED <<mode, prevLedgerID, seated, deadNodes>>
          /\ \/ phase' = phase
             \/ \E finished \in 0 .. Cardinality(Peers) :
                    EstablishAccepts(finished)
      BY <1>3 DEF phaseEstablish, EstablishPauses, EstablishContinues,
                  EstablishAccepts, roundVars
    <2>2. /\ TallyInv' /\ PositionsAreCurrent' /\ SentInv'
          /\ txns' = position'.position /\ txns' \in acquired' /\ seated'
      BY <1>1, <2>1, UpdateSafety
    <2>3. phase' \in {"establish", "accepted"}
      BY <1>1, <2>1 DEF EstablishAccepts
    <2>4. ResultMatchesPhase'
      BY <2>2, <2>3 DEF ResultMatchesPhase
    <2>5. CASE phase' = phase
      BY <1>1, <2>2, <2>4, <2>5 DEF RoundInv, AcceptedIsAgreed
    <2>6. ASSUME NEW finished \in 0 .. Cardinality(Peers),
                 EstablishAccepts(finished)
          PROVE  AcceptedIsAgreed'
      <3> DEFINE self == IF mode = "proposing" THEN 1 ELSE 0
                 total == Cardinality(Current(currPeerPositions'))
                 agree == Cardinality(Holding(currPeerPositions', txns'))
      <3>1. total \in Nat /\ agree \in Nat
        BY CountsAreNat DEF Current, Holding
      <3>2. state' = "Yes" =>
              checkConsensusReached(agree, total, mode = "proposing")
        BY <2>2, <2>6 DEF EstablishAccepts, ConsensusNow, checkConsensus
      <3>3. (mode = "proposing") = (self = 1) /\ self \in {0, 1}
        OBVIOUS
      <3>4. state' = "Yes" => checkConsensusReached(agree, total, self = 1)
        BY <3>2, <3>3, Zenon
      <3>5. state' = "Yes" =>
              total = 0 \/ (agree + self) * 100
                               >= minCONSENSUS_PCT * (total + self)
        <4> HIDE DEF self, total, agree
        <4> QED
          BY <3>1, <3>3, <3>4, ReachedIsShare
      <3> QED
        BY <2>1, <3>5 DEF AcceptedIsAgreed
    <2> QED
      BY <2>1, <2>2, <2>4, <2>5, <2>6 DEF RoundInv
  <1> QED
    BY <1>2, <1>3

LEMMA SafetyNext == SafetyInv /\ [Next]_vars => SafetyInv'
  <1> SUFFICES ASSUME SafetyInv, [Next]_vars PROVE SafetyInv'
    OBVIOUS
  <1>1. TypeInv' /\ TypeInv /\ TypeOK /\ RoundInv /\ LedgerInv
    BY TypeNext DEF SafetyInv, TypeInv
  <1> SUFFICES RoundInv' /\ LedgerInv'
    BY <1>1 DEF SafetyInv
  <1>2. CASE UNCHANGED vars
    <2>1. LedgerInv'
      BY <1>1, <1>2 DEF vars, roundVars, stackVars, LedgerInv
    <2> QED
      BY <1>1, <1>2, <2>1, RoundSame DEF vars
  <1>3. CASE ReceiveProposal
    <2>1. PICK prop \in Proposals : PeerProposal(prop)
      <3>1. PICK p \in Peers, l \in Ledgers,
                 s \in ProposeSeqs \cup {seqLeave},
                 set \in TxSets, t \in CloseTimes :
               PeerProposal(
                   [nodeID |-> p, prevLedger |-> l, proposeSeq |-> s,
                    position |-> set, closeTime |-> t, time |-> clock])
        BY <1>3, Zenon DEF ReceiveProposal
      <3>2. [nodeID |-> p, prevLedger |-> l, proposeSeq |-> s,
             position |-> set, closeTime |-> t, time |-> clock] \in Proposals
        BY <1>1 DEF TypeOK, Proposals
      <3> QED
        BY <3>1, <3>2, Zenon
    <2>2. /\ peerProposalInternal(prop)
          /\ UNCHANGED <<roundVars, resultVars, sent, stackVars>>
      BY <2>1 DEF PeerProposal
    <2>3. LedgerInv'
      BY <1>1, <2>2 DEF roundVars, stackVars, LedgerInv
    <2> QED
      BY <1>1, <2>2, <2>3, ProposalSafety
  <1>4. ASSUME NEW p \in Peers, Playback(p) PROVE RoundInv' /\ LedgerInv'
    <2>1. /\ todo[p] # <<>>
          /\ peerProposalInternal(Head(todo[p]))
          /\ UNCHANGED <<roundVars, resultVars, sent, pc, after>>
      BY <1>4 DEF Playback
    <2>2. todo[p] \in Seq(Proposals)
      BY <1>1 DEF TypeOK
    <2>3. Head(todo[p]) \in Proposals
      BY <2>1, <2>2
    <2>4. LedgerInv'
      BY <1>1, <2>1 DEF roundVars, LedgerInv
    <2> QED
      BY <1>1, <2>1, <2>3, <2>4, ProposalSafety
  <1>5. ASSUME NEW set \in TxSets, GotTxSet(set) PROVE RoundInv' /\ LedgerInv'
    <2>1. LedgerInv'
      BY <1>1, <1>5 DEF GotTxSet, roundVars, stackVars, LedgerInv
    <2> QED
      BY <1>1, <1>5, <2>1, GotTxSetSafety
  <1>6. CASE \/ PlaybackDone \/ Started \/ TimerEntry
             \/ Tick \/ \E l \in Ledgers : LedgerIsRight(l)
    <2>1. UNCHANGED <<roundVars, disputeVars, resultVars, peerVars, sent>>
      BY <1>6 DEF PlaybackDone, Started, TimerEntry, Tick,
                  LedgerIsRight
    <2>2. UNCHANGED <<mode, prevLedgerID, previousLedger>>
      BY <2>1 DEF roundVars
    <2>3. LedgerInv'
      <3>1. CASE PlaybackDone
        BY <1>1, <2>2, <3>1 DEF PlaybackDone, LedgerInv, TypeOK
      <3>2. CASE ~PlaybackDone
        BY <1>1, <1>6, <2>2, <3>2
        DEF Started, TimerEntry, Tick, LedgerIsRight,
            stackVars, LedgerInv
      <3> QED
        BY <3>1, <3>2
    <2> QED
      BY <1>1, <2>1, <2>3, RoundSame
  <1>7. ASSUME NEW l \in Ledgers, handleWrongLedger(l)
        PROVE  RoundInv' /\ LedgerInv'
    BY <1>1, <1>7, WrongLedgerSafety
  <1>8. CASE phaseOpen
    <2>1. LedgerInv'
      BY <1>1, <1>8 DEF phaseOpen, roundVars, LedgerInv
    <2>2. CASE UNCHANGED <<roundVars, disputeVars, resultVars, peerVars, sent>>
      BY <1>1, <2>1, <2>2, RoundSame
    <2>3. CASE \E set \in TxSets :
                  /\ phase = "open" /\ closeLedger(set)
                  /\ phase' = "establish"
                  /\ UNCHANGED <<mode, prevLedgerID, currPeerPositions,
                                 deadNodes>>
      BY <1>1, <2>1, <2>3, CloseLedgerSafety
    <2> QED
      BY <1>8, <2>2, <2>3 DEF phaseOpen
  <1>9. ASSUME NEW set \in TxSets, NEW delay \in {1}, Simulate(set, delay)
        PROVE  RoundInv' /\ LedgerInv'
    <2>1. LedgerInv'
      BY <1>1, <1>9 DEF Simulate, stackVars, LedgerInv
    <2> QED
      BY <1>1, <1>9, <2>1, CloseLedgerSafety DEF Simulate
  <1>10. CASE phaseEstablish
    <2>1. LedgerInv'
      <3>1. pc = "phase" /\ UNCHANGED <<mode, prevLedgerID, previousLedger>>
        BY <1>10 DEF phaseEstablish, EstablishWaits, EstablishPauses,
                     EstablishContinues, EstablishAccepts, roundVars
      <3> QED
        BY <1>1, <3>1 DEF LedgerInv
    <2> QED
      BY <1>1, <1>10, <2>1, EstablishSafety
  <1>11. CASE Run
    <2>1. CASE CheckLedger
      BY <1>6, <1>7, <2>1 DEF CheckLedger
    <2>2. CASE RunPhase
      BY <1>6, <1>8, <1>10, <2>2 DEF RunPhase
    <2>3. CASE SwitchLedger
      BY <1>1, <2>3, SwitchLedgerSafety
    <2> QED
      BY <1>4, <1>6, <1>11, <2>1, <2>2, <2>3 DEF Run
  <1> QED
    BY <1>2, <1>3, <1>5, <1>6, <1>9, <1>11, StartRoundSafety DEF Next

LEMMA SafetyInvariant == Spec => []SafetyInv
  BY SafetyInit, SafetyNext, PTL DEF Spec

(* No step but startRound changes an accepted round.                       *)
frozenVars == <<phase, mode, previousLedger, prevLedgerID, resultVars,
                disputeVars, peerVars>>

LEMMA FrozenStep ==
    ASSUME TypeInv, Next, phase = "accepted", rounds' = rounds
    PROVE  UNCHANGED frozenVars
  <1>1. pc = "idle" /\ rounds \in Nat
    BY TypeGroups DEF TypeInv, StackInv, EnvType
  <1>2. ASSUME UNCHANGED <<roundVars, resultVars, disputeVars, peerVars>>
        PROVE  UNCHANGED frozenVars
    BY <1>2 DEF roundVars, frozenVars
  <1>3. CASE ReceiveProposal
    <2>1. ASSUME NEW prop, PeerProposal(prop) PROVE UNCHANGED frozenVars
      <3>1. IgnoreProposal(prop) /\ UNCHANGED <<roundVars, resultVars>>
        BY <2>1 DEF PeerProposal, peerProposalInternal, PeerBowsOut,
                    PeerTakesPosition, Ignored
      <3> QED
        BY <1>2, <3>1 DEF IgnoreProposal
    <2> QED
      BY <1>3, <2>1, Zenon DEF ReceiveProposal
  <1>4. CASE Run
    BY <1>1, <1>4
    DEF Run, RunPhase, Playback, PlaybackDone, Started, CheckLedger,
        LedgerIsRight, handleWrongLedger, SwitchLedger, phaseOpen,
        phaseEstablish
  <1>5. CASE Tick
    BY <1>2, <1>5 DEF Tick
  <1>6. ~TimerEntry
        /\ (\A set \in TxSets : ~GotTxSet(set))
        /\ (\A set \in TxSets, delay \in {1} : ~Simulate(set, delay))
    BY DEF TimerEntry, GotTxSet, Simulate
  <1>7. \A id, lgr \in Ledgers, gone \in SUBSET Peers, pr \in BOOLEAN :
           ~StartRound(id, lgr, gone, pr)
    <2>1. ASSUME NEW id, NEW lgr, NEW gone, NEW pr,
                 StartRound(id, lgr, gone, pr)
          PROVE  rounds' = rounds + 1
      BY <2>1, Zenon DEF StartRound
    <2>2. rounds # rounds + 1
      BY <1>1
    <2> QED
      BY <2>1, <2>2, Zenon
  <1> QED
    BY <1>3, <1>4, <1>5, <1>6, <1>7 DEF Next

-----------------------------------------------------------------------------
(* The close time *)

(* Rounding a rounded close time changes nothing. *)
LEMMA SmallMultiple ==
    ASSUME NEW r \in Nat \ {0}, NEW a \in Int, r * a < r, r * a > -r
    PROVE  a = 0
  <1>1. a >= 1 => r * a >= r
    OBVIOUS
  <1>2. a <= -1 => r * a <= -r
    OBVIOUS
  <1> QED
    BY <1>1, <1>2

LEMMA MultipleModulo ==
    ASSUME NEW r \in Nat \ {0}, NEW q \in Nat, NEW h \in 0 .. r - 1
    PROVE  (r * q + h) % r = h
  <1> DEFINE y == r * q + h
             d == y \div r
             m == y % r
  <1>1. y \in Nat /\ d \in Int /\ m \in 0 .. r - 1 /\ y = r * d + m
    OBVIOUS
  <1>2. r * (q - d) = m - h
    <2> HIDE DEF d, m
    <2>1. r * q + h = r * d + m
      BY <1>1
    <2> QED
      BY <1>1, <2>1
  <1>3. q - d = 0
    <2> HIDE DEF d, m, y
    <2>1. q - d \in Int /\ r * (q - d) < r /\ r * (q - d) > -r
      BY <1>1, <1>2
    <2> QED
      BY <2>1, SmallMultiple
  <1>4. m = h
    <2> HIDE DEF d, m, y
    <2>1. r * (q - d) = 0
      BY <1>3
    <2> QED
      BY <1>1, <1>2, <2>1
  <1> QED
    BY <1>4

LEMMA RoundTwice ==
    ASSUME NEW t \in Nat, NEW r \in Nat \ {0}
    PROVE  roundCloseTime(roundCloseTime(t, r), r) = roundCloseTime(t, r)
  <1> DEFINE h == r \div 2
             u == t + h
             q == u \div r
  <1>1. h \in 0 .. r - 1 /\ u \in Nat
    OBVIOUS
  <1>2. q \in Nat /\ u - (u % r) = r * q
    <2> HIDE DEF u
    <2> QED
      BY <1>1
  <1>3. ((r * q) + h) - (((r * q) + h) % r) = r * q
    <2> HIDE DEF q, h
    <2> QED
      BY <1>1, <1>2, MultipleModulo
  <1> QED
    <2> HIDE DEF q
    <2> QED
      BY <1>2, <1>3 DEF roundCloseTime

(* Among finitely many strong times one wins. *)
LEMMA StrongHasWinner ==
    ASSUME NEW polls, NEW n, IsFiniteSet(DOMAIN polls),
           DOMAIN polls \subseteq Nat,
           \A t \in DOMAIN polls : polls[t] \in Nat,
           StrongTimes(polls, n) # {}
    PROVE  WinningTimes(polls, n) # {}
  <1> DEFINE S == StrongTimes(polls, n)
             Beats(u, t) == \/ polls[u] > polls[t]
                            \/ polls[u] = polls[t] /\ u > t
             Above(t) == {u \in S : Beats(u, t)}
             T == {Above(t) : t \in S}
  <1>1. S \subseteq DOMAIN polls /\ IsFiniteSet(S)
    <2>1. S \subseteq DOMAIN polls
      BY DEF StrongTimes
    <2> QED
      BY <2>1, FS_Subset
  <1>2. \A t \in S : t \in Nat /\ polls[t] \in Nat
    BY <1>1
  <1>3. T \subseteq FiniteSubsetsOf(S) /\ T # {}
    <2>1. \A t \in S : Above(t) \in SUBSET S /\ IsFiniteSet(Above(t))
      BY <1>1, FS_Subset
    <2> QED
      BY <2>1 DEF FiniteSubsetsOf
  <1>4. PICK t \in S : \A u \in S :
            ~(<<Above(u), Above(t)>> \in StrictSubsetOrdering(S))
    <2> HIDE DEF S
    <2>1. PICK x \in T : \A y \in T : ~(<<y, x>> \in StrictSubsetOrdering(S))
      <3> HIDE DEF T
      <3> QED
        BY <1>3, FS_StrictSubsetOrderingWellFounded, WFMin
    <2> QED
      BY <2>1
  <1>5. \A u \in S : ~Beats(u, t)
    <2> SUFFICES ASSUME NEW u \in S, Beats(u, t) PROVE FALSE
      OBVIOUS
    <2>1. Above(u) \subseteq Above(t)
      BY <1>2
    <2>2. u \in Above(t) /\ u \notin Above(u)
      BY <1>2
    <2>3. <<Above(u), Above(t)>> \in StrictSubsetOrdering(S)
      <3>1. Above(u) \in SUBSET S /\ Above(t) \in SUBSET S
        OBVIOUS
      <3> HIDE DEF Above, S
      <3> QED
        BY <2>1, <2>2, <3>1 DEF StrictSubsetOrdering
    <2> QED
      BY <1>4, <2>3
  <1>6. \A u \in S : \/ polls[u] < polls[t]
                     \/ polls[u] = polls[t] /\ u <= t
    BY <1>2, <1>5
  <1> QED
    BY <1>6 DEF WinningTimes

(* The polls for a close time: own holds our time if we propose, f the     *)
(* peers' times.                                                           *)
Tally(own, curr, f) ==
    [t \in own \cup {f[p] : p \in curr} |->
        Cardinality({p \in curr : f[p] = t}) + Cardinality(own \cap {t})]

(* If our vote moves to a time, that time has no fewer polls than before.  *)
LEMMA MovedVoteCounts ==
    ASSUME NEW curr \in SUBSET Peers, NEW f, NEW a, NEW w,
           NEW own \in {{}, {a}}, NEW moved \in {{}, {w}},
           (own = {}) = (moved = {}), w \in DOMAIN Tally(own, curr, f)
    PROVE  /\ w \in DOMAIN Tally(moved, curr, f)
           /\ Tally(own, curr, f)[w] \in Nat
           /\ Tally(moved, curr, f)[w] \in Nat
           /\ Tally(moved, curr, f)[w] >= Tally(own, curr, f)[w]
  <1> DEFINE c == Cardinality({p \in curr : f[p] = w})
  <1>1. c \in Nat
    BY CountsAreNat
  <1>2. w \in moved \cup {f[p] : p \in curr}
    BY DEF Tally
  <1>3. CASE own = {}
    <2>1. moved = own
      BY <1>3
    <2>2. own \cap {w} = {} /\ Cardinality({}) = 0
      BY <1>3, FS_EmptySet
    <2>3. Tally(own, curr, f)[w] = c + 0
      BY <2>2 DEF Tally
    <2> HIDE DEF c
    <2>4. ASSUME NEW x, x = c + 0 PROVE x \in Nat /\ x >= x
      BY <1>1, <2>4
    <2> QED
      BY <2>1, <2>3, <2>4
  <1>4. CASE own # {}
    <2>1. moved \cap {w} = {w} /\ own \cap {w} \in {{}, {w}}
      BY <1>4
    <2>2. Cardinality({}) = 0 /\ Cardinality({w}) = 1
      BY FS_EmptySet, FS_Singleton
    <2>3. Cardinality(moved \cap {w}) = 1 /\ Cardinality(own \cap {w}) \in {0, 1}
      BY <2>1, <2>2
    <2>4. /\ Tally(own, curr, f)[w] = c + Cardinality(own \cap {w})
          /\ Tally(moved, curr, f)[w] = c + Cardinality(moved \cap {w})
          /\ DOMAIN Tally(moved, curr, f) = moved \cup {f[p] : p \in curr}
      BY <1>2 DEF Tally
    <2> HIDE DEF c
    <2>5. ASSUME NEW x, NEW y, NEW i \in {0, 1}, x = c + i, y = c + 1
          PROVE  x \in Nat /\ y \in Nat /\ y >= x
      BY <1>1, <2>5
    <2>6. w \in DOMAIN Tally(moved, curr, f)
      BY <1>2, <2>4
    <2>7. Tally(moved, curr, f)[w] = c + 1
      BY <2>3, <2>4
    <2> QED
      BY <2>3, <2>4, <2>5, <2>6, <2>7
  <1> QED
    BY <1>3, <1>4

(* The winner of a tally in which some time has need votes has them. *)
LEMMA WinnerIsAgreed ==
    ASSUME NEW polls, NEW n, NEW need \in Nat, IsFiniteSet(DOMAIN polls),
           DOMAIN polls \subseteq Nat,
           \A t \in DOMAIN polls : polls[t] \in Nat,
           haveCloseTimeConsensus(polls, n, need)
    PROVE  /\ consensusCloseTime(polls, n) \in DOMAIN polls
           /\ polls[consensusCloseTime(polls, n)] >= need
  <1>1. PICK t \in StrongTimes(polls, n) : polls[t] >= need
    BY DEF haveCloseTimeConsensus
  <1>2. WinningTimes(polls, n) # {}
    BY <1>1, StrongHasWinner
  <1> DEFINE w == consensusCloseTime(polls, n)
  <1>3. w \in WinningTimes(polls, n)
    BY <1>2 DEF consensusCloseTime
  <1>4. /\ w \in StrongTimes(polls, n)
        /\ polls[t] < polls[w] \/ polls[t] = polls[w]
    BY <1>3 DEF WinningTimes
  <1>5. polls[t] \in Nat /\ polls[w] \in Nat /\ w \in DOMAIN polls
    BY <1>4 DEF StrongTimes
  <1> HIDE DEF w
  <1>6. polls[w] >= need
    BY <1>1, <1>4, <1>5
  <1> QED
    BY <1>5, <1>6 DEF w

(* The votes of closeTimeVotes as a tally. *)
PeerTimes(curr) == [p \in Current(curr) |-> asCloseTime(curr[p].closeTime)]

OwnTime == IF mode = "proposing" THEN {asCloseTime(position.closeTime)} ELSE {}

LEMMA VotesAreTally ==
    ASSUME NEW curr
    PROVE  closeTimeVotes(curr) = Tally(OwnTime, Current(curr), PeerTimes(curr))
  BY DEF closeTimeVotes, Tally, OwnTime, PeerTimes

(* The winning close time has the votes of an agreement, and it is what    *)
(* our position holds once updateOurPositions is done.                     *)
LEMMA TakenTimeIsAgreed ==
    ASSUME TypeOK, updateOurPositions, useRoundedCloseTime,
           UNCHANGED <<mode, previousLedger>>,
           CloseTimeConsensus(currPeerPositions'),
           Current(currPeerPositions') # {}
    PROVE  LET ours == asCloseTime(position.closeTime)'
               votesNow == closeTimeVotes(currPeerPositions)'
           IN  /\ ours \in DOMAIN votesNow
               /\ votesNow[ours] >= threshConsensus(currPeerPositions)'
  <1> /\ RoundType /\ ResultType /\ PeerType
    BY TypeGroups
  <1> DEFINE curr == KeptPositions
             w == NewCloseTime(curr)
             cast == closeTimeVotes(curr)
             need == threshConsensus(curr)
             time(t) == roundCloseTime(t, closeResolution)
  <1>1. /\ currPeerPositions' = curr /\ position' = OurPosition
        /\ curr \in [Peers -> Proposals \cup {NoProposal}]
        /\ Current(curr) # {} /\ CloseTimeConsensus(curr)
    BY UpdateParts, OurPositionType
  <1>2. closeResolution \in Nat \ {0} /\ closeResolution' = closeResolution
    BY ResolutionIsPositive DEF RoundType, closeResolution, PrevInfo
  <1>3. \A t : asCloseTime(t) = time(t)
    BY DEF asCloseTime
  <1>4. position.closeTime \in Nat
        /\ \A p \in Current(curr) : curr[p].closeTime \in Nat
    <2>1. position.closeTime \in Nat
      BY DEF ResultType, Positions
    <2>2. \A p \in Current(curr) : curr[p] \in Proposals
      BY <1>1 DEF Current
    <2> QED
      BY <2>1, <2>2, ConsensusAssumption DEF Proposals
  <1>5. \A u \in DOMAIN cast : u \in Nat /\ time(u) = u
    <2>1. ASSUME NEW t \in Nat PROVE time(t) \in Nat /\ time(time(t)) = time(t)
      BY <1>2, <1>3, CloseTimesAreNat, RoundTwice DEF RoundType
    <2>2. \A u \in DOMAIN cast : \E t \in Nat : u = time(t)
      BY <1>3, <1>4 DEF closeTimeVotes
    <2> QED
      BY <2>1, <2>2
  <1>6. need \in Nat
    BY CountsAreNat DEF threshConsensus, Participants, participantsNeeded, Current,
                        avCT_CONSENSUS_PCT
  <1>7. IsFiniteSet(DOMAIN cast) /\ \A t \in DOMAIN cast : cast[t] \in Nat
    <2> DEFINE f == PeerTimes(curr)
               C == Current(curr)
               R == {f[p] : p \in C}
    <2>1. IsFiniteSet(C)
      BY CountsAreNat DEF Current
    <2>2. IsFiniteSet(R)
      <3> DEFINE g == [p \in C |-> f[p]]
      <3>1. g \in Surjection(C, R)
        BY DEF Surjection
      <3> HIDE DEF g, R, C
      <3> QED
        BY <2>1, <3>1, FS_Surjection
    <2>3. IsFiniteSet(OwnTime)
      BY FS_EmptySet, FS_Singleton DEF OwnTime
    <2>4. cast = Tally(OwnTime, C, f)
      BY VotesAreTally
    <2>5. IsFiniteSet(OwnTime \cup R)
      BY <2>2, <2>3, FS_Union
    <2>6. \A t : Cardinality({p \in C : f[p] = t}) \in Nat
      BY CountsAreNat DEF Current
    <2>7. \A t : Cardinality(OwnTime \cap {t}) \in Nat
      BY <2>3, FS_Intersection, FS_CardinalityType
    <2> HIDE DEF f, C, cast
    <2>8. DOMAIN cast = OwnTime \cup R
      BY <2>4 DEF Tally
    <2>9. \A t \in DOMAIN cast : cast[t] \in Nat
      <3> SUFFICES ASSUME NEW t \in DOMAIN cast PROVE cast[t] \in Nat
        OBVIOUS
      <3> DEFINE a == Cardinality({p \in C : f[p] = t})
                 b == Cardinality(OwnTime \cap {t})
      <3>1. cast[t] = a + b
        BY <2>4, <2>8 DEF Tally
      <3>2. a \in Nat /\ b \in Nat
        BY <2>6, <2>7
      <3> HIDE DEF a, b
      <3> QED
        BY <3>1, <3>2
    <2> QED
      BY <2>5, <2>8, <2>9
  <1>8. w \in DOMAIN cast /\ cast[w] >= need
    <2>1. /\ haveCloseTimeConsensus(cast, threshVote(curr), need)
          /\ w = consensusCloseTime(cast, threshVote(curr))
      BY <1>1 DEF CloseTimeConsensus, NewCloseTime
    <2> HIDE DEF cast, need, w
    <2> QED
      BY <1>5, <1>6, <1>7, <2>1, WinnerIsAgreed
  <1>9. asCloseTime(position.closeTime)' = w
    <2>1. asCloseTime(position.closeTime)' = time(OurPosition.closeTime)
      BY <1>1, <1>2 DEF asCloseTime
    <2>2. time(w) = w
      BY <1>5, <1>8
    <2>3. CASE TakesNewPosition
      <3>1. OurPosition.closeTime = w
        BY <2>3 DEF OurPosition, changePosition
      <3> QED
        BY <2>1, <2>2, <3>1
    <2>4. CASE ~TakesNewPosition
      <3>1. w = time(position.closeTime) /\ OurPosition = position
        BY <1>3, <2>4 DEF OurPosition, TakesNewPosition
      <3> QED
        BY <2>1, <3>1
    <2> QED
      BY <2>3, <2>4
  <1>10. closeTimeVotes(currPeerPositions)'
            = Tally(OwnTime', Current(curr), PeerTimes(curr))
    <2>1. \A t : asCloseTime(t)' = time(t)
      BY <1>2 DEF asCloseTime
    <2>2. PeerTimes(currPeerPositions)' = PeerTimes(curr)
      BY <1>1, <1>3, <2>1 DEF PeerTimes, Current
    <2>3. Current(currPeerPositions)' = Current(curr)
      BY <1>1 DEF Current
    <2>4. closeTimeVotes(currPeerPositions)'
            = Tally(OwnTime', Current(currPeerPositions)', PeerTimes(currPeerPositions)')
      BY DEF closeTimeVotes, Tally, OwnTime, PeerTimes
    <2> QED
      BY <2>2, <2>3, <2>4
  <1>11. threshConsensus(currPeerPositions)' = need
    BY <1>1 DEF threshConsensus, Participants, Current
  <1>12. cast = Tally(OwnTime, Current(curr), PeerTimes(curr))
    BY VotesAreTally
  <1>13. /\ OwnTime \in {{}, {asCloseTime(position.closeTime)}}
         /\ OwnTime' \in {{}, {w}} /\ (OwnTime = {}) = (OwnTime' = {})
    BY <1>9 DEF OwnTime
  <1>14. Current(curr) \in SUBSET Peers
    BY DEF Current
  <1> HIDE DEF cast, w, curr, need
  <1>15. /\ w \in DOMAIN Tally(OwnTime', Current(curr), PeerTimes(curr))
         /\ Tally(OwnTime', Current(curr), PeerTimes(curr))[w] \in Nat
         /\ cast[w] \in Nat
         /\ Tally(OwnTime', Current(curr), PeerTimes(curr))[w] >= cast[w]
    <2> DEFINE o == OwnTime
               m == OwnTime'
               a == asCloseTime(position.closeTime)
               C == Current(curr)
               f == PeerTimes(curr)
    <2>1. /\ C \in SUBSET Peers /\ o \in {{}, {a}} /\ m \in {{}, {w}}
          /\ (o = {}) = (m = {}) /\ w \in DOMAIN Tally(o, C, f)
      BY <1>8, <1>12, <1>13, <1>14
    <2> HIDE DEF o, m, a, C, f
    <2>2. /\ w \in DOMAIN Tally(m, C, f)
          /\ Tally(o, C, f)[w] \in Nat
          /\ Tally(m, C, f)[w] \in Nat
          /\ Tally(m, C, f)[w] >= Tally(o, C, f)[w]
      BY <2>1, MovedVoteCounts, Zenon
    <2>3. cast[w] = Tally(o, C, f)[w]
      BY <1>12 DEF o, C, f
    <2>4. /\ w \in DOMAIN Tally(m, C, f)
          /\ cast[w] \in Nat
          /\ Tally(m, C, f)[w] \in Nat
          /\ Tally(m, C, f)[w] >= cast[w]
      BY <2>2, <2>3
    <2> QED
      BY <2>4 DEF m, C, f
  <1>16. Tally(OwnTime', Current(curr), PeerTimes(curr))[w] >= need
    <2> DEFINE now == Tally(OwnTime', Current(curr), PeerTimes(curr))[w]
    <2>1. now \in Nat /\ cast[w] \in Nat /\ now >= cast[w]
      BY <1>15
    <2> HIDE DEF now
    <2>2. need \in Int /\ cast[w] >= need
      BY <1>6, <1>8
    <2>3. now >= need
      BY <2>1, <2>2
    <2> QED
      BY <2>3 DEF now
  <1> QED
    BY <1>9, <1>10, <1>11, <1>15, <1>16

(* A round that is not accepted yet becomes so in phaseEstablish only.     *)
LEMMA AcceptsInEstablish ==
    ASSUME ~standalone, TypeInv, Next, phase # "accepted", phase' = "accepted"
    PROVE  /\ updateOurPositions /\ UNCHANGED <<mode, previousLedger>>
           /\ CloseTimeConsensus(currPeerPositions')
  <1>1. phase' # phase
    OBVIOUS
  <1>2. ~ReceiveProposal
    <2>1. ASSUME NEW prop, PeerProposal(prop) PROVE FALSE
      BY <1>1, <2>1 DEF PeerProposal, roundVars
    <2> QED
      BY <2>1, Zenon DEF ReceiveProposal
  <1>3. \A id, lgr \in Ledgers, gone \in SUBSET Peers, pr \in BOOLEAN :
           ~StartRound(id, lgr, gone, pr)
    <2>1. ASSUME NEW id, NEW lgr, NEW m, startRoundInternal(id, lgr, m)
          PROVE  FALSE
      BY <2>1, Zenon DEF startRoundInternal
    <2> QED
      BY <2>1, Zenon DEF StartRound
  <1>4. /\ ~TimerEntry /\ ~Tick
        /\ (\A set \in TxSets : ~GotTxSet(set))
        /\ (\A set \in TxSets, delay \in {1} : ~Simulate(set, delay))
    BY <1>1 DEF TimerEntry, Tick, GotTxSet, Simulate, roundVars
  <1>5. Run
    BY <1>2, <1>3, <1>4 DEF Next
  <1>6. /\ ~PlaybackDone /\ ~Started /\ \A p \in Peers : ~Playback(p)
    BY <1>1 DEF PlaybackDone, Started, Playback, roundVars
  <1>7. ~CheckLedger /\ ~SwitchLedger
    BY <1>1 DEF CheckLedger, LedgerIsRight, handleWrongLedger, SwitchLedger,
                NothingToSwitch, LedgerAcquired, LedgerNotAcquired,
                startRoundInternal, roundVars
  <1>8. phaseEstablish
    BY <1>5, <1>6, <1>7 DEF Run, RunPhase, phaseOpen, roundVars
  <1> QED
    BY <1>1, <1>8 DEF phaseEstablish, EstablishWaits, EstablishPauses,
                      EstablishContinues, EstablishAccepts, roundVars

LEMMA CloseTimeNext ==
    ASSUME ~standalone, TypeInv, AcceptedCloseTimeIsAgreed, [Next]_vars
    PROVE  AcceptedCloseTimeIsAgreed'
  <1>1. ASSUME UNCHANGED frozenVars PROVE AcceptedCloseTimeIsAgreed'
    BY <1>1 DEF frozenVars, resultVars, peerVars, AcceptedCloseTimeIsAgreed,
                asCloseTime, closeResolution, PrevInfo, closeTimeVotes,
                threshConsensus, Participants, Current
  <1>2. CASE UNCHANGED vars
    BY <1>1, <1>2 DEF vars, roundVars, frozenVars
  <1>3. CASE Next /\ phase = "accepted"
    <2>1. CASE rounds' = rounds
      BY <1>1, <1>3, <2>1, FrozenStep
    <2>2. CASE rounds' # rounds
      <3>1. ASSUME UNCHANGED rounds PROVE FALSE
        BY <2>2, <3>1
      <3>2. ~ReceiveProposal
        <4>1. ASSUME NEW prop, PeerProposal(prop) PROVE FALSE
          BY <3>1, <4>1 DEF PeerProposal
        <4> QED
          BY <4>1, Zenon DEF ReceiveProposal
      <3>3. ~Run
        BY <3>1 DEF Run, Playback, PlaybackDone, Started, CheckLedger, LedgerIsRight,
                    handleWrongLedger, SwitchLedger, RunPhase, phaseOpen,
                    phaseEstablish, envVars
      <3>4. /\ ~TimerEntry /\ ~Tick
            /\ (\A set \in TxSets : ~GotTxSet(set))
            /\ (\A set \in TxSets, delay \in {1} : ~Simulate(set, delay))
        BY <3>1 DEF TimerEntry, Tick, GotTxSet, Simulate, envVars
      <3>5. PICK id, lgr \in Ledgers, gone \in SUBSET Peers, pr \in BOOLEAN :
               StartRound(id, lgr, gone, pr)
        BY <1>3, <3>2, <3>3, <3>4, Zenon DEF Next
      <3>6. phase' = "open"
        BY <3>5, Zenon DEF StartRound, startRoundInternal
      <3> QED
        BY <3>6 DEF AcceptedCloseTimeIsAgreed
    <2> QED
      BY <2>1, <2>2
  <1>4. CASE Next /\ phase # "accepted"
    <2> SUFFICES ASSUME phase' = "accepted", useRoundedCloseTime,
                        Current(currPeerPositions') # {}
                 PROVE  LET ours == asCloseTime(position.closeTime)'
                            votesNow == closeTimeVotes(currPeerPositions)'
                        IN  /\ ours \in DOMAIN votesNow
                            /\ votesNow[ours] >= threshConsensus(currPeerPositions)'
      BY DEF AcceptedCloseTimeIsAgreed, Current
    <2>1. /\ updateOurPositions /\ UNCHANGED <<mode, previousLedger>>
          /\ CloseTimeConsensus(currPeerPositions')
      BY <1>4, AcceptsInEstablish
    <2>2. TypeOK
      BY DEF TypeInv
    <2> QED
      BY <2>1, <2>2, TakenTimeIsAgreed
  <1> QED
    BY <1>2, <1>3, <1>4

-----------------------------------------------------------------------------
(* The theorems *)

(* The assertions on result_ that closeLedger, phaseEstablish, gotTxSet    *)
(* and updateOurPositions make never fail.                                 *)
THEOREM ResultIsConsistent == Spec => []ResultMatchesPhase
  BY SafetyInvariant, PTL DEF SafetyInv, RoundInv

(* currPeerPositions_ holds only positions on our prior ledger, of peers   *)
(* that have not bowed out.                                                *)
THEOREM CountedPositions == Spec => []PositionsAreCurrent
  BY SafetyInvariant, PTL DEF SafetyInv, RoundInv

(* The tally of every DisputedTx is what the current positions say, for    *)
(* any number of peers and any order of proposals and sets.                *)
THEOREM TalliesFollowPositions == Spec => []VotesFollowPositions
  BY SafetyInvariant, PTL DEF SafetyInv, RoundInv, TallyInv

(* createDisputes and updateOurPositions leave no difference with a        *)
(* compared set out of dispute.                                            *)
THEOREM DisputesAreComplete == Spec => []DisputesCoverDifferences
  BY SafetyInvariant, PTL DEF SafetyInv, RoundInv, TallyInv

(* A round that ends with ConsensusState::Yes has minCONSENSUS_PCT of the  *)
(* positions behind the set it accepts.                                    *)
THEOREM YesMeansAgreement == Spec => []AcceptedIsAgreed
  BY SafetyInvariant, PTL DEF SafetyInv, RoundInv

(* The numbers of the proposals a node sends in a round grow strictly.     *)
THEOREM SentProposalsIncrease == Spec => []ProposalsIncrease
  BY SafetyInvariant, PTL DEF SafetyInv, RoundInv, SentInv

(* A node between two handlers that builds on another ledger than the      *)
(* preferred one is in mode wrongLedger.                                   *)
THEOREM WrongLedgerShows == Spec => []WrongLedgerIsKnown
  <1>1. SafetyInv => WrongLedgerIsKnown
    BY DEF SafetyInv, LedgerInv, WrongLedgerIsKnown
  <1> QED
    BY <1>1, SafetyInvariant, PTL

(* After a round is accepted nothing that the accept job reads changes     *)
(* until the next startRound: not by late proposals, sets or timers, nor   *)
(* by the return of nested calls of timerEntry.                            *)
THEOREM AcceptedStaysFrozen == Spec => AcceptedIsFrozen
  <1>1. TypeInv /\ [Next]_vars =>
          [phase = "accepted" /\ rounds' = rounds => UNCHANGED frozenVars]_vars
    BY FrozenStep
  <1> QED
    BY <1>1, TypeInvariant, PTL DEF Spec, AcceptedIsFrozen, frozenVars

(* The close time a node accepts has the votes of an agreement, for any    *)
(* number of peers: the vote that updateOurPositions moves to the winner   *)
(* takes none from it, and the winner is a rounded time already.  A        *)
(* standalone server closes by Simulate and counts nobody.                 *)
THEOREM AcceptedTimeHasVotes ==
    ASSUME ~standalone PROVE Spec => []AcceptedCloseTimeIsAgreed
  <1>1. Init => AcceptedCloseTimeIsAgreed
    BY DEF Init, AcceptedCloseTimeIsAgreed, Current
  <1>2. TypeInv /\ AcceptedCloseTimeIsAgreed /\ [Next]_vars
          => AcceptedCloseTimeIsAgreed'
    BY CloseTimeNext
  <1> QED
    BY <1>1, <1>2, TypeInvariant, PTL DEF Spec

=============================================================================
