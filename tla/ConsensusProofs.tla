-------------------------- MODULE ConsensusProofs --------------------------
(***************************************************************************)
(* Proofs about a consensus round, for any finite set of peers, any        *)
(* ledgers, transactions and durations, and any number of rounds.          *)
(***************************************************************************)
EXTENDS Consensus, FiniteSetTheorems, TLAPS

(* The types of the groups of variables. *)
RoundType ==
    /\ phase \in Phases
    /\ mode \in Modes
    /\ prevLedgerID \in Ledgers
    /\ previousLedger \in Ledgers
    /\ firstRound \in BOOLEAN
    /\ prevProposers \in Nat
    /\ prevRoundTime \in Int
    /\ prevCloseTime \in Nat
    /\ openStart \in Nat

ResultType ==
    /\ seated \in BOOLEAN
    /\ txns \in SUBSET Txs
    /\ position \in Positions
    /\ roundStart \in Nat
    /\ state \in {"No", "Yes", "MovedOn"}

DisputeType ==
    /\ disputes \in SUBSET Txs
    /\ ourVote \in [Txs -> BOOLEAN]
    /\ votes \in [Txs -> [Peers -> {"yes", "no", "none"}]]
    /\ compares \in SUBSET SUBSET Txs

PeerType ==
    /\ currPeerPositions \in [Peers -> Proposals \cup {NoProposal}]
    /\ deadNodes \in SUBSET Peers
    /\ acquired \in SUBSET SUBSET Txs
    /\ rawPeers \in [CloseTimes -> Nat]
    /\ rawSelf \in Nat

EnvType ==
    /\ clock \in Nat
    /\ heartbeat \in Nat
    /\ rounds \in Nat
    /\ received \in Nat

StackType ==
    /\ pc \in {"idle", "playback", "started", "check", "switch", "phase"}
    /\ after \in {"started", "switch"}
    /\ todo \in [Peers -> Seq(Proposals)]
    /\ depth \in Nat

RecentType == recentPeerPositions \in [Peers -> Seq(Proposals)]

SentType == sent \in Seq(Nat)

LEMMA TypeGroups ==
    /\ TypeOK <=> /\ RoundType /\ ResultType /\ DisputeType /\ PeerType
                  /\ EnvType /\ StackType /\ RecentType /\ SentType
    /\ TypeOK' <=> /\ RoundType' /\ ResultType' /\ DisputeType' /\ PeerType'
                   /\ EnvType' /\ StackType' /\ RecentType' /\ SentType'
  BY DEF TypeOK, RoundType, ResultType, DisputeType, PeerType, EnvType,
         StackType, RecentType, SentType

(* A group that an action leaves alone keeps its type. *)
LEMMA Unchanging ==
    /\ RoundType /\ UNCHANGED roundVars => RoundType'
    /\ ResultType /\ UNCHANGED resultVars => ResultType'
    /\ DisputeType /\ UNCHANGED disputeVars => DisputeType'
    /\ PeerType /\ UNCHANGED peerVars => PeerType'
    /\ EnvType /\ UNCHANGED envVars => EnvType'
    /\ StackType /\ UNCHANGED stackVars => StackType'
    /\ RecentType /\ UNCHANGED recentPeerPositions => RecentType'
    /\ SentType /\ UNCHANGED sent => SentType'
  <1>1. RoundType /\ UNCHANGED roundVars => RoundType'
    BY DEF RoundType, roundVars
  <1>2. ResultType /\ UNCHANGED resultVars => ResultType'
    BY DEF ResultType, resultVars
  <1>3. DisputeType /\ UNCHANGED disputeVars => DisputeType'
    BY DEF DisputeType, disputeVars
  <1>4. PeerType /\ UNCHANGED peerVars => PeerType'
    BY DEF PeerType, peerVars
  <1>5. EnvType /\ UNCHANGED envVars => EnvType'
    BY DEF EnvType, envVars
  <1>6. StackType /\ UNCHANGED stackVars => StackType'
    BY DEF StackType, stackVars
  <1> QED
    BY <1>1, <1>2, <1>3, <1>4, <1>5, <1>6 DEF RecentType, SentType

-----------------------------------------------------------------------------
(* Facts about the operators *)

LEMMA CountsAreNat ==
    ASSUME NEW S \in SUBSET Peers
    PROVE  IsFiniteSet(S) /\ Cardinality(S) \in Nat
  BY ConsensusAssumption, FS_Subset, FS_CardinalityType

LEMMA ResolutionIsPositive ==
    ASSUME previousLedger \in Ledgers
    PROVE  closeResolution \in Nat \ {0}
  <1>1. PrevInfo \in Headers
    BY ConsensusAssumption DEF PrevInfo
  <1>2. ASSUME NEW r \in Nat \ {0}, NEW a \in BOOLEAN, NEW s \in Nat
        PROVE  getNextLedgerTimeResolution(r, a, s) \in Nat \ {0}
    BY DEF getNextLedgerTimeResolution, ledgerPossibleTimeResolutions,
           Coarser, Finer, decreaseLedgerTimeResolutionEvery,
           increaseLedgerTimeResolutionEvery
  <1> QED
    BY <1>1, <1>2 DEF Headers, closeResolution

LEMMA CloseTimesAreNat ==
    ASSUME previousLedger \in Ledgers, NEW t \in Nat
    PROVE  asCloseTime(t) \in Nat
  <1>1. closeResolution \in Nat \ {0}
    BY ResolutionIsPositive
  <1>2. ASSUME NEW r \in Nat \ {0} PROVE roundCloseTime(t, r) \in Nat
    BY DEF roundCloseTime
  <1>3. PrevInfo.closeTime \in Nat
    BY ConsensusAssumption DEF PrevInfo, Headers
  <1> QED
    BY <1>1, <1>2, <1>3 DEF asCloseTime, effCloseTime

LEMMA NewCloseTimeIsNat ==
    ASSUME previousLedger \in Ledgers, position \in Positions,
           NEW curr \in [Peers -> Proposals \cup {NoProposal}]
    PROVE  NewCloseTime(curr) \in Nat
  <1>1. asCloseTime(position.closeTime) \in Nat
    BY CloseTimesAreNat DEF Positions
  <1>2. \A p \in Current(curr) : asCloseTime(curr[p].closeTime) \in Nat
    <2> SUFFICES ASSUME NEW p \in Current(curr)
                 PROVE  asCloseTime(curr[p].closeTime) \in Nat
      OBVIOUS
    <2>1. curr[p] \in Proposals
      BY DEF Current
    <2>2. curr[p].closeTime \in Nat
      BY <2>1, ConsensusAssumption DEF Proposals
    <2> QED
      BY <2>2, CloseTimesAreNat
  <1>3. DOMAIN closeTimeVotes(curr) \subseteq Nat
    BY <1>1, <1>2 DEF closeTimeVotes
  <1>4. ASSUME NEW f, NEW n, DOMAIN f \subseteq Nat
        PROVE  consensusCloseTime(f, n) \in Nat
    BY <1>4 DEF consensusCloseTime, WinningTimes, StrongTimes
  <1>5. consensusCloseTime(closeTimeVotes(curr), threshVote(curr)) \in Nat
    BY <1>3, <1>4
  <1> QED
    BY <1>1, <1>5 DEF NewCloseTime

-----------------------------------------------------------------------------
(* Types are kept *)

LEMMA UpdateDisputesType ==
    ASSUME DisputeType, NEW who, NEW o \in SUBSET Txs, txns \in SUBSET Txs,
           NEW curr, NEW have, UpdateDisputes(who, o, curr, have)
    PROVE  DisputeType'
  <1> DEFINE new == IF who = {} THEN {} ELSE NewDisputes(o)
  <1>1. new \in SUBSET Txs
    BY DEF NewDisputes, Difference, DisputeType
  <1>2. /\ compares' = IF who = {} THEN compares ELSE compares \cup {o}
        /\ disputes' = disputes \cup new
        /\ ourVote' = [t \in Txs |->
                         IF t \in new THEN t \in txns ELSE ourVote[t]]
        /\ votes' = [t \in Txs |-> [p \in Peers |->
              IF p \in who /\ t \in disputes \cup new THEN Vote(t, o)
              ELSE IF t \in new THEN AvailableVote(t, curr[p], have)
              ELSE votes[t][p]]]
    BY Zenon DEF UpdateDisputes
  <1> HIDE DEF new
  <1>3. \A t, s, h : /\ Vote(t, s) \in {"yes", "no", "none"}
                     /\ AvailableVote(t, s, h) \in {"yes", "no", "none"}
    BY DEF Vote, AvailableVote
  <1>4. compares' \in SUBSET SUBSET Txs /\ disputes' \in SUBSET Txs
    BY <1>1, <1>2 DEF DisputeType
  <1>5. ourVote' \in [Txs -> BOOLEAN]
    <2>1. \A t \in Txs : ourVote[t] \in BOOLEAN
      BY DEF DisputeType
    <2>2. \A t \in Txs :
             (IF t \in new THEN t \in txns ELSE ourVote[t]) \in BOOLEAN
      <3> TAKE t \in Txs
      <3>1. CASE t \in new
        <4>1. (t \in txns) \in BOOLEAN
          OBVIOUS
        <4> QED
          BY <3>1, <4>1, Zenon
      <3>2. CASE t \notin new
        BY <2>1, <3>2, Zenon
      <3> QED
        BY <3>1, <3>2
    <2> QED
      BY <1>2, <2>2, Zenon
  <1>6. votes' \in [Txs -> [Peers -> {"yes", "no", "none"}]]
    BY <1>2, <1>3 DEF DisputeType
  <1> QED
    BY <1>4, <1>5, <1>6 DEF DisputeType

LEMMA AcquireTxSetType ==
    ASSUME DisputeType, PeerType, txns \in SUBSET Txs,
           NEW set \in SUBSET Txs, NEW curr, AcquireTxSet(set, curr)
    PROVE  DisputeType' /\ acquired' \in SUBSET SUBSET Txs
  <1>1. acquired' \in SUBSET SUBSET Txs
    BY DEF AcquireTxSet, PeerType
  <1>2. CASE seated
    BY <1>1, <1>2, UpdateDisputesType DEF AcquireTxSet
  <1>3. CASE ~seated
    BY <1>1, <1>3, Unchanging DEF AcquireTxSet
  <1> QED
    BY <1>2, <1>3

LEMMA ProposalType ==
    ASSUME DisputeType, PeerType, txns \in SUBSET Txs,
           NEW prop \in Proposals, peerProposalInternal(prop)
    PROVE  DisputeType' /\ PeerType'
  <1>1. /\ prop.nodeID \in Peers /\ prop.position \in SUBSET Txs
        /\ prop.closeTime \in CloseTimes
    BY ConsensusAssumption DEF Proposals
  <1>2. CASE IgnoreProposal(prop)
    BY <1>2, Unchanging DEF IgnoreProposal
  <1>3. CASE PeerBowsOut(prop)
    <2>1. votes' \in [Txs -> [Peers -> {"yes", "no", "none"}]]
      BY <1>3 DEF PeerBowsOut, DisputeType
    <2>2. PeerType'
      BY <1>1, <1>3 DEF PeerBowsOut, PeerType
    <2> QED
      BY <1>3, <2>1, <2>2 DEF PeerBowsOut, DisputeType
  <1>4. CASE PeerTakesPosition(prop)
    <2> DEFINE curr == [currPeerPositions EXCEPT ![prop.nodeID] = prop]
    <2>1. /\ currPeerPositions' = curr
          /\ rawPeers' = IF prop.proposeSeq = 0
                           THEN [rawPeers EXCEPT ![prop.closeTime] = @ + 1]
                           ELSE rawPeers
          /\ UNCHANGED <<deadNodes, rawSelf>>
          /\ \/ /\ prop.position \in acquired
                /\ acquired' = acquired
                /\ IF seated
                     THEN UpdateDisputes(
                              {prop.nodeID}, prop.position, curr, acquired)
                     ELSE UNCHANGED disputeVars
             \/ AcquireTxSet(prop.position, curr)
             \/ UNCHANGED <<acquired, disputeVars>>
      BY <1>4, Zenon DEF PeerTakesPosition
    <2> HIDE DEF curr
    <2>2. DisputeType' /\ acquired' \in SUBSET SUBSET Txs
      <3>1. CASE /\ acquired' = acquired
                 /\ seated
                 /\ UpdateDisputes(
                        {prop.nodeID}, prop.position, curr, acquired)
        BY <1>1, <3>1, UpdateDisputesType DEF PeerType
      <3>2. CASE UNCHANGED <<acquired, disputeVars>>
        BY <3>2, Unchanging DEF PeerType
      <3>3. CASE AcquireTxSet(prop.position, curr)
        BY <1>1, <3>3, AcquireTxSetType
      <3> QED
        BY <2>1, <3>1, <3>2, <3>3
    <2>3. /\ currPeerPositions' \in [Peers -> Proposals \cup {NoProposal}]
          /\ rawPeers' \in [CloseTimes -> Nat]
      BY <1>1, <2>1 DEF PeerType, curr
    <2> QED
      BY <2>1, <2>2, <2>3 DEF PeerType
  <1> QED
    BY <1>2, <1>3, <1>4 DEF peerProposalInternal

(* The call stack: depth counts the activations of timerEntry. A round     *)
(* started inside timerEntry has only just opened or closed when the outer *)
(* timerEntry goes on, so no handler is left half-way in an accepted round.*)
StackInv ==
    /\ pc = "idle" => depth = 0
    /\ pc \in {"check", "switch", "phase"} => depth > 0
    /\ pc = "playback" /\ after = "switch" => depth > 0
    /\ phase = "accepted" => pc = "idle"
    /\ pc = "started" \/ (pc = "playback" /\ after = "started")
         => phase = "open"
    /\ depth > 1 =>
         \/ phase = "open"
         \/ phase = "establish" /\ roundStart = clock

TypeInv == TypeOK /\ StackInv

LEMMA StackSame ==
    ASSUME StackInv, UNCHANGED <<pc, after, depth, phase, roundStart, clock>>
    PROVE  StackInv'
  BY DEF StackInv

LEMMA TypeInit == Init => TypeInv
  <1> SUFFICES ASSUME Init PROVE TypeInv
    OBVIOUS
  <1> USE ConsensusAssumption
  <1>1. RoundType
    BY DEF Init, RoundType, Phases, Modes
  <1>2. ResultType
    BY DEF Init, ResultType, NoPosition, Positions
  <1>3. DisputeType
    BY DEF Init, DisputeType, NoVotes
  <1>4. PeerType
    BY DEF Init, PeerType, NoTimes
  <1>5. EnvType /\ RecentType /\ SentType
    BY DEF Init, EnvType, RecentType, SentType
  <1>6. StackType /\ StackInv
    BY DEF Init, StackType, StackInv
  <1> QED
    BY <1>1, <1>2, <1>3, <1>4, <1>5, <1>6, TypeGroups DEF TypeInv

LEMMA ReceiveProposalType ==
    ASSUME TypeInv, ReceiveProposal PROVE TypeInv'
  <1> /\ RoundType /\ ResultType /\ DisputeType /\ PeerType
      /\ EnvType /\ StackType /\ RecentType /\ SentType
    BY TypeGroups DEF TypeInv
  <1> StackInv
    BY DEF TypeInv
  <1>1. PICK prop \in Proposals : PeerProposal(prop)
    <2>1. PICK p \in Peers, l \in Ledgers, s \in ProposeSeqs \cup {seqLeave},
               set \in TxSets, t \in CloseTimes :
             PeerProposal([nodeID |-> p, prevLedger |-> l, proposeSeq |-> s,
                           position |-> set, closeTime |-> t, time |-> clock])
      BY Zenon DEF ReceiveProposal
    <2>2. [nodeID |-> p, prevLedger |-> l, proposeSeq |-> s,
           position |-> set, closeTime |-> t, time |-> clock] \in Proposals
      BY DEF EnvType, Proposals
    <2> QED
      BY <2>1, <2>2, Zenon
  <1>2. /\ peerProposalInternal(prop)
        /\ received' = received + 1
        /\ recentPeerPositions' =
             [recentPeerPositions EXCEPT ![prop.nodeID] = Remember(@, prop)]
        /\ UNCHANGED <<roundVars, resultVars, clock, heartbeat, rounds, sent,
                       stackVars>>
    BY <1>1, Zenon DEF PeerProposal
  <1>3. DisputeType' /\ PeerType'
    BY <1>2, ProposalType DEF ResultType
  <1>4. EnvType'
    BY <1>2 DEF EnvType
  <1>5. RecentType'
    <2>1. ASSUME NEW s \in Seq(Proposals) PROVE Remember(s, prop) \in Seq(Proposals)
      BY ConsensusAssumption DEF Remember
    <2>2. prop.nodeID \in Peers
      BY DEF Proposals
    <2> QED
      BY <1>2, <2>1, <2>2 DEF RecentType
  <1>6. RoundType' /\ ResultType' /\ StackType' /\ SentType'
    BY <1>2, Unchanging
  <1>7. StackInv'
    BY <1>2, StackSame DEF stackVars, roundVars, resultVars
  <1> QED
    BY <1>3, <1>4, <1>5, <1>6, <1>7, TypeGroups, Unchanging DEF TypeInv

LEMMA GotTxSetType ==
    ASSUME TypeInv, NEW set \in TxSets, GotTxSet(set) PROVE TypeInv'
  <1> /\ RoundType /\ ResultType /\ DisputeType /\ PeerType
      /\ EnvType /\ StackType /\ RecentType /\ SentType
    BY TypeGroups DEF TypeInv
  <1> StackInv
    BY DEF TypeInv
  <1>1. /\ AcquireTxSet(set, currPeerPositions)
        /\ UNCHANGED <<roundVars, resultVars, currPeerPositions, deadNodes,
                       rawPeers, rawSelf, recentPeerPositions, envVars, sent,
                       stackVars>>
    BY Zenon DEF GotTxSet
  <1>2. set \in SUBSET Txs
    BY ConsensusAssumption
  <1>3. DisputeType' /\ acquired' \in SUBSET SUBSET Txs
    BY <1>1, <1>2, AcquireTxSetType DEF ResultType
  <1>4. PeerType'
    BY <1>1, <1>3 DEF PeerType
  <1>5. /\ RoundType' /\ ResultType' /\ EnvType' /\ StackType'
        /\ RecentType' /\ SentType'
    BY <1>1, Unchanging
  <1>6. StackInv'
    BY <1>1, StackSame DEF stackVars, roundVars, resultVars, envVars
  <1> QED
    BY <1>3, <1>4, <1>5, <1>6, TypeGroups, Unchanging DEF TypeInv

LEMMA StartRoundInternalType ==
    ASSUME TypeOK, RecentType', NEW id \in Ledgers, NEW lgr \in Ledgers,
           NEW m \in Modes, startRoundInternal(id, lgr, m)
    PROVE  /\ phase' \in Phases /\ mode' \in Modes
           /\ prevLedgerID' \in Ledgers /\ previousLedger' \in Ledgers
           /\ openStart' \in Nat
           /\ ResultType' /\ DisputeType' /\ PeerType'
           /\ pc' = "playback" /\ after' = "started"
           /\ todo' \in [Peers -> Seq(Proposals)]
  <1>1. /\ phase' \in Phases /\ mode' \in Modes
        /\ prevLedgerID' \in Ledgers /\ previousLedger' \in Ledgers
        /\ openStart' \in Nat
    BY DEF startRoundInternal, TypeOK, Phases
  <1>2. ResultType'
    BY DEF startRoundInternal, resetResult, ResultType, NoPosition, Positions
  <1>3. DisputeType'
    BY DEF startRoundInternal, resetResult, DisputeType, NoVotes
  <1>4. PeerType'
    BY DEF startRoundInternal, PeerType, NoTimes
  <1>5. /\ pc' = "playback" /\ after' = "started"
        /\ todo' \in [Peers -> Seq(Proposals)]
    BY DEF startRoundInternal, RecentType
  <1> QED
    BY <1>1, <1>2, <1>3, <1>4, <1>5

LEMMA StartRoundType ==
    ASSUME TypeInv, NEW id \in Ledgers, NEW lgr \in Ledgers,
           NEW gone \in SUBSET Peers, NEW proposing \in BOOLEAN,
           StartRound(id, lgr, gone, proposing)
    PROVE  TypeInv'
  <1> /\ RoundType /\ ResultType /\ DisputeType /\ PeerType
      /\ EnvType /\ StackType /\ RecentType /\ SentType
    BY TypeGroups DEF TypeInv
  <1> StackInv
    BY DEF TypeInv
  <1>1. RecentType'
    <2>1. <<>> \in Seq(Proposals)
      OBVIOUS
    <2> QED
      BY <2>1 DEF StartRound, RecentType
  <1>2. PICK i \in Ledgers, l \in Ledgers, m \in Modes :
           startRoundInternal(i, l, m)
    <2> DEFINE startMode == IF proposing THEN "proposing" ELSE "observing"
    <2>1. startMode \in Modes /\ "wrongLedger" \in Modes
      BY DEF Modes
    <2>2. \/ startRoundInternal(id, lgr, startMode)
          \/ startRoundInternal(id, id, startMode)
          \/ startRoundInternal(id, lgr, "wrongLedger")
      BY Zenon DEF StartRound
    <2> HIDE DEF startMode
    <2> QED
      BY <2>1, <2>2, Zenon
  <1>3. /\ phase' \in Phases /\ mode' \in Modes
        /\ prevLedgerID' \in Ledgers /\ previousLedger' \in Ledgers
        /\ openStart' \in Nat
        /\ ResultType' /\ DisputeType' /\ PeerType'
        /\ pc' = "playback" /\ after' = "started"
        /\ todo' \in [Peers -> Seq(Proposals)]
    BY <1>1, <1>2, StartRoundInternalType DEF TypeInv
  <1>4. /\ firstRound' = FALSE
        /\ rounds' = rounds + 1
        /\ prevRoundTime' = IF firstRound THEN ledgerIDLE_INTERVAL
                                          ELSE prevRoundTime
        /\ prevCloseTime' = IF firstRound THEN LedgerInfo[lgr].closeTime
                                          ELSE rawSelf
        /\ sent' = <<>>
        /\ UNCHANGED <<prevProposers, clock, heartbeat, received, depth>>
    BY DEF StartRound
  <1>5. LedgerInfo[lgr].closeTime \in Nat /\ ledgerIDLE_INTERVAL \in Nat
    BY ConsensusAssumption, ParmsAssumption DEF Headers
  <1>6. RoundType'
    <2>1. prevRoundTime' \in Int /\ prevCloseTime' \in Nat
      <3>1. CASE firstRound
        <4>1. /\ prevRoundTime' = ledgerIDLE_INTERVAL
              /\ prevCloseTime' = LedgerInfo[lgr].closeTime
          BY <1>4, <3>1, Zenon
        <4> QED
          BY <1>5, <4>1
      <3>2. CASE ~firstRound
        <4>1. prevRoundTime' = prevRoundTime /\ prevCloseTime' = rawSelf
          BY <1>4, <3>2, Zenon
        <4>2. prevRoundTime \in Int /\ rawSelf \in Nat
          BY DEF RoundType, PeerType
        <4> QED
          BY <4>1, <4>2
      <3> QED
        BY <3>1, <3>2
    <2>2. firstRound' \in BOOLEAN /\ prevProposers' \in Nat
      BY <1>4 DEF RoundType
    <2> QED
      BY <1>3, <2>1, <2>2 DEF RoundType
  <1>7. EnvType' /\ StackType' /\ SentType'
    BY <1>3, <1>4 DEF EnvType, StackType, SentType
  <1>8. StackInv'
    <2>1. phase' = "open"
      BY <1>2 DEF startRoundInternal
    <2> QED
      BY <1>3, <2>1 DEF StackInv
  <1> QED
    BY <1>1, <1>3, <1>6, <1>7, <1>8, TypeGroups, Unchanging DEF TypeInv

LEMMA PlaybackType ==
    ASSUME TypeInv, NEW p \in Peers, Playback(p) PROVE TypeInv'
  <1> /\ RoundType /\ ResultType /\ DisputeType /\ PeerType
      /\ EnvType /\ StackType /\ RecentType /\ SentType
    BY TypeGroups DEF TypeInv
  <1> StackInv
    BY DEF TypeInv
  <1>1. /\ todo[p] # <<>>
        /\ peerProposalInternal(Head(todo[p]))
        /\ todo' = [todo EXCEPT ![p] = Tail(@)]
        /\ UNCHANGED <<roundVars, resultVars, recentPeerPositions, envVars,
                       sent, pc, after, depth>>
    BY Zenon DEF Playback
  <1>2. todo[p] \in Seq(Proposals)
    BY DEF StackType
  <1>3. Head(todo[p]) \in Proposals /\ Tail(todo[p]) \in Seq(Proposals)
    BY <1>1, <1>2
  <1>4. DisputeType' /\ PeerType'
    BY <1>1, <1>3, ProposalType DEF ResultType
  <1>5. StackType'
    BY <1>1, <1>3 DEF StackType
  <1>6. StackInv'
    BY <1>1, StackSame DEF roundVars, resultVars, envVars
  <1>7. RoundType' /\ ResultType' /\ EnvType' /\ RecentType' /\ SentType'
    BY <1>1, Unchanging
  <1> QED
    BY <1>4, <1>5, <1>6, <1>7, TypeGroups, Unchanging DEF TypeInv

(* The steps of a handler that only move its call stack. *)
LEMMA ControlType ==
    ASSUME TypeInv,
           \/ PlaybackDone \/ Started \/ TimerEntry \/ Tick
           \/ \E l \in Ledgers : LedgerIsRight(l)
    PROVE  TypeInv'
  <1> /\ RoundType /\ ResultType /\ DisputeType /\ PeerType
      /\ EnvType /\ StackType /\ RecentType /\ SentType
    BY TypeGroups DEF TypeInv
  <1> StackInv
    BY DEF TypeInv
  <1>1. UNCHANGED <<roundVars, disputeVars, resultVars, peerVars,
                    recentPeerPositions, sent>>
    BY DEF PlaybackDone, Started, TimerEntry, Tick,
           LedgerIsRight
  <1>2. /\ RoundType' /\ DisputeType' /\ ResultType' /\ PeerType'
        /\ RecentType' /\ SentType'
    BY <1>1, Unchanging
  <1>3. EnvType'
    <2>1. \/ UNCHANGED envVars
          \/ heartbeat' = clock /\ UNCHANGED <<clock, rounds, received>>
          \/ clock' = clock + 1 /\ UNCHANGED <<heartbeat, rounds, received>>
      BY DEF PlaybackDone, Started, TimerEntry, Tick, LedgerIsRight
    <2> QED
      BY <2>1 DEF EnvType, envVars
  <1>4. phase' = phase /\ roundStart' = roundStart
    BY <1>1 DEF roundVars, resultVars
  <1>5. StackType' /\ StackInv'
    <2>1. CASE PlaybackDone
      BY <1>4, <2>1 DEF PlaybackDone, envVars, StackType, StackInv
    <2>2. CASE Started
      <3>1. phase = "open" /\ phase' = "open"
        BY <1>4, <2>2 DEF Started, StackInv
      <3> QED
        BY <2>2, <3>1 DEF Started, StackType, StackInv
    <2>3. CASE TimerEntry
      <3>1. /\ pc' = "check" /\ depth' = 1 /\ phase' # "accepted"
            /\ after' = after /\ todo' = todo
        BY <1>4, <2>3 DEF TimerEntry
      <3> QED
        BY <3>1 DEF StackType, StackInv
    <2>4. CASE Tick
      BY <1>4, <2>4 DEF Tick, stackVars, StackType, StackInv
    <2>5. CASE \E l \in Ledgers : LedgerIsRight(l)
      BY <1>4, <2>5 DEF LedgerIsRight, envVars, StackType, StackInv
    <2> QED
      BY <2>1, <2>2, <2>3, <2>4, <2>5
  <1> QED
    BY <1>2, <1>3, <1>5, TypeGroups, Unchanging DEF TypeInv

LEMMA WrongLedgerType ==
    ASSUME TypeInv, NEW netLgr \in Ledgers, handleWrongLedger(netLgr)
    PROVE  TypeInv'
  <1> /\ RoundType /\ ResultType /\ DisputeType /\ PeerType
      /\ EnvType /\ StackType /\ RecentType /\ SentType
    BY TypeGroups DEF TypeInv
  <1> StackInv
    BY DEF TypeInv
  <1>1. /\ pc = "check"
        /\ leaveConsensus
        /\ prevLedgerID' = netLgr
        /\ UNCHANGED <<phase, previousLedger, firstRound, prevProposers,
                       prevRoundTime, prevCloseTime, openStart, seated, txns,
                       roundStart, state, acquired, rawSelf,
                       recentPeerPositions, envVars, depth>>
    BY DEF handleWrongLedger
  <1>2. EnvType' /\ RecentType'
    BY <1>1, Unchanging
  <1>3. RoundType'
    BY <1>1 DEF RoundType, leaveConsensus, Modes
  <1>4. ResultType' /\ SentType'
    <2>1. position' \in Positions
      BY <1>1, ConsensusAssumption
      DEF leaveConsensus, ResultType, Positions, EnvType
    <2>2. SentType'
      BY <1>1, ConsensusAssumption DEF leaveConsensus, SentType
    <2> QED
      BY <1>1, <2>1, <2>2 DEF ResultType
  <1>5. CASE netLgr # prevLedgerID
    <2>1. /\ disputes' = {} /\ compares' = {}
          /\ ourVote' = [t \in Txs |-> FALSE]
          /\ votes' = NoVotes
          /\ currPeerPositions' = [p \in Peers |-> NoProposal]
          /\ rawPeers' = NoTimes
          /\ deadNodes' = {}
          /\ todo' = recentPeerPositions
          /\ pc' = "playback" /\ after' = "switch"
      BY <1>5 DEF handleWrongLedger
    <2>2. DisputeType'
      BY <2>1 DEF DisputeType, NoVotes
    <2>3. PeerType'
      BY <1>1, <2>1 DEF PeerType, NoTimes
    <2>4. StackType' /\ StackInv'
      BY <1>1, <2>1 DEF StackType, StackInv, RecentType, envVars
    <2> QED
      BY <1>2, <1>3, <1>4, <2>2, <2>3, <2>4, TypeGroups, Unchanging DEF TypeInv
  <1>6. CASE netLgr = prevLedgerID
    <2>1. /\ pc' = "switch"
          /\ UNCHANGED <<disputeVars, currPeerPositions, rawPeers,
                         deadNodes, todo, after>>
      BY <1>6 DEF handleWrongLedger
    <2>2. DisputeType' /\ PeerType'
      BY <1>1, <2>1, Unchanging DEF PeerType
    <2>3. StackType' /\ StackInv'
      BY <1>1, <2>1 DEF StackType, StackInv, envVars, resultVars
    <2> QED
      BY <1>2, <1>3, <1>4, <2>2, <2>3, TypeGroups, Unchanging DEF TypeInv
  <1> QED
    BY <1>5, <1>6

LEMMA SwitchLedgerType ==
    ASSUME TypeInv, SwitchLedger PROVE TypeInv'
  <1> /\ RoundType /\ ResultType /\ DisputeType /\ PeerType
      /\ EnvType /\ StackType /\ RecentType /\ SentType
    BY TypeGroups DEF TypeInv
  <1> StackInv
    BY DEF TypeInv
  <1>1. /\ pc = "switch"
        /\ UNCHANGED <<recentPeerPositions, envVars, sent, depth>>
        /\ NothingToSwitch \/ LedgerAcquired \/ LedgerNotAcquired
    BY DEF SwitchLedger
  <1>2. RecentType' /\ EnvType' /\ SentType'
    BY <1>1, Unchanging
  <1>3. CASE NothingToSwitch
    <2>1. /\ pc' = "phase"
          /\ UNCHANGED <<roundVars, disputeVars, resultVars, peerVars, after,
                         todo>>
      BY <1>3 DEF NothingToSwitch
    <2>2. StackType' /\ StackInv'
      BY <1>1, <2>1 DEF StackType, StackInv, roundVars, resultVars, envVars
    <2> QED
      BY <1>2, <2>1, <2>2, TypeGroups, Unchanging DEF TypeInv
  <1>4. CASE LedgerAcquired
    <2>1. /\ startRoundInternal(prevLedgerID, prevLedgerID, "switchedLedger")
          /\ UNCHANGED <<firstRound, prevProposers, prevRoundTime,
                         prevCloseTime>>
      BY <1>4 DEF LedgerAcquired
    <2>2. prevLedgerID \in Ledgers /\ "switchedLedger" \in Modes
      BY DEF RoundType, Modes
    <2>3. /\ phase' \in Phases /\ mode' \in Modes
          /\ prevLedgerID' \in Ledgers /\ previousLedger' \in Ledgers
          /\ openStart' \in Nat
          /\ ResultType' /\ DisputeType' /\ PeerType'
          /\ pc' = "playback" /\ after' = "started"
          /\ todo' \in [Peers -> Seq(Proposals)]
      BY <1>2, <2>1, <2>2, StartRoundInternalType DEF TypeInv
    <2>4. RoundType'
      BY <2>1, <2>3 DEF RoundType
    <2>5. StackType' /\ StackInv'
      <3>1. phase' = "open"
        BY <2>1 DEF startRoundInternal
      <3> QED
        BY <1>1, <2>3, <3>1 DEF StackType, StackInv
    <2> QED
      BY <1>2, <2>3, <2>4, <2>5, TypeGroups, Unchanging DEF TypeInv
  <1>5. CASE LedgerNotAcquired
    <2>1. /\ mode' = "wrongLedger" /\ pc' = "phase"
          /\ UNCHANGED <<phase, prevLedgerID, previousLedger, firstRound,
                         prevProposers, prevRoundTime, prevCloseTime,
                         openStart, disputeVars, resultVars, peerVars, after,
                         todo>>
      BY <1>5 DEF LedgerNotAcquired
    <2>2. RoundType'
      BY <2>1 DEF RoundType, Modes
    <2>3. StackType' /\ StackInv'
      BY <1>1, <2>1 DEF StackType, StackInv, envVars, resultVars
    <2> QED
      BY <1>2, <2>1, <2>2, <2>3, TypeGroups, Unchanging DEF TypeInv
  <1> QED
    BY <1>1, <1>3, <1>4, <1>5

LEMMA CloseLedgerType ==
    ASSUME TypeOK, NEW set \in TxSets, closeLedger(set)
    PROVE  /\ ResultType' /\ DisputeType' /\ SentType'
           /\ acquired' \in SUBSET SUBSET Txs /\ rawSelf' \in Nat
  <1> /\ RoundType /\ ResultType /\ DisputeType /\ PeerType
      /\ EnvType /\ StackType /\ RecentType /\ SentType
    BY TypeGroups
  <1> DEFINE have == acquired \cup {set}
             seen == {o \in have : Holding(currPeerPositions, o) # {}}
             disputed == UNION {Difference(set, o) : o \in seen}
  <1>1. set \in SUBSET Txs
    BY ConsensusAssumption
  <1>2. /\ rawSelf' = clock /\ seated' = TRUE /\ txns' = set
        /\ position' = [position |-> set, proposeSeq |-> 0,
                        closeTime |-> clock, time |-> clock]
        /\ roundStart' = clock /\ state' = "No"
        /\ acquired' = have
        /\ sent' = IF mode = "proposing" THEN Append(sent, 0) ELSE sent
        /\ compares' = seen
        /\ disputes' = disputed
        /\ ourVote' = [t \in Txs |-> t \in disputed /\ t \in set]
        /\ votes' = [t \in Txs |-> [p \in Peers |->
              IF t \in disputed
                THEN AvailableVote(t, currPeerPositions[p], have)
                ELSE "none"]]
    BY Zenon DEF closeLedger
  <1>3. have \in SUBSET SUBSET Txs /\ seen \in SUBSET SUBSET Txs
    BY <1>1 DEF PeerType
  <1>4. disputed \in SUBSET Txs
    <2>1. \A o \in seen : Difference(set, o) \in SUBSET Txs
      BY <1>1, <1>3 DEF Difference
    <2> HIDE DEF seen
    <2> QED
      BY <2>1
  <1> HIDE DEF have, seen, disputed
  <1>5. ResultType' /\ SentType'
    <2>1. position' \in Positions
      <3>1. clock \in Nat
        BY DEF EnvType
      <3> QED
        BY <1>1, <1>2, <3>1 DEF Positions
    <2>2. ResultType'
      BY <1>1, <1>2, <2>1 DEF ResultType, EnvType
    <2>3. SentType'
      <3>1. sent \in Seq(Nat) /\ (sent' = sent \/ sent' = Append(sent, 0))
        BY <1>2 DEF SentType
      <3>2. sent' \in Seq(Nat)
        BY <3>1
      <3> QED
        BY <3>2 DEF SentType
    <2> QED
      BY <2>2, <2>3
  <1>6. DisputeType'
    <2>1. \A t, s, h : AvailableVote(t, s, h) \in {"yes", "no", "none"}
      BY DEF Vote, AvailableVote
    <2>2. votes' \in [Txs -> [Peers -> {"yes", "no", "none"}]]
      BY <1>2, <2>1
    <2>3. ourVote' \in [Txs -> BOOLEAN]
      BY <1>2
    <2> QED
      BY <1>2, <1>3, <1>4, <2>2, <2>3 DEF DisputeType
  <1> QED
    BY <1>2, <1>3, <1>5, <1>6 DEF EnvType

LEMMA PhaseOpenType ==
    ASSUME TypeInv, phaseOpen PROVE TypeInv'
  <1> /\ RoundType /\ ResultType /\ DisputeType /\ PeerType
      /\ EnvType /\ StackType /\ RecentType /\ SentType
    BY TypeGroups DEF TypeInv
  <1> StackInv
    BY DEF TypeInv
  <1>1. /\ pc = "phase" /\ phase = "open" /\ TimerReturns
        /\ UNCHANGED <<recentPeerPositions, envVars, after, todo>>
    BY DEF phaseOpen
  <1>2. \/ UNCHANGED <<roundVars, disputeVars, resultVars, peerVars, sent>>
        \/ /\ \E set \in TxSets : closeLedger(set)
           /\ phase' = "establish"
           /\ UNCHANGED <<mode, prevLedgerID, previousLedger, firstRound,
                          prevProposers, prevRoundTime, prevCloseTime,
                          openStart, currPeerPositions, deadNodes, rawPeers>>
    BY DEF phaseOpen
  <1>3. RecentType' /\ EnvType'
    BY <1>1, Unchanging
  <1>4. \/ phase' = "open"
        \/ phase' = "establish" /\ roundStart' = clock /\ clock' = clock
    BY <1>1, <1>2, Zenon DEF roundVars, closeLedger, envVars
  <1>5. StackType' /\ StackInv'
    <2>1. /\ pc' = IF depth = 1 THEN "idle" ELSE "phase"
          /\ depth' = depth - 1 /\ depth \in Nat /\ depth > 0
          /\ after' = after /\ todo' = todo
      BY <1>1 DEF TimerReturns, StackType, StackInv
    <2>2. StackType'
      BY <2>1 DEF StackType
    <2>3. StackInv'
      BY <1>4, <2>1 DEF StackInv
    <2> QED
      BY <2>2, <2>3
  <1>6. CASE UNCHANGED <<roundVars, disputeVars, resultVars, peerVars, sent>>
    BY <1>3, <1>5, <1>6, TypeGroups, Unchanging DEF TypeInv
  <1>7. ASSUME NEW set \in TxSets, closeLedger(set),
               phase' = "establish",
               UNCHANGED <<mode, prevLedgerID, previousLedger, firstRound,
                           prevProposers, prevRoundTime, prevCloseTime,
                           openStart, currPeerPositions, deadNodes, rawPeers>>
        PROVE  TypeInv'
    <2>1. /\ ResultType' /\ DisputeType' /\ SentType'
          /\ acquired' \in SUBSET SUBSET Txs /\ rawSelf' \in Nat
      BY <1>7, CloseLedgerType DEF TypeInv
    <2>2. RoundType'
      BY <1>7 DEF RoundType, Phases
    <2>3. PeerType'
      BY <1>7, <2>1 DEF PeerType
    <2> QED
      BY <1>3, <1>5, <2>1, <2>2, <2>3, TypeGroups, Unchanging DEF TypeInv
  <1> QED
    BY <1>2, <1>6, <1>7

LEMMA SimulateType ==
    ASSUME TypeInv, NEW set \in TxSets, NEW delay \in {1},
           Simulate(set, delay)
    PROVE  TypeInv'
  <1> /\ RoundType /\ ResultType /\ DisputeType /\ PeerType
      /\ EnvType /\ StackType /\ RecentType /\ SentType
    BY TypeGroups DEF TypeInv
  <1> StackInv
    BY DEF TypeInv
  <1>1. /\ pc = "idle" /\ phase = "open"
        /\ closeLedger(set)
        /\ phase' = "accepted"
        /\ prevProposers' = Cardinality(Current(currPeerPositions))
        /\ prevRoundTime' = delay
        /\ UNCHANGED <<mode, prevLedgerID, previousLedger, firstRound,
                       prevCloseTime, openStart, currPeerPositions, deadNodes,
                       rawPeers, recentPeerPositions, envVars, stackVars>>
    BY DEF Simulate
  <1>2. /\ ResultType' /\ DisputeType' /\ SentType'
        /\ acquired' \in SUBSET SUBSET Txs /\ rawSelf' \in Nat
    BY <1>1, CloseLedgerType DEF TypeInv
  <1>3. Cardinality(Current(currPeerPositions)) \in Nat
    BY CountsAreNat DEF Current
  <1>4. RoundType'
    BY <1>1, <1>3 DEF RoundType, Phases
  <1>5. PeerType'
    BY <1>1, <1>2 DEF PeerType
  <1>6. RecentType' /\ EnvType' /\ StackType'
    BY <1>1, Unchanging
  <1>7. StackInv'
    <2>1. pc' = "idle" /\ depth' = 0
      BY <1>1 DEF StackInv, stackVars
    <2> QED
      BY <2>1 DEF StackInv
  <1> QED
    BY <1>2, <1>4, <1>5, <1>6, <1>7, TypeGroups, Unchanging DEF TypeInv

(* The values updateOurPositions computes on its way. *)
KeptPositions == Without(Stale)

FlippedVotes == Changed(Stale)

TakesNewPosition ==
    \/ FlippedVotes # {}
    \/ NewCloseTime(KeptPositions) # asCloseTime(position.closeTime)
    \/ isStale(position, clock - proposeINTERVAL)

OurPosition ==
    IF TakesNewPosition
      THEN changePosition(Difference(txns, FlippedVotes),
                          NewCloseTime(KeptPositions))
      ELSE position

NewHolders ==
    IF TakesNewPosition /\ OurPosition.position \notin acquired
      THEN Holding(KeptPositions, OurPosition.position) ELSE {}

LEMMA UpdateParts ==
    ASSUME updateOurPositions
    PROVE  /\ currPeerPositions' = KeptPositions
           /\ ourVote' = [t \in Txs |-> (t \in FlippedVotes) # ourVote[t]]
           /\ txns' = OurPosition.position
           /\ position' = OurPosition
           /\ acquired' = acquired \cup {OurPosition.position}
           /\ compares' = compares \cup
                 IF NewHolders = {} THEN {} ELSE {OurPosition.position}
           /\ votes' = [t \in Txs |-> [p \in Peers |->
                 IF t \in disputes /\ p \in NewHolders
                   THEN Vote(t, OurPosition.position)
                 ELSE IF p \in Stale THEN "none" ELSE votes[t][p]]]
           /\ sent' = IF /\ TakesNewPosition
                         /\ mode = "proposing"
                         /\ OurPosition.proposeSeq # seqLeave
                        THEN Append(sent, OurPosition.proposeSeq)
                        ELSE sent
           /\ disputes' = disputes
  BY Zenon DEF updateOurPositions, KeptPositions, FlippedVotes,
               TakesNewPosition, OurPosition, NewHolders

LEMMA OurPositionType ==
    ASSUME TypeOK
    PROVE  /\ KeptPositions \in [Peers -> Proposals \cup {NoProposal}]
           /\ FlippedVotes \subseteq disputes
           /\ OurPosition \in Positions
  <1> /\ RoundType /\ ResultType /\ DisputeType /\ PeerType
      /\ EnvType /\ StackType /\ RecentType /\ SentType
    BY TypeGroups
  <1>1. KeptPositions \in [Peers -> Proposals \cup {NoProposal}]
    BY DEF KeptPositions, Without, PeerType
  <1>2. FlippedVotes \subseteq disputes
    BY DEF FlippedVotes, Changed
  <1>3. NewCloseTime(KeptPositions) \in Nat
    BY <1>1, NewCloseTimeIsNat DEF RoundType, ResultType
  <1>4. Difference(txns, FlippedVotes) \in SUBSET Txs
    BY <1>2 DEF Difference, ResultType, DisputeType
  <1>5. OurPosition \in Positions
    <2>1. position \in Positions /\ clock \in Nat /\ seqLeave \in Nat
      BY ConsensusAssumption DEF ResultType, EnvType
    <2>2. position.proposeSeq \in Nat
      BY <2>1 DEF Positions
    <2>3. ASSUME NEW set \in SUBSET Txs, NEW t \in Nat
          PROVE  changePosition(set, t) \in Positions
      BY <2>1, <2>2 DEF changePosition, Positions
    <2>4. changePosition(Difference(txns, FlippedVotes),
                         NewCloseTime(KeptPositions)) \in Positions
      BY <1>3, <1>4, <2>3
    <2> QED
      BY <2>1, <2>4, Zenon DEF OurPosition
  <1> QED
    BY <1>1, <1>2, <1>5

LEMMA UpdateType ==
    ASSUME TypeOK, updateOurPositions
    PROVE  /\ DisputeType' /\ SentType'
           /\ txns' \in SUBSET Txs /\ position' \in Positions
           /\ currPeerPositions' \in [Peers -> Proposals \cup {NoProposal}]
           /\ acquired' \in SUBSET SUBSET Txs
  <1> /\ RoundType /\ ResultType /\ DisputeType /\ PeerType
      /\ EnvType /\ StackType /\ RecentType /\ SentType
    BY TypeGroups
  <1>1. OurPosition.position \in SUBSET Txs /\ OurPosition.proposeSeq \in Nat
    BY OurPositionType DEF Positions
  <1>2. votes' \in [Txs -> [Peers -> {"yes", "no", "none"}]]
    <2>1. \A t, s : Vote(t, s) \in {"yes", "no", "none"}
      BY DEF Vote
    <2>2. votes \in [Txs -> [Peers -> {"yes", "no", "none"}]]
      BY DEF DisputeType
    <2>3. votes' = [t \in Txs |-> [p \in Peers |->
            IF t \in disputes /\ p \in NewHolders
              THEN Vote(t, OurPosition.position)
            ELSE IF p \in Stale THEN "none" ELSE votes[t][p]]]
      BY UpdateParts
    <2> QED
      BY <2>1, <2>2, <2>3
  <1>3. ourVote' \in [Txs -> BOOLEAN]
    <2>1. ourVote' = [t \in Txs |-> (t \in FlippedVotes) # ourVote[t]]
      BY UpdateParts
    <2> QED
      BY <2>1
  <1>4. DisputeType'
    BY <1>1, <1>2, <1>3, UpdateParts DEF DisputeType
  <1>5. SentType'
    <2>1. sent' = sent \/ sent' = Append(sent, OurPosition.proposeSeq)
      BY UpdateParts
    <2>2. sent \in Seq(Nat)
      BY DEF SentType
    <2>3. sent' \in Seq(Nat)
      BY <1>1, <2>1, <2>2
    <2> QED
      BY <2>3 DEF SentType
  <1> QED
    BY <1>1, <1>4, <1>5, UpdateParts, OurPositionType DEF PeerType

LEMMA PhaseEstablishType ==
    ASSUME TypeInv, phaseEstablish PROVE TypeInv'
  <1> /\ RoundType /\ ResultType /\ DisputeType /\ PeerType
      /\ EnvType /\ StackType /\ RecentType /\ SentType
    BY TypeGroups DEF TypeInv
  <1> StackInv
    BY DEF TypeInv
  <1>1. /\ pc = "phase" /\ phase = "establish" /\ TimerReturns
        /\ UNCHANGED <<recentPeerPositions, envVars, after, todo>>
    BY DEF phaseEstablish
  <1>2. RecentType' /\ EnvType'
    BY <1>1, Unchanging
  <1>3. StackType'
    BY <1>1 DEF TimerReturns, StackType, StackInv
  <1>4. StackInv'
    <2>1. /\ pc' = IF depth = 1 THEN "idle" ELSE "phase"
          /\ depth' = depth - 1 /\ depth \in Nat /\ depth > 0
          /\ clock' = clock
          /\ depth > 1 => roundStart = clock
      BY <1>1 DEF TimerReturns, StackType, StackInv, envVars
    <2>2. roundStart' = roundStart
      BY DEF phaseEstablish, EstablishWaits, resultVars
    <2>3. phase' # "establish" => phase' = "accepted" /\ roundTime > 0
      <3>1. ASSUME NEW finished, ConsensusNow(finished) # "No"
            PROVE  roundTime > 0
        <4>1. ~(roundTime <= ledgerMIN_CONSENSUS)
          BY <3>1, Zenon DEF ConsensusNow, checkConsensus
        <4>2. roundTime \in Int
          BY DEF roundTime, EnvType, ResultType
        <4> QED
          BY <4>1, <4>2, ParmsAssumption
      <3> QED
        BY <1>1, <3>1
        DEF phaseEstablish, EstablishWaits, EstablishPauses,
            EstablishContinues, EstablishAccepts, roundVars
    <2>4. depth > 1 => phase' = "establish"
      BY <2>1, <2>3 DEF roundTime, EnvType
    <2> QED
      BY <2>1, <2>2, <2>3, <2>4 DEF StackInv
  <1>5. CASE EstablishWaits
    BY <1>2, <1>3, <1>4, <1>5, TypeGroups, Unchanging DEF TypeInv, EstablishWaits
  <1>6. CASE ~EstablishWaits
    <2>1. /\ updateOurPositions
          /\ UNCHANGED <<seated, roundStart, deadNodes, rawPeers, rawSelf>>
          /\ \/ EstablishPauses
             \/ \E finished \in 0 .. Cardinality(Peers) :
                    \/ EstablishContinues(finished)
                    \/ EstablishAccepts(finished)
      BY <1>6 DEF phaseEstablish
    <2>2. /\ DisputeType' /\ SentType'
          /\ txns' \in SUBSET Txs /\ position' \in Positions
          /\ currPeerPositions' \in [Peers -> Proposals \cup {NoProposal}]
          /\ acquired' \in SUBSET SUBSET Txs
      BY <2>1, UpdateType DEF TypeInv
    <2>3. PeerType'
      BY <2>1, <2>2 DEF PeerType
    <2>4. ASSUME NEW finished
          PROVE  ConsensusNow(finished) \in {"No", "Yes", "MovedOn"}
      BY DEF ConsensusNow, checkConsensus
    <2>5. state' \in {"No", "Yes", "MovedOn"}
      BY <2>1, <2>4
      DEF EstablishPauses, EstablishContinues, EstablishAccepts, ResultType
    <2>6. ResultType'
      BY <2>1, <2>2, <2>5 DEF ResultType
    <2>7. RoundType'
      <3>1. CASE UNCHANGED roundVars
        BY <3>1, Unchanging
      <3>2. ASSUME NEW finished \in 0 .. Cardinality(Peers),
                   EstablishAccepts(finished)
            PROVE  RoundType'
        <4>1. Cardinality(Current(currPeerPositions')) \in Nat
          BY CountsAreNat DEF Current
        <4>2. roundTime \in Int
          BY DEF roundTime, EnvType, ResultType
        <4> QED
          BY <3>2, <4>1, <4>2 DEF EstablishAccepts, RoundType, Phases
      <3> QED
        BY <2>1, <3>1, <3>2 DEF EstablishPauses, EstablishContinues
    <2> QED
      BY <1>2, <1>3, <1>4, <2>2, <2>3, <2>6, <2>7, TypeGroups, Unchanging DEF TypeInv
  <1> QED
    BY <1>5, <1>6

LEMMA TypeNext == TypeInv /\ [Next]_vars => TypeInv'
  <1> SUFFICES ASSUME TypeInv, [Next]_vars PROVE TypeInv'
    OBVIOUS
  <1>1. CASE UNCHANGED vars
    BY <1>1, TypeGroups, Unchanging
    DEF vars, TypeInv, StackInv, stackVars, roundVars, resultVars, envVars
  <1>2. CASE Run
    <2>1. CASE CheckLedger
      BY <2>1, ControlType, WrongLedgerType DEF CheckLedger
    <2> QED
      BY <1>2, <2>1, PlaybackType, ControlType, SwitchLedgerType,
         PhaseOpenType, PhaseEstablishType
      DEF Run, RunPhase
  <1> QED
    BY <1>1, <1>2, StartRoundType, ReceiveProposalType, GotTxSetType,
       ControlType, SimulateType
    DEF Next

LEMMA TypeInvariant == Spec => []TypeInv
  BY TypeInit, TypeNext, PTL DEF Spec

(* Every field of Consensus keeps its type, and the nested calls of        *)
(* timerEntry that startRoundInternal makes return as often as they enter. *)
THEOREM ConsensusTypeCorrect == Spec => []TypeOK
  BY TypeInvariant, PTL DEF TypeInv

=============================================================================
