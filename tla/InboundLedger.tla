---------------------------- MODULE InboundLedger ----------------------------
(***************************************************************************)
(* The acquisition of one ledger from peers (InboundLedger.cpp, PeerSet.cpp*)
(* and the collection in InboundLedgers.cpp): a header, a state map and a  *)
(* transaction map are asked for, until all is there, the timer has run    *)
(* out too often, or the collection forgets the acquisition.               *)
(*                                                                         *)
(* A map is the set of its nodes that are there; its root holds the other  *)
(* nodes.  acq is what mLock protects.  The timer's job and the fetch pack *)
(* keep the lock to the end, as it is recursive.  runData does not: what   *)
(* trigger does after runData is interrupted where the lock is given up,   *)
(* and its done() runs outside of it.  What is sent to peers is left out,  *)
(* what arrives is up to them.                                             *)
(***************************************************************************)
EXTENDS Integers, Sequences, FiniteSets

CONSTANTS StateNodes, TxNodes,        \* the nodes of the two maps
          StateRoot, TxRoot, Header,
          Runners,                    \* threads that run processLedgerData jobs
          Reasons,                    \* why the ledger is acquired
          ledgerTimeoutRetriesMax, ledgerBecomeAggressiveThreshold,
          MaxPackets, MaxStale,       \* what peers send, jobs of an earlier acquisition
          MaxNewPeers                 \* peers found at a time

InboundAssumption ==
    /\ StateRoot \in StateNodes /\ Header \notin StateNodes \cup TxNodes
    /\ TxNodes = {} \/ TxRoot \in TxNodes
    /\ StateNodes \cap TxNodes = {} /\ Reasons \subseteq {"history", "generic", "consensus"}
    /\ {ledgerTimeoutRetriesMax, ledgerBecomeAggressiveThreshold, MaxPackets, MaxStale} \subseteq Nat
    /\ MaxNewPeers \in 0 .. 2

VARIABLES acq,          \* the acquisition: what mLock protects
          found,        \* is it in mLedgers?
          reason, seqMatches,   \* mReason; is mSeq, if known, that of the ledger?
          stored,        \* headers and nodes in the node store or in fetch packs
          mTimer,        \* "none", "set" or "job", the job that runs invokeOnTimer
          mReceivedData, mReceiveDispatched, dataJobs,
          runnerAt, batch, chosen, nodes,     \* runData: its place and its locals
          packets, stale

inboundVars == <<acq, found, reason, seqMatches, stored, mTimer, mReceivedData, mReceiveDispatched,
          dataJobs, runnerAt, batch, chosen, nodes, packets, stale>>

jobVars == <<mReceivedData, mReceiveDispatched, dataJobs, runnerAt, batch, chosen, nodes>>

Packets ==
    [type : {"base"}, good : BOOLEAN, nodes : SUBSET ({StateRoot, TxRoot} \cap (StateNodes \cup TxNodes))]
    \cup [type : {"as"}, good : {TRUE}, nodes : SUBSET StateNodes]
    \cup [type : {"tx"}, good : {TRUE}, nodes : SUBSET TxNodes]

InboundInit ==
    /\ acq = [header |-> FALSE, haveState |-> FALSE, haveTx |-> FALSE, complete |-> FALSE,
              failed |-> FALSE, signaled |-> FALSE, progress |-> FALSE, timeouts |-> 0,
              peers |-> FALSE, byHash |-> TRUE, recent |-> {}, state |-> {}, tx |-> {},
              stateSynching |-> TRUE, txSynching |-> TRUE, announced |-> 0]
    /\ found = TRUE /\ reason \in Reasons /\ seqMatches \in BOOLEAN
    /\ stored \in SUBSET ({Header} \cup StateNodes \cup TxNodes)
    /\ mTimer = "new"
    /\ mReceivedData = <<>> /\ mReceiveDispatched = FALSE /\ dataJobs = 0
    /\ runnerAt = [r \in Runners |-> "idle"] /\ batch = [r \in Runners |-> <<>>]
    /\ chosen = [r \in Runners |-> FALSE] /\ nodes = [r \in Runners |-> {}]
    /\ packets = 0 /\ stale = 0

isDone(q) == q.complete \/ q.failed

-----------------------------------------------------------------------------
(* The maps.                                                               *)

\* getMissingNodes(): nodes in the store are taken from there, and the map is
\* no longer synching once it is whole.
getMissingState(q) ==
    [q EXCEPT !.state = @ \cup (StateNodes \cap stored),
              !.stateSynching = @ /\ ~(StateNodes \subseteq q.state \cup stored)]
getMissingTx(q) ==
    [q EXCEPT !.tx = @ \cup (TxNodes \cap stored),
              !.txSynching = @ /\ ~(TxNodes \subseteq q.tx \cup stored)]

\* tryDB(): what of the ledger is stored here.
tryHeader(q) ==
    IF q.header \/ Header \notin stored THEN q
    ELSE IF seqMatches THEN [q EXCEPT !.header = TRUE] ELSE [q EXCEPT !.failed = TRUE]
noteTx(q) == [q EXCEPT !.haveTx = q.tx = TxNodes]
tryTx(q) ==
    IF q.haveTx THEN q
    ELSE IF TxNodes = {} THEN [q EXCEPT !.haveTx = TRUE]
    ELSE IF TxRoot \notin q.tx \cup stored THEN q ELSE noteTx(getMissingTx(q))
noteState(q) == [q EXCEPT !.haveState = q.state = StateNodes]
tryState(q) ==
    IF q.haveState \/ StateRoot \notin q.state \cup stored THEN q
    ELSE noteState(getMissingState(q))
noteComplete(q) == [q EXCEPT !.complete = q.haveTx /\ q.haveState]
tryMaps(q) == IF ~q.header THEN q ELSE noteComplete(tryState(tryTx(q)))
tryDB(q) == tryMaps(tryHeader(q))

\* done(): only the first caller stores the ledger and posts AcquisitionDone.
doneNow(q) == [q EXCEPT !.signaled = TRUE, !.announced = @ + 1]
done(q) == IF q.signaled THEN q ELSE doneNow(q)

doneIfOver(q) == IF isDone(q) THEN done(q) ELSE q

checkLocal(q) == IF isDone(q) THEN q ELSE doneIfOver(tryDB(q))

-----------------------------------------------------------------------------
(* trigger(), in the parts between which runData has no lock.  A part says *)
(* how far trigger goes on: to nodes, the search for missing state nodes,  *)
(* to tx, the transaction map, or no further.                              *)

Goes(q, part) == [acq |-> q, next |-> part]

\* After several timeouts nodes are asked for by hash, of the peers there are.
neededState(q) == IF q.haveState \/ StateRoot \notin q.state THEN q ELSE getMissingState(q)
neededTx(q) == IF q.haveTx \/ TxRoot \notin q.tx THEN q ELSE getMissingTx(q)
askNeeded(q) ==
    IF (q.haveState \/ q.state = StateNodes) /\ (q.haveTx \/ q.tx = TxNodes)
    THEN [q EXCEPT !.haveState = TRUE, !.haveTx = TRUE, !.complete = TRUE]
    ELSE [q EXCEPT !.byHash = ~q.peers]
askByHash(q) ==
    IF q.failed \/ q.progress \/ ~q.byHash \/ q.timeouts <= ledgerBecomeAggressiveThreshold
    THEN q
    ELSE IF ~q.header THEN [q EXCEPT !.byHash = ~q.peers]
    ELSE askNeeded(neededTx(neededState(q)))

whichMap(q) ==
    IF ~q.header THEN Goes(q, "no further")
    ELSE IF q.haveState THEN Goes(q, "tx")
    ELSE IF StateRoot \notin q.state THEN Goes(q, "no further") ELSE Goes(q, "nodes")
triggerBegin(q) ==
    IF isDone(q) THEN Goes(q, "no further")
    ELSE whichMap(askByHash(IF q.header THEN q ELSE tryDB(q)))

\* filterNodes(): nodes asked for lately are not asked for again, but on a
\* timeout.
filtered(q, missing, why) ==
    IF missing \ q.recent # {} THEN missing \ q.recent
    ELSE IF why = "timeout" THEN missing ELSE {}
ask(q, missing, why, otherwise) ==
    IF filtered(q, missing, why) = {} THEN Goes(q, otherwise)
    ELSE Goes([q EXCEPT !.recent = @ \cup filtered(q, missing, why)], "no further")

triggerStateOnly(q, missing, why) ==
    IF isDone(q) \/ q.haveState THEN Goes(q, "tx")
    ELSE IF missing = {} THEN Goes([q EXCEPT !.haveState = TRUE, !.complete = TRUE], "tx")
    ELSE ask(q, missing, why, "tx")
triggerState(q, missing, why) ==
    IF isDone(q) \/ q.haveState THEN Goes(q, "tx")
    ELSE IF missing = {} THEN Goes([q EXCEPT !.haveState = TRUE, !.complete = @ \/ q.haveTx], "tx")
    ELSE ask(q, missing, why, "tx")

searchedTx(q, why) ==
    IF q.tx = TxNodes
    THEN Goes([q EXCEPT !.haveTx = TRUE, !.complete = @ \/ q.haveState], "end")
    ELSE ask(q, TxNodes \ q.tx, why, "end")
triggerTx(q, why) ==
    IF q.haveTx \/ q.failed THEN Goes(q, "end")
    ELSE IF TxRoot \notin q.tx THEN Goes(q, "no further")
    ELSE searchedTx(getMissingTx(q), why)

\* All of it, by a caller that holds the lock.
searchedState(q, why) == triggerState(q, StateNodes \ q.state, why)
throughState(b, why) ==
    IF b.next = "nodes" THEN searchedState(getMissingState(b.acq), why) ELSE b
throughTx(s, why) == IF s.next = "tx" THEN triggerTx(s.acq, why) ELSE s
triggerEnd(x) == IF x.next = "end" THEN doneIfOver(x.acq) ELSE x.acq
trigger(q, why) == triggerEnd(throughTx(throughState(triggerBegin(q), why), why))

\* addPeers(): newPeer() triggers for each peer found, but for history.
newPeers(q, n) ==
    IF n = 0 \/ reason = "history" THEN q
    ELSE IF n = 1 THEN trigger(q, "added")
    ELSE trigger(trigger(q, "added"), "added")
addPeers(q, n) == newPeers([q EXCEPT !.peers = @ \/ n > 0], n)

-----------------------------------------------------------------------------
(* The timer and the collection.                                           *)

\* execute(), which puts the job off when there are many.
execute == mTimer' \in {"set", "job"}

\* init(), called by acquire() for a new ledger, which it returns if it is here.
init ==
    /\ mTimer = "new"
    /\ \E d \in {tryDB(acq)} :
          IF d.failed THEN acq' = d /\ mTimer' = "none"
          ELSE IF d.complete THEN acq' = [d EXCEPT !.announced = @ + 1] /\ mTimer' = "none"
          ELSE execute /\ \E n \in 0 .. MaxNewPeers : acq' = addPeers(d, n)
    /\ UNCHANGED <<found, reason, seqMatches, stored, jobVars, packets, stale>>

\* setTimer()'s callback has a weak pointer: nothing is left to do when neither
\* the collection nor a thread has the acquisition.
fire ==
    /\ mTimer = "set"
    /\ IF found \/ \E r \in Runners : runnerAt[r] # "idle" THEN execute ELSE mTimer' = "none"
    /\ UNCHANGED <<acq, found, reason, seqMatches, stored, jobVars, packets, stale>>

\* onTimer()
asksAgain(q, n) ==
    IF reason = "history" THEN trigger(addPeers(q, n), "timeout")
    ELSE addPeers(trigger(q, "timeout"), n)
timedOut(q, wasProgress, n) ==
    IF q.timeouts > ledgerTimeoutRetriesMax THEN done([q EXCEPT !.failed = TRUE])
    ELSE IF wasProgress THEN q
    ELSE asksAgain([checkLocal(q) EXCEPT !.byHash = TRUE], n)
onAcquireTimer(q, wasProgress, n) == timedOut([q EXCEPT !.recent = {}], wasProgress, n)

invokeOnTimer(n) ==
    IF isDone(acq) THEN acq
    ELSE onAcquireTimer([acq EXCEPT !.progress = FALSE,
                             !.timeouts = IF acq.progress THEN @ ELSE @ + 1],
                 acq.progress, n)

runTimer ==
    /\ mTimer = "job"
    /\ \E n \in 0 .. MaxNewPeers :
          /\ acq' = invokeOnTimer(n)
          /\ mTimer' = IF isDone(acq') THEN "none" ELSE "set"
    /\ UNCHANGED <<found, reason, seqMatches, stored, jobVars, packets, stale>>

\* sweep(), clearFailures() and onStop() drop the acquisition.
sweep ==
    /\ found /\ mTimer # "new" /\ found' = FALSE
    /\ UNCHANGED <<acq, reason, seqMatches, stored, mTimer, jobVars, packets, stale>>

\* addFetchPack(): something is stored here, and gotFetchPack() looks for it.
addFetchPack(n) ==
    /\ n \notin stored /\ stored' = stored \cup {n}
    /\ UNCHANGED <<acq, found, reason, seqMatches, mTimer, jobVars, packets, stale>>
gotFetchPack ==
    /\ found /\ mTimer # "new" /\ acq' = checkLocal(acq) /\ acq' # acq
    /\ UNCHANGED <<found, reason, seqMatches, stored, mTimer, jobVars, packets, stale>>
-----------------------------------------------------------------------------
(* Data from peers.                                                        *)

Took(q, useful) == [acq |-> IF useful THEN [q EXCEPT !.progress = TRUE] ELSE q, count |-> 0]
Worthless(q) == [acq |-> q, count |-> -1]

\* takeHeader(), with the roots a header comes with.
takeHeader(q) ==
    IF isDone(q) \/ q.header THEN q
    ELSE [q EXCEPT !.header = TRUE, !.haveTx = TxNodes = {}]
takeRoots(q, roots) ==
    [q EXCEPT !.state = IF q.failed \/ q.haveState THEN @ ELSE @ \cup (roots \cap StateNodes),
              !.tx = IF q.failed \/ q.haveTx THEN @ ELSE @ \cup (roots \cap TxNodes),
              !.stateSynching = @ /\ StateNodes \ roots # {},
              !.txSynching = @ /\ TxNodes \ roots # {}]
tookBase(q, r) == Took(r, ~q.header \/ r.state # q.state \/ r.tx # q.tx)
takeBase(q, p) ==
    IF ~q.header /\ ~(p.good /\ (isDone(q) \/ seqMatches)) THEN Worthless(q)
    ELSE tookBase(q, takeRoots(takeHeader(q), p.nodes))

\* takeAsNode() and takeTxNode().
Completed(q) ==
    IF q.haveState /\ q.haveTx THEN done([q EXCEPT !.complete = TRUE]) ELSE q
tookState(q, s) ==
    Took(IF s.stateSynching THEN s ELSE Completed([s EXCEPT !.haveState = TRUE]),
         s.state # q.state)
takeAsNode(q, new) ==
    IF ~q.header \/ q.haveState \/ q.failed \/ StateRoot \notin q.state \cup new THEN Took(q, FALSE)
    ELSE tookState(q, [q EXCEPT !.state = @ \cup (new \cap {StateRoot})
                                             \cup IF q.stateSynching THEN new ELSE {},
                                !.stateSynching = @ /\ StateNodes # {StateRoot}])
tookTx(q, s) ==
    Took(IF s.txSynching THEN s ELSE Completed([s EXCEPT !.haveTx = TRUE]), s.tx # q.tx)
takeTxNode(q, new) ==
    IF ~q.header \/ q.haveTx \/ q.failed \/ TxRoot \notin q.tx \cup new THEN Took(q, FALSE)
    ELSE tookTx(q, [q EXCEPT !.tx = @ \cup (new \cap {TxRoot})
                                       \cup IF q.txSynching THEN new ELSE {},
                             !.txSynching = @ /\ TxNodes # {TxRoot}])

processData(q, p) ==
    IF p.type = "base" THEN takeBase(q, p)
    ELSE IF p.nodes = {} THEN Worthless(q)
    ELSE IF p.type = "as" THEN takeAsNode(q, p.nodes) ELSE takeTxNode(q, p.nodes)

\* gotLedgerData() and gotData(): a packet is put aside and a job is posted,
\* unless one is on its way.
gotLedgerData(p) ==
    /\ packets < MaxPackets /\ packets' = packets + 1
    /\ found /\ mTimer # "new" /\ ~isDone(acq)
    /\ mReceivedData' = Append(mReceivedData, p) /\ mReceiveDispatched' = TRUE
    /\ dataJobs' = IF mReceiveDispatched THEN dataJobs ELSE dataJobs + 1
    /\ UNCHANGED <<acq, found, reason, seqMatches, stored, mTimer, runnerAt, batch, chosen, nodes, stale>>

\* A job that an earlier acquisition of the ledger posted: it finds this one.
staleJob ==
    /\ stale < MaxStale /\ stale' = stale + 1 /\ dataJobs' = dataJobs + 1
    /\ UNCHANGED <<acq, found, reason, seqMatches, stored, mTimer, mReceivedData,
                   mReceiveDispatched, runnerAt, batch, chosen, nodes, packets>>

-----------------------------------------------------------------------------
(* runData().                                                              *)

runVars == <<found, reason, seqMatches, stored, mTimer, packets, stale>>
receivedVars == <<mReceivedData, mReceiveDispatched, dataJobs>>

doLedgerData(r) ==
    /\ runnerAt[r] = "idle" /\ dataJobs > 0 /\ dataJobs' = dataJobs - 1
    /\ runnerAt' = [runnerAt EXCEPT ![r] = IF found THEN "take" ELSE "idle"]
    /\ chosen' = [chosen EXCEPT ![r] = FALSE]
    /\ UNCHANGED <<acq, runVars, mReceivedData, mReceiveDispatched, batch, nodes>>

takeKeepsDispatched(r) ==
    /\ runnerAt[r] = "take" /\ mReceivedData' = <<>>
    /\ batch' = [batch EXCEPT ![r] = mReceivedData]
    /\ runnerAt' = [runnerAt EXCEPT ![r] = IF mReceivedData # <<>> THEN "process"
                               ELSE IF chosen[r] THEN "trigger" ELSE "idle"]
    /\ UNCHANGED <<acq, runVars, mReceiveDispatched, dataJobs, chosen, nodes>>
take(r) ==
    /\ runnerAt[r] = "take" /\ mReceivedData' = <<>>
    /\ mReceiveDispatched' = (mReceiveDispatched /\ mReceivedData # <<>>)
    /\ batch' = [batch EXCEPT ![r] = mReceivedData]
    /\ runnerAt' = [runnerAt EXCEPT ![r] = IF mReceivedData # <<>> THEN "process"
                               ELSE IF chosen[r] THEN "trigger" ELSE "idle"]
    /\ UNCHANGED <<acq, runVars, dataJobs, chosen, nodes>>

\* One packet, under the lock; a packet whose peer is gone is dropped.
process(r) ==
    /\ runnerAt[r] = "process"
    /\ batch' = [batch EXCEPT ![r] = Tail(@)]
    /\ runnerAt' = [runnerAt EXCEPT ![r] = IF Len(batch[r]) = 1 THEN "take" ELSE @]
    /\ \/ UNCHANGED <<acq, chosen>>
       \/ \E d \in {processData(acq, Head(batch[r]))} :
             acq' = d.acq /\ chosen' = [chosen EXCEPT ![r] = @ \/ d.count > -1]
    /\ UNCHANGED <<runVars, receivedVars, nodes>>

\* trigger() goes on from here, or is over; done() runs without the lock.
goesOn(r, g) ==
    \E x \in {throughTx(g, "reply")} :
       /\ acq' = x.acq
       /\ runnerAt' = [runnerAt EXCEPT ![r] = IF x.next = "nodes" THEN "search"
                                  ELSE IF x.next = "end" /\ isDone(x.acq) THEN "done" ELSE "idle"]
beginTrigger(r) ==
    /\ runnerAt[r] = "trigger" /\ goesOn(r, triggerBegin(acq))
    /\ UNCHANGED <<runVars, receivedVars, batch, chosen, nodes>>

\* "Release the lock while we process the large state map"
search(r) ==
    /\ runnerAt[r] = "search" /\ acq' = getMissingState(acq)
    /\ nodes' = [nodes EXCEPT ![r] = StateNodes \ acq'.state]
    /\ runnerAt' = [runnerAt EXCEPT ![r] = "searched"]
    /\ UNCHANGED <<runVars, receivedVars, batch, chosen>>
resume(r) ==
    /\ runnerAt[r] = "searched" /\ goesOn(r, triggerState(acq, nodes[r], "reply"))
    /\ nodes' = [nodes EXCEPT ![r] = {}]
    /\ UNCHANGED <<runVars, receivedVars, batch, chosen>>

testSignaled(r) ==
    /\ runnerAt[r] = "done" /\ runnerAt' = [runnerAt EXCEPT ![r] = IF acq.signaled THEN "idle" ELSE "signal"]
    /\ UNCHANGED <<acq, runVars, receivedVars, batch, chosen, nodes>>
signal(r) ==
    /\ runnerAt[r] = "signal" /\ acq' = doneNow(acq) /\ runnerAt' = [runnerAt EXCEPT ![r] = "idle"]
    /\ UNCHANGED <<runVars, receivedVars, batch, chosen, nodes>>

runData(r) ==
    \/ take(r) \/ process(r) \/ beginTrigger(r) \/ search(r)
    \/ resume(r) \/ testSignaled(r) \/ signal(r)

InboundNext ==
    \/ init \/ fire \/ runTimer \/ sweep \/ gotFetchPack \/ staleJob
    \/ \E n \in {Header} \cup StateNodes \cup TxNodes : addFetchPack(n)
    \/ \E p \in Packets : gotLedgerData(p)
    \/ \E r \in Runners : doLedgerData(r) \/ runData(r)

InboundSpec == InboundInit /\ [][InboundNext]_inboundVars

\* Weak fairness of init, runTimer and a fire that load does not put off, which
\* are enabled exactly while the timer says so.
InboundFairness == []<>(mTimer \notin {"new", "job"}) /\ []<>(mTimer # "set")

-----------------------------------------------------------------------------
(* What is required of it.                                                 *)

\* Every variable has its type.
InboundTypeOK ==
    /\ acq.state \subseteq StateNodes /\ acq.tx \subseteq TxNodes
    /\ acq.recent \subseteq StateNodes \cup TxNodes
    /\ acq.timeouts \in 0 .. ledgerTimeoutRetriesMax + 1 /\ acq.announced \in Nat
    /\ mTimer \in {"new", "none", "set", "job"} /\ dataJobs \in Nat
    /\ \A r \in Runners :
          /\ runnerAt[r] \in {"idle", "take", "process", "trigger", "search", "searched", "done", "signal"}
          /\ nodes[r] \subseteq StateNodes /\ batch[r] \in Seq(Packets)

\* An acquisition that says it is complete has the header and every node,
\* whichever of trigger, takeAsNode, takeTxNode and tryDB said so and whatever
\* the others did while trigger searched without the lock.
CompleteIsWhole ==
    acq.complete => acq.header /\ acq.state = StateNodes /\ acq.tx = TxNodes

\* What peers sent is taken by a job: mReceiveDispatched is not left set.
DataIsTaken ==
    found /\ mReceivedData # <<>> => dataJobs > 0 \/ \E r \in Runners : runnerAt[r] \in {"take", "process"}

\* An acquisition that is not over has its timer, also under load.
TimerKeepsOn == found /\ ~isDone(acq) => mTimer # "none"

\* A ledger that is complete was handed on, or a thread is about to do it.
CompleteIsHandedOn ==
    acq.complete => acq.announced > 0 \/ \E r \in Runners : runnerAt[r] \in {"done", "signal"}

\* Nothing is forgotten: what peers sent is taken, the timer goes on, and a complete
\* ledger is handed on.
DataHasTaker == DataIsTaken /\ TimerKeepsOn /\ CompleteIsHandedOn

\* Every acquisition is over at some time: it is complete, it failed, or nobody
\* wants it any more.
AcquisitionEnds == <>(isDone(acq) \/ ~found)

=============================================================================
