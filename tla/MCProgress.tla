----------------------------- MODULE MCProgress ------------------------------
(***************************************************************************)
(* What the server eventually does, for TLC: the liveness properties of    *)
(* the components on small instances, each under the fairness its module   *)
(* states.  In one behaviour one of them moves.                            *)
(*                                                                         *)
(* "saves": a caller and a worker, one ledger.  "master": a chain that     *)
(* grows while the database holds part of it or of another branch, in sync *)
(* and with acquisitions that arrive.  "stale": two validators whose       *)
(* validations do not expire between two writes.                           *)
(* "jobs": three jobs, two of them of a type that runs one at a time.      *)
(* "pool": the pool shrinks while tasks come.  "serving": a path request,  *)
(* a new ledger and no stop; "stopping": a stop and no new ledger.         *)
(* "batch": two callers and two transactions in any order.  "queue": one   *)
(* account, with more retries than its transactions need.  "load": the     *)
(* load fee of MCRules.  "sites": two sites that redirect nowhere;         *)
(* "site": one that redirects once, and a stop at any time.  "inbound": a   *)
(* ledger of history is acquired, with a packet of data and one thread.    *)
(***************************************************************************)
EXTENDS JobQueue, TLC

CONSTANTS p1, p2, w1, w2, one, v1, n1, n2, j1, j2, j3, data, local, r1, r2, c1, c2,
          Job, None,
          MayAsk   \* do requests suspend before the stop of "stopping"

VARIABLES part,
          saves, saved, saveJobs, saveRow, saveComplete, saverAt, led, sync, inJob, result,
          vals, heard, checks, have, acquiring, arrived, valid, lastValid, building,
          pub, streamed, work, thread, want, ready, row, complete, fill,
          current_, received, stale, staleWriting_, staleBatch, stalePc, table, closed,
          semaphore, allPaused, activeCount, pauseCount, everyone, paused, poolPc, wakeCount,
          shouldExit, ctl, call, left, popped, added, processed,
          seg, carrier, nSuspend, requests, inProgress, completed, threads, newRequest,
          newLedger, ledgers, finderPc, todo, newOnly, item, coroClosed,
          coroStopper, coroStopping,
          mTransactions, mDispatchState, mApplying, callerAt, tx, jobs, owner, batchPhase, batch,
          results, submit_held, next, held, queued, bad, localTxs, stopping, submits,
          submitted, closes,
          byFee_, txs, penalty, maxSize_, txnsExpected, aSeq, closedSeq, txCount, ledgerSeq,
          phase, cursor, tried,
          localTxnLoadFee_, remoteTxnLoadFee_, clusterTxnLoadFee_, raiseCount_, overloaded,
          stopped,
          timer, due, maker, completion, timingOut, work_, fetching_, stopping_, pending_,
          activeResource, nextRefresh, redirCount, stop, raced, crashed,
          acq, found, reason, seqMatches, stored, mTimer, mReceivedData, mReceiveDispatched,
          dataJobs, runnerAt, acqBatch, chosen, nodes, packets, staleData

savesVars == <<saves, saved, saveJobs, saveRow, saveComplete, saverAt, led, sync, inJob, result>>
masterVars == <<vals, heard, checks, have, acquiring, arrived, valid, lastValid, building,
                pub, streamed, work, thread, want, ready, row, complete, fill>>
staleVars == <<current_, received, stale, staleWriting_, staleBatch, stalePc, table, closed>>
poolVars == <<semaphore, allPaused, activeCount, pauseCount, everyone, paused, poolPc, wakeCount,
              shouldExit, ctl, call, left, popped, added, processed>>
coroVars == <<seg, carrier, nSuspend, requests, inProgress, completed, threads, newRequest,
              newLedger, ledgers, finderPc, todo, newOnly, item, coroClosed,
              coroStopper, coroStopping>>
batchVars == <<mTransactions, mDispatchState, mApplying, callerAt, tx, jobs, owner, batchPhase, batch,
               results, submit_held, next, held, queued, bad, localTxs, stopping, submits,
               submitted, closes>>
txqVars == <<byFee_, txs, penalty, maxSize_, txnsExpected, aSeq, closedSeq, txCount, ledgerSeq,
               phase, cursor, tried>>
loadVars == <<localTxnLoadFee_, remoteTxnLoadFee_, clusterTxnLoadFee_, raiseCount_, overloaded,
              stopped>>
siteVars == <<timer, due, maker, completion, timingOut, work_, fetching_, stopping_, pending_,
              activeResource, nextRefresh, redirCount, stop, raced, crashed>>
inboundVars == <<acq, found, reason, seqMatches, stored, mTimer, mReceivedData, mReceiveDispatched,
             dataJobs, runnerAt, acqBatch, chosen, nodes, packets, staleData>>

vars == <<part, savesVars, masterVars, staleVars, queueVars, poolVars, coroVars, batchVars,
          txqVars, loadVars, siteVars, inboundVars>>

-----------------------------------------------------------------------------
(* The instances.                                                          *)

Saves == INSTANCE PendingSaves
            WITH Callers <- {p1}, Workers <- {w1}, Ledgers <- {one}, SeqOf <- [l \in {one} |-> 1],
                 NoLedger <- None, MaxJobs <- 1,
                 jobs <- saveJobs, row <- saveRow, complete <- saveComplete

ChainLedgers == {<<0>>, <<0, 1>>, <<0, 1, 2>>, <<0, 1, 2, 3>>, <<0, 4>>}
Master == INSTANCE LedgerMaster
            WITH Ledgers <- ChainLedgers, Validators <- {v1}, Quorum <- 1,
                 MaxGap <- 2, FetchSize <- 2, LedgerHistory <- 3,
                 InitialRows <- {{}, {<<0>>, <<0, 1>>}, {<<0>>, <<0, 4>>},
                                 {<<0>>, <<0, 4>>, <<0, 1, 2>>}},
                 Clocks <- {TRUE}, Syncs <- {TRUE},
                 Validated <- ChainLedgers \ {<<0>>, <<0, 4>>},
                 BuildSeqs <- {}, PathWork <- {TRUE}, MayFail <- FALSE

Stale == INSTANCE StaleValidations
            WITH Nodes <- {n1, n2}, MaxSeq <- 3, Full <- {1, 3}, MayExpire <- FALSE,
                 batch <- staleBatch, pc <- stalePc

MCTypeOf == [j \in {j1, j2, j3} |-> IF j = j3 THEN local ELSE data]
MCLimit == [t \in {data, local} |-> IF t = data THEN 1 ELSE 3]
MCPriority == [t \in {data, local} |-> IF t = data THEN 2 ELSE 1]

Shrinking == INSTANCE Workers
            WITH Pool <- {w1, w2}, Script <- <<2, 1>>, MaxTasks <- 2,
                 QuietDestroy <- TRUE, NoWorker <- None, pc <- poolPc

Serving == INSTANCE Coroutines
            WITH Requests <- {r1}, Finders <- {p1, p2}, MaxLedgers <- 1,
                 MayStop <- FALSE, MayAsk <- TRUE, MayMiss <- FALSE, MayLag <- FALSE,
                 NoRequest <- None, pc <- finderPc, closed <- coroClosed,
                 stopper <- coroStopper, is_stopping <- coroStopping
Ending == INSTANCE Coroutines
            WITH Requests <- {r1, r2}, Finders <- {p1, p2}, MaxLedgers <- 0,
                 MayStop <- TRUE, MayMiss <- FALSE, MayLag <- FALSE,
                 NoRequest <- None, pc <- finderPc, closed <- coroClosed,
                 stopper <- coroStopper, is_stopping <- coroStopping

Batch == INSTANCE TransactionBatch
            WITH Callers <- {c1, c2}, MaxSeq <- 2, Malformed <- {}, FailHard <- {},
                 LowFee <- {FALSE}, MaxSubmits <- 2, MaxCloses <- 0,
                 phase <- batchPhase, local <- localTxs

Tx(level) == [level |-> level, blocker |-> FALSE, lastValid |-> 0]
Queue == INSTANCE TxQ
            WITH Accounts <- {one}, MaxSeq <- 3, MaxLedger <- 1, Kinds <- {Tx(256), Tx(1100)},
                 Expected <- {1}, Multiplier <- 256, baseLevel <- 256,
                 retrySequencePercent <- 25, multiTxnPercent <- -90, maximumTxnPerAccount <- 2,
                 minimumLastLedgerBuffer <- 2, ledgersInQueue <- 1, queueSizeMin <- 2,
                 retriesAllowed <- 3, Reserve <- 2000, NoLimit <- None

Load == INSTANCE LoadFeeTrack
            WITH lftNormalFee <- 16, lftFeeIncFraction <- 4, lftFeeDecFraction <- 4,
                 lftFeeMax <- 96, RemoteFees <- {16, 40}, Amounts <- {1},
                 units <- 2, UInt64Max <- 2000

Fetches == INSTANCE ValidatorSite
            WITH Sites <- {0, 1}, refreshInterval <- 2, error_retry_interval <- 1,
                 requestTimeout_ <- 1, max_redirects <- 0, MaxOverdue <- 0, MayStop <- FALSE
Fetch == INSTANCE ValidatorSite
            WITH Sites <- {0}, refreshInterval <- 1, error_retry_interval <- 1,
                 requestTimeout_ <- 1, max_redirects <- 1, MaxOverdue <- 0, MayStop <- TRUE
Inbound == INSTANCE InboundLedger
            WITH StateNodes <- {"root"}, TxNodes <- {}, StateRoot <- "root",
                 TxRoot <- "tx", Header <- "header", Runners <- {w1},
                 Reasons <- {"history"}, ledgerTimeoutRetriesMax <- 1,
                 ledgerBecomeAggressiveThreshold <- 0, MaxPackets <- 1, MaxStale <- 0,
                 MaxNewPeers <- 0, batch <- acqBatch, stale <- staleData

ASSUME /\ Saves!SavesAssumption /\ Master!LedgerMasterAssumption /\ Stale!StaleAssumption
       /\ JobQueueAssumption /\ Shrinking!WorkersAssumption
       /\ Serving!CoroutinesAssumption /\ Ending!CoroutinesAssumption
       /\ Batch!BatchAssumption /\ Queue!TxQAssumption /\ Load!FeeAssumption
       /\ Fetches!SiteAssumption /\ Fetch!SiteAssumption /\ Inbound!InboundAssumption

-----------------------------------------------------------------------------
(* The behaviours.                                                         *)

Init ==
    /\ part \in {"saves", "master", "stale", "jobs", "pool", "serving", "stopping", "batch",
                 "queue", "load", "sites", "site", "inbound"}
    /\ Saves!SavesInit /\ Stale!Init /\ QueueInit /\ Shrinking!Init /\ Batch!BatchInit /\ Queue!Init
    /\ Load!Init
    /\ Master!Init /\ (part # "master" => have = {<<0>>})
    /\ Inbound!InboundInit /\ (part # "inbound" => stored = {} /\ seqMatches)
    /\ IF part = "sites" THEN Fetches!SiteInit ELSE Fetch!SiteInit
    /\ IF part = "stopping" THEN Ending!Init ELSE Serving!Init

Next ==
    /\ part' = part
    /\ \/ /\ part = "saves" /\ Saves!SavesNext
          /\ UNCHANGED <<masterVars, staleVars, queueVars, poolVars, coroVars, batchVars, txqVars, loadVars, siteVars, inboundVars>>
       \/ /\ part = "master" /\ Master!Next
          /\ UNCHANGED <<savesVars, staleVars, queueVars, poolVars, coroVars, batchVars, txqVars, loadVars, siteVars, inboundVars>>
       \/ /\ part = "stale" /\ Stale!Next
          /\ UNCHANGED <<savesVars, masterVars, queueVars, poolVars, coroVars, batchVars, txqVars, loadVars, siteVars, inboundVars>>
       \/ /\ part = "jobs" /\ QueueNext
          /\ UNCHANGED <<savesVars, masterVars, staleVars, poolVars, coroVars, batchVars, txqVars, loadVars, siteVars, inboundVars>>
       \/ /\ part = "pool" /\ Shrinking!Next
          /\ UNCHANGED <<savesVars, masterVars, staleVars, queueVars, coroVars, batchVars, txqVars, loadVars, siteVars, inboundVars>>
       \/ /\ part = "serving" /\ Serving!Next
          /\ UNCHANGED <<savesVars, masterVars, staleVars, queueVars, poolVars, batchVars, txqVars, loadVars, siteVars, inboundVars>>
       \/ /\ part = "stopping" /\ Ending!Next
          /\ UNCHANGED <<savesVars, masterVars, staleVars, queueVars, poolVars, batchVars, txqVars, loadVars, siteVars, inboundVars>>
       \/ /\ part = "batch" /\ Batch!BatchNext
          /\ UNCHANGED <<savesVars, masterVars, staleVars, queueVars, poolVars, coroVars, txqVars, loadVars, siteVars, inboundVars>>
       \/ /\ part = "queue" /\ Queue!Next
          /\ UNCHANGED <<savesVars, masterVars, staleVars, queueVars, poolVars, coroVars, batchVars, loadVars, siteVars, inboundVars>>
       \/ /\ part = "load" /\ Load!Next
          /\ UNCHANGED <<savesVars, masterVars, staleVars, queueVars, poolVars, coroVars, batchVars, txqVars, siteVars, inboundVars>>
       \/ /\ \/ part = "sites" /\ Fetches!SiteNext
             \/ part = "site" /\ Fetch!SiteNext
          /\ UNCHANGED <<savesVars, masterVars, staleVars, queueVars, poolVars, coroVars, batchVars, txqVars, loadVars, inboundVars>>
       \/ /\ part = "inbound" /\ Inbound!InboundNext
          /\ UNCHANGED <<savesVars, masterVars, staleVars, queueVars, poolVars, coroVars, batchVars, txqVars, loadVars, siteVars>>

\* The fairness of each component, while it is the one that moves.
Fairness ==
    /\ \A t \in {p1, w1} : WF_savesVars(part = "saves" /\ Saves!Step(t))
    /\ WF_savesVars(part = "saves" /\ Saves!RunJob(w1, one))
    /\ \A l \in ChainLedgers : /\ WF_masterVars(part = "master" /\ Master!Arrive(l))
                               /\ WF_masterVars(part = "master" /\ Master!AcquisitionDone(l, TRUE))
    /\ WF_masterVars(part = "master" /\ Master!Advance(TRUE, TRUE))
    /\ WF_masterVars(part = "master" /\ Master!Fill)
    /\ WF_staleVars(part = "stale" /\ Stale!startJob)
    /\ \A w \in {"job", "stop"} : WF_staleVars(part = "stale" /\ Stale!doStaleWrite(w))
    /\ WF_staleVars(part = "stale" /\ (Stale!joinJobs \/ Stale!flush \/ Stale!flushed))
    /\ \A w \in {w1, w2} : WF_queueVars(part = "jobs" /\ Work(w))
    /\ \A j \in {j1, j2, j3} : WF_queueVars(part = "jobs" /\ addRefCountedJob(j))
    /\ WF_queueVars(part = "jobs" /\ Stopping)
    /\ WF_poolVars(part = "pool" /\ Shrinking!Control)
    /\ \A w \in {w1, w2} : WF_poolVars(part = "pool" /\ Shrinking!Run(w))
    /\ WF_coroVars(part = "serving" /\ Serving!Coroutine(r1))
    /\ \A p \in {p1, p2} : /\ WF_coroVars(part = "serving" /\ Serving!Finder(p))
                               /\ WF_coroVars(part = "stopping" /\ Ending!Finder(p))
    /\ \A r \in {r1, r2} : WF_coroVars(part = "stopping" /\ Ending!Coroutine(r))
    /\ WF_coroVars(part = "stopping" /\ Ending!Stopping)
    /\ WF_batchVars(part = "batch" /\ Batch!Progress)
    /\ WF_batchVars(part = "batch" /\ Batch!transactionBatch)
    /\ \A c \in {c1, c2} : WF_batchVars(part = "batch" /\ Batch!Loop(c))
    /\ WF_txqVars(part = "queue" /\ \E timeLeap \in BOOLEAN : Queue!processClosedLedger(timeLeap))
    /\ WF_txqVars(part = "queue" /\ Queue!acceptStep)
    /\ WF_loadVars(part = "load" /\ Load!run)
    /\ WF_siteVars(part = "sites" /\ Fetches!Clock)
    /\ WF_siteVars(part = "sites" /\ Fetches!RequestLimit)
    /\ WF_siteVars(part = "sites" /\ Fetches!Handler)
    /\ WF_siteVars(part = "site" /\ Fetch!Clock)
    /\ WF_siteVars(part = "site" /\ Fetch!RequestLimit)
    /\ WF_siteVars(part = "site" /\ Fetch!Handler)
    /\ WF_siteVars(part = "site" /\ Fetch!StopCall)
    /\ []<>(part = "inbound" => mTimer \notin {"new", "job"})
    /\ []<>(part = "inbound" => mTimer # "set")

Spec == Init /\ [][Next]_vars /\ Fairness

\* The same, when "stopping" is what moves.
StoppingSpec == part = "stopping" /\ Spec

-----------------------------------------------------------------------------
(* The properties are those of the components, stated there, the first of  *)
(* them ImplementsPool of the job queue; a component that does not move    *)
(* satisfies them where it starts.                                         *)

\* A stop ends whatever coroutines are in flight (JobQueue.h: "When the JobQueue
\* stops, it waits for all jobs and coroutines to finish").
CoroutinesStop == Ending!StopReturns

\* Nobody waits forever: every save that was announced is over (PendingSaves.h),
\* flush returns (RCLValidations.cpp), and so does a stop of the job queue whatever
\* jobs and coroutines are in flight, the destructor of the pool, doTransactionSync,
\* accept, and the stop of the fetching of lists; a path request is answered, and an
\* acquisition ends.
EveryWaitEnds ==
    /\ Saves!SavesFinish
    /\ Stale!FlushReturns
    /\ StopReturns
    /\ CoroutinesStop
    /\ <>(part = "pool" => ctl = "deleted")
    /\ Serving!RequestsAnswered
    /\ Batch!SyncReturns
    /\ Queue!AcceptReturns
    /\ Fetch!FetchStopReturns
    /\ <>(part = "inbound" => Inbound!isDone(acq) \/ ~found)

\* What there is to do gets done: a validated ledger is published and the configured
\* history completed (LedgerMaster.cpp), a stale validation is written and every
\* full one is when flush returns, an accepted job and an added task run,
\* transactions submitted in any order are applied, the queue empties, the load fee
\* follows the load, and every site is asked again.
WorkIsDone ==
    /\ Master!PublishesAll
    /\ Master!HistoryFills
    /\ Stale!StaleIsWritten /\ []Stale!FlushWritesAll
    /\ AcceptedRun
    /\ Shrinking!TasksAreProcessed
    /\ Batch!OutOfOrderApplied
    /\ Queue!QueueDrains
    /\ Load!FeeSettles
    /\ Load!FeeClimbs
    /\ \A s \in {0, 1} : (part = "sites" /\ stop = "no") ~> (Fetches!FetchOver \/ Fetches!Asked(s))
=============================================================================
