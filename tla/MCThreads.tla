------------------------------ MODULE MCThreads ------------------------------
(***************************************************************************)
(* What runs the work of the server, for TLC: the job queue, the pool of   *)
(* threads below it, the coroutines above it, the handlers of the io       *)
(* service that fetch validator lists, and the acquisition of a ledger, in *)
(* whose jobs and timer these meet.  In one behaviour one of them moves.   *)
(*                                                                         *)
(* "queue": four jobs of two types; `data' is limited to two running jobs, *)
(* as jtLEDGER_DATA is, and comes before `local', as jtLEDGER_DATA does    *)
(* before jtTRANSACTION_l, which has room for all.                         *)
(* "pool": the pool loses a thread and gets it back while tasks come, and  *)
(* is destroyed when they are done; "single": one thread, as in standalone *)
(* mode, and a destructor that may come at any time.                       *)
(* "coroutines": two requests and the two path finding jobs newPFWork      *)
(* allows; "stopping" and "serving": one request and a third job that is   *)
(* ending, with missing nodes and a stop, and with a new ledger instead.   *)
(* "sites": two sites, a request shorter than a refresh, one redirect.     *)
(* "inbound": a state map with a root and a leaf, a transaction map, a     *)
(* packet of data, two threads and the job of an earlier acquisition;      *)
(* "peers": all of it but the header and the root is here, two packets and *)
(* one thread, while peers are found.                                      *)
(***************************************************************************)
EXTENDS JobQueue, ValidatorSite, InboundLedger, TLC

CONSTANTS j1, j2, j3, j4, w1, w2, w3, data, local, r1, r2, p1, p2, p3, None

VARIABLES part,
          semaphore, allPaused, activeCount, pauseCount, everyone, paused, pc, wakeCount,
          shouldExit, ctl, call, left, popped, added, processed,
          seg, carrier, nSuspend, requests, inProgress, completed, threads, newRequest,
          newLedger, ledgers, finderPc, todo, newOnly, item, closed,
          coroStopper, coroStopping

poolVars == <<semaphore, allPaused, activeCount, pauseCount, everyone, paused, pc, wakeCount,
              shouldExit, ctl, call, left, popped, added, processed>>
coroVars == <<seg, carrier, nSuspend, requests, inProgress, completed, threads, newRequest,
              newLedger, ledgers, finderPc, todo, newOnly, item, closed,
              coroStopper, coroStopping>>

MCTypeOf == [j \in {j1, j2, j3, j4} |-> IF j = j4 THEN local ELSE data]
MCLimit == [t \in {data, local} |-> IF t = data THEN 2 ELSE 4]
MCPriority == [t \in {data, local} |-> IF t = data THEN 2 ELSE 1]

Shrinking == INSTANCE Workers
            WITH Pool <- {w1, w2, w3}, Script <- <<2, 1, 2>>, MaxTasks <- 2,
                 QuietDestroy <- TRUE, NoWorker <- None
Single == INSTANCE Workers
            WITH Pool <- {w1, w2, w3}, Script <- <<1>>, MaxTasks <- 2,
                 QuietDestroy <- FALSE, NoWorker <- None
Coro == INSTANCE Coroutines
            WITH Requests <- {r1, r2}, Finders <- {p1, p2}, MaxLedgers <- 0,
                 MayStop <- FALSE, MayAsk <- TRUE, MayMiss <- TRUE, MayLag <- TRUE,
                 NoRequest <- None, pc <- finderPc, stopper <- coroStopper,
                 is_stopping <- coroStopping
Ending == INSTANCE Coroutines
            WITH Requests <- {r1}, Finders <- {p1, p2, p3}, MaxLedgers <- 0,
                 MayStop <- TRUE, MayAsk <- TRUE, MayMiss <- TRUE, MayLag <- TRUE,
                 NoRequest <- None, pc <- finderPc, stopper <- coroStopper,
                 is_stopping <- coroStopping
Serving == INSTANCE Coroutines
            WITH Requests <- {r1}, Finders <- {p1, p2, p3}, MaxLedgers <- 1,
                 MayStop <- FALSE, MayAsk <- TRUE, MayMiss <- FALSE, MayLag <- FALSE,
                 NoRequest <- None, pc <- finderPc, stopper <- coroStopper,
                 is_stopping <- coroStopping

ASSUME /\ JobQueueAssumption /\ SiteAssumption /\ InboundAssumption
       /\ Shrinking!WorkersAssumption /\ Single!WorkersAssumption
       /\ Coro!CoroutinesAssumption /\ Ending!CoroutinesAssumption
       /\ Serving!CoroutinesAssumption

\* Requests and path finding jobs are alike; p3 is never one of only two.
Symmetry == Permutations({r1, r2}) \cup Permutations({p1, p2})

Init ==
    /\ part \in {"queue", "pool", "single", "coroutines", "stopping", "serving", "sites",
                 "inbound", "peers"}
    /\ QueueInit /\ Shrinking!Init /\ SiteInit
    /\ InboundInit
    /\ part # "inbound" => stored = {"leaf", "tx"}
    /\ part \notin {"inbound", "peers"} => seqMatches
    /\ IF part = "coroutines" THEN Coro!Init ELSE Serving!Init

\* What arrives in "inbound" is one packet of peers known before, and in "peers" two
\* packets with the root only, for one thread.
Arrives ==
    \/ part = "inbound" /\ packets' <= 1 /\ ~acq'.peers
    \/ /\ part = "peers" /\ stale' = 0 /\ runnerAt'[w2] = "idle"
       /\ \A i \in DOMAIN mReceivedData' : mReceivedData'[i].nodes \subseteq {"root"}

\* No request and no data has to come; and nothing happens after a crash.
Rest == /\ part \in {"coroutines", "stopping", "serving", "sites", "inbound", "peers"}
        /\ UNCHANGED <<queueVars, poolVars, coroVars, siteVars, inboundVars>>

Next ==
    /\ part' = part
    /\ \/ /\ part = "queue" /\ QueueNext
          /\ UNCHANGED <<poolVars, coroVars, siteVars, inboundVars>>
       \/ /\ \/ part = "pool" /\ Shrinking!Next
             \/ part = "single" /\ Single!Next
          /\ UNCHANGED <<queueVars, coroVars, siteVars, inboundVars>>
       \/ /\ \/ part = "coroutines" /\ Coro!Next
             \/ part = "stopping" /\ Ending!Next
             \/ part = "serving" /\ Serving!Next
          /\ UNCHANGED <<queueVars, poolVars, siteVars, inboundVars>>
       \/ /\ part = "sites" /\ SiteNext
          /\ UNCHANGED <<queueVars, poolVars, coroVars, inboundVars>>
       \/ /\ part \in {"inbound", "peers"} /\ InboundNext /\ Arrives
          /\ UNCHANGED <<queueVars, poolVars, coroVars, siteVars>>
       \/ Rest

Spec == Init /\ [][Next]_<<part, queueVars, poolVars, coroVars, siteVars, inboundVars>>

-----------------------------------------------------------------------------
(* The properties are those of the components, stated there: TaskHasJob and *)
(* StoppedIsIdle of the job queue, OneChain of the sites, CompleteIsWhole   *)
(* and DataHasTaker of the acquisition, and these of the instances.         *)

\* A call of addTask makes one call of processTask at the most, no worker is lost to
\* the pool or paused twice, and with one thread no worker calls back once the
\* destructor has waited (Workers.cpp).
OneCallPerTask ==
    /\ part = "pool" => Shrinking!OneCallPerTask /\ Shrinking!PausedOnce
    /\ part = "single" => Single!OneCallPerTask /\ Single!PausedIsQuiet

\* A coroutine runs in one thread at a time; mPathFindThread counts the path finding
\* jobs and nSuspend_ the suspended coroutines, of which none is left when the queue
\* says that it stopped; while the server runs none that returned is resumed, and a
\* path request in progress is handled by a thread (Coro.ipp, PathRequests.cpp).
OneThread ==
    /\ part = "coroutines" => Coro!OneThread /\ Coro!FindersCounted
    /\ part = "stopping" => /\ Ending!OneThread /\ Ending!FindersCounted
                            /\ Ending!SuspensionsCounted /\ Ending!StoppedNoCoroutine
    /\ part = "serving" => Serving!ResumesRunnable /\ Serving!InProgressIsHandled
=============================================================================
