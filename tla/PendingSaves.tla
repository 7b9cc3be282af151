---------------------------- MODULE PendingSaves ----------------------------
(***************************************************************************)
(* Saving validated ledgers into the SQL database: the table of saves in   *)
(* progress (PendingSaves.h), pendSaveValidated and saveValidatedLedger    *)
(* (Ledger.cpp), run by several threads at once.                           *)
(*                                                                         *)
(* A call of pendSaveValidated is made by LedgerMaster::setFullLedger,     *)
(* which then adds the sequence to mCompleteLedgers whatever the save      *)
(* returned.  It is synchronous when a ledger is published and             *)
(* asynchronous when history is fetched; then a job does the save, unless  *)
(* the job queue refuses the job.  Each step below is one critical section *)
(* (of the hash router, of PendingSaves, of the complete set) or one       *)
(* database statement, so that the steps of the threads interleave as the  *)
(* locks allow.                                                            *)
(***************************************************************************)
EXTENDS Integers, FiniteSets

CONSTANTS
    Callers,    \* threads that publish ledgers or fetch history
    Workers,    \* job queue threads that run the saves dispatched to it
    Ledgers,    \* validated ledgers, by hash
    SeqOf,      \* the sequence number of each of them
    NoLedger,   \* no row in the Ledgers table
    MaxJobs     \* bound: saves of one ledger waiting in the job queue

SavesAssumption ==
    /\ SeqOf \in [Ledgers -> Nat] /\ NoLedger \notin Ledgers
    /\ Callers \intersect Workers = {} /\ MaxJobs \in Nat

VARIABLES
    saves,      \* PendingSaves::map_: absent, scheduled (false), working (true)
    saved,      \* ledgers the hash router flags SF_SAVED
    jobs,       \* saves waiting in the job queue
    row,        \* the Ledgers table: one row for a sequence
    complete,   \* LedgerMaster::mCompleteLedgers
    saverAt,         \* where each thread is
    led,        \* the ledger it works on
    sync,       \* isSynchronous of its call
    inJob,      \* it runs a job rather than a call of setFullLedger
    result      \* what its save returned

savesVars == <<saves, saved, jobs, row, complete, saverAt, led, sync, inJob, result>>
call == <<led, sync, inJob>>

Seqs == {SeqOf[l] : l \in Ledgers}
seq(t) == SeqOf[led[t]]
SaveThreads == Callers \union Workers

SavesInit ==
    /\ saves = [s \in Seqs |-> "absent"]
    /\ saved = {}
    /\ jobs = [l \in Ledgers |-> 0]
    /\ row = [s \in Seqs |-> NoLedger]
    /\ complete = {}
    /\ saverAt = [t \in SaveThreads |-> "idle"]
    /\ led = [t \in SaveThreads |-> NoLedger]
    /\ sync = [t \in SaveThreads |-> FALSE]
    /\ inJob = [t \in SaveThreads |-> FALSE]
    /\ result = [t \in SaveThreads |-> TRUE]

Goto(t, label) == saverAt' = [saverAt EXCEPT ![t] = label]

-----------------------------------------------------------------------------
(* pendSaveValidated.                                                      *)

\* setFlags(SF_SAVED) is true for the first caller only.
PendSave(t, l, s) ==
    /\ saverAt[t] = "idle"
    /\ led' = [led EXCEPT ![t] = l]
    /\ sync' = [sync EXCEPT ![t] = s]
    /\ saved' = saved \union {l}
    /\ Goto(t, IF l \notin saved THEN "shouldWork" ELSE IF s THEN "pending" ELSE "return")
    /\ UNCHANGED <<saves, jobs, row, complete, inJob, result>>

\* Somebody saved the ledger recently: only wait when its save is pending.
pending(t) ==
    /\ saverAt[t] = "pending"
    /\ Goto(t, IF saves[seq(t)] = "absent" THEN "return" ELSE "shouldWork")
    /\ UNCHANGED <<saves, saved, jobs, row, complete, call, result>>

shouldWork(t) ==
    /\ saverAt[t] = "shouldWork"
    /\ \/ /\ saves[seq(t)] = "absent"
          /\ saves' = [saves EXCEPT ![seq(t)] = "scheduled"]
          /\ Goto(t, "dispatch")
       \/ /\ saves[seq(t)] # "absent" /\ ~sync[t]
          /\ Goto(t, "return")
          /\ UNCHANGED saves
       \/ /\ saves[seq(t)] = "scheduled" /\ sync[t]
          /\ Goto(t, "dispatch")
          /\ UNCHANGED saves
       \/ /\ saves[seq(t)] = "working" /\ sync[t]
          /\ Goto(t, "waiting")
          /\ UNCHANGED saves
    /\ UNCHANGED <<saved, jobs, row, complete, call, result>>

\* A dispatch that gives up when the job queue refuses the job.
DispatchQueueOnly(t) ==
    /\ saverAt[t] = "dispatch"
    /\ \/ /\ ~sync[t]
          /\ jobs' = [jobs EXCEPT ![led[t]] = IF @ < MaxJobs THEN @ + 1 ELSE @]
          /\ Goto(t, "return")
       \/ sync[t] /\ Goto(t, "startWork") /\ UNCHANGED jobs
       \/ ~sync[t] /\ Goto(t, "return") /\ UNCHANGED jobs
    /\ UNCHANGED <<saves, saved, row, complete, call, result>>

\* addJob refuses the job when the queue is stopping.
Dispatch(t) ==
    /\ saverAt[t] = "dispatch"
    /\ \/ /\ ~sync[t] /\ jobs[led[t]] < MaxJobs
          /\ jobs' = [jobs EXCEPT ![led[t]] = @ + 1]
          /\ Goto(t, "return")
       \/ Goto(t, "startWork") /\ UNCHANGED jobs
    /\ UNCHANGED <<saves, saved, row, complete, call, result>>

\* The job queue runs a save it was given.
RunJob(t, l) ==
    /\ saverAt[t] = "idle" /\ jobs[l] > 0
    /\ jobs' = [jobs EXCEPT ![l] = @ - 1]
    /\ led' = [led EXCEPT ![t] = l]
    /\ inJob' = [inJob EXCEPT ![t] = TRUE]
    /\ Goto(t, "startWork")
    /\ UNCHANGED <<saves, saved, row, complete, sync, result>>

-----------------------------------------------------------------------------
(* saveValidatedLedger.                                                    *)

startWorkAlways(t) ==
    /\ saverAt[t] = "startWork"
    /\ IF saves[seq(t)] # "absent"
       THEN /\ saves' = [saves EXCEPT ![seq(t)] = "working"]
            /\ Goto(t, "save")
       ELSE Goto(t, "return") /\ UNCHANGED saves
    /\ UNCHANGED <<saved, jobs, row, complete, call, result>>

\* "Work done or another thread is doing it" makes the save return true.
startWork(t) ==
    /\ saverAt[t] = "startWork"
    /\ IF saves[seq(t)] = "scheduled"
       THEN /\ saves' = [saves EXCEPT ![seq(t)] = "working"]
            /\ Goto(t, "save")
       ELSE Goto(t, "return") /\ UNCHANGED saves
    /\ UNCHANGED <<saved, jobs, row, complete, call, result>>

\* The accepted ledger is missing nodes: LedgerMaster::failedSave takes the
\* sequence out of the complete set and starts to acquire the ledger.
failedSave(t) ==
    /\ saverAt[t] = "save"
    /\ complete' = complete \ {seq(t)}
    /\ result' = [result EXCEPT ![t] = FALSE]
    /\ Goto(t, "finishWork")
    /\ UNCHANGED <<saves, saved, jobs, row, call>>

DeleteRow(t) ==
    /\ saverAt[t] = "save"
    /\ row' = [row EXCEPT ![seq(t)] = NoLedger]
    /\ Goto(t, "insert")
    /\ UNCHANGED <<saves, saved, jobs, complete, call, result>>

InsertRow(t) ==
    /\ saverAt[t] = "insert"
    /\ row' = [row EXCEPT ![seq(t)] = led[t]]
    /\ Goto(t, "finishWork")
    /\ UNCHANGED <<saves, saved, jobs, complete, call, result>>

\* Erase the entry and wake every thread in shouldWork's wait.
finishWork(t) ==
    /\ saverAt[t] = "finishWork"
    /\ saves' = [saves EXCEPT ![seq(t)] = "absent"]
    /\ saverAt' = [u \in SaveThreads |-> IF u = t THEN "return"
                                ELSE IF saverAt[u] = "waiting" THEN "shouldWork"
                                ELSE saverAt[u]]
    /\ UNCHANGED <<saved, jobs, row, complete, call, result>>

-----------------------------------------------------------------------------
\* The call is over; setFullLedger goes on and ignores what it returned.
Return(t) ==
    /\ saverAt[t] = "return"
    /\ complete' = IF inJob[t] THEN complete ELSE complete \union {seq(t)}
    /\ Goto(t, "idle")
    /\ led' = [led EXCEPT ![t] = NoLedger]
    /\ sync' = [sync EXCEPT ![t] = FALSE]
    /\ inJob' = [inJob EXCEPT ![t] = FALSE]
    /\ result' = [result EXCEPT ![t] = TRUE]
    /\ UNCHANGED <<saves, saved, jobs, row>>

\* The hash router forgets the flag after its hold time.
ExpireFlag(l) ==
    /\ l \in saved
    /\ saved' = saved \ {l}
    /\ UNCHANGED <<saves, jobs, row, complete, saverAt, call, result>>

Step(t) ==
    \/ pending(t) \/ shouldWork(t) \/ Dispatch(t)
    \/ startWork(t) \/ failedSave(t) \/ DeleteRow(t) \/ InsertRow(t)
    \/ finishWork(t) \/ Return(t)

SavesNext ==
    \/ \E t \in Callers, l \in Ledgers, s \in BOOLEAN : PendSave(t, l, s)
    \/ \E t \in Workers, l \in Ledgers : RunJob(t, l)
    \/ \E t \in SaveThreads : Step(t)
    \/ \E l \in Ledgers : ExpireFlag(l)

\* A thread inside a call keeps running, and the job queue runs its jobs.
SavesSpec ==
    /\ SavesInit /\ [][SavesNext]_savesVars
    /\ \A t \in SaveThreads : WF_savesVars(Step(t))
    /\ \A l \in Ledgers : WF_savesVars(\E t \in Workers : RunJob(t, l))

-----------------------------------------------------------------------------
Labels == {"idle", "pending", "shouldWork", "waiting", "dispatch",
           "startWork", "save", "insert", "finishWork", "return"}

SavesTypeOK ==
    /\ saves \in [Seqs -> {"absent", "scheduled", "working"}]
    /\ saved \subseteq Ledgers
    /\ jobs \in [Ledgers -> 0..MaxJobs]
    /\ row \in [Seqs -> Ledgers \union {NoLedger}]
    /\ complete \subseteq Seqs
    /\ saverAt \in [SaveThreads -> Labels]
    /\ led \in [SaveThreads -> Ledgers \union {NoLedger}]
    /\ \A t \in SaveThreads : saverAt[t] # "idle" => led[t] \in Ledgers
    /\ sync \in [SaveThreads -> BOOLEAN]
    /\ inJob \in [SaveThreads -> BOOLEAN]
    /\ result \in [SaveThreads -> BOOLEAN]

Saving(t) == saverAt[t] \in {"save", "insert", "finishWork"}

\* The thread will still call startWork for its sequence.
WillStart(t) == saverAt[t] \in {"dispatch", "startWork"}

(* PendingSaves::startWork hands the save of a sequence to one thread at a
   time, and the entry says "in progress" exactly while that thread is inside
   saveValidatedLedger; so a reader that finds no entry for the sequence never
   sees the Ledgers table between the DELETE and the INSERT. *)
OneSaver ==
    \A s \in Seqs :
        LET savers == {t \in SaveThreads : Saving(t) /\ seq(t) = s}
        IN  /\ Cardinality(savers) <= 1
            /\ saves[s] = "working" <=> savers # {}

(* A scheduled entry is never left behind: some thread between shouldWork and
   startWork, or some job in the queue, is going to take it.  An entry nobody
   takes would hide the sequence from getValidatedRange for good. *)
ScheduledHasOwner ==
    \A s \in Seqs : saves[s] = "scheduled" =>
        \/ \E t \in SaveThreads : WillStart(t) /\ seq(t) = s
        \/ \E l \in Ledgers : SeqOf[l] = s /\ jobs[l] > 0

(* A thread waits in shouldWork only while another one is saving its
   sequence: finishWork's notification is never missed. *)
WaitersHaveSaver ==
    \A t \in SaveThreads : saverAt[t] = "waiting" => saves[seq(t)] = "working"

\* Who saves what is accounted for: the three above.
SavesOwned == OneSaver /\ ScheduledHasOwner /\ WaitersHaveSaver

(* Every entry of the table is erased in the end and every thread that waits
   for a save comes back. *)
SavesFinish ==
    /\ \A s \in Seqs : saves[s] # "absent" ~> saves[s] = "absent"
    /\ \A t \in SaveThreads : saverAt[t] = "waiting" ~> saverAt[t] # "waiting"

(* What Ledger.cpp's "Either we don't need it to be finished or it is
   finished" and "The save was completed synchronously" say: a synchronous
   call that returns true has its ledger in the database. *)
SyncIsSaved ==
    \A t \in SaveThreads :
        saverAt[t] = "return" /\ sync[t] /\ result[t] => row[seq(t)] # NoLedger

(* What getFullValidatedRange's "returns Ledgers we have all the nodes for"
   says of mCompleteLedgers: right after setFullLedger has added a sequence,
   the save it made did not fail for missing nodes. *)
CompleteHasNodes ==
    [][\A t \in SaveThreads :
          Return(t) /\ ~inJob[t] /\ ~result[t] => seq(t) \notin complete']_savesVars
=============================================================================
