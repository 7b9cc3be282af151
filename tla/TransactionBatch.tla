-------------------------- MODULE TransactionBatch ---------------------------
(***************************************************************************)
(* How submitted transactions reach the open ledger (NetworkOPs.cpp        *)
(* doTransactionAsync, doTransactionSync, transactionBatch and apply).     *)
(* Callers append to one queue under mMutex; one of them, or a batch job,  *)
(* takes the queue and applies it with the mutex released, while the       *)
(* others wait on mCond.  Transactions that come before their turn are     *)
(* held by the ledger master and submitted again by the one they wait for. *)
(* The transactions are those of one account, by their sequence numbers.   *)
(***************************************************************************)
EXTENDS Naturals, Sequences, FiniteSets, FiniteSetsExt

CONSTANTS Callers,       \* threads in doTransactionSync
          MaxSeq,        \* transactions 1 .. MaxSeq
          Malformed,     \* transactions every attempt finds malformed
          FailHard,      \* transactions submitted with FailHard::yes
          LowFee,        \* may a fee be too low for the open ledger
          Job, None,
          MaxSubmits,    \* bound on the submissions
          MaxCloses      \* bound on the ledgers that close

BatchAssumption ==
    /\ MaxSeq \in Nat /\ MaxSubmits \in Nat /\ MaxCloses \in Nat /\ LowFee \subseteq BOOLEAN
    /\ Malformed \subseteq 1 .. MaxSeq /\ FailHard \subseteq 1 .. MaxSeq
    /\ Job \notin Callers /\ None \notin Callers \cup {Job}

VARIABLES mTransactions,   \* the queue
          mDispatchState,
          mApplying,       \* transactions whose canonical object is applying
          callerAt, tx,          \* of each caller
          jobs,            \* batch jobs in the job queue
          owner,           \* who is inside apply
          phase,           \* where
          batch,           \* transactions of apply, the ones not handled yet
          results,         \* their results
          submit_held,
          next,            \* the account's sequence in the open ledger
          held,            \* mHeldTransactions
          queued,          \* transactions in the queue of TxQ
          bad,             \* the hash router's SF_BAD
          local,           \* m_localTX
          stopping,        \* the job queue refuses jobs
          submits,         \* number of submissions
          submitted,       \* the transactions submitted so far
          closes           \* number of closes

bounds == <<submits, submitted, closes>>
applyVars == <<owner, phase, batch, results, submit_held>>
ledgerVars == <<next, held, queued, bad, local>>
batchVars == <<mTransactions, mDispatchState, mApplying, callerAt, tx, jobs, applyVars,
               ledgerVars, stopping, bounds>>

Txs == 1 .. MaxSeq

\* What is queued; the transactions of submit_held are new objects.
TransactionStatus == [tx: Txs, canonical: BOOLEAN, local: BOOLEAN]

BatchInit ==
    /\ mTransactions = <<>> /\ mDispatchState = "none" /\ mApplying = {}
    /\ callerAt = [c \in Callers |-> "idle"] /\ tx = [c \in Callers |-> 1] /\ jobs = 0
    /\ owner = None /\ phase = "modify" /\ batch = <<>> /\ results = <<>> /\ submit_held = <<>>
    /\ next = 1 /\ held = {} /\ queued = {} /\ bad = {} /\ local = {}
    /\ stopping = FALSE /\ submits = 0 /\ submitted = {} /\ closes = 0

Submit(t) == submits < MaxSubmits /\ submits' = submits + 1 /\ submitted' = submitted \cup {t}
             /\ t \notin bad /\ UNCHANGED closes

-----------------------------------------------------------------------------
(* The queue.                                                              *)

\* A duplicate is appended too.
pushedAlways(t, isLocal) ==
    Append(mTransactions, [tx |-> t, canonical |-> TRUE, local |-> isLocal])

pushed(t, isLocal) ==
    IF t \in mApplying THEN mTransactions
    ELSE Append(mTransactions, [tx |-> t, canonical |-> TRUE, local |-> isLocal])

addJob ==
    IF stopping THEN UNCHANGED <<jobs, mDispatchState>>
    ELSE jobs' = jobs + 1 /\ mDispatchState' = "scheduled"

doTransactionAsync(t) ==
    /\ Submit(t)
    /\ mApplying' = mApplying \cup {t} /\ mTransactions' = pushed(t, FALSE)
    /\ IF t \in mApplying \/ mDispatchState # "none" THEN UNCHANGED <<jobs, mDispatchState>>
                                                     ELSE addJob
    /\ UNCHANGED <<callerAt, tx, applyVars, ledgerVars, stopping>>

\* apply, up to batchLock.unlock().
swap(o, queue) ==
    /\ batch' = queue /\ mTransactions' = <<>> /\ submit_held' = <<>> /\ results' = <<>>
    /\ owner' = o /\ phase' = "modify" /\ mDispatchState' = "running"

\* A turn of the loop: wait for the batch that is running, or be the next.
Turn(c, queue) ==
    IF mDispatchState = "running"
      THEN /\ callerAt' = [callerAt EXCEPT ![c] = "wait"] /\ mTransactions' = queue
           /\ UNCHANGED <<mDispatchState, applyVars>>
      ELSE /\ callerAt' = [callerAt EXCEPT ![c] = "apply"] /\ swap(c, queue)

doTransactionSync(c, t) ==
    /\ callerAt[c] = "idle" /\ Submit(t)
    /\ tx' = [tx EXCEPT ![c] = t]
    /\ mApplying' = mApplying \cup {t}
    /\ Turn(c, pushed(t, TRUE))
    /\ UNCHANGED <<jobs, ledgerVars, stopping>>

Loop(c) ==
    /\ callerAt[c] = "woken"
    /\ IF tx[c] \in mApplying THEN Turn(c, mTransactions)
       ELSE callerAt' = [callerAt EXCEPT ![c] = "idle"] /\ UNCHANGED <<mTransactions, mDispatchState, applyVars>>
    /\ UNCHANGED <<mApplying, tx, jobs, ledgerVars, stopping, bounds>>

transactionBatch ==
    /\ jobs > 0 /\ jobs' = jobs - 1
    /\ IF mDispatchState = "running" \/ mTransactions = <<>>
         THEN UNCHANGED <<mTransactions, mDispatchState, applyVars>>
         ELSE swap(Job, mTransactions)
    /\ UNCHANGED <<mApplying, callerAt, tx, ledgerVars, stopping, bounds>>

-----------------------------------------------------------------------------
(* apply, with the mutex released.                                         *)

\* The results of TxQ::apply in order: what it makes of the open ledger's next
\* sequence number and of its own queue is its own business, as is a fee too
\* low for the open ledger, which queues the transaction.
TxQApply(n, q, t, lowFee) ==
    IF t \in Malformed THEN [result |-> "temMALFORMED", next |-> n, queued |-> q]
    ELSE IF t < n THEN [result |-> "tefPAST_SEQ", next |-> n, queued |-> q]
    ELSE IF t > n THEN [result |-> "terPRE_SEQ", next |-> n, queued |-> q]
    ELSE IF lowFee THEN [result |-> "terQUEUED", next |-> n, queued |-> q \cup {t}]
    ELSE [result |-> "tesSUCCESS", next |-> n + 1, queued |-> q \ {t}]

\* openLedger().modify, under the master lock, one transaction at a time.
Modify(lowFee) ==
    /\ lowFee \in LowFee
    /\ owner # None /\ phase = "modify"
    /\ LET r == TxQApply(next, queued, batch[Len(results) + 1].tx, lowFee)
       IN  next' = r.next /\ queued' = r.queued /\ results' = Append(results, r.result)
    /\ phase' = IF Len(results) + 1 = Len(batch) THEN "post" ELSE "modify"
    /\ UNCHANGED <<mTransactions, mDispatchState, mApplying, callerAt, tx, jobs, owner, batch,
                   submit_held, held, bad, local, stopping, bounds>>

Fresh(t) == [tx |-> t, canonical |-> FALSE, local |-> FALSE]

pruneHeldTransactions(t) == held \cap {t + 1}

\* What apply does with one result.
PostHandled(e, r) ==
    /\ held' = IF r = "tesSUCCESS" THEN held \ pruneHeldTransactions(e.tx)
               ELSE IF r = "terQUEUED" \/ (r = "terPRE_SEQ" /\ e.tx \notin FailHard)
                 THEN held \cup {e.tx}
               ELSE held
    /\ submit_held' = submit_held \o
          IF r # "tesSUCCESS" THEN <<>>
          ELSE [i \in 1 .. Cardinality(pruneHeldTransactions(e.tx)) |-> Fresh(e.tx + 1)]
    /\ bad' = IF r = "temMALFORMED" THEN bad \cup {e.tx} ELSE bad
    /\ local' = IF e.local /\ ~(r = "terPRE_SEQ" /\ e.tx \in FailHard) THEN local \cup {e.tx} ELSE local

Post ==
    /\ owner # None /\ phase = "post"
    /\ PostHandled(batch[Len(batch) - Len(results) + 1], Head(results))
    /\ results' = Tail(results)
    /\ phase' = IF Len(results) = 1 THEN "finish" ELSE "post"
    /\ UNCHANGED <<mTransactions, mDispatchState, mApplying, callerAt, tx, jobs, owner, batch,
                   next, queued, stopping, bounds>>

\* The mutex again: the waiting callers wake up.
cleared == mApplying \ {batch[i].tx : i \in {j \in DOMAIN batch : batch[j].canonical}}

Woken(c) == [d \in Callers |-> IF callerAt[d] = "wait" THEN "woken"
                               ELSE IF d = c THEN (IF tx[c] \in cleared THEN "woken" ELSE "idle")
                               ELSE callerAt[d]]

\* The rest of doTransactionSync: more transactions are for another job.
FinishSync(c) ==
    /\ owner = c /\ phase = "finish"
    /\ mApplying' = cleared /\ mTransactions' = mTransactions \o submit_held
    /\ callerAt' = Woken(c) /\ owner' = None /\ batch' = <<>> /\ submit_held' = <<>>
    /\ IF mTransactions \o submit_held # <<>> /\ ~stopping
         THEN jobs' = jobs + 1 /\ mDispatchState' = "scheduled"
         ELSE UNCHANGED jobs /\ mDispatchState' = "none"
    /\ UNCHANGED <<tx, phase, results, ledgerVars, stopping, bounds>>

\* The job goes on with what came in meanwhile.
FinishJob ==
    /\ owner = Job /\ phase = "finish"
    /\ mApplying' = cleared /\ callerAt' = Woken(None)
    /\ IF mTransactions \o submit_held # <<>>
         THEN swap(Job, mTransactions \o submit_held)
         ELSE /\ mTransactions' = <<>> /\ owner' = None /\ batch' = <<>> /\ submit_held' = <<>>
              /\ mDispatchState' = "none" /\ UNCHANGED <<phase, results>>
    /\ UNCHANGED <<tx, jobs, ledgerVars, stopping, bounds>>

-----------------------------------------------------------------------------
(* The rest of the server.                                                 *)

\* The last of the transactions from n on that are held without a gap.
RunEnd(n, h) == Max({m \in n .. MaxSeq + 1 : \A t \in n .. m - 1 : t \in h \ Malformed})

\* LedgerMaster, when the ledger closes: the held transactions in their order,
\* then the set is reset whether they were applied or not.
applyHeldTransactions ==
    /\ closes < MaxCloses /\ closes' = closes + 1
    /\ ~(phase = "modify" /\ results # <<>>)
    /\ \E n \in {next, RunEnd(next, held)} : next' = n /\ queued' = queued \ (1 .. n - 1)
    /\ held # {} /\ held' = {}
    /\ UNCHANGED <<mTransactions, mDispatchState, mApplying, callerAt, tx, jobs, applyVars, bad, local,
                   stopping, submits, submitted>>

onStop ==
    /\ ~stopping /\ stopping' = TRUE
    /\ UNCHANGED <<mTransactions, mDispatchState, mApplying, callerAt, tx, jobs, applyVars, ledgerVars, bounds>>

BatchNext ==
    \/ \E t \in Txs : doTransactionAsync(t) \/ \E c \in Callers : doTransactionSync(c, t)
    \/ \E c \in Callers : Loop(c) \/ FinishSync(c)
    \/ transactionBatch
    \/ \E lowFee \in BOOLEAN : Modify(lowFee)
    \/ Post
    \/ FinishJob
    \/ applyHeldTransactions
    \/ onStop

Progress == \/ \E c \in Callers : FinishSync(c)
            \/ \E lowFee \in BOOLEAN : Modify(lowFee)
            \/ Post \/ FinishJob

\* The threads run, and the job queue gives every job a thread.
BatchSpec ==
    /\ BatchInit /\ [][BatchNext]_batchVars
    /\ WF_batchVars(Progress) /\ WF_batchVars(transactionBatch)
    /\ \A c \in Callers : WF_batchVars(Loop(c))

-----------------------------------------------------------------------------
(* Properties.                                                             *)

BatchTypeOK ==
    /\ mTransactions \in Seq(TransactionStatus) /\ batch \in Seq(TransactionStatus)
    /\ mDispatchState \in {"none", "scheduled", "running"}
    /\ mApplying \subseteq Txs /\ callerAt \in [Callers -> {"idle", "wait", "woken", "apply"}]
    /\ jobs \in Nat /\ owner \in Callers \cup {Job, None}
    /\ next \in 1 .. MaxSeq + 1 /\ held \subseteq Txs /\ local \subseteq Txs

\* One batch at a time is applied with the mutex released, and there is
\* something in it (the assertions of apply, 1026 and 1028).
OneBatch ==
    /\ mDispatchState = "running" <=> owner # None
    /\ \A c \in Callers : callerAt[c] = "apply" <=> owner = c
    /\ owner # None => batch # <<>>

\* As long as the job queue takes jobs, what is queued is somebody's: a batch
\* is running, which looks at the queue when it ends, or a job is on its way.
PendingHasTaker ==
    /\ mTransactions # <<>> /\ ~stopping => mDispatchState # "none"
    /\ mDispatchState = "scheduled" => jobs > 0

\* The flag of a transaction is set exactly while it is queued or in the
\* running batch, and it is there once however often it is submitted.
FlagIsExact ==
    \A t \in Txs :
       LET all == mTransactions \o batch
       IN  Cardinality({i \in DOMAIN all : all[i].canonical /\ all[i].tx = t})
             = IF t \in mApplying THEN 1 ELSE 0

\* A waiting caller has its transaction queued or in the running batch, and
\* somebody else is applying: it will be notified.
WaitersServed ==
    \A c \in Callers : callerAt[c] = "wait" => mDispatchState = "running" /\ owner # c

\* What is queued or applied is accounted for: the four above.
ApplyingAccounted == OneBatch /\ PendingHasTaker /\ FlagIsExact /\ WaitersServed

\* A caller of doTransactionSync gets its answer.
SyncReturns == \A c \in Callers : callerAt[c] # "idle" ~> callerAt[c] = "idle"

\* Transactions submitted in any order are all applied once the ones before
\* them are there, if no ledger closes and the fees suffice.
OutOfOrderApplied ==
    \A t \in Txs : (1 .. t \subseteq submitted) ~> (next > t \/ stopping)
=============================================================================
