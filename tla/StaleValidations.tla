-------------------------- MODULE StaleValidations --------------------------
(***************************************************************************)
(* The writer of stale validations (RCLValidations.cpp): a validation that *)
(* is superseded or too old leaves Validations::current_ through onStale,  *)
(* is kept in staleValidations_, and is written to the ledger database by  *)
(* a job, or by flush() when the application stops.                        *)
(*                                                                         *)
(* The actors are the jobs that receive and expire validations, the        *)
(* writing job, and the stopping thread.  A step is one critical section   *)
(* of staleLock_; the transaction of doStaleWrite is made without it.  The *)
(* jobs take the lock of Validations around onStale, so that receive and   *)
(* expire are one step each.                                               *)
(***************************************************************************)
EXTENDS Naturals, FiniteSets, SequencesExt

CONSTANTS
    Nodes,          \* the validators
    MaxSeq,         \* bound: validations of each of them
    Full,           \* the sequences whose validations are full
    MayExpire       \* whether validations may grow too old while jobs run

StaleAssumption ==
    /\ IsFiniteSet(Nodes) /\ MaxSeq \in Nat
    /\ Full \subseteq 1 .. MaxSeq /\ MayExpire \in BOOLEAN

VARIABLES
    current_,       \* Validations::current_, the sequence of each node, or 0
    received,       \* the last sequence received from each node
    stale,          \* staleValidations_
    staleWriting_,
    batch,          \* currentStale of each caller of doStaleWrite
    pc,             \* where the writing job and the stopping thread are
    table,          \* the rows of the table Validations, in order
    closed          \* the job queue refuses jobs

vars == <<current_, received, stale, staleWriting_, batch, pc, table, closed>>

Writers == {"job", "stop"}
Validation == Nodes \X (1 .. MaxSeq)

Init ==
    /\ current_ = [n \in Nodes |-> 0]
    /\ received = [n \in Nodes |-> 0]
    /\ stale = <<>> /\ staleWriting_ = FALSE
    /\ batch = [w \in Writers |-> <<>>]
    /\ pc = [job |-> "none", stop |-> "running"]
    /\ table = <<>> /\ closed = FALSE

\* The validations of current_, in the order of the map.
Current == SetToSeq({v \in Validation : current_[v[1]] = v[2]})

-----------------------------------------------------------------------------

\* addJob() may return false at shutdown.
onStale(v) ==
    /\ stale' = Append(stale, v)
    /\ IF staleWriting_
         THEN UNCHANGED <<staleWriting_, pc>>
         ELSE /\ staleWriting_' = ~closed
              /\ pc' = IF closed THEN pc ELSE [pc EXCEPT !.job = "queued"]

\* Jobs run until the stopping thread has seen the last of them end.
JobsRun == pc.stop \in {"running", "joining"}

\* Validations::add: a newer validation supersedes the current one.
receive(n) ==
    /\ JobsRun /\ received[n] < MaxSeq
    /\ received' = [received EXCEPT ![n] = @ + 1]
    /\ current_' = [current_ EXCEPT ![n] = received[n] + 1]
    /\ IF current_[n] = 0
         THEN UNCHANGED <<stale, staleWriting_, pc>>
         ELSE onStale(<<n, current_[n]>>)
    /\ UNCHANGED <<batch, table, closed>>

\* Validations::current drops a validation that is too old.
expire(n) ==
    /\ JobsRun /\ MayExpire /\ current_[n] # 0
    /\ current_' = [current_ EXCEPT ![n] = 0]
    /\ onStale(<<n, current_[n]>>)
    /\ UNCHANGED <<received, batch, table, closed>>

-----------------------------------------------------------------------------
(* doStaleWrite, by the writer w.                                          *)

\* With the lock: take everything, or be done.
takeBatch(w) ==
    /\ pc[w] = "writing" /\ batch[w] = <<>>
    /\ IF stale = <<>>
         THEN /\ staleWriting_' = FALSE
              /\ pc' = [pc EXCEPT ![w] = IF w = "job" THEN "none" ELSE "wait"]
              /\ UNCHANGED <<stale, batch>>
         ELSE /\ batch' = [batch EXCEPT ![w] = stale]
              /\ stale' = <<>>
              /\ UNCHANGED <<staleWriting_, pc>>
    /\ UNCHANGED <<current_, received, table, closed>>

\* The list is cleared when the transaction is over, without swapping it out.
writeBatchClears(w) ==
    /\ batch[w] # <<>>
    /\ table' = table \o SelectSeq(batch[w], LAMBDA v : v[2] \in Full)
    /\ batch' = [batch EXCEPT ![w] = <<>>]
    /\ stale' = <<>>
    /\ UNCHANGED <<current_, received, staleWriting_, pc, closed>>

\* Without the lock: one transaction for the full validations of the batch.
writeBatch(w) ==
    /\ batch[w] # <<>>
    /\ table' = table \o SelectSeq(batch[w], LAMBDA v : v[2] \in Full)
    /\ batch' = [batch EXCEPT ![w] = <<>>]
    /\ UNCHANGED <<current_, received, stale, staleWriting_, pc, closed>>

startJob ==
    /\ pc.job = "queued"
    /\ pc' = [pc EXCEPT !.job = "writing"]
    /\ UNCHANGED <<current_, received, stale, staleWriting_, batch, table, closed>>

doStaleWrite(w) == takeBatch(w) \/ writeBatch(w)

-----------------------------------------------------------------------------
(* The stop: the job counter is joined, then the application is told.      *)

closeJobs ==
    /\ pc.stop = "running"
    /\ closed' = TRUE
    /\ pc' = [pc EXCEPT !.stop = "joining"]
    /\ UNCHANGED <<current_, received, stale, staleWriting_, batch, table>>

joinJobs ==
    /\ pc.stop = "joining" /\ pc.job = "none"
    /\ pc' = [pc EXCEPT !.stop = "flush"]
    /\ UNCHANGED <<current_, received, stale, staleWriting_, batch, table, closed>>

\* Validations::flush, and the adaptor's: what is current becomes stale, and
\* is written on this thread when no writer is at work.
flush ==
    /\ pc.stop = "flush"
    /\ current_' = [n \in Nodes |-> 0]
    /\ stale' = stale \o Current
    /\ IF Current # <<>> /\ ~staleWriting_
         THEN staleWriting_' = TRUE /\ pc' = [pc EXCEPT !.stop = "writing"]
         ELSE pc' = [pc EXCEPT !.stop = "wait"] /\ UNCHANGED staleWriting_
    /\ UNCHANGED <<received, batch, table, closed>>

\* flush() sleeps while there is a writer.
flushed ==
    /\ pc.stop = "wait" /\ ~staleWriting_
    /\ pc' = [pc EXCEPT !.stop = "done"]
    /\ UNCHANGED <<current_, received, stale, staleWriting_, batch, table, closed>>

Stopped == pc.stop = "done" /\ UNCHANGED vars

Next ==
    \/ \E n \in Nodes : receive(n) \/ expire(n)
    \/ startJob
    \/ \E w \in Writers : doStaleWrite(w)
    \/ closeJobs \/ joinJobs \/ flush \/ flushed \/ Stopped

\* The job queue runs its jobs, and the stop goes on once it has begun.
Fairness ==
    /\ WF_vars(startJob)
    /\ \A w \in Writers : WF_vars(doStaleWrite(w))
    /\ WF_vars(joinJobs) /\ WF_vars(flush) /\ WF_vars(flushed)

Spec == Init /\ [][Next]_vars /\ Fairness

-----------------------------------------------------------------------------
(* Properties.                                                             *)

TypeOK ==
    /\ current_ \in [Nodes -> 0 .. MaxSeq] /\ received \in [Nodes -> 0 .. MaxSeq]
    /\ stale \in Seq(Validation) /\ table \in Seq(Validation)
    /\ \A w \in Writers : batch[w] \in Seq(Validation)
    /\ staleWriting_ \in BOOLEAN /\ closed \in BOOLEAN
    /\ pc.job \in {"none", "queued", "writing"}
    /\ pc.stop \in {"running", "joining", "flush", "writing", "wait", "done"}

\* doStaleWrite asserts staleWriting_: the flag stands for exactly one writer,
\* queued or at work, so that two threads never write at a time.
OneWriter ==
    /\ staleWriting_ = (pc.job # "none" \/ pc.stop = "writing")
    /\ ~(pc.job # "none" /\ pc.stop = "writing")

\* A full validation that was received is current, waiting, in a transaction
\* or in the table, and in one of these places only, whatever lock is free
\* while it moves: none is lost and none is written twice.
HeldOnce ==
    LET held == Current \o stale \o batch["job"] \o batch["stop"] \o table
    IN  \A n \in Nodes : \A s \in 1 .. received[n] :
            s \in Full => Cardinality({i \in DOMAIN held : held[i] = <<n, s>>}) = 1

\* The comment in flush(): "all validations are written upon return from this
\* function".
FlushWritesAll ==
    pc.stop = "done" =>
        \A n \in Nodes : \A s \in Full : s <= received[n] => Contains(table, <<n, s>>)

\* A validation that has become stale is written, by the job or, when the job
\* was refused, by flush.
StaleIsWritten ==
    \A v \in Validation : v[2] \in Full =>
        ((closed /\ Contains(stale, v)) ~> Contains(table, v))

\* flush() does not wait for a writer that does not exist.
FlushReturns == closed ~> pc.stop = "done"
=============================================================================
