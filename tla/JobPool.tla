------------------------------ MODULE JobPool -------------------------------
(***************************************************************************)
(* What the job queue promises its callers (JobQueue.h): a job that was    *)
(* accepted runs once, to completion; no more jobs of a type run at a time *)
(* than its limit; after the counter of jobs was joined no job is          *)
(* accepted; the queue reports that it has stopped only when every job it  *)
(* accepted is over.  JobQueue implements this specification.              *)
(***************************************************************************)
EXTENDS Integers, FiniteSets

CONSTANTS
    Jobs,       \* jobs somebody may offer, each of them once
    Types,      \* job types
    TypeOf,     \* the type of each job
    Limit       \* JobTypeInfo::limit of each type

VARIABLES
    job,        \* what became of each job
    closed,     \* no job is accepted any more
    stopped     \* the queue has reported that it stopped

vars == <<job, closed, stopped>>

JobStates == {"new", "refused", "accepted", "running", "done"}

TypeOK == /\ job \in [Jobs -> JobStates]
          /\ closed \in BOOLEAN
          /\ stopped \in BOOLEAN

Init == /\ job = [j \in Jobs |-> "new"]
        /\ closed = FALSE
        /\ stopped = FALSE

Running(t) == {j \in Jobs : job[j] = "running" /\ TypeOf[j] = t}

Accept(j) == /\ job[j] = "new" /\ ~closed
             /\ job' = [job EXCEPT ![j] = "accepted"]
             /\ UNCHANGED <<closed, stopped>>

Refuse(j) == /\ job[j] = "new" /\ closed
             /\ job' = [job EXCEPT ![j] = "refused"]
             /\ UNCHANGED <<closed, stopped>>

Start(j) == /\ job[j] = "accepted"
            /\ Cardinality(Running(TypeOf[j])) < Limit[TypeOf[j]]
            /\ job' = [job EXCEPT ![j] = "running"]
            /\ UNCHANGED <<closed, stopped>>

Finish(j) == /\ job[j] = "running"
             /\ job' = [job EXCEPT ![j] = "done"]
             /\ UNCHANGED <<closed, stopped>>

Close == /\ ~closed
         /\ closed' = TRUE
         /\ UNCHANGED <<job, stopped>>

Stop == /\ closed /\ ~stopped
        /\ \A j \in Jobs : job[j] \notin {"accepted", "running"}
        /\ stopped' = TRUE
        /\ UNCHANGED <<job, closed>>

Next == \/ \E j \in Jobs : Accept(j) \/ Refuse(j) \/ Start(j) \/ Finish(j)
        \/ Close
        \/ Stop

Spec == Init /\ [][Next]_vars

\* Every accepted job runs and ends.
AcceptedRun == \A j \in Jobs : job[j] = "accepted" ~> job[j] = "done"
=============================================================================
