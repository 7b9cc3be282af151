------------------------------ MODULE JobQueue ------------------------------
(***************************************************************************)
(* The job queue (JobQueue.cpp), the counter of jobs in flight             *)
(* (ClosureCounter.h) and the part of the stop protocol that concerns them *)
(* (Stoppable.cpp).                                                        *)
(*                                                                         *)
(* A job is wrapped by the counter, put in the job set under the queue's   *)
(* mutex, and a task is signaled to the workers for it unless the limit of *)
(* its type is reached: then it is deferred, and the task is signaled when *)
(* a job of that type finishes.  A worker that takes a task does not know  *)
(* which job it is for: it runs the first job in priority order whose type *)
(* is below its limit.  The code asserts that there is one.                *)
(*                                                                         *)
(* A step is one critical section.  The semaphore `tasks' stands for       *)
(* Workers, which has a module of its own; the number of threads is fixed, *)
(* as it is from Application::setup on.  Every job may be offered by any   *)
(* thread, a running job included.                                         *)
(***************************************************************************)
EXTENDS Integers, FiniteSets, Sequences

CONSTANTS
    Jobs, Types, TypeOf, Limit,     \* as in JobPool
    Priority,                       \* the order of the enumeration JobType
    Threads,                        \* worker threads
    NoJob

JobQueueAssumption ==
    /\ IsFiniteSet(Jobs) /\ IsFiniteSet(Threads) /\ Threads # {}
    /\ TypeOf \in [Jobs -> Types]
    /\ Limit \in [Types -> Nat \ {0}]
    /\ Priority \in [Types -> Nat]
    /\ NoJob \notin Jobs

VARIABLES
    offer,          \* each job as its caller sees it
    jobSet,         \* m_jobSet, in the order of mJobIndex
    waiting,        \* JobTypeData, for each type
    running,
    deferred,
    tasks,          \* the count of the workers' semaphore
    workerAt,             \* where each worker is
    cur,            \* the job it runs
    processCount,   \* m_processCount
    closureCount,   \* ClosureCounter::closureCount_
    waitForClosures,
    stopper,        \* where RootStoppable::stop is
    is_stopping     \* m_is_stopping of the job queue: it called stopped()

countVars == <<waiting, running, deferred, tasks>>
workerVars == <<workerAt, cur>>
stopVars == <<stopper, is_stopping>>
queueVars == <<offer, jobSet, countVars, workerVars, processCount, closureCount,
          waitForClosures, stopVars>>

isStopping == stopper # "running"
areChildrenStopped == stopper \in {"children", "waiting", "stopped"}

QueueInit ==
    /\ offer = [j \in Jobs |-> "new"]
    /\ jobSet = <<>>
    /\ waiting = [t \in Types |-> 0]
    /\ running = [t \in Types |-> 0]
    /\ deferred = [t \in Types |-> 0]
    /\ tasks = 0
    /\ workerAt = [w \in Threads |-> "wait"]
    /\ cur = [w \in Threads |-> NoJob]
    /\ processCount = 0
    /\ closureCount = 0
    /\ waitForClosures = FALSE
    /\ stopper = "running"
    /\ is_stopping = FALSE

-----------------------------------------------------------------------------
(* Adding a job.                                                           *)

\* addJob: refused once join() has been called.
wrap(j) ==
    /\ offer[j] = "new"
    /\ offer' = [offer EXCEPT ![j] = IF waitForClosures THEN "refused" ELSE "wrapped"]
    /\ closureCount' = IF waitForClosures THEN closureCount ELSE closureCount + 1
    /\ UNCHANGED <<jobSet, countVars, workerVars, processCount, waitForClosures, stopVars>>

\* A limit compared with the running jobs only.
queueJobRunning(t) ==
    /\ IF running[t] < Limit[t]
         THEN tasks' = tasks + 1 /\ UNCHANGED deferred
         ELSE deferred' = [deferred EXCEPT ![t] = @ + 1] /\ UNCHANGED tasks
    /\ waiting' = [waiting EXCEPT ![t] = @ + 1]

queueJob(t) ==
    /\ IF waiting[t] + running[t] < Limit[t]
         THEN tasks' = tasks + 1 /\ UNCHANGED deferred
         ELSE deferred' = [deferred EXCEPT ![t] = @ + 1] /\ UNCHANGED tasks
    /\ waiting' = [waiting EXCEPT ![t] = @ + 1]

addRefCountedJob(j) ==
    /\ offer[j] = "wrapped"
    /\ offer' = [offer EXCEPT ![j] = "queued"]
    /\ jobSet' = Append(jobSet, j)
    /\ queueJob(TypeOf[j])
    /\ UNCHANGED <<running, workerVars, processCount, closureCount, waitForClosures, stopVars>>

-----------------------------------------------------------------------------
(* A worker.                                                               *)

\* Worker::run takes a task from the semaphore.
takeTask(w) ==
    /\ workerAt[w] = "wait" /\ tasks > 0
    /\ tasks' = tasks - 1
    /\ workerAt' = [workerAt EXCEPT ![w] = "processTask"]
    /\ UNCHANGED <<offer, jobSet, waiting, running, deferred, cur, processCount,
                   closureCount, waitForClosures, stopVars>>

\* Positions of m_jobSet whose job may run, and the order of Job::operator<.
runnable == {i \in DOMAIN jobSet : running[TypeOf[jobSet[i]]] < Limit[TypeOf[jobSet[i]]]}
before(i, k) ==
    \/ Priority[TypeOf[jobSet[i]]] > Priority[TypeOf[jobSet[k]]]
    \/ Priority[TypeOf[jobSet[i]]] = Priority[TypeOf[jobSet[k]]] /\ i <= k

\* m_jobSet.erase
erase(s, i) == SubSeq(s, 1, i - 1) \o SubSeq(s, i + 1, Len(s))

\* A choice that does not look at the limit.
getNextJobAny(w) ==
    /\ workerAt[w] = "processTask"
    /\ \E i \in DOMAIN jobSet :
         /\ \A k \in DOMAIN jobSet : before(i, k)
         /\ cur' = [cur EXCEPT ![w] = jobSet[i]]
         /\ jobSet' = erase(jobSet, i)
         /\ waiting' = [waiting EXCEPT ![TypeOf[jobSet[i]]] = @ - 1]
         /\ running' = [running EXCEPT ![TypeOf[jobSet[i]]] = @ + 1]
    /\ processCount' = processCount + 1
    /\ workerAt' = [workerAt EXCEPT ![w] = "doJob"]
    /\ UNCHANGED <<offer, deferred, tasks, closureCount, waitForClosures, stopVars>>

getNextJob(w) ==
    /\ workerAt[w] = "processTask"
    /\ \E i \in runnable :
         /\ \A k \in runnable : before(i, k)
         /\ cur' = [cur EXCEPT ![w] = jobSet[i]]
         /\ jobSet' = erase(jobSet, i)
         /\ waiting' = [waiting EXCEPT ![TypeOf[jobSet[i]]] = @ - 1]
         /\ running' = [running EXCEPT ![TypeOf[jobSet[i]]] = @ + 1]
    /\ processCount' = processCount + 1
    /\ workerAt' = [workerAt EXCEPT ![w] = "doJob"]
    /\ UNCHANGED <<offer, deferred, tasks, closureCount, waitForClosures, stopVars>>

\* The job runs and is destroyed, and the wrapper around it with it.
doJob(w) ==
    /\ workerAt[w] = "doJob"
    /\ offer' = [offer EXCEPT ![cur[w]] = "done"]
    /\ closureCount' = closureCount - 1
    /\ workerAt' = [workerAt EXCEPT ![w] = "finishJob"]
    /\ UNCHANGED <<jobSet, countVars, cur, processCount, waitForClosures, stopVars>>

finishJob(t) ==
    /\ IF deferred[t] > 0
         THEN /\ deferred' = [deferred EXCEPT ![t] = @ - 1]
              /\ tasks' = tasks + 1
         ELSE UNCHANGED <<deferred, tasks>>
    /\ running' = [running EXCEPT ![t] = @ - 1]
    /\ UNCHANGED waiting

\* checkStopped without its conditions on the jobs.
checkStoppedEarly ==
    is_stopping' = (is_stopping \/ (isStopping /\ areChildrenStopped))

\* There are no suspended coroutines here; see Coroutines.
checkStopped ==
    is_stopping' = (is_stopping \/ (/\ isStopping /\ areChildrenStopped
                                    /\ processCount' = 0 /\ jobSet' = <<>>))

endTask(w) ==
    /\ workerAt[w] = "finishJob"
    /\ finishJob(TypeOf[cur[w]])
    /\ processCount' = processCount - 1
    /\ workerAt' = [workerAt EXCEPT ![w] = "wait"]
    /\ cur' = [cur EXCEPT ![w] = NoJob]
    /\ UNCHANGED <<offer, jobSet, closureCount, waitForClosures, stopper>>
    /\ checkStopped

-----------------------------------------------------------------------------
(* RootStoppable::stop.                                                    *)

stopAsync ==
    /\ stopper = "running"
    /\ stopper' = "called"
    /\ UNCHANGED <<offer, jobSet, countVars, workerVars, processCount, closureCount,
                   waitForClosures, is_stopping>>

\* jobCounter_.join: the flag first, then a wait until no job is in flight.
join ==
    /\ stopper = "called"
    /\ waitForClosures' = TRUE
    /\ stopper' = "joining"
    /\ UNCHANGED <<offer, jobSet, countVars, workerVars, processCount, closureCount,
                   is_stopping>>

joined ==
    /\ stopper = "joining" /\ closureCount = 0
    /\ stopper' = "onStop"
    /\ UNCHANGED <<offer, jobSet, countVars, workerVars, processCount, closureCount,
                   waitForClosures, is_stopping>>

\* stopRecursive: the children have stopped.
childrenStopped ==
    /\ stopper = "onStop"
    /\ stopper' = "children"
    /\ UNCHANGED <<offer, jobSet, countVars, workerVars, processCount, closureCount,
                   waitForClosures, is_stopping>>

onChildrenStopped ==
    /\ stopper = "children"
    /\ stopper' = "waiting"
    /\ UNCHANGED <<offer, jobSet, countVars, workerVars, processCount, closureCount,
                   waitForClosures>>
    /\ checkStopped

stopRecursive ==
    /\ stopper = "waiting" /\ is_stopping
    /\ stopper' = "stopped"
    /\ UNCHANGED <<offer, jobSet, countVars, workerVars, processCount, closureCount,
                   waitForClosures, is_stopping>>

Work(w) == takeTask(w) \/ getNextJob(w) \/ doJob(w) \/ endTask(w)
Stopping == join \/ joined \/ childrenStopped \/ onChildrenStopped \/ stopRecursive

\* The program is over when stop has returned and the workers wait.
QueueOver ==
    /\ stopper = "stopped"
    /\ \A j \in Jobs : offer[j] # "new"
    /\ UNCHANGED queueVars

QueueNext ==
    \/ \E j \in Jobs : wrap(j) \/ addRefCountedJob(j)
    \/ \E w \in Threads : Work(w)
    \/ stopAsync
    \/ Stopping
    \/ QueueOver

\* The scheduler runs every thread that can run: the workers, a thread in
\* the middle of addJob, and the thread that stops the program.  Nothing
\* makes a caller offer a job or the program stop.
QueueFairness ==
    /\ \A w \in Threads : WF_queueVars(Work(w))
    /\ \A j \in Jobs : WF_queueVars(addRefCountedJob(j))
    /\ WF_queueVars(Stopping)

QueueSpec == QueueInit /\ [][QueueNext]_queueVars /\ QueueFairness

-----------------------------------------------------------------------------
(* Properties.                                                             *)

OfType(S, t) == {j \in S : TypeOf[j] = t}
At(label) == {w \in Threads : workerAt[w] = label}

\* The variables have their types and the counters count what they name: the
\* jobs of a type in m_jobSet, the jobs of it that run, the calls of
\* processTask, the wrapped jobs not destroyed yet.
QueueTypeOK ==
    /\ offer \in [Jobs -> {"new", "wrapped", "refused", "queued", "done"}]
    /\ \A t \in Types :
         /\ waiting[t] = Cardinality({i \in DOMAIN jobSet : TypeOf[jobSet[i]] = t})
         /\ running[t] = Cardinality({w \in Threads : cur[w] \in OfType(Jobs, t)})
         /\ deferred[t] \in 0 .. waiting[t]
    /\ tasks \in Nat
    /\ processCount = Cardinality(At("doJob") \union At("finishJob"))
    /\ closureCount = Cardinality({j \in Jobs : offer[j] \in {"wrapped", "queued"}})

\* The assertion of getNextJob: whenever a worker has taken a task there is a
\* job it may run, whatever the others added, took and finished meanwhile.
RunnableJob ==
    Cardinality(At("processTask")) > 0 => runnable # {}

\* Some waiting jobs are deferred, as many of each type as its counter says; for each of
\* the others there is a task signaled, or taken and not turned into a running job yet;
\* and a type's jobs that hold a task or run are never above its limit.
TasksMatchJobs ==
    /\ \E D \in SUBSET {jobSet[i] : i \in DOMAIN jobSet} :
          /\ \A t \in Types : deferred[t] = Cardinality(OfType(D, t))
          /\ tasks + Cardinality(At("processTask"))
               = Cardinality({jobSet[i] : i \in DOMAIN jobSet} \ D)
    /\ \A t \in Types : waiting[t] - deferred[t] + running[t] <= Limit[t]

\* The assertion of finishJob: a type has deferred jobs only while it is at
\* its limit.
DeferredAtLimit ==
    \A t \in Types : deferred[t] > 0 => running[t] + waiting[t] >= Limit[t]

\* A worker that took a task finds a job it may run, because tasks, deferred jobs and
\* limits match: the three above.
TaskHasJob == RunnableJob /\ TasksMatchJobs /\ DeferredAtLimit

\* The assertion of addRefCountedJob: nobody puts a job in the queue once it
\* has stopped, or when its children have stopped and it has no job left.
AddBeforeStopped ==
    \A j \in Jobs : offer[j] = "wrapped" =>
        /\ stopper # "stopped"
        /\ processCount > 0 \/ jobSet # <<>> \/ ~areChildrenStopped

\* The queue says that it stopped only when nothing is left to run, and no
\* job comes after that: stop() may destroy what the jobs use.
NothingLeft ==
    is_stopping => /\ jobSet = <<>> /\ processCount = 0 /\ tasks = 0
                   /\ \A j \in Jobs : offer[j] \in {"new", "refused", "done"}
                   /\ waitForClosures

\* The queue says that it stopped when nothing is left to run, and no job is put in
\* it afterwards: the two above.
StoppedIsIdle == NothingLeft /\ AddBeforeStopped

\* A stop that was asked for comes to its end, whatever jobs were in flight.
StopReturns == (stopper = "called") ~> (stopper = "stopped")

\* The job queue does what JobPool promises: a job that was accepted runs
\* once, within the limit of its type, and to completion; none is accepted
\* after join; the queue stops after the last of them.
poolJob == [j \in Jobs |->
    IF offer[j] \notin {"wrapped", "queued"} THEN offer[j]
    ELSE IF \E w \in Threads : cur[w] = j THEN "running" ELSE "accepted"]
AsPool == INSTANCE JobPool WITH job <- poolJob, closed <- waitForClosures,
                                stopped <- is_stopping
ImplementsPool == AsPool!Spec

\* Every accepted job runs and ends.
AcceptedRun == AsPool!AcceptedRun
=============================================================================
