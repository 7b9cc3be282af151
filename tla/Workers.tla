------------------------------ MODULE Workers -------------------------------
(***************************************************************************)
(* The threads that serve the job queue (Workers.cpp).  A task is a unit   *)
(* of a semaphore; a request to pause one thread is a unit of the same     *)
(* semaphore and one more in m_pauseCount, and a worker that obtained a    *)
(* unit finds out which of the two it got by trying to take a pause        *)
(* request.  The counters are atomic, so that a step reads or writes one   *)
(* of them.                                                                *)
(*                                                                         *)
(* One thread controls the pool: it makes the calls of setNumberOfThreads  *)
(* in Script and then destroys the pool.  Others add tasks.  The job queue *)
(* sets the number of threads once and is destroyed after it has stopped,  *)
(* when no task is left (QuietDestroy).                                    *)
(***************************************************************************)
EXTENDS Integers, Sequences, FiniteSets

CONSTANTS
    Pool,           \* worker objects that may be created
    Script,         \* the arguments of the calls of setNumberOfThreads
    MaxTasks,       \* bound: calls of addTask
    QuietDestroy,   \* the destructor is called when every task was processed
    NoWorker

WorkersAssumption ==
    /\ IsFiniteSet(Pool) /\ NoWorker \notin Pool
    /\ Script \in Seq(Nat) /\ MaxTasks \in Nat
    /\ QuietDestroy \in BOOLEAN

VARIABLES
    semaphore,      \* m_semaphore
    allPaused,      \* m_allPaused
    activeCount,    \* m_activeCount
    pauseCount,     \* m_pauseCount
    everyone,       \* m_everyone
    paused,         \* m_paused
    pc,             \* where each worker is
    wakeCount,      \* Worker::wakeCount_
    shouldExit,     \* Worker::shouldExit_
    ctl,            \* where the controlling thread is
    call,           \* how many calls of Script it has begun
    left,           \* iterations left of the loop in setNumberOfThreads
    popped,         \* the worker it popped
    added, processed  \* calls of addTask, finished calls of processTask

counts == <<semaphore, allPaused, activeCount, pauseCount>>
stacks == <<everyone, paused>>
wake == <<wakeCount, shouldExit>>
control == <<ctl, call, left, popped>>
tasks == <<added, processed>>
vars == <<counts, stacks, pc, wake, control, tasks>>

\* The target of the call in progress; the destructor's is zero.
target(n) == IF n = 0 \/ n > Len(Script) THEN 0 ELSE Script[n]

Init ==
    /\ semaphore = 0 /\ allPaused = TRUE /\ activeCount = 0 /\ pauseCount = 0
    /\ everyone = <<>> /\ paused = <<>>
    /\ pc = [w \in Pool |-> "none"]
    /\ wakeCount = [w \in Pool |-> 0]
    /\ shouldExit = [w \in Pool |-> FALSE]
    /\ ctl = "idle" /\ call = 0 /\ left = 0 /\ popped = NoWorker
    /\ added = 0 /\ processed = 0

Goto(w, label) == pc' = [pc EXCEPT ![w] = label]

-----------------------------------------------------------------------------
(* The controlling thread.                                                 *)

\* No unit of the semaphore is left and no worker holds one.
Quiet == /\ semaphore = 0 /\ pauseCount = 0
         /\ \A w \in Pool : pc[w] \in {"none", "wait", "blocked"}

setNumberOfThreads ==
    /\ ctl = "idle" /\ call <= Len(Script)
    /\ (call = Len(Script) /\ QuietDestroy) => Quiet /\ added = processed
    /\ call' = call + 1
    /\ LET amount == target(call + 1) - target(call)
       IN /\ ctl' = IF amount > 0 THEN "grow" ELSE "shrink"
          /\ left' = IF amount > 0 THEN amount ELSE -amount
    /\ UNCHANGED <<counts, stacks, pc, wake, popped, tasks>>

EndLoop(label) ==
    /\ ctl = label /\ left = 0
    /\ ctl' = IF call > Len(Script) THEN "waitPaused" ELSE "idle"
    /\ UNCHANGED <<counts, stacks, pc, wake, call, left, popped, tasks>>

\* Reuse a paused worker ...
popPaused ==
    /\ ctl = "grow" /\ left > 0 /\ paused # <<>>
    /\ popped' = Head(paused)
    /\ paused' = Tail(paused)
    /\ ctl' = "notify"
    /\ UNCHANGED <<counts, everyone, pc, wake, call, left, tasks>>

notify ==
    /\ ctl = "notify"
    /\ wakeCount' = [wakeCount EXCEPT ![popped] = @ + 1]
    /\ popped' = NoWorker
    /\ left' = left - 1
    /\ ctl' = "grow"
    /\ UNCHANGED <<counts, stacks, pc, shouldExit, call, tasks>>

\* ... or create one.
newWorker(w) ==
    /\ ctl = "grow" /\ left > 0 /\ paused = <<>>
    /\ pc[w] = "none"
    /\ Goto(w, "start")
    /\ everyone' = <<w>> \o everyone
    /\ left' = left - 1
    /\ UNCHANGED <<counts, paused, wake, ctl, call, popped, tasks>>

requestPause ==
    /\ ctl = "shrink" /\ left > 0
    /\ pauseCount' = pauseCount + 1
    /\ ctl' = "signal"
    /\ UNCHANGED <<semaphore, allPaused, activeCount, stacks, pc, wake, call, left,
                   popped, tasks>>

signalPause ==
    /\ ctl = "signal"
    /\ semaphore' = semaphore + 1
    /\ left' = left - 1
    /\ ctl' = "shrink"
    /\ UNCHANGED <<allPaused, activeCount, pauseCount, stacks, pc, wake, call,
                   popped, tasks>>

waitPaused ==
    /\ ctl = "waitPaused" /\ allPaused
    /\ ctl' = "delete"
    /\ UNCHANGED <<counts, stacks, pc, wake, call, left, popped, tasks>>

deleteWorker ==
    /\ ctl = "delete" /\ everyone # <<>>
    /\ popped' = Head(everyone)
    /\ everyone' = Tail(everyone)
    /\ wakeCount' = [wakeCount EXCEPT ![Head(everyone)] = @ + 1]
    /\ shouldExit' = [shouldExit EXCEPT ![Head(everyone)] = TRUE]
    /\ ctl' = "join"
    /\ UNCHANGED <<counts, paused, pc, call, left, tasks>>

joinWorker ==
    /\ ctl = "join" /\ pc[popped] = "exited"
    /\ popped' = NoWorker
    /\ ctl' = "delete"
    /\ UNCHANGED <<counts, stacks, pc, wake, call, left, tasks>>

deleted ==
    /\ ctl = "delete" /\ everyone = <<>>
    /\ ctl' = "deleted"
    /\ UNCHANGED <<counts, stacks, pc, wake, call, left, popped, tasks>>

addTask ==
    /\ added < MaxTasks /\ call \in 1 .. Len(Script)
    /\ added' = added + 1
    /\ semaphore' = semaphore + 1
    /\ UNCHANGED <<allPaused, activeCount, pauseCount, stacks, pc, wake, control, processed>>

-----------------------------------------------------------------------------
(* Worker::run.                                                            *)

activate(w) ==
    /\ pc[w] = "start"
    /\ activeCount' = activeCount + 1
    /\ Goto(w, IF activeCount = 0 THEN "clear" ELSE "wait")
    /\ UNCHANGED <<semaphore, allPaused, pauseCount, stacks, wake, control, tasks>>

clearAllPaused(w) ==
    /\ pc[w] = "clear"
    /\ allPaused' = FALSE
    /\ Goto(w, "wait")
    /\ UNCHANGED <<semaphore, activeCount, pauseCount, stacks, wake, control, tasks>>

waitSemaphore(w) ==
    /\ pc[w] = "wait" /\ semaphore > 0
    /\ semaphore' = semaphore - 1
    /\ Goto(w, "load")
    /\ UNCHANGED <<allPaused, activeCount, pauseCount, stacks, wake, control, tasks>>

\* Every unit is taken for a task.
loadNothing(w) ==
    /\ pc[w] = "load"
    /\ Goto(w, "task")
    /\ UNCHANGED <<counts, stacks, wake, control, tasks>>

loadPauseCount(w) ==
    /\ pc[w] = "load"
    /\ Goto(w, IF pauseCount > 0 THEN "decrement" ELSE "task")
    /\ UNCHANGED <<counts, stacks, wake, control, tasks>>

decrement(w) ==
    /\ pc[w] = "decrement"
    /\ pauseCount' = pauseCount - 1
    /\ Goto(w, IF pauseCount > 0 THEN "push" ELSE "undo")
    /\ UNCHANGED <<semaphore, allPaused, activeCount, stacks, wake, control, tasks>>

undo(w) ==
    /\ pc[w] = "undo"
    /\ pauseCount' = pauseCount + 1
    /\ Goto(w, "task")
    /\ UNCHANGED <<semaphore, allPaused, activeCount, stacks, wake, control, tasks>>

\* m_runningTaskCount is the number of workers in "processTask".
beginTask(w) ==
    /\ pc[w] = "task"
    /\ Goto(w, "processTask")
    /\ UNCHANGED <<counts, stacks, wake, control, tasks>>

endTask(w) ==
    /\ pc[w] = "processTask"
    /\ processed' = processed + 1
    /\ Goto(w, "wait")
    /\ UNCHANGED <<counts, stacks, wake, control, added>>

pushPaused(w) ==
    /\ pc[w] = "push"
    /\ paused' = <<w>> \o paused
    /\ Goto(w, "deactivate")
    /\ UNCHANGED <<counts, everyone, wake, control, tasks>>

deactivate(w) ==
    /\ pc[w] = "deactivate"
    /\ activeCount' = activeCount - 1
    /\ Goto(w, IF activeCount = 1 THEN "setPaused" ELSE "blocked")
    /\ UNCHANGED <<semaphore, allPaused, pauseCount, stacks, wake, control, tasks>>

setAllPaused(w) ==
    /\ pc[w] = "setPaused"
    /\ allPaused' = TRUE
    /\ Goto(w, "blocked")
    /\ UNCHANGED <<semaphore, activeCount, pauseCount, stacks, wake, control, tasks>>

wakeup(w) ==
    /\ pc[w] = "blocked" /\ wakeCount[w] > 0
    /\ wakeCount' = [wakeCount EXCEPT ![w] = @ - 1]
    /\ Goto(w, IF shouldExit[w] THEN "exited" ELSE "start")
    /\ UNCHANGED <<counts, stacks, shouldExit, control, tasks>>

Run(w) ==
    \/ activate(w) \/ clearAllPaused(w) \/ waitSemaphore(w) \/ loadPauseCount(w)
    \/ decrement(w) \/ undo(w) \/ beginTask(w) \/ endTask(w)
    \/ pushPaused(w) \/ deactivate(w) \/ setAllPaused(w) \/ wakeup(w)

Control ==
    \/ setNumberOfThreads \/ EndLoop("grow") \/ EndLoop("shrink")
    \/ popPaused \/ notify \/ \E w \in Pool : newWorker(w)
    \/ requestPause \/ signalPause
    \/ waitPaused \/ deleteWorker \/ joinWorker \/ deleted

Next == \/ Control
        \/ addTask
        \/ \E w \in Pool : Run(w)
        \/ ctl = "deleted" /\ UNCHANGED vars

\* Threads that can run do; nothing makes anybody add a task.
Fairness == WF_vars(Control) /\ \A w \in Pool : WF_vars(Run(w))

Spec == Init /\ [][Next]_vars /\ Fairness

-----------------------------------------------------------------------------
(* Properties.                                                             *)

At(labels) == {w \in Pool : pc[w] \in labels}

\* The variables have their types, and m_activeCount counts the workers
\* between the top of the loop and the bottom of it.
TypeOK ==
    /\ semaphore \in Nat /\ allPaused \in BOOLEAN /\ pauseCount \in Int
    /\ activeCount = Cardinality(At({"clear", "wait", "load", "decrement", "undo", "task",
                                     "processTask", "push", "deactivate"}))
    /\ wakeCount \in [Pool -> 0 .. 2]
    /\ processed \in Nat /\ added \in 0 .. MaxTasks

\* Workers.h: each call of addTask results in exactly one call of
\* processTask.  Here: in no more than one.
OneCallPerTask == processed + Cardinality(At({"processTask"})) <= added

\* The assertion of pauseAllThreadsAndWait, and what makes the destructor
\* safe: once it has waited, no worker calls back any more.
PausedIsQuiet ==
    ctl \in {"delete", "join", "deleted"} => At({"task", "processTask"}) = {}

\* A worker is at most once in the paused stack, and one that is not in it is
\* running, is being woken, or will push itself: none is lost to the pool.
PausedOnce ==
    /\ \A i, k \in DOMAIN paused : paused[i] = paused[k] => i = k
    /\ \A w \in Pool : pc[w] = "blocked" =>
           \/ \E i \in DOMAIN paused : paused[i] = w
           \/ wakeCount[w] > 0
           \/ popped = w

\* Every task is processed and the destructor returns.
TasksAreProcessed == (added > processed) ~> (added = processed)
DestructorReturns == <>(ctl = "deleted")
=============================================================================
