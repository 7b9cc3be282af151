--------------------------- MODULE JobQueueProofs ----------------------------
(***************************************************************************)
(* The job queue does what JobPool promises, finds a job for every task it *)
(* signaled and stops only when it is idle, for any number of jobs, types, *)
(* limits and threads.                                                     *)
(*                                                                         *)
(* The code relies on counters that several critical sections keep apart.  *)
(* The invariant says what each of them counts: as a set of jobs or of     *)
(* threads, so that a step adds one element to it or removes one.          *)
(***************************************************************************)
EXTENDS JobQueue, TLAPS, FiniteSetTheorems, SequenceTheorems

\* The jobs in m_jobSet, the jobs of a type that a worker has, the wrapped jobs not
\* destroyed yet, and the workers inside processTask that have a job.
Queue == {j \in Jobs : offer[j] = "queued" /\ \A w \in Threads : cur[w] # j}
InHand(t) == {j \in Jobs : TypeOf[j] = t /\ \E w \in Threads : cur[w] = j}
InFlight == {j \in Jobs : offer[j] \in {"wrapped", "queued"}}
Busy == {w \in Threads : workerAt[w] \in {"doJob", "finishJob"}}

Stoppers == {"running", "called", "joining", "onStop", "children", "waiting", "stopped"}

Typed ==
    /\ offer \in [Jobs -> {"new", "wrapped", "refused", "queued", "done"}]
    /\ jobSet \in Seq(Jobs)
    /\ waiting \in [Types -> Nat] /\ running \in [Types -> Nat] /\ deferred \in [Types -> Nat]
    /\ tasks \in Nat /\ processCount \in Nat /\ closureCount \in Nat
    /\ workerAt \in [Threads -> {"wait", "processTask", "doJob", "finishJob"}]
    /\ cur \in [Threads -> Jobs \cup {NoJob}]
    /\ waitForClosures \in BOOLEAN /\ stopper \in Stoppers /\ is_stopping \in BOOLEAN

\* A worker has the job it runs, or ran, and nobody else has it.
Hands ==
    /\ \A w \in Threads : /\ cur[w] \in Jobs <=> workerAt[w] \in {"doJob", "finishJob"}
                          /\ workerAt[w] = "doJob" => offer[cur[w]] = "queued"
                          /\ workerAt[w] = "finishJob" => offer[cur[w]] = "done"
    /\ \A v, w \in Threads : cur[v] = cur[w] /\ cur[w] \in Jobs => v = w

\* m_jobSet holds every queued job that no worker has, once.
JobSetIsQueue ==
    /\ \A j \in Jobs : (\E i \in DOMAIN jobSet : jobSet[i] = j) <=> j \in Queue
    /\ \A i, k \in DOMAIN jobSet : jobSet[i] = jobSet[k] => i = k

\* The counters count.
Counted ==
    /\ \A t \in Types : /\ waiting[t] = Cardinality(OfType(Queue, t))
                        /\ running[t] = Cardinality(InHand(t))
    /\ processCount = Cardinality(Busy)
    /\ closureCount = Cardinality(InFlight)

\* The jobs D are deferred, and there is a task for each of the others.
Deferral(D) ==
    /\ D \subseteq Queue
    /\ \A t \in Types : deferred[t] = Cardinality(OfType(D, t))
    /\ tasks + Cardinality(At("processTask")) = Cardinality(Queue \ D)
TasksForJobs == \E D \in SUBSET Jobs : Deferral(D)

\* The jobs of a type that hold a task or run are within its limit, and at it when one
\* is deferred.
Limits ==
    \A t \in Types : /\ waiting[t] - deferred[t] + running[t] <= Limit[t]
                     /\ deferred[t] > 0 => waiting[t] - deferred[t] + running[t] = Limit[t]

\* join sets the flag before it waits, and what comes after it comes when no job is in
\* flight.
StopInOrder ==
    /\ waitForClosures <=> stopper \notin {"running", "called"}
    /\ stopper \in {"onStop", "children", "waiting", "stopped"} => InFlight = {}
    /\ is_stopping => areChildrenStopped /\ Busy = {}

QueueInv ==
    /\ Typed /\ Hands /\ JobSetIsQueue /\ Counted
    /\ TasksForJobs /\ Limits /\ StopInOrder

-----------------------------------------------------------------------------
(* Sets that grow and shrink by one element, and the sequence that does.   *)

\* A set of jobs or of threads is finite, and its size changes with what is added to it
\* or taken from it.
LEMMA Sizes ==
    ASSUME NEW U, IsFiniteSet(U), NEW S \in SUBSET U
    PROVE  /\ IsFiniteSet(S) /\ Cardinality(S) \in Nat
           /\ Cardinality(S) = 0 <=> S = {}
           /\ \A x : Cardinality(S \cup {x}) = IF x \in S THEN Cardinality(S) ELSE Cardinality(S) + 1
           /\ \A x : Cardinality(S \ {x}) = IF x \in S THEN Cardinality(S) - 1 ELSE Cardinality(S)
<1>1. IsFiniteSet(S)
  BY FS_Subset
<1> QED BY <1>1, FS_CardinalityType, FS_EmptySet, FS_AddElement, FS_RemoveElement, Zenon

\* What is left of m_jobSet when getNextJob has erased a job keeps its order.
LEMMA Erased ==
    ASSUME NEW S, NEW s \in Seq(S), NEW i \in DOMAIN s
    PROVE  /\ erase(s, i) \in Seq(S)
           /\ Len(erase(s, i)) = Len(s) - 1
           /\ \A k \in 1 .. Len(s) - 1 :
                 erase(s, i)[k] = IF k < i THEN s[k] ELSE s[k + 1]
<1>1. i \in 1 .. Len(s) /\ Len(s) \in Nat
  OBVIOUS
<1> DEFINE a == SubSeq(s, 1, i - 1)
           b == SubSeq(s, i + 1, Len(s))
<1>2. a \in Seq(S) /\ Len(a) = i - 1 /\ \A k \in 1 .. i - 1 : a[k] = s[k]
  BY <1>1, SubSeqProperties
<1>3. b \in Seq(S) /\ Len(b) = Len(s) - i /\ \A k \in 1 .. Len(s) - i : b[k] = s[i + k]
  BY <1>1, SubSeqProperties
<1>4. erase(s, i) = a \o b
  BY DEF erase
<1> HIDE DEF a, b
<1>5. /\ a \o b \in Seq(S) /\ Len(a \o b) = Len(s) - 1
      /\ \A k \in 1 .. Len(s) - 1 : (a \o b)[k] = IF k <= i - 1 THEN a[k] ELSE b[k - (i - 1)]
  <2>1. /\ a \o b \in Seq(S) /\ Len(a \o b) = Len(a) + Len(b)
        /\ \A k \in 1 .. Len(a) + Len(b) :
              (a \o b)[k] = IF k <= Len(a) THEN a[k] ELSE b[k - Len(a)]
    BY <1>2, <1>3, ConcatProperties, Zenon
  <2>2. Len(a) + Len(b) = Len(s) - 1
    BY <1>1, <1>2, <1>3
  <2> QED BY <1>2, <2>1, <2>2
<1>6. ASSUME NEW k \in 1 .. Len(s) - 1
      PROVE  (a \o b)[k] = IF k < i THEN s[k] ELSE s[k + 1]
  <2>1. CASE k < i
    BY <1>1, <1>2, <1>5, <2>1
  <2>2. CASE ~(k < i)
    <3>1. k - (i - 1) \in 1 .. Len(s) - i /\ i + (k - (i - 1)) = k + 1
      BY <1>1, <2>2
    <3>2. b[k - (i - 1)] = s[i + (k - (i - 1))]
      BY <1>3, <3>1
    <3>3. (a \o b)[k] = b[k - (i - 1)]
      <4>1. ~(k <= i - 1)
        BY <1>1, <2>2
      <4> QED BY <1>5, <4>1
    <3> QED BY <2>2, <3>1, <3>2, <3>3
  <2> QED BY <2>1, <2>2, Zenon
<1> QED BY <1>4, <1>5, <1>6

-----------------------------------------------------------------------------
(* The steps.                                                              *)

\* Nothing but the stop protocol moves.
LEMMA OnlyStopMoves ==
    ASSUME QueueInv, UNCHANGED <<offer, jobSet, countVars, workerVars, processCount, closureCount>>
    PROVE  /\ Hands' /\ JobSetIsQueue' /\ Counted' /\ TasksForJobs' /\ Limits'
           /\ InFlight' = InFlight /\ Busy' = Busy
<1> USE DEF QueueInv, countVars, workerVars
<1>1. /\ Queue' = Queue /\ InFlight' = InFlight /\ Busy' = Busy
      /\ At("processTask")' = At("processTask")
      /\ \A t \in Types : InHand(t)' = InHand(t)
  BY DEF Queue, InFlight, Busy, At, InHand
<1>2. Hands' /\ Limits'
  BY DEF Hands, Limits
<1>3. JobSetIsQueue'
  BY <1>1 DEF JobSetIsQueue
<1>4. Counted'
  BY <1>1 DEF Counted, OfType
<1>5. TasksForJobs'
  BY <1>1, Zenon DEF TasksForJobs, Deferral, OfType
<1> QED BY <1>1, <1>2, <1>3, <1>4, <1>5

\* A job is wrapped, or refused once join has been called.
LEMMA WrapStep ==
    ASSUME JobQueueAssumption, QueueInv, NEW j \in Jobs, wrap(j)
    PROVE  QueueInv'
<1> USE DEF QueueInv, countVars, workerVars, stopVars
<1>1. Typed'
  BY DEF Typed, wrap, Stoppers
<1>2. /\ Queue' = Queue /\ Busy' = Busy /\ At("processTask")' = At("processTask")
      /\ \A t \in Types : InHand(t)' = InHand(t)
  BY DEF Typed, wrap, Queue, Busy, At, InHand
<1>3. /\ j \notin InFlight
      /\ InFlight' = IF waitForClosures THEN InFlight ELSE InFlight \cup {j}
  BY DEF Typed, wrap, InFlight
<1>4. Hands'
  BY DEF Typed, Hands, wrap
<1>5. JobSetIsQueue'
  BY <1>2 DEF JobSetIsQueue, wrap
<1>6. Counted'
  <2>1. closureCount' = Cardinality(InFlight)'
    <3>1. InFlight \in SUBSET Jobs /\ IsFiniteSet(Jobs)
      BY DEF InFlight, JobQueueAssumption
    <3> QED BY <1>3, <3>1, Sizes DEF Counted, wrap
  <2> QED BY <1>2, <2>1 DEF Counted, OfType, wrap
<1>7. TasksForJobs' /\ Limits'
  BY <1>2, Zenon DEF TasksForJobs, Deferral, OfType, Limits, wrap
<1>8. StopInOrder'
  BY <1>2, <1>3 DEF StopInOrder, wrap, areChildrenStopped, Typed, Stoppers
<1> QED BY <1>1, <1>4, <1>5, <1>6, <1>7, <1>8

\* A wrapped job is put in the job set: with a task, or deferred at the limit.
LEMMA AddStep ==
    ASSUME JobQueueAssumption, QueueInv, NEW j \in Jobs, addRefCountedJob(j)
    PROVE  QueueInv'
<1> USE DEF QueueInv, countVars, workerVars, stopVars
<1> DEFINE t == TypeOf[j]
<1>0. t \in Types /\ Limit[t] \in Nat
  BY DEF JobQueueAssumption
<1>1. Typed'
  <2>1. offer' \in [Jobs -> {"new", "wrapped", "refused", "queued", "done"}] /\ jobSet' \in Seq(Jobs)
    BY DEF Typed, addRefCountedJob
  <2>2. waiting' \in [Types -> Nat] /\ deferred' \in [Types -> Nat] /\ tasks' \in Nat
    <3>1. queueJob(t)
      BY DEF addRefCountedJob
    <3> HIDE DEF t
    <3>2. CASE waiting[t] + running[t] < Limit[t]
      BY <1>0, <3>1, <3>2 DEF Typed, queueJob
    <3>3. CASE ~(waiting[t] + running[t] < Limit[t])
      <4>1. /\ deferred' = [deferred EXCEPT ![t] = @ + 1] /\ tasks' = tasks
            /\ waiting' = [waiting EXCEPT ![t] = @ + 1]
        BY <3>1, <3>3 DEF queueJob
      <4> QED BY <1>0, <4>1 DEF Typed
    <3> QED BY <3>2, <3>3
  <2> QED BY <2>1, <2>2 DEF Typed, addRefCountedJob, Stoppers
<1>2. /\ j \notin Queue /\ Queue' = Queue \cup {j}
      /\ Busy' = Busy /\ InFlight' = InFlight /\ At("processTask")' = At("processTask")
      /\ \A u \in Types : InHand(u)' = InHand(u)
  <2>1. \A w \in Threads : cur[w] # j
    BY Zenon DEF Typed, Hands, addRefCountedJob
  <2> QED BY <2>1 DEF Typed, addRefCountedJob, Queue, Busy, At, InHand, InFlight
<1>3. Queue \in SUBSET Jobs /\ IsFiniteSet(Jobs)
  BY DEF Queue, JobQueueAssumption
<1>4. Hands'
  BY DEF Typed, Hands, addRefCountedJob
<1>5. JobSetIsQueue'
  <2>1. /\ jobSet' \in Seq(Jobs) /\ Len(jobSet') = Len(jobSet) + 1
        /\ \A i \in DOMAIN jobSet : i \in DOMAIN jobSet' /\ jobSet'[i] = jobSet[i]
        /\ \A i \in DOMAIN jobSet' : i \in DOMAIN jobSet \/ i = Len(jobSet) + 1
        /\ Len(jobSet) + 1 \in DOMAIN jobSet' /\ jobSet'[Len(jobSet) + 1] = j
    BY DEF Typed, addRefCountedJob
  <2> QED BY <1>2, <2>1, SMTT(30) DEF JobSetIsQueue
<1>6. /\ \A u \in Types : u # t => OfType(Queue, u)' = OfType(Queue, u)
      /\ OfType(Queue, t)' = OfType(Queue, t) \cup {j} /\ j \notin OfType(Queue, t)
  BY <1>2 DEF OfType
<1>7. waiting'[t] = waiting[t] + 1 /\ \A u \in Types : u # t => waiting'[u] = waiting[u]
  BY <1>0 DEF Typed, addRefCountedJob, queueJob
<1>8. Counted'
  <2>1. OfType(Queue, t) \in SUBSET Jobs
    BY DEF Queue, OfType
  <2>2. waiting'[t] = Cardinality(OfType(Queue, t))'
    BY <1>0, <1>3, <1>6, <1>7, <2>1, Sizes DEF Counted
  <2> QED BY <1>2, <1>6, <1>7, <2>2, Zenon DEF Counted, addRefCountedJob
<1>9. Limits'
  <2>1. running' = running /\ \A u \in Types : Limit[u] \in Nat
    BY DEF addRefCountedJob, JobQueueAssumption
  <2>2. /\ deferred'[t] = IF waiting[t] + running[t] < Limit[t] THEN deferred[t] ELSE deferred[t] + 1
        /\ \A u \in Types : u # t => deferred'[u] = deferred[u]
    BY <1>0 DEF Typed, addRefCountedJob, queueJob
  <2> HIDE DEF t
  <2>3. ASSUME NEW u \in Types
        PROVE  /\ waiting'[u] - deferred'[u] + running'[u] <= Limit[u]
               /\ deferred'[u] > 0 => waiting'[u] - deferred'[u] + running'[u] = Limit[u]
    <3>1. /\ waiting[u] \in Nat /\ running[u] \in Nat /\ deferred[u] \in Nat /\ Limit[u] \in Nat
          /\ waiting[u] - deferred[u] + running[u] <= Limit[u]
          /\ deferred[u] > 0 => waiting[u] - deferred[u] + running[u] = Limit[u]
      BY <2>1 DEF Typed, Limits
    <3>2. CASE u = t
      BY <1>7, <2>1, <2>2, <3>1, <3>2
    <3>3. CASE u # t
      BY <1>7, <2>1, <2>2, <3>1, <3>3
    <3> QED BY <3>2, <3>3
  <2> QED BY <2>3 DEF Limits
<1>10. TasksForJobs'
  <2>1. PICK D \in SUBSET Jobs : Deferral(D)
    BY DEF TasksForJobs
  <2>2. CASE waiting[t] + running[t] < Limit[t]
    <3>1. tasks' = tasks + 1 /\ deferred' = deferred
      BY <2>2 DEF addRefCountedJob, queueJob
    <3>2. Queue' \ D = (Queue \ D) \cup {j} /\ j \notin Queue \ D /\ Queue \ D \in SUBSET Jobs
      BY <1>2, <1>3, <2>1 DEF Deferral
    <3>3. Cardinality(Queue' \ D) = Cardinality(Queue \ D) + 1
      BY <1>3, <3>2, Sizes, Zenon
    <3>4. Cardinality(At("processTask")) \in Nat /\ Cardinality(Queue \ D) \in Nat
      BY <1>3, <3>2, Sizes DEF At, JobQueueAssumption
    <3>5. Deferral(D)'
      BY <1>2, <2>1, <3>1, <3>3, <3>4 DEF Deferral, OfType, Typed
    <3> QED BY <3>5 DEF TasksForJobs
  <2>3. CASE ~(waiting[t] + running[t] < Limit[t])
    <3> DEFINE E == D \cup {j}
    <3>1. tasks' = tasks /\ deferred' = [deferred EXCEPT ![t] = @ + 1]
      BY <2>3 DEF addRefCountedJob, queueJob
    <3>2. Queue' \ E = Queue \ D /\ E \in SUBSET Jobs /\ E \subseteq Queue'
      BY <1>2, <2>1 DEF Deferral
    <3>3. /\ \A u \in Types : u # t => OfType(E, u) = OfType(D, u)
          /\ OfType(E, t) = OfType(D, t) \cup {j} /\ j \notin OfType(D, t)
          /\ OfType(D, t) \in SUBSET Jobs
      BY <1>2, <2>1 DEF OfType, Deferral
    <3>4. Cardinality(OfType(E, t)) = Cardinality(OfType(D, t)) + 1
      <4>1. Cardinality(OfType(D, t) \cup {j}) = Cardinality(OfType(D, t)) + 1
        BY <1>3, <3>3, Sizes
      <4> QED BY <3>3, <4>1
    <3>5. \A u \in Types : deferred'[u] = Cardinality(OfType(E, u))
      BY <1>0, <2>1, <3>1, <3>3, <3>4, Zenon DEF Deferral, Typed
    <3> HIDE DEF E
    <3>6. Deferral(E)'
      BY <1>2, <2>1, <3>1, <3>2, <3>5, Zenon DEF Deferral, OfType
    <3> QED BY <3>2, <3>6 DEF TasksForJobs
  <2> QED BY <2>2, <2>3
<1>11. StopInOrder'
  BY <1>2 DEF StopInOrder, addRefCountedJob, areChildrenStopped
<1> QED BY <1>1, <1>4, <1>5, <1>8, <1>9, <1>10, <1>11

\* A worker takes a task: it is now inside processTask.
LEMMA TakeStep ==
    ASSUME JobQueueAssumption, QueueInv, NEW w \in Threads, takeTask(w)
    PROVE  QueueInv'
<1> USE DEF QueueInv, countVars, workerVars, stopVars
<1>1. Typed'
  BY DEF Typed, takeTask, Stoppers
<1>2. /\ Queue' = Queue /\ Busy' = Busy /\ InFlight' = InFlight
      /\ w \notin At("processTask") /\ At("processTask")' = At("processTask") \cup {w}
      /\ \A t \in Types : InHand(t)' = InHand(t)
  BY DEF Typed, takeTask, Queue, Busy, At, InHand, InFlight
<1>3. Hands'
  BY DEF Typed, Hands, takeTask
<1>4. JobSetIsQueue' /\ Counted' /\ Limits'
  BY <1>2 DEF JobSetIsQueue, Counted, Limits, OfType, takeTask
<1>5. TasksForJobs'
  <2>1. PICK D \in SUBSET Jobs : Deferral(D)
    BY DEF TasksForJobs
  <2>2. At("processTask") \in SUBSET Threads /\ IsFiniteSet(Threads)
    BY DEF At, JobQueueAssumption
  <2>3. /\ Cardinality(At("processTask"))' = Cardinality(At("processTask")) + 1
        /\ Cardinality(At("processTask")) \in Nat
    BY <1>2, <2>2, Sizes
  <2>4. tasks' = tasks - 1 /\ tasks \in Nat /\ deferred' = deferred
    BY DEF takeTask, Typed
  <2>5. Deferral(D)'
    BY <1>2, <2>1, <2>3, <2>4 DEF Deferral, OfType
  <2> QED BY <2>5 DEF TasksForJobs
<1>6. StopInOrder'
  BY <1>2 DEF StopInOrder, takeTask, areChildrenStopped
<1> QED BY <1>1, <1>3, <1>4, <1>5, <1>6

\* The job runs and is destroyed: the counter of jobs in flight is told.
LEMMA DoStep ==
    ASSUME JobQueueAssumption, QueueInv, NEW w \in Threads, doJob(w)
    PROVE  QueueInv'
<1> USE DEF QueueInv, countVars, workerVars, stopVars
<1> DEFINE j == cur[w]
<1>0. j \in Jobs /\ offer[j] = "queued" /\ j \in InFlight /\ j \notin Queue
  BY DEF Typed, Hands, doJob, InFlight, Queue
<1>1. InFlight' = InFlight \ {j}
  BY <1>0 DEF Typed, doJob, InFlight
<1>2. closureCount' = Cardinality(InFlight)' /\ closureCount' \in Nat
  <2>1. InFlight \in SUBSET Jobs /\ InFlight' \in SUBSET Jobs /\ IsFiniteSet(Jobs)
    BY <1>1 DEF InFlight, JobQueueAssumption
  <2>2. Cardinality(InFlight \ {j}) = Cardinality(InFlight) - 1
    BY <1>0, <2>1, Sizes
  <2>3. Cardinality(InFlight') \in Nat
    BY <2>1, Sizes
  <2> QED BY <1>1, <2>2, <2>3 DEF doJob, Counted
<1>3. Typed'
  BY <1>0, <1>2 DEF Typed, doJob, Stoppers
<1>4. /\ Queue' = Queue /\ Busy' = Busy /\ At("processTask")' = At("processTask")
      /\ \A t \in Types : InHand(t)' = InHand(t)
  BY <1>0 DEF Typed, doJob, Queue, Busy, At, InHand
<1>5. Hands'
  BY <1>0 DEF Typed, Hands, doJob
<1>6. JobSetIsQueue' /\ Counted' /\ Limits' /\ TasksForJobs'
  BY <1>2, <1>4, Zenon DEF JobSetIsQueue, Counted, Limits, TasksForJobs, Deferral, OfType, doJob
<1>7. StopInOrder'
  BY <1>0, <1>1, <1>4 DEF StopInOrder, doJob, areChildrenStopped
<1> QED BY <1>3, <1>5, <1>6, <1>7

\* A job is taken out of m_jobSet, and the others stay where they are in the order.
LEMMA TakenFromJobSet ==
    ASSUME QueueInv, NEW i \in DOMAIN jobSet, jobSet' = erase(jobSet, i),
           Queue' = Queue \ {jobSet[i]}
    PROVE  jobSet' \in Seq(Jobs) /\ JobSetIsQueue'
<1> USE DEF QueueInv
<1> DEFINE q == jobSet
           n == Len(jobSet)
<1>1. jobSet \in Seq(Jobs) /\ n \in Nat /\ i \in 1 .. n /\ DOMAIN jobSet = 1 .. n
  BY DEF Typed
<1>2. /\ jobSet' \in Seq(Jobs) /\ Len(jobSet') = n - 1 /\ DOMAIN jobSet' = 1 .. n - 1
      /\ \A k \in 1 .. n - 1 : jobSet'[k] = IF k < i THEN q[k] ELSE q[k + 1]
  <2>1. /\ erase(jobSet, i) \in Seq(Jobs) /\ Len(erase(jobSet, i)) = Len(jobSet) - 1
        /\ \A k \in 1 .. Len(jobSet) - 1 :
              erase(jobSet, i)[k] = IF k < i THEN jobSet[k] ELSE jobSet[k + 1]
    BY <1>1, Erased, Zenon
  <2> QED BY <2>1
<1>3. \A k, l \in 1 .. n : q[k] = q[l] => k = l
  BY <1>1 DEF JobSetIsQueue
<1> HIDE DEF n
<1>4. ASSUME NEW m \in Jobs
      PROVE  (\E k \in DOMAIN jobSet' : jobSet'[k] = m) <=> m \in Queue'
  <2>1. (\E k \in 1 .. n : q[k] = m) <=> m \in Queue
    BY <1>1 DEF JobSetIsQueue
  <2>2. ASSUME NEW k \in 1 .. n - 1, jobSet'[k] = m
        PROVE  m \in Queue'
    BY <1>1, <1>2, <1>3, <2>1, <2>2
  <2>3. ASSUME m \in Queue'
        PROVE  \E k \in 1 .. n - 1 : jobSet'[k] = m
    <3>1. PICK l \in 1 .. n : q[l] = m
      BY <2>1, <2>3
    <3>2. l # i
      BY <2>3, <3>1
    <3>3. CASE l < i
      BY <1>1, <1>2, <3>1, <3>3
    <3>4. CASE l > i
      <4>1. l - 1 \in 1 .. n - 1 /\ ~(l - 1 < i) /\ (l - 1) + 1 = l
        BY <1>1, <3>4
      <4>2. jobSet'[l - 1] = q[(l - 1) + 1]
        BY <1>2, <4>1
      <4> QED BY <3>1, <4>1, <4>2
    <3> QED BY <1>1, <3>2, <3>3, <3>4
  <2> QED BY <1>2, <2>2, <2>3
<1>5. ASSUME NEW k \in 1 .. n - 1, NEW l \in 1 .. n - 1, jobSet'[k] = jobSet'[l]
      PROVE  k = l
  <2>1. k \in 1 .. n /\ k + 1 \in 1 .. n /\ l \in 1 .. n /\ l + 1 \in 1 .. n
    BY <1>1
  <2>2. /\ jobSet'[k] = IF k < i THEN q[k] ELSE q[k + 1]
        /\ jobSet'[l] = IF l < i THEN q[l] ELSE q[l + 1]
    BY <1>2
  <2>3. (IF k < i THEN k ELSE k + 1) = (IF l < i THEN l ELSE l + 1)
    BY <1>3, <1>5, <2>1, <2>2, Zenon
  <2> QED BY <1>1, <2>1, <2>3
<1> QED BY <1>2, <1>4, <1>5 DEF JobSetIsQueue

\* A worker takes the first job it may run.  When that job was a deferred one, another
\* job of its type gives its task up for it: there is one, as the type is at its limit
\* and does not run that many.
LEMMA NextJobStep ==
    ASSUME JobQueueAssumption, QueueInv, NEW w \in Threads, getNextJob(w)
    PROVE  QueueInv'
<1> USE DEF QueueInv, countVars, workerVars, stopVars
<1>a. PICK i \in runnable :
         /\ cur' = [cur EXCEPT ![w] = jobSet[i]]
         /\ jobSet' = erase(jobSet, i)
         /\ waiting' = [waiting EXCEPT ![TypeOf[jobSet[i]]] = @ - 1]
         /\ running' = [running EXCEPT ![TypeOf[jobSet[i]]] = @ + 1]
  BY Zenon DEF getNextJob
<1>b. /\ workerAt[w] = "processTask" /\ workerAt' = [workerAt EXCEPT ![w] = "doJob"]
      /\ processCount' = processCount + 1 /\ deferred' = deferred /\ tasks' = tasks
      /\ offer' = offer /\ closureCount' = closureCount /\ waitForClosures' = waitForClosures
      /\ stopper' = stopper /\ is_stopping' = is_stopping
  BY DEF getNextJob
<1>i. i \in DOMAIN jobSet /\ jobSet[i] \in Jobs
  BY DEF runnable, Typed
<1>j. PICK j \in Jobs : j = jobSet[i]
  BY <1>i
<1>t. PICK t \in Types : t = TypeOf[j]
  BY DEF JobQueueAssumption
<1>c. i \in DOMAIN jobSet /\ j \in Jobs /\ running[t] < Limit[t]
  BY <1>i, <1>j, <1>t DEF runnable
<1>d. t \in Types /\ Limit[t] \in Nat
  BY DEF JobQueueAssumption
<1>e. j \in Queue /\ offer[j] = "queued" /\ \A v \in Threads : cur[v] # j
  BY <1>c, <1>j DEF JobSetIsQueue, Queue
<1>f. cur[w] \notin Jobs
  BY <1>b DEF Hands
<1>g. cur' = [cur EXCEPT ![w] = j] /\ t = TypeOf[j]
  BY <1>a, <1>j, <1>t
<1>1. /\ Queue' = Queue \ {j} /\ InFlight' = InFlight
      /\ Busy' = Busy \cup {w} /\ w \notin Busy
      /\ At("processTask")' = At("processTask") \ {w} /\ w \in At("processTask")
      /\ \A u \in Types : u # t => InHand(u)' = InHand(u)
      /\ InHand(t)' = InHand(t) \cup {j} /\ j \notin InHand(t)
  <2>1. Queue' = Queue \ {j} /\ InFlight' = InFlight
    BY <1>b, <1>c, <1>e, <1>f, <1>g DEF Queue, InFlight, Typed
  <2>2. Busy' = Busy \cup {w} /\ w \notin Busy
    BY <1>b DEF Busy, Typed
  <2>3. At("processTask")' = At("processTask") \ {w} /\ w \in At("processTask")
    BY <1>b DEF At, Typed
  <2>4. \A m \in Jobs : (\E v \in Threads : cur'[v] = m) <=> (m = j \/ \E v \in Threads : cur[v] = m)
    BY <1>c, <1>e, <1>f, <1>g DEF Typed
  <2>5. \A u \in Types : u # t => InHand(u)' = InHand(u)
    BY <1>c, <1>g, <2>4 DEF InHand
  <2>6. InHand(t)' = InHand(t) \cup {j} /\ j \notin InHand(t)
    BY <1>c, <1>e, <1>g, <2>4 DEF InHand
  <2> QED BY <2>1, <2>2, <2>3, <2>5, <2>6
<1>2. jobSet' \in Seq(Jobs) /\ JobSetIsQueue'
  BY <1>1, <1>a, <1>c, <1>j, TakenFromJobSet
<1>3. /\ \A u \in Types : u # t => OfType(Queue, u)' = OfType(Queue, u)
      /\ OfType(Queue, t)' = OfType(Queue, t) \ {j} /\ j \in OfType(Queue, t)
      /\ OfType(Queue, t) \in SUBSET Jobs /\ InHand(t) \in SUBSET Jobs
      /\ IsFiniteSet(Jobs) /\ IsFiniteSet(Threads)
      /\ Busy \in SUBSET Threads /\ At("processTask") \in SUBSET Threads /\ Queue \in SUBSET Jobs
  BY <1>1, <1>e, <1>g DEF OfType, Queue, InHand, Busy, At, JobQueueAssumption
<1>4. /\ waiting' = [waiting EXCEPT ![t] = @ - 1] /\ running' = [running EXCEPT ![t] = @ + 1]
      /\ waiting[t] \in Nat /\ running[t] \in Nat /\ deferred[t] \in Nat
  BY <1>a, <1>d, <1>j, <1>t DEF Typed
<1>5. /\ Cardinality(OfType(Queue, t))' = waiting[t] - 1 /\ waiting[t] - 1 \in Nat
      /\ Cardinality(InHand(t))' = running[t] + 1
      /\ Cardinality(Busy)' = processCount + 1
  <2>1. Cardinality(OfType(Queue, t)) = waiting[t] /\ Cardinality(InHand(t)) = running[t]
    BY <1>d DEF Counted
  <2>2. /\ Cardinality(OfType(Queue, t) \ {j}) = Cardinality(OfType(Queue, t)) - 1
        /\ Cardinality(OfType(Queue, t)) # 0
    BY <1>3, Sizes
  <2>3. Cardinality(InHand(t) \cup {j}) = Cardinality(InHand(t)) + 1
    BY <1>1, <1>3, Sizes
  <2>4. Cardinality(Busy \cup {w}) = Cardinality(Busy) + 1
    BY <1>1, <1>3, Sizes
  <2>5. Cardinality(OfType(Queue, t))' = waiting[t] - 1 /\ waiting[t] - 1 \in Nat
    BY <1>3, <1>4, <2>1, <2>2
  <2>6. Cardinality(InHand(t))' = running[t] + 1
    BY <1>1, <2>1, <2>3
  <2>7. Cardinality(Busy)' = processCount + 1
    BY <1>1, <2>4 DEF Counted
  <2> QED BY <2>5, <2>6, <2>7
<1>6. Typed'
  <2>1. waiting' \in [Types -> Nat] /\ running' \in [Types -> Nat]
    BY <1>4, <1>5, <1>d DEF Typed
  <2>2. cur' \in [Threads -> Jobs \cup {NoJob}] /\ workerAt' \in [Threads -> {"wait", "processTask", "doJob", "finishJob"}]
    BY <1>b, <1>c, <1>g DEF Typed
  <2> QED BY <1>2, <1>b, <2>1, <2>2 DEF Typed, Stoppers
<1>7. Hands'
  BY <1>b, <1>c, <1>e, <1>f, <1>g DEF Hands, Typed
<1>8. Counted'
  <2>1. ASSUME NEW u \in Types
        PROVE  waiting'[u] = Cardinality(OfType(Queue, u))' /\ running'[u] = Cardinality(InHand(u))'
    <3>1. CASE u = t
      BY <1>4, <1>5, <1>d, <3>1 DEF Typed
    <3>2. CASE u # t
      <4>1. waiting'[u] = waiting[u] /\ running'[u] = running[u]
        BY <1>4, <3>2 DEF Typed
      <4> QED BY <1>1, <1>3, <3>2, <4>1, Zenon DEF Counted
    <3> QED BY <3>1, <3>2
  <2> QED BY <1>1, <1>5, <1>b, <2>1, Zenon DEF Counted
<1>9. Limits'
  <2> SUFFICES ASSUME NEW u \in Types
               PROVE  waiting'[u] - deferred'[u] + running'[u] = waiting[u] - deferred[u] + running[u]
    BY <1>b DEF Limits
  <2> QED BY <1>4, <1>b, <1>d DEF Typed
<1>11. StopInOrder'
  <2>1. ~is_stopping
    BY <1>c, <1>e DEF StopInOrder, areChildrenStopped, InFlight
  <2> QED BY <1>1, <1>b, <2>1 DEF StopInOrder, areChildrenStopped
<1>10. TasksForJobs'
  <2>1. PICK D \in SUBSET Jobs : Deferral(D)
    BY DEF TasksForJobs
  <2>2. /\ Cardinality(At("processTask"))' = Cardinality(At("processTask")) - 1
        /\ Cardinality(At("processTask")) \in Nat
    BY <1>1, <1>3, Sizes
  <2>3. /\ D \subseteq Queue /\ tasks + Cardinality(At("processTask")) = Cardinality(Queue \ D)
        /\ \A u \in Types : deferred[u] = Cardinality(OfType(D, u))
        /\ Queue \ D \in SUBSET Jobs /\ OfType(D, t) \in SUBSET Jobs /\ tasks \in Nat
    BY <1>3, <2>1 DEF Deferral, OfType, Typed
  <2>4. CASE j \notin D
    <3>1. Queue' \ D = (Queue \ D) \ {j} /\ j \in Queue \ D /\ D \subseteq Queue'
      BY <1>1, <1>e, <2>3, <2>4
    <3>2. Cardinality(Queue' \ D) = Cardinality(Queue \ D) - 1
      <4> DEFINE N == Queue \ D
      <4>1. N \in SUBSET Jobs /\ j \in N /\ Queue' \ D = N \ {j}
        BY <2>3, <3>1
      <4> HIDE DEF N
      <4>2. Cardinality(N \ {j}) = Cardinality(N) - 1
        BY <1>3, <4>1, Sizes
      <4> QED BY <4>1, <4>2 DEF N
    <3>3. Deferral(D)'
      BY <1>b, <2>2, <2>3, <3>1, <3>2 DEF Deferral, OfType
    <3> QED BY <3>3 DEF TasksForJobs
  <2>5. CASE j \in D
    <3>1. PICK k \in OfType(Queue, t) : k \notin D
      <4>1. j \in OfType(D, t)
        BY <1>c, <1>g, <2>5 DEF OfType
      <4>2. Cardinality(OfType(D, t)) # 0
        BY <1>3, <2>3, <4>1, Sizes
      <4>3. deferred[t] > 0
        BY <1>4, <1>d, <2>3, <4>2
      <4>4. waiting[t] > deferred[t]
        BY <1>4, <1>c, <1>d, <4>3 DEF Limits
      <4>5. Cardinality(OfType(Queue, t)) > Cardinality(OfType(D, t))
        BY <1>d, <2>3, <4>4 DEF Counted
      <4>6. CASE OfType(Queue, t) \subseteq OfType(D, t)
        <5>1. IsFiniteSet(OfType(D, t))
          BY <1>3, <2>3, Sizes
        <5>2. Cardinality(OfType(Queue, t)) <= Cardinality(OfType(D, t))
          BY <4>6, <5>1, FS_Subset
        <5>3. Cardinality(OfType(Queue, t)) \in Nat /\ Cardinality(OfType(D, t)) \in Nat
          BY <1>3, <2>3, Sizes
        <5> QED BY <4>5, <5>2, <5>3
      <4> QED BY <4>6 DEF OfType
    <3>0. PICK E \in SUBSET Jobs : E = (D \ {j}) \cup {k}
      BY <1>3, <2>1, <3>1, Zenon DEF OfType
    <3>2. k # j /\ k \in Queue /\ TypeOf[k] = t /\ k \in Jobs
      BY <1>3, <2>5, <3>1 DEF OfType
    <3>3. /\ Queue' \ E = (Queue \ D) \ {k} /\ k \in Queue \ D
          /\ E \subseteq Queue' /\ E \in SUBSET Jobs
      BY <1>1, <1>e, <2>3, <2>5, <3>0, <3>1, <3>2
    <3>4. Cardinality(Queue' \ E) = Cardinality(Queue \ D) - 1
      <4> DEFINE N == Queue \ D
      <4>1. N \in SUBSET Jobs /\ k \in N /\ Queue' \ E = N \ {k}
        BY <2>3, <3>3
      <4> HIDE DEF N
      <4>2. Cardinality(N \ {k}) = Cardinality(N) - 1
        BY <1>3, <4>1, Sizes
      <4> QED BY <4>1, <4>2 DEF N
    <3>5. \A u \in Types : u # t => OfType(E, u) = OfType(D, u)
      BY <1>g, <3>0, <3>2 DEF OfType
    <3>6. /\ OfType(E, t) = (OfType(D, t) \ {j}) \cup {k} /\ j \in OfType(D, t)
          /\ k \notin OfType(D, t) \ {j} /\ OfType(D, t) \ {j} \in SUBSET Jobs
      BY <1>g, <2>3, <2>5, <3>0, <3>1, <3>2 DEF OfType
    <3>7. Cardinality((OfType(D, t) \ {j}) \cup {k}) = Cardinality(OfType(D, t))
      <4>1. /\ Cardinality(OfType(D, t) \ {j}) = Cardinality(OfType(D, t)) - 1
            /\ Cardinality(OfType(D, t)) \in Nat
        BY <1>3, <2>3, <3>6, Sizes
      <4>2. Cardinality((OfType(D, t) \ {j}) \cup {k}) = Cardinality(OfType(D, t) \ {j}) + 1
        <5> DEFINE N == OfType(D, t) \ {j}
        <5>1. N \in SUBSET Jobs /\ k \notin N
          BY <3>6
        <5> HIDE DEF N
        <5>2. Cardinality(N \cup {k}) = Cardinality(N) + 1
          BY <1>3, <5>1, Sizes
        <5> QED BY <5>2 DEF N
      <4> QED BY <4>1, <4>2
    <3>8. \A u \in Types : deferred[u] = Cardinality(OfType(E, u))
      BY <2>3, <3>5, <3>6, <3>7
    <3>9. tasks' + Cardinality(At("processTask"))' = Cardinality(Queue' \ E)
      BY <1>b, <2>2, <2>3, <3>4
    <3>10. \A u \in Types : deferred'[u] = Cardinality(OfType(E, u))
      BY <1>b, <3>8
    <3>11. E \subseteq Queue' /\ E \in SUBSET Jobs
      BY <3>3
    <3>12. Deferral(E)'
      BY <3>9, <3>10, <3>11 DEF Deferral, OfType
    <3> QED BY <3>11, <3>12 DEF TasksForJobs
  <2> QED BY <2>4, <2>5
<1> QED BY <1>2, <1>6, <1>7, <1>8, <1>9, <1>10, <1>11

\* A worker ends its task: a deferred job of the type, if there is one, gets a task, and
\* the last of the tasks lets the queue say that it stopped.
LEMMA EndStep ==
    ASSUME JobQueueAssumption, QueueInv, NEW w \in Threads, endTask(w)
    PROVE  QueueInv'
<1> USE DEF QueueInv, countVars, workerVars, stopVars
<1>j. PICK j \in Jobs : j = cur[w] /\ offer[j] = "done"
  BY DEF Hands, endTask, Typed
<1>t. PICK t \in Types : t = TypeOf[j]
  BY DEF JobQueueAssumption
<1>b. /\ workerAt[w] = "finishJob" /\ workerAt' = [workerAt EXCEPT ![w] = "wait"]
      /\ cur' = [cur EXCEPT ![w] = NoJob] /\ processCount' = processCount - 1
      /\ offer' = offer /\ jobSet' = jobSet /\ closureCount' = closureCount
      /\ waitForClosures' = waitForClosures /\ stopper' = stopper
      /\ waiting' = waiting /\ running' = [running EXCEPT ![t] = @ - 1]
      /\ finishJob(t) /\ checkStopped
  BY <1>j, <1>t DEF endTask, finishJob
<1>d. /\ Limit[t] \in Nat /\ NoJob \notin Jobs
      /\ waiting[t] \in Nat /\ running[t] \in Nat /\ deferred[t] \in Nat /\ tasks \in Nat
  BY DEF JobQueueAssumption, Typed
<1>1. /\ Queue' = Queue /\ InFlight' = InFlight
      /\ Busy' = Busy \ {w} /\ w \in Busy
      /\ At("processTask")' = At("processTask")
      /\ \A u \in Types : u # t => InHand(u)' = InHand(u)
      /\ InHand(t)' = InHand(t) \ {j} /\ j \in InHand(t)
  <2>1. \A m \in Jobs : (\E v \in Threads : cur'[v] = m) <=> (m # j /\ \E v \in Threads : cur[v] = m)
    BY <1>b, <1>d, <1>j DEF Typed, Hands
  <2>2. Queue' = Queue /\ InFlight' = InFlight
    BY <1>b, <1>j, <2>1 DEF Queue, InFlight
  <2>3. Busy' = Busy \ {w} /\ w \in Busy /\ At("processTask")' = At("processTask")
    BY <1>b DEF Busy, At, Typed
  <2>4. \A u \in Types : u # t => InHand(u)' = InHand(u)
    BY <1>t, <2>1 DEF InHand
  <2>5. InHand(t)' = InHand(t) \ {j} /\ j \in InHand(t)
    BY <1>j, <1>t, <2>1 DEF InHand
  <2> QED BY <2>2, <2>3, <2>4, <2>5
<1>2. /\ IsFiniteSet(Jobs) /\ IsFiniteSet(Threads) /\ Queue \in SUBSET Jobs
      /\ Busy \in SUBSET Threads /\ InHand(t) \in SUBSET Jobs
  BY DEF JobQueueAssumption, Queue, Busy, InHand
<1>3. /\ Cardinality(InHand(t) \ {j}) = running[t] - 1 /\ running[t] > 0
      /\ Cardinality(Busy \ {w}) = processCount - 1 /\ processCount > 0
  <2>1. Cardinality(InHand(t)) = running[t] /\ Cardinality(Busy) = processCount
    BY DEF Counted
  <2>2. Cardinality(InHand(t) \ {j}) = Cardinality(InHand(t)) - 1 /\ Cardinality(InHand(t)) > 0
    BY <1>1, <1>2, Sizes
  <2>3. Cardinality(Busy \ {w}) = Cardinality(Busy) - 1 /\ Cardinality(Busy) > 0
    BY <1>1, <1>2, Sizes
  <2> QED BY <2>1, <2>2, <2>3
<1>4. /\ deferred' = IF deferred[t] > 0 THEN [deferred EXCEPT ![t] = @ - 1] ELSE deferred
      /\ tasks' = IF deferred[t] > 0 THEN tasks + 1 ELSE tasks
  BY <1>b DEF finishJob
<1>5. Typed'
  <2>1. running' \in [Types -> Nat] /\ deferred' \in [Types -> Nat]
    BY <1>3, <1>4, <1>b, <1>d DEF Typed
  <2>2. tasks' \in Nat /\ processCount' \in Nat
    BY <1>3, <1>4, <1>b, <1>d DEF Typed
  <2>3. is_stopping' \in BOOLEAN
    BY <1>b DEF Typed, checkStopped
  <2>4. cur' \in [Threads -> Jobs \cup {NoJob}] /\ workerAt' \in [Threads -> {"wait", "processTask", "doJob", "finishJob"}]
    BY <1>b DEF Typed
  <2> QED BY <1>b, <2>1, <2>2, <2>3, <2>4 DEF Typed, Stoppers
<1>6. Hands'
  BY <1>b, <1>d DEF Hands, Typed
<1>7. JobSetIsQueue'
  BY <1>1, <1>b DEF JobSetIsQueue
<1>8. Counted'
  <2>1. ASSUME NEW u \in Types
        PROVE  waiting'[u] = Cardinality(OfType(Queue, u))' /\ running'[u] = Cardinality(InHand(u))'
    <3>1. waiting'[u] = Cardinality(OfType(Queue, u))'
      BY <1>1, <1>b DEF Counted, OfType
    <3>2. CASE u = t
      BY <1>1, <1>3, <1>b, <3>1, <3>2, Zenon DEF Typed
    <3>3. CASE u # t
      BY <1>1, <1>b, <3>1, <3>3 DEF Counted, Typed
    <3> QED BY <3>2, <3>3
  <2> QED BY <1>1, <1>3, <1>b, <2>1 DEF Counted
<1>9. Limits'
  <2> SUFFICES ASSUME NEW u \in Types
               PROVE  /\ waiting'[u] - deferred'[u] + running'[u] <= Limit[u]
                      /\ deferred'[u] > 0 => waiting'[u] - deferred'[u] + running'[u] = Limit[u]
    BY DEF Limits
  <2>1. /\ waiting[u] \in Nat /\ running[u] \in Nat /\ deferred[u] \in Nat /\ Limit[u] \in Nat
        /\ waiting[u] - deferred[u] + running[u] <= Limit[u]
        /\ deferred[u] > 0 => waiting[u] - deferred[u] + running[u] = Limit[u]
    BY DEF Typed, Limits, JobQueueAssumption
  <2>2. CASE u # t
    <3>1. waiting'[u] = waiting[u] /\ running'[u] = running[u] /\ deferred'[u] = deferred[u]
      BY <1>4, <1>b, <2>2 DEF Typed
    <3> QED BY <2>1, <3>1
  <2>3. CASE u = t
    <3>1. /\ waiting'[t] = waiting[t] /\ running'[t] = running[t] - 1
          /\ deferred'[t] = IF deferred[t] > 0 THEN deferred[t] - 1 ELSE deferred[t]
      BY <1>4, <1>b DEF Typed
    <3>2. PICK n, r, d, l \in Nat :
            n = waiting[t] /\ r = running[t] /\ d = deferred[t] /\ l = Limit[t]
      BY <2>1, <2>3
    <3>3. /\ n - d + r <= l /\ (d > 0 => n - d + r = l)
          /\ waiting'[t] = n /\ running'[t] = r - 1
          /\ deferred'[t] = IF d > 0 THEN d - 1 ELSE d
      BY <2>1, <2>3, <3>1, <3>2
    <3>4. CASE d > 0
      BY <2>3, <3>2, <3>3, <3>4
    <3>5. CASE ~(d > 0)
      BY <2>3, <3>2, <3>3, <3>5
    <3> QED BY <3>4, <3>5
  <2> QED BY <2>2, <2>3
<1>10. TasksForJobs'
  <2>1. PICK D \in SUBSET Jobs : Deferral(D)
    BY DEF TasksForJobs
  <2>2. /\ D \subseteq Queue /\ tasks + Cardinality(At("processTask")) = Cardinality(Queue \ D)
        /\ \A u \in Types : deferred[u] = Cardinality(OfType(D, u))
        /\ Cardinality(At("processTask")) \in Nat
    BY <2>1, Sizes, Zenon DEF Deferral, OfType, At, JobQueueAssumption
  <2>3. CASE ~(deferred[t] > 0)
    <3>1. Deferral(D)'
      BY <1>1, <1>4, <2>2, <2>3, Zenon DEF Deferral, OfType
    <3> QED BY <3>1 DEF TasksForJobs
  <2>4. CASE deferred[t] > 0
    <3>1. OfType(D, t) \in SUBSET Jobs /\ Cardinality(OfType(D, t)) > 0
      BY <2>2, <2>4 DEF OfType
    <3>2. PICK k \in OfType(D, t) : TRUE
      BY <1>2, <3>1, Sizes
    <3>3. k \in D /\ TypeOf[k] = t /\ k \in Queue
      BY <2>2, <3>2 DEF OfType
    <3>4. PICK E \in SUBSET Jobs : E = D \ {k}
      BY Zenon
    <3>5. /\ \A u \in Types : u # t => OfType(E, u) = OfType(D, u)
          /\ OfType(E, t) = OfType(D, t) \ {k}
      BY <3>3, <3>4 DEF OfType
    <3>6. Cardinality(OfType(D, t) \ {k}) = Cardinality(OfType(D, t)) - 1
      BY <1>2, <3>1, <3>2, Sizes
    <3>7. \A u \in Types : deferred'[u] = Cardinality(OfType(E, u))
      BY <1>4, <2>2, <2>4, <3>5, <3>6, Zenon DEF Typed
    <3>8. Cardinality(Queue \ E) = Cardinality(Queue \ D) + 1
      <4> DEFINE N == Queue \ D
      <4>1. N \in SUBSET Jobs /\ k \notin N /\ Queue \ E = N \cup {k}
        BY <1>2, <3>3, <3>4
      <4> HIDE DEF N
      <4>2. Cardinality(N \cup {k}) = Cardinality(N) + 1
        BY <1>2, <4>1, Sizes
      <4> QED BY <4>1, <4>2 DEF N
    <3>9. tasks' + Cardinality(At("processTask"))' = Cardinality(Queue' \ E)
      BY <1>1, <1>4, <1>d, <2>2, <2>4, <3>8
    <3>10. E \subseteq Queue'
      BY <1>1, <2>2, <3>4
    <3>11. Deferral(E)'
      BY <3>7, <3>9, <3>10 DEF Deferral, OfType
    <3> QED BY <3>11 DEF TasksForJobs
  <2> QED BY <2>3, <2>4
<1>11. StopInOrder'
  <2>1. ~is_stopping
    BY <1>1 DEF StopInOrder
  <2>2. is_stopping' => areChildrenStopped /\ processCount' = 0
    BY <1>b, <2>1, Zenon DEF checkStopped
  <2>3. processCount' = 0 => Busy' = {}
    <3>1. Busy' \in SUBSET Threads /\ processCount' = Cardinality(Busy')
      BY <1>1, <1>2, <1>3, <1>b
    <3> QED BY <1>2, <3>1, Sizes, Zenon
  <2> QED BY <1>1, <1>b, <2>2, <2>3 DEF StopInOrder, areChildrenStopped
<1> QED BY <1>5, <1>6, <1>7, <1>8, <1>9, <1>10, <1>11

\* The steps of RootStoppable::stop.
LEMMA StopStep ==
    ASSUME JobQueueAssumption, QueueInv, stopAsync \/ Stopping \/ UNCHANGED queueVars
    PROVE  QueueInv'
<1>1. UNCHANGED <<offer, jobSet, countVars, workerVars, processCount, closureCount>>
  BY DEF Stopping, stopAsync, join, joined, childrenStopped, onChildrenStopped, stopRecursive, queueVars
<1>2. /\ Hands' /\ JobSetIsQueue' /\ Counted' /\ TasksForJobs' /\ Limits'
      /\ InFlight' = InFlight /\ Busy' = Busy
  BY <1>1, OnlyStopMoves
<1>3. Typed' /\ StopInOrder'
  <2> USE DEF QueueInv
  <2>1. /\ closureCount = 0 => InFlight = {}
        /\ processCount = 0 => Busy = {}
    <3>1. InFlight \in SUBSET Jobs /\ Busy \in SUBSET Threads
      BY DEF InFlight, Busy
    <3> QED BY <3>1, Sizes DEF Counted, JobQueueAssumption
  <2>2. /\ waitForClosures' \in BOOLEAN /\ stopper' \in Stoppers /\ is_stopping' \in BOOLEAN
        /\ StopInOrder'
    <3>1. CASE stopAsync
      BY <1>2, <3>1 DEF stopAsync, Typed, StopInOrder, areChildrenStopped, Stoppers
    <3>2. CASE join
      BY <1>2, <3>2 DEF join, Typed, StopInOrder, areChildrenStopped, Stoppers
    <3>3. CASE joined
      BY <1>2, <2>1, <3>3 DEF joined, Typed, StopInOrder, areChildrenStopped, Stoppers
    <3>4. CASE childrenStopped
      BY <1>2, <3>4 DEF childrenStopped, Typed, StopInOrder, areChildrenStopped, Stoppers
    <3>5. CASE onChildrenStopped
      BY <1>2, <2>1, <3>5 DEF onChildrenStopped, checkStopped, Typed, StopInOrder,
                              areChildrenStopped, Stoppers
    <3>6. CASE stopRecursive
      BY <1>2, <3>6 DEF stopRecursive, Typed, StopInOrder, areChildrenStopped, Stoppers
    <3>7. CASE UNCHANGED queueVars
      BY <1>2, <3>7 DEF queueVars, stopVars, Typed, StopInOrder, areChildrenStopped, Stoppers
    <3> QED BY <3>1, <3>2, <3>3, <3>4, <3>5, <3>6, <3>7 DEF Stopping
  <2> QED BY <1>1, <2>2 DEF Typed, countVars, workerVars
<1> QED BY <1>2, <1>3 DEF QueueInv

-----------------------------------------------------------------------------
(* The invariant.                                                          *)

LEMMA QueueInitially == ASSUME JobQueueAssumption, QueueInit PROVE QueueInv
<1> USE DEF QueueInit
<1>1. Queue = {} /\ InFlight = {} /\ Busy = {} /\ At("processTask") = {}
  BY DEF Queue, InFlight, Busy, At
<1>2. \A t \in Types : InHand(t) = {} /\ OfType({}, t) = {}
  BY DEF InHand, OfType, JobQueueAssumption
<1>3. Cardinality({}) = 0
  BY FS_EmptySet
<1>4. Typed /\ Hands /\ StopInOrder
  <2>1. Typed
    <3>1. jobSet \in Seq(Jobs)
      BY EmptySeq
    <3>2. /\ offer \in [Jobs -> {"new", "wrapped", "refused", "queued", "done"}]
          /\ workerAt \in [Threads -> {"wait", "processTask", "doJob", "finishJob"}]
          /\ cur \in [Threads -> Jobs \cup {NoJob}]
      OBVIOUS
    <3>3. waiting \in [Types -> Nat] /\ running \in [Types -> Nat] /\ deferred \in [Types -> Nat]
      OBVIOUS
    <3>4. waitForClosures \in BOOLEAN /\ is_stopping \in BOOLEAN
      BY Zenon
    <3> QED BY <3>1, <3>2, <3>3, <3>4 DEF Typed, Stoppers
  <2>2. Hands
    BY DEF Hands, JobQueueAssumption
  <2>3. StopInOrder
    BY <1>1 DEF StopInOrder
  <2> QED BY <2>1, <2>2, <2>3
<1>5. JobSetIsQueue
  BY <1>1 DEF JobSetIsQueue
<1>6. Counted
  BY <1>1, <1>2, <1>3, Zenon DEF Counted
<1>7. Deferral({})
  <2>1. Queue \ {} = {}
    BY <1>1
  <2>2. tasks + Cardinality(At("processTask")) = Cardinality(Queue \ {})
    <3>1. Cardinality(At("processTask")) = 0 /\ Cardinality(Queue \ {}) = 0
      BY <1>1, <1>3, <2>1, Zenon
    <3> QED BY <3>1
  <2>3. \A t \in Types : deferred[t] = Cardinality(OfType({}, t))
    BY <1>2, <1>3
  <2> QED BY <2>2, <2>3 DEF Deferral
<1>8. TasksForJobs
  BY <1>7 DEF TasksForJobs
<1>9. Limits
  BY DEF Limits, JobQueueAssumption
<1> QED BY <1>4, <1>5, <1>6, <1>8, <1>9 DEF QueueInv

LEMMA QueueInductive ==
    ASSUME JobQueueAssumption, QueueInv, [QueueNext]_queueVars
    PROVE  QueueInv'
<1>1. CASE \E j \in Jobs : wrap(j) \/ addRefCountedJob(j)
  BY <1>1, WrapStep, AddStep
<1>2. CASE \E w \in Threads : Work(w)
  BY <1>2, TakeStep, NextJobStep, DoStep, EndStep DEF Work
<1>3. CASE stopAsync \/ Stopping \/ UNCHANGED queueVars
  BY <1>3, StopStep
<1>4. CASE QueueOver
  BY <1>4, StopStep DEF QueueOver
<1> QED BY <1>1, <1>2, <1>3, <1>4 DEF QueueNext

LEMMA QueueInvariant == ASSUME JobQueueAssumption PROVE QueueSpec => []QueueInv
<1>1. QueueInit => QueueInv
  BY QueueInitially
<1>2. QueueInv /\ [QueueNext]_queueVars => QueueInv'
  BY QueueInductive
<1> QED BY <1>1, <1>2, PTL DEF QueueSpec

-----------------------------------------------------------------------------
(* What the queue relies on.                                               *)

\* Nothing is in m_jobSet, and there is no task, when no job is in flight.
LEMMA NoJobNoTask ==
    ASSUME JobQueueAssumption, QueueInv, InFlight = {}
    PROVE  jobSet = <<>> /\ tasks = 0
<1> USE DEF QueueInv
<1>1. Queue = {}
  BY DEF Queue, InFlight
<1>2. jobSet = <<>>
  <2>1. DOMAIN jobSet = {}
    BY <1>1 DEF JobSetIsQueue, Typed
  <2>2. Len(jobSet) = 0
    BY <2>1 DEF Typed
  <2> QED BY <2>2, EmptySeq DEF Typed
<1>3. tasks = 0
  <2>1. PICK D \in SUBSET Jobs : Deferral(D)
    BY DEF TasksForJobs
  <2>2. Queue \ D = {} /\ At("processTask") \in SUBSET Threads
    BY <1>1 DEF At
  <2>3. Cardinality({}) = 0 /\ Cardinality(At("processTask")) \in Nat
    BY <2>2, FS_EmptySet, Sizes DEF JobQueueAssumption
  <2>4. tasks + Cardinality(At("processTask")) = 0
    <3>1. tasks + Cardinality(At("processTask")) = Cardinality(Queue \ D)
      BY <2>1 DEF Deferral
    <3> QED BY <2>2, <2>3, <3>1
  <2>5. tasks \in Nat
    BY DEF Typed
  <2> QED BY <2>3, <2>4, <2>5
<1> QED BY <1>2, <1>3

\* The job queue says that it stopped only when no job waits, runs or is on its way to it,
\* and the assertions of addRefCountedJob hold: for any jobs, types, limits and threads.
THEOREM StopsWhenIdle ==
    ASSUME JobQueueAssumption PROVE QueueSpec => []StoppedIsIdle
<1>1. ASSUME QueueInv PROVE NothingLeft
  <2> SUFFICES ASSUME is_stopping
               PROVE  /\ jobSet = <<>> /\ processCount = 0 /\ tasks = 0
                      /\ \A j \in Jobs : offer[j] \in {"new", "refused", "done"}
                      /\ waitForClosures
    BY DEF NothingLeft
  <2>1. InFlight = {} /\ Busy = {} /\ waitForClosures
    BY <1>1 DEF QueueInv, StopInOrder, areChildrenStopped
  <2>2. jobSet = <<>> /\ tasks = 0
    BY <1>1, <2>1, NoJobNoTask
  <2>3. processCount = 0
    BY <1>1, <2>1, FS_EmptySet DEF QueueInv, Counted
  <2>4. \A j \in Jobs : offer[j] \in {"new", "refused", "done"}
    BY <1>1, <2>1 DEF QueueInv, Typed, InFlight
  <2> QED BY <2>1, <2>2, <2>3, <2>4
<1>2. ASSUME QueueInv PROVE AddBeforeStopped
  BY <1>2 DEF QueueInv, StopInOrder, InFlight, AddBeforeStopped, areChildrenStopped
<1>3. QueueInv => StoppedIsIdle
  BY <1>1, <1>2 DEF StoppedIsIdle
<1> QED BY <1>3, QueueInvariant, PTL

\* The assertion of getNextJob never fires: whenever a worker has taken a task there is a
\* job in m_jobSet whose type is below its limit, whatever was added, taken and finished
\* since the task was signaled.  Nor does the one of finishJob: a type with deferred jobs
\* is at its limit.  There is one task for each waiting job that is not deferred.
THEOREM TasksFindJobs ==
    ASSUME JobQueueAssumption
    PROVE  QueueSpec => []TaskHasJob
<1>1. ASSUME QueueInv PROVE RunnableJob
  <2> USE <1>1 DEF QueueInv
  <2> SUFFICES ASSUME Cardinality(At("processTask")) > 0
               PROVE  \E i \in DOMAIN jobSet : i \in runnable
    BY DEF RunnableJob, runnable
  <2>1. PICK D \in SUBSET Jobs : Deferral(D)
    BY DEF TasksForJobs
  <2>2. Queue \in SUBSET Jobs /\ IsFiniteSet(Jobs)
    BY DEF Queue, JobQueueAssumption
  <2>3. PICK k \in Queue : k \notin D
    <3> DEFINE N == Queue \ D
    <3>1. At("processTask") \in SUBSET Threads /\ IsFiniteSet(Threads)
      BY DEF At, JobQueueAssumption
    <3>2. Cardinality(At("processTask")) \in Nat
      BY <3>1, Sizes
    <3>3. Cardinality(N) > 0
      BY <2>1, <3>2 DEF Deferral, Typed
    <3>4. N \in SUBSET Jobs
      BY <2>2
    <3> HIDE DEF N
    <3>5. N # {}
      BY <2>2, <3>3, <3>4, Sizes
    <3> QED BY <3>5 DEF N
  <2>4. PICK t \in Types : t = TypeOf[k]
    BY <2>2, <2>3 DEF JobQueueAssumption
  <2>5. deferred[t] < waiting[t]
    <3> DEFINE W == OfType(Queue, t)
               E == OfType(D, t)
    <3>1. W \in SUBSET Jobs /\ E \subseteq W \ {k} /\ k \in W
      BY <2>1, <2>2, <2>3, <2>4 DEF OfType, Deferral
    <3>2. waiting[t] = Cardinality(W) /\ deferred[t] = Cardinality(E)
      BY <2>1 DEF Counted, Deferral
    <3> HIDE DEF W, E
    <3>3. IsFiniteSet(W) /\ Cardinality(W \ {k}) = Cardinality(W) - 1 /\ Cardinality(W) \in Nat
      BY <2>2, <3>1, Sizes
    <3>4. IsFiniteSet(W \ {k})
      BY <3>3, FS_Subset
    <3>5. Cardinality(E) <= Cardinality(W \ {k}) /\ IsFiniteSet(E)
      BY <3>1, <3>4, FS_Subset
    <3>6. Cardinality(E) \in Nat
      BY <3>5, FS_CardinalityType
    <3> QED BY <3>2, <3>3, <3>5, <3>6
  <2>6. running[t] < Limit[t]
    <3>1. /\ waiting[t] \in Nat /\ running[t] \in Nat /\ deferred[t] \in Nat /\ Limit[t] \in Nat
          /\ waiting[t] - deferred[t] + running[t] <= Limit[t]
      BY DEF Typed, Limits, JobQueueAssumption
    <3> QED BY <2>5, <3>1
  <2>7. PICK i \in DOMAIN jobSet : jobSet[i] = k
    BY <2>2, <2>3 DEF JobSetIsQueue
  <2> QED BY <2>4, <2>6, <2>7 DEF runnable
<1>2. ASSUME QueueInv PROVE DeferredAtLimit
  <2> SUFFICES ASSUME NEW t \in Types, deferred[t] > 0
               PROVE  running[t] + waiting[t] >= Limit[t]
    BY DEF DeferredAtLimit
  <2>1. /\ waiting[t] \in Nat /\ running[t] \in Nat /\ deferred[t] \in Nat /\ Limit[t] \in Nat
        /\ waiting[t] - deferred[t] + running[t] = Limit[t]
    BY <1>2 DEF QueueInv, Typed, Limits, JobQueueAssumption
  <2> QED BY <2>1
<1>3. ASSUME QueueInv PROVE TasksMatchJobs
  <2> USE <1>3 DEF QueueInv
  <2>1. {jobSet[i] : i \in DOMAIN jobSet} = Queue
    <3>1. \A i \in DOMAIN jobSet : jobSet[i] \in Jobs
      BY DEF Typed
    <3>2. Queue \in SUBSET Jobs
      BY DEF Queue
    <3> QED BY <3>1, <3>2 DEF JobSetIsQueue
  <2>2. PICK D \in SUBSET Jobs : Deferral(D)
    BY DEF TasksForJobs
  <2>3. \E E \in SUBSET Queue :
          /\ \A t \in Types : deferred[t] = Cardinality(OfType(E, t))
          /\ tasks + Cardinality(At("processTask")) = Cardinality(Queue \ E)
    BY <2>2, Zenon DEF Deferral
  <2>4. \A t \in Types : waiting[t] - deferred[t] + running[t] <= Limit[t]
    BY DEF Limits
  <2> QED BY <2>1, <2>3, <2>4, Zenon DEF TasksMatchJobs
<1>4. QueueInv => TaskHasJob
  BY <1>1, <1>2, <1>3 DEF TaskHasJob
<1> QED BY <1>4, QueueInvariant, PTL

-----------------------------------------------------------------------------
(* The refinement of JobPool.                                              *)

\* checkStopped reports a stop only when the pool may.
LEMMA StopsAsPool ==
    ASSUME QueueInv, QueueInv', poolJob' = poolJob, waitForClosures' = waitForClosures,
           is_stopping => is_stopping'
    PROVE  [AsPool!Next]_AsPool!vars
<1>1. CASE is_stopping' = is_stopping
  BY <1>1 DEF AsPool!vars
<1>2. CASE is_stopping' # is_stopping
  <2>1. ~is_stopping /\ is_stopping' = TRUE
    BY <1>2 DEF QueueInv, Typed
  <2>2. waitForClosures' = TRUE /\ InFlight' = {}
    BY <2>1 DEF QueueInv, Typed, StopInOrder, areChildrenStopped
  <2>3. \A j \in Jobs : offer'[j] \notin {"wrapped", "queued"}
    BY <2>2 DEF InFlight
  <2>4. \A j \in Jobs : poolJob'[j] \notin {"accepted", "running"}
    BY <2>3, Zenon DEF poolJob, QueueInv, Typed
  <2>5. AsPool!Stop
    BY <2>1, <2>2, <2>4 DEF AsPool!Stop
  <2> QED BY <2>5 DEF AsPool!Next
<1> QED BY <1>1, <1>2

\* A job that a worker has is running, or over.
LEMMA PoolSees ==
    ASSUME JobQueueAssumption, QueueInv, NEW j \in Jobs
    PROVE  /\ offer[j] \in {"new", "wrapped", "refused"} => \A w \in Threads : cur[w] # j
           /\ j \in Queue => poolJob[j] = "accepted"
           /\ offer[j] = "queued" /\ j \notin Queue => poolJob[j] = "running"
           /\ offer[j] \notin {"wrapped", "queued"} => poolJob[j] = offer[j]
           /\ offer[j] = "wrapped" => poolJob[j] = "accepted"
<1>1. offer[j] \in {"new", "wrapped", "refused"} => \A w \in Threads : cur[w] # j
  BY DEF QueueInv, Hands
<1>2. j \in Queue => poolJob[j] = "accepted"
  BY DEF Queue, poolJob
<1>3. offer[j] = "queued" /\ j \notin Queue => poolJob[j] = "running"
  BY DEF Queue, poolJob
<1>4. offer[j] \notin {"wrapped", "queued"} => poolJob[j] = offer[j]
  BY DEF poolJob
<1>5. offer[j] = "wrapped" => poolJob[j] = "accepted"
  BY <1>1 DEF poolJob
<1> QED BY <1>1, <1>2, <1>3, <1>4, <1>5

LEMMA WrapAsPool ==
    ASSUME JobQueueAssumption, QueueInv, NEW j \in Jobs, wrap(j)
    PROVE  [AsPool!Next]_AsPool!vars
<1>1. /\ offer[j] = "new" /\ cur' = cur /\ waitForClosures' = waitForClosures
      /\ is_stopping' = is_stopping
      /\ offer' = [offer EXCEPT ![j] = IF waitForClosures THEN "refused" ELSE "wrapped"]
  BY DEF wrap, workerVars, stopVars
<1>2. poolJob[j] = "new" /\ \A w \in Threads : cur[w] # j
  BY <1>1, PoolSees
<1>3. poolJob' = [poolJob EXCEPT ![j] = IF waitForClosures THEN "refused" ELSE "accepted"]
  BY <1>1, <1>2, Zenon DEF poolJob, QueueInv, Typed
<1>4. CASE waitForClosures
  <2>1. AsPool!Refuse(j)
    BY <1>1, <1>2, <1>3, <1>4 DEF AsPool!Refuse
  <2> QED BY <2>1 DEF AsPool!Next
<1>5. CASE ~waitForClosures
  <2>1. AsPool!Accept(j)
    BY <1>1, <1>2, <1>3, <1>5 DEF AsPool!Accept
  <2> QED BY <2>1 DEF AsPool!Next
<1> QED BY <1>4, <1>5

LEMMA NextJobAsPool ==
    ASSUME JobQueueAssumption, QueueInv, NEW w \in Threads, getNextJob(w)
    PROVE  [AsPool!Next]_AsPool!vars
<1> USE DEF QueueInv
<1>1. PICK i \in runnable : cur' = [cur EXCEPT ![w] = jobSet[i]]
  BY Zenon DEF getNextJob
<1>2. PICK j \in Jobs : j = jobSet[i]
  BY <1>1 DEF runnable, Typed
<1>3. /\ workerAt[w] = "processTask" /\ offer' = offer /\ waitForClosures' = waitForClosures
      /\ is_stopping' = is_stopping /\ cur' = [cur EXCEPT ![w] = j]
      /\ running[TypeOf[j]] < Limit[TypeOf[j]]
  BY <1>1, <1>2, Zenon DEF getNextJob, stopVars, runnable
<1>4. j \in Queue
  BY <1>1, <1>2 DEF JobSetIsQueue, runnable
<1>5. poolJob[j] = "accepted" /\ offer[j] = "queued"
  BY <1>4, PoolSees DEF Queue
<1>6. poolJob' = [poolJob EXCEPT ![j] = "running"]
  <2>1. cur[w] \notin Jobs
    BY <1>3 DEF Hands
  <2>2. \A k \in Jobs : (\E v \in Threads : cur'[v] = k) <=> (k = j \/ \E v \in Threads : cur[v] = k)
    BY <1>3, <2>1 DEF Typed
  <2> QED BY <1>3, <1>5, <2>2, Zenon DEF poolJob
<1>7. Cardinality(AsPool!Running(TypeOf[j])) < Limit[TypeOf[j]]
  <2>1. PICK t \in Types : t = TypeOf[j]
    BY DEF JobQueueAssumption
  <2> DEFINE R == AsPool!Running(t)
             H == InHand(t)
  <2>2. R \subseteq H
    BY Zenon DEF AsPool!Running, InHand, poolJob, Typed
  <2>3. IsFiniteSet(H)
    BY FS_Subset DEF InHand, JobQueueAssumption
  <2>4. running[t] = Cardinality(H)
    BY DEF Counted
  <2> HIDE DEF R, H
  <2>5. /\ Cardinality(R) <= Cardinality(H) /\ Cardinality(R) \in Nat
        /\ Cardinality(H) \in Nat
    BY <2>2, <2>3, FS_Subset, FS_CardinalityType
  <2>6. Limit[t] \in Nat
    BY DEF JobQueueAssumption
  <2>7. Cardinality(R) < Limit[t]
    BY <1>3, <2>1, <2>4, <2>5, <2>6
  <2> QED BY <2>1, <2>7 DEF R
<1>8. AsPool!Start(j)
  <2>1. \A S : AsPool!Cardinality(S) = Cardinality(S)
    BY Zenon DEF AsPool!Cardinality, Cardinality
  <2> QED BY <1>3, <1>5, <1>6, <1>7, <2>1, Zenon DEF AsPool!Start
<1> QED BY <1>8, Zenon DEF AsPool!Next

LEMMA DoAsPool ==
    ASSUME JobQueueAssumption, QueueInv, NEW w \in Threads, doJob(w)
    PROVE  [AsPool!Next]_AsPool!vars
<1> USE DEF QueueInv
<1>1. PICK j \in Jobs : j = cur[w] /\ offer[j] = "queued"
  BY DEF doJob, Hands
<1>2. /\ offer' = [offer EXCEPT ![j] = "done"] /\ cur' = cur
      /\ waitForClosures' = waitForClosures /\ is_stopping' = is_stopping
  BY <1>1 DEF doJob, stopVars
<1>3. poolJob[j] = "running"
  BY <1>1 DEF poolJob
<1>4. poolJob' = [poolJob EXCEPT ![j] = "done"]
  BY <1>2, Zenon DEF poolJob, Typed
<1>5. AsPool!Finish(j)
  BY <1>2, <1>3, <1>4 DEF AsPool!Finish
<1> QED BY <1>5 DEF AsPool!Next

\* Every step of the job queue is a step of the pool, or none of its business.
LEMMA QueueStepAsPool ==
    ASSUME JobQueueAssumption, QueueInv, QueueInv', [QueueNext]_queueVars
    PROVE  [AsPool!Next]_AsPool!vars
<1>1. CASE \E j \in Jobs : wrap(j)
  BY <1>1, WrapAsPool
<1>2. ASSUME NEW j \in Jobs, addRefCountedJob(j) PROVE [AsPool!Next]_AsPool!vars
  <2>1. /\ offer[j] = "wrapped" /\ offer' = [offer EXCEPT ![j] = "queued"] /\ cur' = cur
        /\ waitForClosures' = waitForClosures /\ is_stopping' = is_stopping
    BY <1>2 DEF addRefCountedJob, workerVars, stopVars
  <2>2. poolJob' = poolJob
    BY <2>1 DEF poolJob, QueueInv, Typed
  <2> QED BY <2>1, <2>2 DEF AsPool!vars
<1>3. ASSUME NEW w \in Threads, takeTask(w) PROVE [AsPool!Next]_AsPool!vars
  <2>1. /\ offer' = offer /\ cur' = cur
        /\ waitForClosures' = waitForClosures /\ is_stopping' = is_stopping
    BY <1>3 DEF takeTask, stopVars
  <2> QED BY <2>1 DEF AsPool!vars, poolJob
<1>4. CASE \E w \in Threads : getNextJob(w)
  BY <1>4, NextJobAsPool
<1>5. CASE \E w \in Threads : doJob(w)
  BY <1>5, DoAsPool
<1>6. ASSUME NEW w \in Threads, endTask(w) PROVE [AsPool!Next]_AsPool!vars
  <2> USE DEF QueueInv
  <2>1. PICK j \in Jobs : j = cur[w] /\ offer[j] = "done"
    BY <1>6 DEF endTask, Hands
  <2>2. /\ offer' = offer /\ cur' = [cur EXCEPT ![w] = NoJob]
        /\ waitForClosures' = waitForClosures /\ checkStopped
    BY <1>6 DEF endTask
  <2>3. \A k \in Jobs : k # j => ((\E v \in Threads : cur'[v] = k) <=> (\E v \in Threads : cur[v] = k))
    BY <2>1, <2>2, Zenon DEF Typed, JobQueueAssumption
  <2>4. poolJob' = poolJob
    BY <2>1, <2>2, <2>3 DEF poolJob
  <2>5. is_stopping => is_stopping'
    BY <2>2, Zenon DEF checkStopped
  <2> QED BY <2>2, <2>4, <2>5, StopsAsPool
<1>7. CASE join
  <2>1. /\ ~waitForClosures /\ waitForClosures' = TRUE /\ is_stopping' = is_stopping
        /\ offer' = offer /\ cur' = cur
    BY <1>7 DEF join, QueueInv, StopInOrder, workerVars
  <2>2. AsPool!Close
    BY <2>1 DEF AsPool!Close, poolJob
  <2> QED BY <2>2 DEF AsPool!Next
<1>8. CASE stopAsync \/ joined \/ childrenStopped \/ stopRecursive \/ UNCHANGED queueVars
  <2>1. /\ offer' = offer /\ cur' = cur
        /\ waitForClosures' = waitForClosures /\ is_stopping' = is_stopping
    BY <1>8 DEF stopAsync, joined, childrenStopped, stopRecursive, queueVars, workerVars, stopVars
  <2> QED BY <2>1 DEF AsPool!vars, poolJob
<1>9. CASE onChildrenStopped
  <2>1. /\ offer' = offer /\ cur' = cur /\ waitForClosures' = waitForClosures
        /\ is_stopping => is_stopping'
    BY <1>9, Zenon DEF onChildrenStopped, checkStopped, workerVars
  <2>2. poolJob' = poolJob
    BY <2>1 DEF poolJob
  <2> QED BY <2>1, <2>2, StopsAsPool
<1> QED BY <1>1, <1>2, <1>3, <1>4, <1>5, <1>6, <1>7, <1>8, <1>9 DEF QueueNext, Work, Stopping, QueueOver

\* The job queue, its counters, deferred jobs, worker threads and stop protocol implement
\* JobPool: an accepted job runs once and to completion, never more of a type at a time
\* than its limit, none is accepted after join, and the stop comes after the last of them.
THEOREM QueueIsPool == ASSUME JobQueueAssumption PROVE QueueSpec => ImplementsPool
<1>1. QueueInit => AsPool!Init
  <2> SUFFICES ASSUME QueueInit PROVE AsPool!Init
    OBVIOUS
  <2>1. poolJob = [j \in Jobs |-> "new"]
    BY DEF QueueInit, poolJob
  <2> QED BY <2>1 DEF QueueInit, AsPool!Init
<1>2. QueueInv /\ QueueInv' /\ [QueueNext]_queueVars => [AsPool!Next]_AsPool!vars
  BY QueueStepAsPool
<1> QED BY <1>1, <1>2, QueueInvariant, PTL DEF QueueSpec, ImplementsPool, AsPool!Spec
=============================================================================
