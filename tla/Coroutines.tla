----------------------------- MODULE Coroutines -----------------------------
(***************************************************************************)
(* Coroutines of the job queue (Coro.ipp) and the one caller that suspends *)
(* them: an RPC request for paths (SupplyFinanceChainPathFind.cpp) hands   *)
(* itself to PathRequests, yields its job thread, and is posted again by   *)
(* the path finding job (LedgerMaster::updatePaths, PathRequests::         *)
(* updateAll) when its paths are found.  The program may be stopped at any *)
(* point (RootStoppable::stop), and then the job queue refuses jobs.       *)
(*                                                                         *)
(* The job queue is the one of JobPool: a job that was accepted runs, on a *)
(* thread of its own here.  A coroutine is entered by a carrier: its first *)
(* job, the job of a later post, or the path finding job's own thread when *)
(* the post is refused.  A step is one critical section; the destruction   *)
(* of a job is part of the step in which its function returns.             *)
(***************************************************************************)
EXTENDS Integers, FiniteSets, TLC

CONSTANTS
    Requests,       \* RPC requests, each with its coroutine
    Finders,        \* path finding jobs that may exist at a time
    MaxLedgers,     \* bound: new validated ledgers
    MayStop,        \* whether the program is stopped
    MayAsk,         \* whether requests ask for paths, and so suspend
    MayMiss,        \* whether path finding may meet a missing node
    MayLag,         \* whether the server may be behind the network
    NoRequest

CoroutinesAssumption ==
    /\ IsFiniteSet(Requests) /\ IsFiniteSet(Finders)
    /\ NoRequest \notin Requests /\ MaxLedgers \in Nat
    /\ MayStop \in BOOLEAN /\ MayAsk \in BOOLEAN /\ MayMiss \in BOOLEAN
    /\ MayLag \in BOOLEAN

VARIABLES
    seg,            \* how far the function of each coroutine is
    carrier,        \* the calls of resume() for each coroutine
    nSuspend,       \* JobQueue::nSuspend_
    requests,       \* PathRequests::requests_
    inProgress,     \* PathRequest::mInProgress
    completed,      \* PathRequest::fCompletion has been called and cleared
    threads,        \* LedgerMaster::mPathFindThread
    newRequest,     \* LedgerMaster::mPathFindNewRequest
    newLedger,      \* mPathLedger is not the last validated ledger
    ledgers,        \* new ledgers so far
    pc,             \* where each path finding job is
    todo,           \* the requests left in its pass
    newOnly,        \* newRequests of its updateAll
    item,           \* the request it works on
    closed,         \* jobCounter_ was joined
    stopper,        \* where RootStoppable::stop is
    is_stopping     \* the job queue called stopped()

master == <<threads, newRequest, newLedger, ledgers>>
paths == <<requests, inProgress, completed>>
finder == <<pc, todo, newOnly, item>>
stop == <<closed, stopper, is_stopping>>
vars == <<seg, carrier, nSuspend, paths, master, finder, stop>>

Carriers == {"first", "again", "inline"}
JobCarriers == {"first", "again"}
isStopping == stopper # "running"

Init ==
    /\ seg = [r \in Requests |-> "none"]
    /\ carrier = [r \in Requests |-> [k \in Carriers |-> "none"]]
    /\ nSuspend = 0
    /\ requests = {}
    /\ inProgress = [r \in Requests |-> FALSE]
    /\ completed = [r \in Requests |-> FALSE]
    /\ threads = 0 /\ newRequest = FALSE /\ newLedger = FALSE /\ ledgers = 0
    /\ pc = [p \in Finders |-> "none"]
    /\ todo = [p \in Finders |-> {}]
    /\ newOnly = [p \in Finders |-> FALSE]
    /\ item = [p \in Finders |-> NoRequest]
    /\ closed = FALSE /\ stopper = "running" /\ is_stopping = FALSE

\* Wrapped jobs not destroyed yet, and calls of processTask not over yet.
InFlight == {<<r, k>> \in Requests \X JobCarriers : carrier[r][k] \in {"queued", "begun", "on"}}
            \union {p \in Finders : pc[p] \notin {"none", "ended"}}
Processing == {<<r, k>> \in Requests \X JobCarriers : carrier[r][k] \in {"begun", "on", "ended"}}
              \union {p \in Finders : pc[p] \notin {"none", "queued"}}
Queued == {<<r, k>> \in Requests \X JobCarriers : carrier[r][k] = "queued"}
          \union {p \in Finders : pc[p] = "queued"}

Carry(r, k, state) == carrier' = [carrier EXCEPT ![r][k] = state]
At(r, label) == seg' = [seg EXCEPT ![r] = label]

-----------------------------------------------------------------------------
(* Coro.                                                                   *)

\* The constructor runs the coroutine up to its first yield.  It is called by
\* the server's threads, until ServerHandler has stopped.
Coro(r) ==
    /\ seg[r] = "none" /\ stopper \notin {"children", "waiting", "stopped"}
    /\ nSuspend' = nSuspend + 1
    /\ At(r, "created")
    /\ UNCHANGED <<carrier, paths, master, finder, stop>>

\* post(), and expectEarlyExit() when the queue refuses the job.
postCoro(r) ==
    /\ seg[r] = "created"
    /\ IF closed
         THEN At(r, "rejected") /\ nSuspend' = nSuspend - 1 /\ UNCHANGED carrier
         ELSE At(r, "body") /\ Carry(r, "first", "queued") /\ UNCHANGED nSuspend
    /\ UNCHANGED <<paths, master, finder, stop>>

resume(r, k) ==
    /\ carrier[r][k] = "queued"
    /\ Carry(r, k, "begun")
    /\ nSuspend' = nSuspend - 1
    /\ UNCHANGED <<seg, paths, master, finder, stop>>

\* The coroutine's mutex_ is not taken.
enterUnlocked(r, k) ==
    /\ carrier[r][k] = "begun"
    /\ Carry(r, k, IF seg[r] = "finished" THEN "ended" ELSE "on")
    /\ At(r, IF seg[r] = "suspended" THEN "answered" ELSE seg[r])
    /\ UNCHANGED <<nSuspend, paths, master, finder, stop>>

\* resume() holds mutex_ while the coroutine runs.  One that has returned
\* cannot be entered any more.
enter(r, k) ==
    /\ carrier[r][k] = "begun"
    /\ \A o \in Carriers : carrier[r][o] # "on"
    /\ Carry(r, k, IF seg[r] = "finished" THEN "ended" ELSE "on")
    /\ At(r, IF seg[r] = "suspended" THEN "answered" ELSE seg[r])
    /\ UNCHANGED <<nSuspend, paths, master, finder, stop>>

\* The coroutine runs on some thread.
Runs(r, label) == seg[r] = label /\ \E k \in Carriers : carrier[r][k] = "on"

yield(r) ==
    /\ Runs(r, "yield")
    /\ nSuspend' = nSuspend + 1
    /\ At(r, "yielded")
    /\ UNCHANGED <<carrier, paths, master, finder, stop>>

\* The call of coro_() returns, because the coroutine yielded or returned.
leave(r, k) ==
    /\ carrier[r][k] = "on"
    /\ \/ seg[r] = "yielded" /\ At(r, "suspended")
       \/ seg[r] \in {"return", "answered"} /\ At(r, "finished")
    /\ Carry(r, k, "ended")
    /\ UNCHANGED <<nSuspend, paths, master, finder, stop>>

-----------------------------------------------------------------------------
(* The job queue and the stop.                                             *)

checkStopped ==
    is_stopping' = (is_stopping \/ (/\ stopper \in {"children", "waiting"}
                                    /\ Processing' = {} /\ Queued' = {}
                                    /\ nSuspend' = 0))

endTask(r, k) ==
    /\ k \in JobCarriers /\ carrier[r][k] = "ended"
    /\ Carry(r, k, "done")
    /\ UNCHANGED <<seg, nSuspend, paths, master, finder, closed, stopper>>
    /\ checkStopped

endFinder(p) ==
    /\ pc[p] = "ended"
    /\ pc' = [pc EXCEPT ![p] = "none"]
    /\ UNCHANGED <<seg, carrier, nSuspend, paths, master, todo, newOnly, item, closed, stopper>>
    /\ checkStopped

StopTo(from, to) ==
    /\ stopper = from
    /\ stopper' = to
    /\ UNCHANGED <<seg, carrier, nSuspend, paths, master, finder>>

stopAsync == MayStop /\ StopTo("running", "called") /\ UNCHANGED <<closed, is_stopping>>

\* stopAsync and stopRecursive; ServerHandler is below the job queue in the
\* tree and stops when no call of its handlers is in progress.
join == StopTo("called", "joining") /\ closed' = TRUE /\ UNCHANGED is_stopping
joined == StopTo("joining", "onStop") /\ InFlight = {} /\ UNCHANGED <<closed, is_stopping>>
childrenStopped == /\ StopTo("onStop", "children")
                   /\ \A r \in Requests : seg[r] # "created"
                   /\ UNCHANGED <<closed, is_stopping>>
onChildrenStopped == StopTo("children", "waiting") /\ UNCHANGED closed /\ checkStopped
stopRecursive == StopTo("waiting", "stopped") /\ is_stopping /\ UNCHANGED <<closed, is_stopping>>
Stopping == join \/ joined \/ childrenStopped \/ onChildrenStopped \/ stopRecursive

-----------------------------------------------------------------------------
(* A request for paths, in the body of the coroutine.                      *)

\* Any other command, or a request that is not valid, returns at once.
otherCommand(r) ==
    /\ Runs(r, "body")
    /\ At(r, "return")
    /\ UNCHANGED <<carrier, nSuspend, paths, master, finder, stop>>

insertPathRequest(r) ==
    /\ MayAsk /\ Runs(r, "body")
    /\ requests' = requests \union {r}
    /\ At(r, "inserted")
    /\ UNCHANGED <<carrier, nSuspend, inProgress, completed, master, finder, stop>>

\* A path finding job is added unless there are two; `ok' is what newPFWork
\* returns.
newPFWork(ok) ==
    /\ \/ /\ threads < 2 /\ ~closed
          /\ \E p \in Finders : /\ pc[p] = "none"
                                /\ pc' = [pc EXCEPT ![p] = "queued"]
          /\ threads' = threads + 1
       \/ (threads >= 2 \/ closed) /\ UNCHANGED <<threads, pc>>
    /\ ok = (threads' > 0 /\ ~isStopping)

newPathRequest(r) ==
    /\ Runs(r, "inserted")
    /\ \E ok \in BOOLEAN :
         /\ newPFWork(ok)
         /\ newRequest' = ok
         /\ At(r, IF ok THEN "yield" ELSE "return")
    /\ UNCHANGED <<carrier, nSuspend, paths, newLedger, ledgers, todo, newOnly, item, stop>>

\* A ledger was validated and published: LedgerMaster::doAdvance.
publishLedger ==
    /\ ledgers < MaxLedgers
    /\ ledgers' = ledgers + 1
    /\ newLedger' = TRUE
    /\ \E ok \in BOOLEAN : newPFWork(ok)
    /\ UNCHANGED <<seg, carrier, nSuspend, paths, newRequest, todo, newOnly, item, stop>>

\* The coroutine's stack holds the only lasting reference to its request.
alive(r) == seg[r] \in {"inserted", "yield", "yielded", "suspended", "answered"}

-----------------------------------------------------------------------------
(* LedgerMaster::updatePaths and PathRequests::updateAll.                  *)

Goto(p, label) == pc' = [pc EXCEPT ![p] = label]

\* The count is given back when the job starts, too.
\* Nothing is done while the server needs a ledger from the network.
updatePaths(p) ==
    /\ pc[p] = "queued"
    /\ \/ Goto(p, "loop") /\ UNCHANGED threads
       \/ MayLag /\ Goto(p, "ended") /\ threads' = threads - 1
    /\ UNCHANGED <<seg, carrier, nSuspend, paths, newRequest, newLedger, ledgers,
                   todo, newOnly, item, stop>>

\* The loop ends when the program stops, nothing is to be done, or the ledger
\* to use is more than a minute old.
updateLoop(p) ==
    /\ pc[p] = "loop"
    /\ \/ /\ isStopping
          /\ Goto(p, "ended")
          /\ UNCHANGED <<threads, newLedger>>
       \/ /\ ~isStopping /\ (newLedger \/ newRequest)
          /\ newLedger' = FALSE
          /\ \/ Goto(p, "updateAll") /\ UNCHANGED threads
             \/ MayLag /\ Goto(p, "ended") /\ threads' = threads - 1
       \/ /\ ~isStopping /\ ~newLedger /\ ~newRequest
          /\ threads' = threads - 1
          /\ Goto(p, "ended")
          /\ UNCHANGED newLedger
    /\ UNCHANGED <<seg, carrier, nSuspend, paths, newRequest, ledgers, todo, newOnly, item, stop>>

updateAll(p) ==
    /\ pc[p] = "updateAll"
    /\ todo' = [todo EXCEPT ![p] = requests]
    /\ Goto(p, "isNew")
    /\ UNCHANGED <<seg, carrier, nSuspend, paths, master, newOnly, item, stop>>

isNewPathRequest(p) ==
    /\ pc[p] = "isNew"
    /\ newOnly' = [newOnly EXCEPT ![p] = newRequest]
    /\ newRequest' = FALSE
    /\ Goto(p, "each")
    /\ UNCHANGED <<seg, carrier, nSuspend, paths, threads, newLedger, ledgers, todo, item, stop>>

\* The next request of the pass.  mLastIndex stays zero, so that a request
\* needs an update unless another thread is at it; one that has gone or was
\* answered is only removed.  updateComplete holds the request's lock while
\* it resumes the coroutine.
needsUpdate(p) ==
    /\ pc[p] = "each" /\ todo[p] # {} /\ ~isStopping
    /\ \E r \in todo[p] :
         /\ todo' = [todo EXCEPT ![p] = @ \ {r}]
         /\ alive(r) => carrier[r]["inline"] \notin {"begun", "on"}
         /\ \/ /\ alive(r) /\ ~inProgress[r]
               /\ inProgress' = [inProgress EXCEPT ![r] = TRUE]
               /\ item' = [item EXCEPT ![p] = r]
               /\ Goto(p, IF completed[r] THEN "remove" ELSE "doUpdate")
            \/ /\ alive(r) /\ inProgress[r]
               /\ Goto(p, "mustBreak")
               /\ UNCHANGED <<inProgress, item>>
            \/ /\ ~alive(r)
               /\ Goto(p, "remove")
               /\ UNCHANGED <<inProgress, item>>
    /\ UNCHANGED <<seg, carrier, nSuspend, requests, completed, master, newOnly, stop>>

\* A missing node ends updateAll; updatePaths asks for the ledger and loops.
missingNode(p) ==
    /\ MayMiss /\ pc[p] = "doUpdate"
    /\ todo' = [todo EXCEPT ![p] = {}]
    /\ item' = [item EXCEPT ![p] = NoRequest]
    /\ Goto(p, "loop")
    /\ UNCHANGED <<seg, carrier, nSuspend, paths, master, newOnly, stop>>

\* A completion that gives up when its post is refused.
\* Paths found: updateComplete calls the completion, which posts the
\* coroutine, or resumes it on this thread when the post is refused.
updateComplete(p) ==
    /\ pc[p] = "doUpdate"
    /\ inProgress' = [inProgress EXCEPT ![item[p]] = FALSE]
    /\ completed' = [completed EXCEPT ![item[p]] = TRUE]
    /\ IF closed
         THEN Carry(item[p], "inline", "begun") /\ nSuspend' = nSuspend - 1
         ELSE Carry(item[p], "again", "queued") /\ UNCHANGED nSuspend
    /\ Goto(p, "remove")
    /\ UNCHANGED <<seg, requests, master, todo, newOnly, item, stop>>

\* Dangling requests and the one just answered leave the list.
removeRequest(p) ==
    /\ pc[p] = "remove"
    /\ item[p] # NoRequest => carrier[item[p]]["inline"] \in {"none", "ended"}
    /\ requests' = {r \in requests : alive(r) /\ r # item[p]}
    /\ item' = [item EXCEPT ![p] = NoRequest]
    /\ Goto(p, "mustBreak")
    /\ UNCHANGED <<seg, carrier, nSuspend, inProgress, completed, master, todo, newOnly, stop>>

mustBreak(p) ==
    /\ pc[p] = "mustBreak"
    /\ IF ~newOnly[p] /\ newRequest
         THEN /\ newRequest' = FALSE
              /\ newOnly' = [newOnly EXCEPT ![p] = TRUE]
              /\ todo' = [todo EXCEPT ![p] = {}]
              /\ Goto(p, "again")
         ELSE /\ Goto(p, "each")
              /\ UNCHANGED <<newRequest, newOnly, todo>>
    /\ UNCHANGED <<seg, carrier, nSuspend, paths, threads, newLedger, ledgers, item, stop>>

\* The end of a pass: after one over new requests there is another one.
endPass(p) ==
    /\ pc[p] = "each" /\ (todo[p] = {} \/ isStopping)
    /\ newOnly' = [newOnly EXCEPT ![p] = newRequest]
    /\ newRequest' = FALSE
    /\ todo' = [todo EXCEPT ![p] = {}]
    /\ Goto(p, IF newOnly[p] \/ newRequest THEN "again" ELSE "loop")
    /\ UNCHANGED <<seg, carrier, nSuspend, paths, threads, newLedger, ledgers, item, stop>>

nextPass(p) ==
    /\ pc[p] = "again"
    /\ todo' = [todo EXCEPT ![p] = requests]
    /\ Goto(p, IF requests = {} \/ isStopping THEN "loop" ELSE "each")
    /\ UNCHANGED <<seg, carrier, nSuspend, paths, master, newOnly, item, stop>>

-----------------------------------------------------------------------------
Coroutine(r) ==
    \/ postCoro(r) \/ yield(r)
    \/ otherCommand(r) \/ insertPathRequest(r) \/ newPathRequest(r)
    \/ \E k \in Carriers : resume(r, k) \/ enter(r, k) \/ leave(r, k) \/ endTask(r, k)

Finder(p) ==
    \/ updatePaths(p) \/ updateLoop(p) \/ updateAll(p) \/ isNewPathRequest(p)
    \/ needsUpdate(p) \/ missingNode(p) \/ updateComplete(p) \/ removeRequest(p)
    \/ mustBreak(p) \/ endPass(p) \/ nextPass(p) \/ endFinder(p)

Next == \/ \E r \in Requests : Coro(r) \/ Coroutine(r)
        \/ \E p \in Finders : Finder(p)
        \/ publishLedger
        \/ stopAsync
        \/ Stopping

\* Threads that can run do.  Nobody has to send a request or stop the program.
Fairness == /\ \A r \in Requests : WF_vars(Coroutine(r))
            /\ \A p \in Finders : WF_vars(Finder(p))
            /\ WF_vars(Stopping)

Spec == Init /\ [][Next]_vars /\ Fairness

-----------------------------------------------------------------------------
(* Properties.                                                             *)

\* The variables have their types.
TypeOK ==
    /\ seg \in [Requests -> {"none", "created", "rejected", "body", "inserted", "yield",
                             "yielded", "suspended", "answered", "return", "finished"}]
    /\ \A r \in Requests, k \in Carriers :
           carrier[r][k] \in {"none", "queued", "begun", "on", "ended", "done"}
    /\ nSuspend \in -Cardinality(Requests) .. Cardinality(Requests)
    /\ requests \subseteq Requests
    /\ threads \in 0 .. 2
    /\ \A p \in Finders : todo[p] \subseteq Requests

\* JobQueue.h: the lock prevents the coroutine from running in two threads,
\* also when the post comes before the yield.
OneThread ==
    \A r \in Requests : Cardinality({k \in Carriers : carrier[r][k] = "on"}) <= 1

\* nSuspend_ counts the coroutines that have yielded and whose next resume
\* has not begun; a resume that comes before the yield counts against it.
SuspensionsCounted ==
    nSuspend = Cardinality({r \in Requests :
                              \/ seg[r] \in {"created", "yielded", "suspended"}
                              \/ seg[r] = "body" /\ carrier[r]["first"] = "queued"})
             - Cardinality({r \in Requests :
                              /\ seg[r] \in {"inserted", "yield", "yielded", "suspended"}
                              /\ \E k \in {"again", "inline"} : carrier[r][k] = "begun"})

\* mPathFindThread counts the path finding jobs, except those the stop ended.
FindersCounted ==
    ~isStopping => threads = Cardinality({p \in Finders : pc[p] \notin {"none", "ended"}})

\* When the job queue says that it stopped no coroutine is left suspended.
StoppedNoCoroutine ==
    is_stopping => \A r \in Requests : seg[r] \in {"none", "rejected", "finished"}

\* JobQueue.h: resume() after the coroutine has returned is undefined.
ResumesRunnable ==
    \A r \in Requests, k \in Carriers :
        carrier[r][k] \in {"queued", "begun"} => seg[r] \notin {"return", "finished"}

\* PathRequest.cpp: a request is in progress because another thread is
\* handling it.
InProgressIsHandled ==
    \A r \in Requests : inProgress[r] /\ ~completed[r] => \E p \in Finders : item[p] = r

\* Every request that asked for paths is answered.
RequestsAnswered ==
    \A r \in Requests : (seg[r] = "suspended") ~> (seg[r] = "finished")

\* A stop that was asked for comes to its end.
StopReturns == (stopper = "called") ~> (stopper = "stopped")
=============================================================================
