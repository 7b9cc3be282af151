--------------------------- MODULE ValidatorSite ----------------------------
(***************************************************************************)
(* The fetching of validator lists from sites (ValidatorSite.cpp).  One    *)
(* timer_ serves the wait for the next refresh and the limit on a request; *)
(* its handlers, the completion of a request and stop() run on different   *)
(* threads under two mutexes.  A step is what a thread does between two    *)
(* locks: whoever is in makeRequest holds sites_mutex_, and the completion *)
(* that sets the timer holds state_mutex_.                                 *)
(*                                                                         *)
(* nextRefresh is the number of ticks left until it.  Cancelling or moving *)
(* the timer aborts the wait pending on it, and the handler of an aborted  *)
(* wait does nothing; a wait that has expired is due, and its handler runs *)
(* whatever becomes of the timer.                                          *)
(***************************************************************************)
EXTENDS Integers, FiniteSets

CONSTANTS Sites,          \* indices of sites_
          refreshInterval, error_retry_interval, requestTimeout_,  \* in ticks
          max_redirects,
          MayStop,        \* is stop() called
          MaxOverdue      \* how late a refresh is counted to be, in ticks

VARIABLES timer,          \* the wait pending on timer_
          due,            \* handlers of waits that have expired
          maker,          \* the thread in makeRequest
          completion,     \* the thread in onSiteFetch or onTextFetch
          timingOut,      \* onRequestTimeout has let go of sites_mutex_
          work_, fetching_, stopping_, pending_,
          activeResource, nextRefresh, redirCount,
          stop,           \* the call of stop()
          raced,          \* history: a refresh was under way unseen when stop() returned
          crashed         \* activeResource was used after its reset

handlers == <<maker, completion, timingOut>>
flags == <<fetching_, stopping_, pending_>>
sites_ == <<activeResource, nextRefresh, redirCount>>
siteVars == <<timer, due, handlers, work_, flags, sites_, stop, raced, crashed>>

SiteAssumption ==
    /\ Sites \subseteq Nat /\ Sites # {} /\ IsFiniteSet(Sites)
    /\ refreshInterval \in Nat \ {0} /\ error_retry_interval \in Nat \ {0}
    /\ requestTimeout_ \in Nat \ {0} /\ max_redirects \in Nat /\ MaxOverdue \in Nat

Off == [kind |-> "off", site |-> 0, left |-> 0]
Idle == [at |-> "idle", site |-> 0, result |-> "none"]
Wait(kind, s, left) == [kind |-> kind, site |-> s, left |-> left]
Thread(at, s, result) == [at |-> at, site |-> s, result |-> result]

SiteInit ==
    /\ timer = Off /\ due = {}
    /\ maker = Idle /\ completion = Idle /\ timingOut = FALSE
    /\ work_ = Idle /\ fetching_ = FALSE /\ stopping_ = FALSE /\ pending_ = FALSE
    /\ activeResource = [s \in Sites |-> FALSE]
    /\ nextRefresh = [s \in Sites |-> 0] /\ redirCount = [s \in Sites |-> 0]
    /\ stop = "start" /\ raced = FALSE /\ crashed = FALSE

sites_mutex_ == maker.at = "idle"           \* free
state_mutex_ == completion.at # "setTimer"  \* free

-----------------------------------------------------------------------------
Larger(a, b) == IF a > b THEN a ELSE b

\* The site to refresh first: the lowest index among those that wait least.
NextSite ==
    CHOOSE s \in Sites : \A t \in Sites :
        nextRefresh[s] < nextRefresh[t] \/ (nextRefresh[s] = nextRefresh[t] /\ s <= t)

setTimer ==
    /\ pending_' = (nextRefresh[NextSite] <= 0)
    /\ timer' = Wait("refresh", NextSite, Larger(0, nextRefresh[NextSite]))

start ==
    /\ stop = "start" /\ stop' = "no"
    /\ setTimer
    /\ UNCHANGED <<due, handlers, work_, fetching_, stopping_, sites_, raced, crashed>>

\* Under sites_mutex_, which the call of makeRequest keeps.
onTimer(s) ==
    /\ <<"refresh", s>> \in due /\ sites_mutex_
    /\ due' = due \ {<<"refresh", s>>}
    /\ nextRefresh' = [nextRefresh EXCEPT ![s] = refreshInterval]
    /\ redirCount' = [redirCount EXCEPT ![s] = 0]
    /\ maker' = Thread("begin", s, "start")
    /\ UNCHANGED <<timer, completion, timingOut, work_, flags, activeResource, stop, raced, crashed>>

\* The request runs from here on; its limit is not set yet.
makeRequest ==
    /\ maker.at = "begin"
    /\ fetching_' = TRUE
    /\ activeResource' = [activeResource EXCEPT ![maker.site] = TRUE]
    /\ work_' = Thread("running", maker.site, "none")
    /\ maker' = [maker EXCEPT !.at = "arm"]
    /\ UNCHANGED <<timer, due, completion, timingOut, stopping_, pending_, nextRefresh, redirCount,
                   stop, raced, crashed>>

\* The SSL client throws: onTimer calls onSiteFetch with an error, and onSiteFetch,
\* when the request was a redirect, ends as after any other exception.
makeRequestThrows ==
    /\ maker.at = "begin"
    /\ fetching_' = TRUE
    /\ activeResource' = [activeResource EXCEPT ![maker.site] = (maker.result = "start")]
    /\ completion' = Thread(IF maker.result = "start" THEN "fetch" ELSE "state", maker.site, "error")
    /\ maker' = Idle
    /\ UNCHANGED <<timer, due, timingOut, work_, stopping_, pending_, nextRefresh, redirCount,
                   stop, raced, crashed>>

limitRequest ==
    /\ maker.at = "arm" /\ state_mutex_
    /\ timer' = Wait("request", maker.site, requestTimeout_)
    /\ maker' = Idle
    /\ UNCHANGED <<due, completion, timingOut, work_, flags, sites_, stop, raced, crashed>>

\* The limit, also when it expired just before the request it was for completed:
\* the warning names the resource of the request.
onRequestTimeout(s) ==
    /\ <<"request", s>> \in due /\ sites_mutex_ /\ ~timingOut
    /\ due' = due \ {<<"request", s>>}
    /\ IF activeResource[s] THEN timingOut' = TRUE /\ UNCHANGED crashed
                            ELSE crashed' = TRUE /\ UNCHANGED timingOut
    /\ UNCHANGED <<timer, maker, completion, work_, flags, sites_, stop, raced>>

\* A work that has completed is not there to be cancelled.
Cancelled == IF work_.at = "running" THEN [work_ EXCEPT !.at = "cancelled"] ELSE work_

cancelRequest ==
    /\ timingOut /\ state_mutex_
    /\ timingOut' = FALSE
    /\ work_' = Cancelled
    /\ UNCHANGED <<timer, due, maker, completion, flags, sites_, stop, raced, crashed>>

\* The work calls back: with an error when it was cancelled.
Completes(result) ==
    /\ work_.at = "running" \/ (work_.at = "cancelled" /\ result = "error")
    /\ completion' = Thread("cancel", work_.site, result)
    /\ work_' = Idle
    /\ UNCHANGED <<timer, due, maker, timingOut, flags, sites_, stop, raced, crashed>>

timeoutCancel ==
    /\ completion.at = "cancel" /\ state_mutex_
    /\ timer' = Off
    /\ completion' = [completion EXCEPT !.at = "fetch"]
    /\ UNCHANGED <<due, maker, timingOut, work_, flags, sites_, stop, raced, crashed>>

Follows(s) == redirCount[s] # max_redirects

\* A redirect goes on to the end of the fetch as well.
onSiteFetchFallsThrough ==
    LET s == completion.site IN
    /\ completion.at = "fetch" /\ sites_mutex_
    /\ maker' = IF completion.result = "redirect" /\ Follows(s) THEN Thread("begin", s, "redirect")
                                                                ELSE maker
    /\ completion' = [completion EXCEPT !.at = "state"]
    /\ UNCHANGED <<timer, due, timingOut, work_, flags, sites_, stop, raced, crashed>>

\* The part of onSiteFetch and onTextFetch under sites_mutex_.
onSiteFetch ==
    LET s == completion.site IN
    /\ completion.at = "fetch" /\ sites_mutex_
    /\ IF completion.result = "redirect" /\ Follows(s)
       THEN /\ redirCount' = [redirCount EXCEPT ![s] = @ + 1]
            /\ maker' = Thread("begin", s, "redirect")
            /\ completion' = Idle
            /\ UNCHANGED <<activeResource, nextRefresh>>
       ELSE /\ activeResource' = [activeResource EXCEPT ![s] = FALSE]
            /\ nextRefresh' = [nextRefresh EXCEPT ![s] =
                 IF completion.result = "error" THEN error_retry_interval
                 ELSE IF completion.result = "interval" THEN refreshInterval ELSE @]
            /\ completion' = [completion EXCEPT !.at = "state"]
            /\ UNCHANGED <<redirCount, maker>>
    /\ UNCHANGED <<timer, due, timingOut, work_, flags, stop, raced, crashed>>

\* The part under state_mutex_, which the call of setTimer keeps.
fetchEnds ==
    /\ completion.at = "state" /\ state_mutex_
    /\ fetching_' = FALSE
    /\ completion' = IF stopping_ THEN Idle ELSE [completion EXCEPT !.at = "setTimer"]
    /\ UNCHANGED <<timer, due, maker, timingOut, work_, stopping_, pending_, sites_, stop, raced,
                   crashed>>

setsTimer ==
    /\ completion.at = "setTimer" /\ sites_mutex_
    /\ setTimer
    /\ completion' = Idle
    /\ UNCHANGED <<due, maker, timingOut, work_, fetching_, stopping_, sites_, stop, raced, crashed>>

stopBegins ==
    /\ MayStop /\ stop = "no" /\ state_mutex_
    /\ stop' = "waiting" /\ stopping_' = TRUE
    /\ work_' = Cancelled
    /\ UNCHANGED <<timer, due, handlers, fetching_, pending_, sites_, raced, crashed>>

\* A refresh that onTimer has not yet marked in fetching_.
Unseen == (\E s \in Sites : <<"refresh", s>> \in due) \/ maker.at = "begin"

stopEnds ==
    /\ stop = "waiting" /\ state_mutex_ /\ ~fetching_
    /\ stop' = "stopped" /\ stopping_' = FALSE /\ pending_' = FALSE
    /\ timer' = Off
    /\ raced' = Unseen
    /\ UNCHANGED <<due, handlers, work_, fetching_, sites_, crashed>>

-----------------------------------------------------------------------------
(* The clock and the timer service.                                        *)

\* Lateness is counted up to MaxOverdue; who has waited longer stays so.
Sooner(s) == {t \in Sites : nextRefresh[t] < nextRefresh[s]}

Tick ==
    /\ timer' = [timer EXCEPT !.left = Larger(0, @ - 1)]
    /\ nextRefresh' = [s \in Sites |->
                         Larger(Cardinality(Sooner(s)) - MaxOverdue, nextRefresh[s] - 1)]
    /\ UNCHANGED <<due, handlers, work_, flags, activeResource, redirCount, stop, raced, crashed>>

Expires ==
    /\ timer.kind # "off" /\ timer.left = 0
    /\ timer' = Off
    /\ due' = due \cup {<<timer.kind, timer.site>>}
    /\ UNCHANGED <<handlers, work_, flags, sites_, stop, raced, crashed>>

\* "list": applied, refused or unreadable, and the time of the next refresh stays;
\* "interval": the list sets it; "error": a failure that is retried soon.
Results == {"list", "interval", "redirect", "error"}

SiteNext ==
    /\ ~crashed
    /\ \/ start \/ stopBegins \/ stopEnds
       \/ Tick \/ Expires
       \/ \E s \in Sites : onTimer(s) \/ onRequestTimeout(s)
       \/ makeRequest \/ makeRequestThrows \/ limitRequest \/ cancelRequest
       \/ \E r \in Results : Completes(r)
       \/ timeoutCancel \/ onSiteFetch \/ fetchEnds \/ setsTimer

\* What goes on without being asked: time, the threads of the io service, stop(); and
\* a request that was cancelled calls back.  One that was not may take forever.
Clock == ~crashed /\ (Tick \/ Expires)
RequestLimit == ~crashed /\ (cancelRequest \/ \E s \in Sites : onRequestTimeout(s))
StopCall == ~crashed /\ stopEnds
Handler ==
    /\ ~crashed
    /\ \/ \E s \in Sites : onTimer(s)
       \/ makeRequest \/ makeRequestThrows \/ limitRequest
       \/ work_.at = "cancelled" /\ Completes("error")
       \/ timeoutCancel \/ onSiteFetch \/ fetchEnds \/ setsTimer

SiteFairness == WF_siteVars(Clock) /\ WF_siteVars(RequestLimit) /\ WF_siteVars(StopCall) /\ WF_siteVars(Handler)

SiteSpec == SiteInit /\ [][SiteNext]_siteVars /\ SiteFairness

-----------------------------------------------------------------------------
SiteTypeOK ==
    /\ timer \in [kind : {"off", "refresh", "request"}, site : Sites \cup {0}, left : Nat]
    /\ due \subseteq {"refresh", "request"} \X Sites
    /\ {maker, completion, work_} \subseteq
         [at : {"idle", "begin", "arm", "cancel", "fetch", "state", "setTimer", "running", "cancelled"},
          site : Sites \cup {0}, result : Results \cup {"none", "start"}]
    /\ {timingOut, fetching_, stopping_, pending_, raced, crashed} \subseteq BOOLEAN
    /\ activeResource \in [Sites -> BOOLEAN] /\ nextRefresh \in [Sites -> Int]
    /\ redirCount \in [Sites -> 0 .. max_redirects]
    /\ stop \in {"start", "no", "waiting", "stopped"}

Fetching == maker.at # "idle" \/ work_.at # "idle" \/ completion.at # "idle"

Refreshing == {w \in {<<timer.kind, timer.site>>} \cup due : w[1] = "refresh"}

\* The one timer that all share is never lost nor set twice: from start() to stop()
\* exactly one thing is going on, the wait for a refresh, its handler on its way, or
\* one fetch; and a fetch has one request, which a redirect replaces.
OneThing ==
    /\ ~(work_.at # "idle" /\ completion.at # "idle")
    /\ Fetching => Refreshing = {}
    /\ Cardinality(Refreshing) <= 1
    /\ stop = "no" /\ ~crashed => Fetching \/ Refreshing # {}

\* makeRequest takes state_mutex_ under sites_mutex_ and setTimer takes them in the
\* other order.  The two never meet: no completion sets the timer while makeRequest runs.
NoLockCycle == ~(maker.at = "arm" /\ completion.at = "setTimer")

\* A completion finds the resource of its request, in whichever order the request,
\* its redirects and their limits were handled.
CompletionHasResource == completion.at = "fetch" => activeResource[completion.site]

\* "This blocks until list fetching has stopped": after stop() no refresh is waited
\* for and nothing is fetched, unless the handler of a refresh had not come to
\* makeRequest when stop() looked at fetching_.
StopEnds == stop = "stopped" /\ ~raced => ~Fetching /\ Refreshing = {}

\* One chain of waits and fetches runs from start() to stop(): the four above.
OneChain == OneThing /\ NoLockCycle /\ CompletionHasResource /\ StopEnds

FetchOver == stop # "no" \/ crashed
Asked(s) == maker.at = "begin" /\ maker.site = s

\* As long as the server runs every site is asked again and again, whatever the
\* sites answer and however long they take: none that fails, redirects or is slow
\* keeps the others from their turn.
EachRefreshed ==
    \A s \in Sites : stop = "no" ~> FetchOver \/ Asked(s)

\* stop() returns: the request it waits for is cancelled, or its limit ends it.
FetchStopReturns == stop = "waiting" ~> stop = "stopped" \/ crashed
=============================================================================
