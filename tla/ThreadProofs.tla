---------------------------- MODULE ThreadProofs ----------------------------
(***************************************************************************)
(* Proofs about two parts whose threads share a little state under locks   *)
(* that they let go of: the saves of validated ledgers, for any number of  *)
(* threads, ledgers and waiting jobs, and the fetching of validator lists, *)
(* for any sites, intervals and limits, in any interleaving of the timer,  *)
(* the requests and stop().                                                *)
(***************************************************************************)
EXTENDS PendingSaves, ValidatorSite, FiniteSetTheorems, WellFoundedInduction, TLAPS

-----------------------------------------------------------------------------
(* The saves of ledgers (PendingSaves).                                    *)
(*                                                                         *)
(* OneSaver counts savers, which an induction cannot carry; the invariant  *)
(* below says the same without a count: two savers of a sequence are the   *)
(* same thread, and the entry is "working" exactly while there is one.     *)

\* No two threads are inside saveValidatedLedger for one sequence.
UniqueSaver ==
    \A t, u \in SaveThreads : Saving(t) /\ Saving(u) /\ seq(t) = seq(u) => t = u

\* The entry of a sequence says "in progress" exactly while a thread saves it.
WorkingIsSaved ==
    \A s \in Seqs : saves[s] = "working" <=> \E t \in SaveThreads : Saving(t) /\ seq(t) = s

SavesInv ==
    SavesTypeOK /\ UniqueSaver /\ WorkingIsSaved /\ ScheduledHasOwner /\ WaitersHaveSaver

-----------------------------------------------------------------------------
(* The facts about one step that the invariant rests on.                   *)

\* The table, the threads and the queue keep their types: no thread is inside a call
\* without a ledger.
LEMMA TypeStep ==
    ASSUME SavesAssumption, SavesTypeOK, [SavesNext]_savesVars
    PROVE  SavesTypeOK'
<1> USE DEF SavesTypeOK, Labels, call, Goto, seq, Seqs, SaveThreads
<1>1. ASSUME NEW t \in Callers, NEW l \in Ledgers, NEW s \in BOOLEAN, PendSave(t, l, s)
      PROVE  SavesTypeOK'
  BY <1>1, SMTT(60) DEF PendSave, SavesAssumption
<1>2. ASSUME NEW t \in Workers, NEW l \in Ledgers, RunJob(t, l)
      PROVE  SavesTypeOK'
  BY <1>2, SMTT(60) DEF RunJob, SavesAssumption
<1>3. ASSUME NEW t \in SaveThreads, Step(t)
      PROVE  SavesTypeOK'
  <2> led[t] \in Ledgers /\ seq(t) \in Seqs
    BY <1>3 DEF Step, pending, shouldWork, Dispatch, startWork, failedSave, DeleteRow,
                InsertRow, finishWork, Return
  <2>1. CASE pending(t)
    BY <2>1, SMTT(60) DEF pending, SavesAssumption
  <2>2. CASE shouldWork(t)
    BY <2>2, SMTT(60) DEF shouldWork, SavesAssumption
  <2>3. CASE Dispatch(t)
    BY <2>3, SMTT(60) DEF Dispatch, SavesAssumption
  <2>4. CASE startWork(t)
    BY <2>4, SMTT(60) DEF startWork, SavesAssumption
  <2>5. CASE failedSave(t)
    BY <2>5, SMTT(60) DEF failedSave, SavesAssumption
  <2>6. CASE DeleteRow(t)
    BY <2>6, SMTT(60) DEF DeleteRow, SavesAssumption
  <2>7. CASE InsertRow(t)
    BY <2>7, SMTT(60) DEF InsertRow, SavesAssumption
  <2>8. CASE finishWork(t)
    BY <2>8, SMTT(60) DEF finishWork, SavesAssumption
  <2>9. CASE Return(t)
    BY <2>9, SMTT(60) DEF Return, SavesAssumption
  <2> QED BY <1>3, <2>1, <2>2, <2>3, <2>4, <2>5, <2>6, <2>7, <2>8, <2>9, ZenonT(40) DEF Step
<1>4. ASSUME NEW l \in Ledgers, ExpireFlag(l)
      PROVE  SavesTypeOK'
  BY <1>4 DEF ExpireFlag, SavesAssumption
<1>5. CASE UNCHANGED savesVars
  BY <1>5 DEF savesVars
<1> QED BY <1>1, <1>2, <1>3, <1>4, <1>5, ZenonT(40) DEF SavesNext

\* Two savers of one sequence are the same thread: startWork turns a scheduled entry
\* into a working one, and a thread that finds it working does not start.
LEMMA UniqueStep ==
    ASSUME SavesAssumption, SavesInv, SavesTypeOK', [SavesNext]_savesVars
    PROVE  UniqueSaver'
<1> USE DEF SavesInv, UniqueSaver, SavesTypeOK, Saving, call, Goto, seq
<1>1. ASSUME NEW t \in Callers, NEW l \in Ledgers, NEW s \in BOOLEAN, PendSave(t, l, s)
      PROVE  UniqueSaver'
  BY <1>1, SMTT(60) DEF PendSave, SaveThreads
<1>2. ASSUME NEW t \in Workers, NEW l \in Ledgers, RunJob(t, l)
      PROVE  UniqueSaver'
  BY <1>2, SMTT(60) DEF RunJob, SaveThreads
<1>3. ASSUME NEW t \in SaveThreads, Step(t)
      PROVE  UniqueSaver'
  <2>1. CASE pending(t)
    BY <2>1, SMTT(60) DEF pending
  <2>2. CASE shouldWork(t)
    BY <2>2, SMTT(60) DEF shouldWork
  <2>3. CASE Dispatch(t)
    BY <2>3, SMTT(60) DEF Dispatch
  <2>4. CASE startWork(t)
    <3>1. seq(t) \in Seqs
      BY <2>4 DEF startWork, Seqs
    <3> QED BY <2>4, <3>1, SMTT(60) DEF startWork, WorkingIsSaved
  <2>5. CASE failedSave(t)
    BY <2>5, SMTT(60) DEF failedSave
  <2>6. CASE DeleteRow(t)
    BY <2>6, SMTT(60) DEF DeleteRow
  <2>7. CASE InsertRow(t)
    BY <2>7, SMTT(60) DEF InsertRow
  <2>8. CASE finishWork(t)
    BY <2>8, SMTT(60) DEF finishWork
  <2>9. CASE Return(t)
    BY <2>9, SMTT(60) DEF Return
  <2> QED BY <1>3, <2>1, <2>2, <2>3, <2>4, <2>5, <2>6, <2>7, <2>8, <2>9 DEF Step
<1>4. ASSUME NEW l \in Ledgers, ExpireFlag(l)
      PROVE  UniqueSaver'
  BY <1>4 DEF ExpireFlag
<1>5. CASE UNCHANGED savesVars
  BY <1>5 DEF savesVars
<1> QED BY <1>1, <1>2, <1>3, <1>4, <1>5 DEF SavesNext

\* An entry says "in progress" exactly while a thread saves: startWork sets it, only
\* the finishWork of that thread erases it.
LEMMA WorkingStep ==
    ASSUME SavesAssumption, SavesInv, SavesTypeOK', [SavesNext]_savesVars
    PROVE  WorkingIsSaved'
<1> USE DEF SavesInv, SavesTypeOK, WorkingIsSaved, Saving, call, Goto, seq
<1>1. ASSUME NEW t \in Callers, NEW l \in Ledgers, NEW s \in BOOLEAN, PendSave(t, l, s)
      PROVE  WorkingIsSaved'
  BY <1>1, SMTT(60) DEF PendSave, SaveThreads
<1>2. ASSUME NEW t \in Workers, NEW l \in Ledgers, RunJob(t, l)
      PROVE  WorkingIsSaved'
  BY <1>2, SMTT(60) DEF RunJob, SaveThreads
<1>3. ASSUME NEW t \in SaveThreads, Step(t)
      PROVE  WorkingIsSaved'
  <2>0. led[t] \in Ledgers /\ seq(t) \in Seqs
    BY <1>3, SMTT(30) DEF Step, pending, shouldWork, Dispatch, startWork, failedSave, DeleteRow,
                InsertRow, finishWork, Return, Seqs
  <2>1. CASE pending(t)
    BY <2>0, <2>1, SMTT(60) DEF pending
  <2>2. CASE shouldWork(t)
    BY <2>0, <2>2, SMTT(60) DEF shouldWork
  <2>3. CASE Dispatch(t)
    BY <2>0, <2>3, SMTT(60) DEF Dispatch
  <2>4. CASE startWork(t)
    BY <2>0, <2>4, SMTT(60) DEF startWork
  <2>5. CASE failedSave(t)
    BY <2>0, <2>5, SMTT(60) DEF failedSave
  <2>6. CASE DeleteRow(t)
    BY <2>0, <2>6, SMTT(60) DEF DeleteRow
  <2>7. CASE InsertRow(t)
    BY <2>0, <2>7, SMTT(60) DEF InsertRow
  <2>8. CASE finishWork(t)
    BY <2>0, <2>8, SMTT(60) DEF finishWork, UniqueSaver
  <2>9. CASE Return(t)
    BY <2>0, <2>9, SMTT(60) DEF Return
  <2> QED BY <1>3, <2>1, <2>2, <2>3, <2>4, <2>5, <2>6, <2>7, <2>8, <2>9 DEF Step
<1>4. ASSUME NEW l \in Ledgers, ExpireFlag(l)
      PROVE  WorkingIsSaved'
  BY <1>4 DEF ExpireFlag
<1>5. CASE UNCHANGED savesVars
  BY <1>5 DEF savesVars
<1> QED BY <1>1, <1>2, <1>3, <1>4, <1>5 DEF SavesNext

\* A scheduled entry keeps an owner: the thread that scheduled it hands it to a job or
\* starts itself, and a job that is taken becomes a thread about to start.
LEMMA ScheduledStep ==
    ASSUME SavesAssumption, SavesInv, SavesTypeOK', [SavesNext]_savesVars
    PROVE  ScheduledHasOwner'
<1> USE DEF SavesInv, SavesTypeOK, ScheduledHasOwner, WillStart, call, Goto, seq
<1>1. ASSUME NEW t \in Callers, NEW l \in Ledgers, NEW s \in BOOLEAN, PendSave(t, l, s)
      PROVE  ScheduledHasOwner'
  BY <1>1, SMTT(60) DEF PendSave, SaveThreads
<1>2. ASSUME NEW t \in Workers, NEW l \in Ledgers, RunJob(t, l)
      PROVE  ScheduledHasOwner'
  BY <1>2, SMTT(60) DEF RunJob, SaveThreads
<1>3. ASSUME NEW t \in SaveThreads, Step(t)
      PROVE  ScheduledHasOwner'
  <2>0. led[t] \in Ledgers /\ seq(t) \in Seqs
    BY <1>3, SMTT(30) DEF Step, pending, shouldWork, Dispatch, startWork, failedSave, DeleteRow,
                InsertRow, finishWork, Return, Seqs
  <2>1. CASE pending(t)
    BY <2>0, <2>1, SMTT(60) DEF pending
  <2>2. CASE shouldWork(t)
    BY <2>0, <2>2, SMTT(60) DEF shouldWork
  <2>3. CASE Dispatch(t)
    BY <2>0, <2>3, SMTT(60) DEF Dispatch
  <2>4. CASE startWork(t)
    BY <2>0, <2>4, SMTT(60) DEF startWork
  <2>5. CASE failedSave(t)
    BY <2>0, <2>5, SMTT(60) DEF failedSave
  <2>6. CASE DeleteRow(t)
    BY <2>0, <2>6, SMTT(60) DEF DeleteRow
  <2>7. CASE InsertRow(t)
    BY <2>0, <2>7, SMTT(60) DEF InsertRow
  <2>8. CASE finishWork(t)
    BY <2>0, <2>8, SMTT(60) DEF finishWork
  <2>9. CASE Return(t)
    BY <2>0, <2>9, SMTT(60) DEF Return
  <2> QED BY <1>3, <2>1, <2>2, <2>3, <2>4, <2>5, <2>6, <2>7, <2>8, <2>9, SMTT(30) DEF Step
<1>4. ASSUME NEW l \in Ledgers, ExpireFlag(l)
      PROVE  ScheduledHasOwner'
  BY <1>4 DEF ExpireFlag
<1>5. CASE UNCHANGED savesVars
  BY <1>5 DEF savesVars
<1> QED BY <1>1, <1>2, <1>3, <1>4, <1>5 DEF SavesNext

\* A thread waits only for a save in progress, and is woken when it is over.
LEMMA WaitersStep ==
    ASSUME SavesAssumption, SavesInv, SavesTypeOK', [SavesNext]_savesVars
    PROVE  WaitersHaveSaver'
<1> USE DEF SavesInv, SavesTypeOK, WaitersHaveSaver, Saving, call, Goto, seq
<1>1. ASSUME NEW t \in Callers, NEW l \in Ledgers, NEW s \in BOOLEAN, PendSave(t, l, s)
      PROVE  WaitersHaveSaver'
  BY <1>1, SMTT(60) DEF PendSave, SaveThreads
<1>2. ASSUME NEW t \in Workers, NEW l \in Ledgers, RunJob(t, l)
      PROVE  WaitersHaveSaver'
  BY <1>2, SMTT(60) DEF RunJob, SaveThreads
<1>3. ASSUME NEW t \in SaveThreads, Step(t)
      PROVE  WaitersHaveSaver'
  <2>0. led[t] \in Ledgers /\ seq(t) \in Seqs
    BY <1>3, ZenonT(40) DEF Step, pending, shouldWork, Dispatch, startWork, failedSave, DeleteRow,
                InsertRow, finishWork, Return, Seqs
  <2>1. CASE pending(t)
    BY <2>0, <2>1, SMTT(60) DEF pending
  <2>2. CASE shouldWork(t)
    <3> SUFFICES ASSUME NEW u \in SaveThreads, saverAt'[u] = "waiting"
                 PROVE  (saves[seq(u)] = "working")'
      OBVIOUS
    <3>1. CASE u = t
      BY <2>0, <2>2, <3>1 DEF shouldWork
    <3>2. CASE u # t
      <4>1. saverAt[u] = "waiting" /\ seq(u)' = seq(u) /\ saves[seq(u)] = "working" /\ seq(u) \in Seqs
        BY <2>2, <3>2 DEF shouldWork, Seqs
      <4> QED BY <2>0, <2>2, <4>1, SMTT(30) DEF shouldWork
    <3> QED BY <3>1, <3>2
  <2>3. CASE Dispatch(t)
    BY <2>0, <2>3, SMTT(60) DEF Dispatch
  <2>4. CASE startWork(t)
    <3> SUFFICES ASSUME NEW u \in SaveThreads, saverAt'[u] = "waiting"
                 PROVE  (saves[seq(u)] = "working")'
      OBVIOUS
    <3>1. CASE u = t
      BY <2>0, <2>4, <3>1 DEF startWork
    <3>2. CASE u # t
      <4>1. saverAt[u] = "waiting" /\ seq(u)' = seq(u) /\ saves[seq(u)] = "working" /\ seq(u) \in Seqs
        BY <2>4, <3>2 DEF startWork, Seqs
      <4> QED BY <2>0, <2>4, <4>1 DEF startWork
    <3> QED BY <3>1, <3>2
  <2>5. CASE failedSave(t)
    BY <2>0, <2>5, SMTT(60) DEF failedSave
  <2>6. CASE DeleteRow(t)
    BY <2>0, <2>6, SMTT(60) DEF DeleteRow
  <2>7. CASE InsertRow(t)
    BY <2>0, <2>7, SMTT(60) DEF InsertRow
  <2>8. CASE finishWork(t)
    BY <2>0, <2>8, SMTT(60) DEF finishWork
  <2>9. CASE Return(t)
    BY <2>0, <2>9, SMTT(60) DEF Return
  <2> QED BY <1>3, <2>1, <2>2, <2>3, <2>4, <2>5, <2>6, <2>7, <2>8, <2>9 DEF Step
<1>4. ASSUME NEW l \in Ledgers, ExpireFlag(l)
      PROVE  WaitersHaveSaver'
  BY <1>4 DEF ExpireFlag
<1>5. CASE UNCHANGED savesVars
  BY <1>5 DEF savesVars
<1> QED BY <1>1, <1>2, <1>3, <1>4, <1>5 DEF SavesNext

\* Nothing is pending, and nobody waits, when the server starts.
LEMMA SavesInitially ==
    ASSUME SavesAssumption
    PROVE  SavesInit => SavesInv
  BY SMTT(60) DEF SavesInit, SavesInv, SavesAssumption, SavesTypeOK, UniqueSaver, WorkingIsSaved,
                  ScheduledHasOwner, WaitersHaveSaver, Saving, Labels

\* The invariant is inductive.
LEMMA SavesInductive ==
    ASSUME SavesAssumption, SavesInv, [SavesNext]_savesVars
    PROVE  SavesInv'
<1>1. SavesTypeOK'
  BY TypeStep DEF SavesInv
<1> QED BY <1>1, UniqueStep, WorkingStep, ScheduledStep, WaitersStep DEF SavesInv

\* Counting the savers of a sequence adds nothing: at most one is one thread or none.
LEMMA SaversCounted ==
    ASSUME SavesInv
    PROVE  SavesOwned
<1>1. ASSUME NEW s \in Seqs
      PROVE  Cardinality({t \in SaveThreads : Saving(t) /\ seq(t) = s}) <= 1
  <2> DEFINE savers == {t \in SaveThreads : Saving(t) /\ seq(t) = s}
  <2>1. CASE savers = {}
    BY <2>1, FS_EmptySet
  <2>2. CASE savers # {}
    <3>1. PICK t \in savers : TRUE
      BY <2>2
    <3>2. savers = {t}
      BY <3>1 DEF SavesInv, UniqueSaver
    <3> QED BY <3>2, FS_Singleton
  <2> QED BY <2>1, <2>2
<1>2. OneSaver
  BY <1>1 DEF SavesInv, OneSaver, WorkingIsSaved
<1> QED BY <1>2 DEF SavesInv, SavesOwned

-----------------------------------------------------------------------------

\* The save of a sequence is in the hands of one thread at a time, a scheduled one is
\* in somebody's hands, and whoever waits waits for a save in progress, however many
\* threads publish and fetch and whatever the job queue refuses (PendingSaves.h,
\* pendSaveValidated).
THEOREM SavesAreOwned ==
    ASSUME SavesAssumption
    PROVE  SavesSpec => []SavesOwned
<1>1. SavesInit => SavesInv
  BY SavesInitially
<1>2. SavesInv /\ [SavesNext]_savesVars => SavesInv'
  BY SavesInductive
<1>3. SavesInv => SavesOwned
  BY SaversCounted
<1> QED BY <1>1, <1>2, <1>3, PTL DEF SavesSpec

\* The only thread inside saveValidatedLedger for the sequence, while the entry says so.
OnlySaver(t, s) ==
    /\ Saving(t) /\ seq(t) = s /\ saves[s] = "working"
    /\ \A u \in SaveThreads : Saving(u) /\ seq(u) = s => u = t

\* A row of the Ledgers table is written by the one thread that saves its sequence,
\* while the entry says that the save is in progress: a reader that finds no entry
\* never sees the table between the DELETE and the INSERT.
RowOfSaver ==
    [][\A s \in Seqs : row'[s] # row[s] => \E t \in SaveThreads : OnlySaver(t, s)]_savesVars

\* The DELETE and the INSERT of saveValidatedLedger are never those of two threads, for
\* any number of threads, ledgers and waiting jobs (Ledger.cpp, PendingSaves.h).
THEOREM RowsHaveOneWriter ==
    ASSUME SavesAssumption
    PROVE  SavesSpec => RowOfSaver
<1>1. SavesInit => SavesInv
  BY SavesInitially
<1>2. SavesInv /\ [SavesNext]_savesVars => SavesInv'
  BY SavesInductive
<1>3. SavesInv /\ [SavesNext]_savesVars
      => [\A s \in Seqs : row'[s] # row[s] => \E t \in SaveThreads : OnlySaver(t, s)]_savesVars
  <2> SUFFICES ASSUME SavesInv, [SavesNext]_savesVars, NEW s \in Seqs, row'[s] # row[s]
               PROVE  \E t \in SaveThreads : OnlySaver(t, s)
    OBVIOUS
  <2>1. PICK t \in SaveThreads : DeleteRow(t) \/ InsertRow(t)
    BY DEF SavesNext, savesVars, Step, PendSave, RunJob, ExpireFlag, pending, shouldWork, Dispatch,
           startWork, failedSave, finishWork, Return
  <2>2. Saving(t) /\ seq(t) = s
    BY <2>1, SMTT(30) DEF DeleteRow, InsertRow, Saving, SavesInv, SavesTypeOK
  <2>3. saves[s] = "working" /\ \A u \in SaveThreads : Saving(u) /\ seq(u) = s => u = t
    BY <2>2 DEF SavesInv, WorkingIsSaved, UniqueSaver
  <2> QED BY <2>2, <2>3 DEF OnlySaver
<1> QED BY <1>1, <1>2, <1>3, PTL DEF SavesSpec, RowOfSaver

-----------------------------------------------------------------------------
(* The fetching of validator lists (ValidatorSite).                        *)

SiteShape ==
    /\ timer \in [kind : {"off", "refresh", "request"}, site : Sites \cup {0}, left : Nat]
    /\ timer.kind # "off" => timer.site \in Sites
    /\ due \subseteq {"refresh", "request"} \X Sites
    /\ maker \in [at : {"idle", "begin", "arm"}, site : Sites \cup {0},
                  result : {"none", "start", "redirect"}]
    /\ work_ \in [at : {"idle", "running", "cancelled"}, site : Sites \cup {0}, result : {"none"}]
    /\ completion \in [at : {"idle", "cancel", "fetch", "state", "setTimer"},
                       site : Sites \cup {0}, result : Results \cup {"none"}]
    /\ maker.at # "idle" => maker.site \in Sites
    /\ work_.at # "idle" => work_.site \in Sites
    /\ completion.at # "idle" => completion.site \in Sites
    /\ fetching_ \in BOOLEAN /\ stopping_ \in BOOLEAN /\ raced \in BOOLEAN
    /\ activeResource \in [Sites -> BOOLEAN]
    /\ nextRefresh \in [Sites -> Int] /\ \A s \in Sites : nextRefresh[s] + MaxOverdue \in Nat
    /\ stop \in {"start", "no", "waiting", "stopped"}

\* Where a fetch is: makeRequest has begun; or it has started the request, which may have
\* completed before makeRequest ends but gets no further without sites_mutex_; or it is over.
FetchPlace ==
    /\ maker.at = "begin" => work_.at = "idle" /\ completion.at = "idle"
    /\ maker.at = "arm" => work_.at # "idle" \/ completion.at \in {"cancel", "fetch"}
    /\ work_.at # "idle" => completion.at = "idle"

\* fetching_ is set from the start of a request to the end of its completion.
FetchingShown ==
    maker.at = "arm" \/ work_.at # "idle" \/ completion.at \in {"cancel", "fetch", "state"}
        => fetching_

\* A request that was started and has not been dealt with has its resource.
RequestHasResource ==
    /\ work_.at # "idle" => activeResource[work_.site]
    /\ completion.at \in {"cancel", "fetch"} => activeResource[completion.site]

\* A refresh is waited for, or the handler of its wait is on its way.
RefreshDue == \E s \in Sites : <<"refresh", s>> \in due
RefreshAhead == timer.kind = "refresh" \/ RefreshDue

\* One refresh at a time, and none in a fetch.
OneRefresh ==
    /\ \A s, t \in Sites : <<"refresh", s>> \in due /\ <<"refresh", t>> \in due => s = t
    /\ ~(timer.kind = "refresh" /\ RefreshDue)
    /\ Fetching => ~RefreshAhead

\* What goes on before, until and after stop().
StopPlace ==
    /\ stopping_ => stop = "waiting"
    /\ stop = "start" => ~Fetching /\ ~RefreshAhead
    /\ stop = "no" => Fetching \/ RefreshAhead
    /\ stop = "stopped" /\ ~raced => ~Fetching /\ ~RefreshAhead

SiteInv ==
    /\ SiteShape /\ FetchPlace /\ FetchingShown /\ RequestHasResource /\ OneRefresh /\ StopPlace

-----------------------------------------------------------------------------
(* The site to refresh next.                                               *)

LEMMA LeastOf ==
    ASSUME NEW S \in SUBSET Nat, S # {}
    PROVE  \E x \in S : \A y \in S : x <= y
<1>1. PICK x \in S : \A y \in S : ~(<<y, x>> \in OpToRel(<, Nat))
  BY WFMin, NatLessThanWellFounded, ZenonT(40)
<1>2. ASSUME NEW y \in S PROVE x <= y
  <2> SUFFICES ASSUME ~(x <= y) PROVE FALSE
    OBVIOUS
  <2>1. y < x /\ x \in Nat /\ y \in Nat
    OBVIOUS
  <2>2. <<y, x>> \in OpToRel(<, Nat)
    BY <2>1 DEF OpToRel
  <2> QED BY <1>1, <2>2, ZenonT(40)
<1> QED BY <1>2

LEMMA NextSiteIsSite == ASSUME SiteAssumption, SiteShape PROVE NextSite \in Sites
<1> DEFINE left(s) == nextRefresh[s] + MaxOverdue
           lefts == {left(s) : s \in Sites}
<1>1. lefts \in SUBSET Nat /\ lefts # {}
  <2>1. \A s \in Sites : left(s) \in Nat
    BY DEF SiteShape
  <2>2. Sites # {}
    BY DEF SiteAssumption
  <2> HIDE DEF left
  <2> QED BY <2>1, <2>2
<1>2. PICK m \in lefts : \A n \in lefts : m <= n
  BY <1>1, LeastOf, ZenonT(40)
<1> DEFINE first == {s \in Sites : left(s) = m}
<1>3. first \in SUBSET Nat /\ first # {}
  BY <1>2, ZenonT(40) DEF SiteAssumption
<1>4. PICK s \in first : \A t \in first : s <= t
  BY <1>3, LeastOf, ZenonT(40)
<1>5. ASSUME NEW t \in Sites
      PROVE  nextRefresh[s] < nextRefresh[t] \/ (nextRefresh[s] = nextRefresh[t] /\ s <= t)
  <2>1. /\ nextRefresh[s] \in Int /\ nextRefresh[t] \in Int /\ MaxOverdue \in Nat
        /\ nextRefresh[s] + MaxOverdue = m /\ m <= nextRefresh[t] + MaxOverdue
    BY <1>2, <1>4, <1>5 DEF SiteShape, SiteAssumption
  <2>2. CASE nextRefresh[s] = nextRefresh[t]
    <3>1. t \in first
      BY <2>1, <2>2
    <3> QED BY <1>4, <2>2, <3>1
  <2>3. CASE nextRefresh[s] # nextRefresh[t]
    BY <2>1, <2>3
  <2> QED BY <2>2, <2>3
<1>6. s \in Sites
  BY <1>4
<1> QED BY <1>5, <1>6 DEF NextSite

LEMMA SetTimerSets ==
    ASSUME SiteAssumption, SiteShape, setTimer
    PROVE  /\ timer' \in [kind : {"off", "refresh", "request"}, site : Sites \cup {0}, left : Nat]
           /\ timer'.kind = "refresh" /\ timer'.site \in Sites
<1>1. PICK n : n = NextSite
  OBVIOUS
<1>2. n \in Sites /\ nextRefresh[n] \in Int
  BY <1>1, NextSiteIsSite DEF SiteShape
<1>3. timer' = [kind |-> "refresh", site |-> n, left |-> Larger(0, nextRefresh[n])]
  BY <1>1 DEF setTimer, Wait
<1>4. Larger(0, nextRefresh[n]) \in Nat
  BY <1>2 DEF Larger
<1> QED BY <1>2, <1>3, <1>4

LEMMA SiteStart == ASSUME SiteAssumption, SiteInit PROVE SiteInv
<1>1. SiteShape
  <2>1. timer \in [kind : {"off", "refresh", "request"}, site : Sites \cup {0}, left : Nat]
    BY DEF SiteInit, Off
  <2>2. /\ maker \in [at : {"idle", "begin", "arm"}, site : Sites \cup {0},
                      result : {"none", "start", "redirect"}]
        /\ work_ \in [at : {"idle", "running", "cancelled"}, site : Sites \cup {0}, result : {"none"}]
        /\ completion \in [at : {"idle", "cancel", "fetch", "state", "setTimer"},
                           site : Sites \cup {0}, result : Results \cup {"none"}]
    BY DEF SiteInit, Idle
  <2>3. /\ timer.kind = "off" /\ maker.at = "idle" /\ work_.at = "idle" /\ completion.at = "idle"
        /\ due = {}
    BY DEF SiteInit, Idle, Off
  <2>4. nextRefresh \in [Sites -> Int] /\ \A s \in Sites : nextRefresh[s] + MaxOverdue \in Nat
    BY DEF SiteInit, SiteAssumption
  <2>5. /\ fetching_ \in BOOLEAN /\ stopping_ \in BOOLEAN /\ raced \in BOOLEAN
        /\ activeResource \in [Sites -> BOOLEAN] /\ stop = "start"
    BY ZenonT(40) DEF SiteInit
  <2> QED BY <2>1, <2>2, <2>3, <2>4, <2>5 DEF SiteShape
<1>2. FetchPlace /\ FetchingShown /\ RequestHasResource
  BY DEF SiteInit, FetchPlace, FetchingShown, RequestHasResource, Idle
<1>3. OneRefresh /\ StopPlace
  BY DEF SiteInit, OneRefresh, StopPlace, Fetching, RefreshAhead, RefreshDue, Idle, Off
<1> QED BY <1>1, <1>2, <1>3 DEF SiteInv

-----------------------------------------------------------------------------
(* The steps.                                                              *)

\* What a step leaves alone, it keeps.
LEMMA QuietSite ==
    ASSUME SiteInv, SiteShape',
           UNCHANGED <<timer.kind, timer.site, due, maker, completion, fetching_, stopping_,
                       activeResource, stop, raced>>,
           work_'.site = work_.site, (work_'.at = "idle") = (work_.at = "idle")
    PROVE  SiteInv'
<1>1. FetchPlace' /\ FetchingShown' /\ RequestHasResource'
  BY DEF SiteInv, FetchPlace, FetchingShown, RequestHasResource
<1>2. OneRefresh'
  BY DEF SiteInv, OneRefresh, Fetching, RefreshAhead, RefreshDue
<1>3. StopPlace'
  BY DEF SiteInv, StopPlace, Fetching, RefreshAhead, RefreshDue
<1> QED BY <1>1, <1>2, <1>3 DEF SiteInv

LEMMA TickStep == ASSUME SiteAssumption, SiteInv, Tick PROVE SiteInv'
<1>1. /\ timer' = [timer EXCEPT !.left = Larger(0, @ - 1)]
      /\ nextRefresh' = [s \in Sites |->
                           Larger(Cardinality(Sooner(s)) - MaxOverdue, nextRefresh[s] - 1)]
      /\ UNCHANGED <<due, maker, completion, timingOut, work_, fetching_, stopping_, pending_,
                     activeResource, redirCount, stop, raced, crashed>>
  BY DEF Tick, handlers, flags
<1>2. ASSUME NEW s \in Sites
      PROVE  nextRefresh'[s] \in Int /\ nextRefresh'[s] + MaxOverdue \in Nat
  <2>1. Cardinality(Sooner(s)) \in Nat
    BY FS_Subset, FS_CardinalityType DEF Sooner, SiteAssumption
  <2>2. nextRefresh[s] \in Int /\ MaxOverdue \in Nat
    BY DEF SiteInv, SiteShape, SiteAssumption
  <2>3. nextRefresh'[s] = Larger(Cardinality(Sooner(s)) - MaxOverdue, nextRefresh[s] - 1)
    BY <1>1
  <2>4. ASSUME NEW c \in Nat, NEW n \in Int
        PROVE  /\ Larger(c - MaxOverdue, n - 1) \in Int
               /\ Larger(c - MaxOverdue, n - 1) + MaxOverdue \in Nat
    BY <2>2 DEF Larger
  <2> QED BY <2>1, <2>2, <2>3, <2>4, ZenonT(40)
<1>3. /\ timer' \in [kind : {"off", "refresh", "request"}, site : Sites \cup {0}, left : Nat]
      /\ timer'.kind = timer.kind /\ timer'.site = timer.site
  BY <1>1 DEF SiteInv, SiteShape, Larger
<1>4. nextRefresh' \in [Sites -> Int]
  BY <1>1, <1>2
<1>5. SiteShape'
  BY <1>1, <1>2, <1>3, <1>4 DEF SiteInv, SiteShape
<1> QED BY <1>1, <1>3, <1>5, QuietSite

LEMMA CancelStep ==
    ASSUME SiteInv, cancelRequest \/ stopBegins
    PROVE  SiteInv'
<1>1. /\ work_' = Cancelled
      /\ UNCHANGED <<timer, due, maker, completion, fetching_, activeResource, nextRefresh, raced>>
  BY DEF cancelRequest, stopBegins, handlers, flags, sites_
<1>2. /\ work_' \in [at : {"idle", "running", "cancelled"}, site : Sites \cup {0}, result : {"none"}]
      /\ work_'.site = work_.site /\ (work_'.at = "idle") = (work_.at = "idle")
  BY <1>1 DEF Cancelled, SiteInv, SiteShape
<1>3. CASE cancelRequest
  <2>1. UNCHANGED <<stopping_, stop>>
    BY <1>3, SMTT(30) DEF cancelRequest, flags
  <2>2. SiteShape'
    BY <1>1, <1>2, <2>1 DEF SiteInv, SiteShape
  <2> QED BY <1>1, <1>2, <2>1, <2>2, QuietSite
<1>4. CASE stopBegins
  <2>1. stop = "no" /\ stop' = "waiting" /\ stopping_' = TRUE
    BY <1>4 DEF stopBegins
  <2>2. SiteShape'
    BY <1>1, <1>2, <2>1 DEF SiteInv, SiteShape
  <2>3. FetchPlace' /\ FetchingShown' /\ RequestHasResource'
    BY <1>1, <1>2 DEF SiteInv, FetchPlace, FetchingShown, RequestHasResource
  <2>4. OneRefresh' /\ StopPlace'
    BY <1>1, <1>2, <2>1 DEF SiteInv, OneRefresh, StopPlace, Fetching, RefreshAhead, RefreshDue
  <2> QED BY <2>2, <2>3, <2>4 DEF SiteInv
<1> QED BY <1>3, <1>4

LEMMA TimeoutStep == ASSUME SiteInv, NEW s \in Sites, onRequestTimeout(s) PROVE SiteInv'
<1>1. /\ due' = due \ {<<"request", s>>}
      /\ UNCHANGED <<timer, maker, completion, work_, fetching_, stopping_, activeResource,
                     nextRefresh, stop, raced>>
  BY SMTT(30) DEF onRequestTimeout, flags, sites_
<1>2. SiteShape'
  BY <1>1 DEF SiteInv, SiteShape
<1>3. \A t \in Sites : <<"refresh", t>> \in due' <=> <<"refresh", t>> \in due
  BY <1>1
<1>4. (RefreshDue' <=> RefreshDue) /\ (RefreshAhead' <=> RefreshAhead) /\ (Fetching' <=> Fetching)
  BY <1>1, <1>3 DEF RefreshDue, RefreshAhead, Fetching
<1>5. FetchPlace' /\ FetchingShown' /\ RequestHasResource'
  BY <1>1 DEF SiteInv, FetchPlace, FetchingShown, RequestHasResource
<1>6. OneRefresh' /\ StopPlace'
  BY <1>1, <1>3, <1>4 DEF SiteInv, OneRefresh, StopPlace
<1> QED BY <1>2, <1>5, <1>6 DEF SiteInv

LEMMA ExpiresStep == ASSUME SiteInv, Expires PROVE SiteInv'
<1>1. /\ timer.kind # "off" /\ timer' = Off /\ due' = due \cup {<<timer.kind, timer.site>>}
      /\ UNCHANGED <<maker, completion, work_, fetching_, stopping_, activeResource, nextRefresh,
                     stop, raced>>
  BY DEF Expires, handlers, flags, sites_
<1>2. /\ timer' \in [kind : {"off", "refresh", "request"}, site : Sites \cup {0}, left : Nat]
      /\ timer'.kind = "off"
  BY <1>1 DEF Off
<1>3. timer.kind \in {"refresh", "request"} /\ timer.site \in Sites
  BY <1>1 DEF SiteInv, SiteShape
<1>4. SiteShape'
  BY <1>1, <1>2, <1>3 DEF SiteInv, SiteShape
<1>5. \A t \in Sites : <<"refresh", t>> \in due' <=>
                          <<"refresh", t>> \in due \/ (timer.kind = "refresh" /\ timer.site = t)
  BY <1>1
<1>6. (RefreshAhead' <=> RefreshAhead) /\ (Fetching' <=> Fetching)
  BY <1>1, <1>2, <1>3, <1>5, ZenonT(40) DEF RefreshDue, RefreshAhead, Fetching
<1>7. FetchPlace' /\ FetchingShown' /\ RequestHasResource'
  BY <1>1 DEF SiteInv, FetchPlace, FetchingShown, RequestHasResource
<1>8. OneRefresh'
  BY <1>2, <1>5, <1>6 DEF SiteInv, OneRefresh, RefreshDue
<1>9. StopPlace'
  BY <1>1, <1>6 DEF SiteInv, StopPlace
<1> QED BY <1>4, <1>7, <1>8, <1>9 DEF SiteInv

\* start() or the end of a fetch sets the timer, when no refresh is ahead.
LEMMA SetsTimerStep == ASSUME SiteAssumption, SiteInv, start \/ setsTimer PROVE SiteInv'
<1>1. /\ setTimer
      /\ \/ stop = "start" /\ stop' = "no" /\ completion' = completion
         \/ completion.at = "setTimer" /\ maker.at = "idle" /\ completion' = Idle /\ stop' = stop
      /\ UNCHANGED <<due, maker, work_, fetching_, stopping_, activeResource, nextRefresh, raced>>
  BY DEF start, setsTimer, sites_mutex_, handlers, sites_
<1>2. /\ timer' \in [kind : {"off", "refresh", "request"}, site : Sites \cup {0}, left : Nat]
      /\ timer'.kind = "refresh" /\ timer'.site \in Sites
  BY <1>1, SetTimerSets DEF SiteInv
<1>3. /\ completion' \in [at : {"idle", "cancel", "fetch", "state", "setTimer"},
                          site : Sites \cup {0}, result : Results \cup {"none"}]
      /\ completion'.at # "idle" => completion' = completion
  BY <1>1 DEF Idle, SiteInv, SiteShape
<1>4. SiteShape'
  BY <1>1, <1>2, <1>3 DEF SiteInv, SiteShape
<1>5. ~RefreshDue
  BY <1>1 DEF SiteInv, OneRefresh, StopPlace, Fetching, RefreshAhead
<1>6. work_.at = "idle" /\ maker.at = "idle" /\ completion'.at = "idle"
  BY <1>1 DEF SiteInv, StopPlace, Fetching, FetchPlace, Idle
<1>7. FetchPlace' /\ FetchingShown' /\ RequestHasResource'
  BY <1>1, <1>6 DEF FetchPlace, FetchingShown, RequestHasResource
<1>8. ~Fetching' /\ RefreshAhead' /\ ~RefreshDue'
  BY <1>1, <1>2, <1>5, <1>6 DEF Fetching, RefreshAhead, RefreshDue
<1>9. OneRefresh'
  BY <1>8 DEF OneRefresh, RefreshDue
<1>10. StopPlace'
  <2>1. stop = "start" => ~stopping_
    BY DEF SiteInv, StopPlace
  <2>2. completion.at = "setTimer" => Fetching
    BY DEF Fetching
  <2> QED BY <1>1, <1>8, <2>1, <2>2 DEF SiteInv, StopPlace
<1> QED BY <1>4, <1>7, <1>9, <1>10 DEF SiteInv

LEMMA OnTimerStep ==
    ASSUME SiteAssumption, SiteInv, NEW s \in Sites, onTimer(s)
    PROVE  SiteInv'
<1>1. /\ <<"refresh", s>> \in due /\ maker.at = "idle" /\ due' = due \ {<<"refresh", s>>}
      /\ nextRefresh' = [nextRefresh EXCEPT ![s] = refreshInterval]
      /\ maker' = [at |-> "begin", site |-> s, result |-> "start"]
      /\ UNCHANGED <<timer, completion, work_, fetching_, stopping_, activeResource, stop, raced>>
  BY SMTT(30) DEF onTimer, sites_mutex_, Thread, flags
<1>2. nextRefresh' \in [Sites -> Int] /\ \A t \in Sites : nextRefresh'[t] + MaxOverdue \in Nat
  BY <1>1 DEF SiteInv, SiteShape, SiteAssumption
<1>3. /\ maker' \in [at : {"idle", "begin", "arm"}, site : Sites \cup {0},
                     result : {"none", "start", "redirect"}]
      /\ maker'.at = "begin" /\ maker'.site = s
  BY <1>1, SMTT(30)
<1>4. SiteShape'
  BY <1>1, <1>2, <1>3, SMTT(30) DEF SiteInv, SiteShape
<1>5. RefreshDue /\ RefreshAhead
  BY <1>1 DEF RefreshDue, RefreshAhead
<1>6. ~Fetching /\ timer.kind # "refresh"
  BY <1>5 DEF SiteInv, OneRefresh
<1>7. work_.at = "idle" /\ completion.at = "idle"
  BY <1>6 DEF Fetching
<1>8. ~RefreshDue' /\ ~RefreshAhead' /\ Fetching'
  BY <1>1, <1>3, <1>6, ZenonT(40) DEF RefreshDue, RefreshAhead, Fetching, SiteInv, OneRefresh
<1>9. FetchPlace' /\ FetchingShown' /\ RequestHasResource'
  BY <1>1, <1>3, <1>7, SMTT(30) DEF FetchPlace, FetchingShown, RequestHasResource
<1>10. OneRefresh'
  BY <1>8 DEF OneRefresh, RefreshDue
<1>11. StopPlace'
  BY <1>1, <1>5, <1>8 DEF SiteInv, StopPlace
<1> QED BY <1>4, <1>9, <1>10, <1>11 DEF SiteInv

\* A step from one point of a fetch to the next.
LEMMA FetchGoesOn ==
    ASSUME SiteInv, SiteShape', FetchPlace', FetchingShown', RequestHasResource',
           Fetching, Fetching', timer'.kind # "refresh",
           UNCHANGED <<due, stopping_, stop, raced>>
    PROVE  SiteInv'
<1>1. ~RefreshDue
  BY DEF SiteInv, OneRefresh, RefreshAhead
<1>2. ~RefreshDue' /\ ~RefreshAhead'
  BY <1>1, ZenonT(40) DEF RefreshDue, RefreshAhead
<1>3. OneRefresh'
  BY <1>2 DEF OneRefresh, RefreshDue
<1>4. StopPlace'
  BY <1>2 DEF SiteInv, StopPlace
<1> QED BY <1>3, <1>4 DEF SiteInv

LEMMA MakeRequestStep == ASSUME SiteInv, makeRequest \/ makeRequestThrows PROVE SiteInv'
<1>1. maker.at = "begin" /\ UNCHANGED <<timer, due, nextRefresh, stopping_, stop, raced>>
  BY DEF makeRequest, makeRequestThrows
<1>2. /\ work_.at = "idle" /\ completion.at = "idle" /\ maker.site \in Sites /\ Fetching
      /\ timer'.kind # "refresh"
  BY <1>1 DEF SiteInv, SiteShape, FetchPlace, Fetching, OneRefresh, RefreshAhead
<1>3. CASE makeRequest
  <2>1. /\ fetching_' = TRUE /\ activeResource' = [activeResource EXCEPT ![maker.site] = TRUE]
        /\ work_' = [at |-> "running", site |-> maker.site, result |-> "none"]
        /\ maker' = [maker EXCEPT !.at = "arm"] /\ completion' = completion
    BY <1>3 DEF makeRequest, Thread
  <2>2. /\ maker' \in [at : {"idle", "begin", "arm"}, site : Sites \cup {0},
                       result : {"none", "start", "redirect"}]
        /\ maker'.at = "arm" /\ maker'.site = maker.site
        /\ work_' \in [at : {"idle", "running", "cancelled"}, site : Sites \cup {0},
                       result : {"none"}]
        /\ work_'.at = "running" /\ work_'.site = maker.site
        /\ activeResource' \in [Sites -> BOOLEAN] /\ activeResource'[maker.site]
    BY <1>2, <2>1 DEF SiteInv, SiteShape
  <2>3. SiteShape'
    BY <1>1, <1>2, <2>1, <2>2 DEF SiteInv, SiteShape
  <2>4. FetchPlace' /\ FetchingShown' /\ RequestHasResource' /\ Fetching'
    BY <1>2, <2>1, <2>2, SMTT(30) DEF FetchPlace, FetchingShown, RequestHasResource, Fetching
  <2> QED BY <1>1, <1>2, <2>3, <2>4, FetchGoesOn
<1>4. CASE makeRequestThrows
  <2>1. /\ fetching_' = TRUE /\ maker' = Idle /\ work_' = work_
        /\ activeResource' = [activeResource EXCEPT ![maker.site] = (maker.result = "start")]
        /\ completion' = [at |-> IF maker.result = "start" THEN "fetch" ELSE "state",
                          site |-> maker.site, result |-> "error"]
    BY <1>4 DEF makeRequestThrows, Thread
  <2>2. /\ maker' \in [at : {"idle", "begin", "arm"}, site : Sites \cup {0},
                       result : {"none", "start", "redirect"}]
        /\ maker'.at = "idle"
    BY <2>1 DEF Idle
  <2>3. /\ completion' \in [at : {"idle", "cancel", "fetch", "state", "setTimer"},
                            site : Sites \cup {0}, result : Results \cup {"none"}]
        /\ completion'.site = maker.site
        /\ completion'.at = IF maker.result = "start" THEN "fetch" ELSE "state"
    BY <1>2, <2>1, SMTT(30) DEF Results
  <2>4. /\ activeResource' \in [Sites -> BOOLEAN]
        /\ maker.result = "start" => activeResource'[maker.site]
    BY <1>2, <2>1, ZenonT(40) DEF SiteInv, SiteShape
  <2>5. SiteShape'
    BY <1>1, <1>2, <2>1, <2>2, <2>3, <2>4, ZenonT(40) DEF SiteInv, SiteShape
  <2>6. FetchPlace' /\ FetchingShown' /\ RequestHasResource' /\ Fetching'
    BY <1>2, <2>1, <2>2, <2>3, <2>4, SMTT(30) DEF FetchPlace, FetchingShown, RequestHasResource, Fetching
  <2> QED BY <1>1, <1>2, <2>5, <2>6, FetchGoesOn
<1> QED BY <1>3, <1>4

LEMMA LimitStep ==
    ASSUME SiteAssumption, SiteInv, limitRequest
    PROVE  SiteInv'
<1>1. /\ maker.at = "arm" /\ maker' = Idle
      /\ timer' = [kind |-> "request", site |-> maker.site, left |-> requestTimeout_]
      /\ UNCHANGED <<due, completion, work_, fetching_, stopping_, activeResource, nextRefresh,
                     stop, raced>>
  BY SMTT(30) DEF limitRequest, Wait, flags, sites_
<1>2. maker.site \in Sites /\ requestTimeout_ \in Nat
  BY <1>1 DEF SiteInv, SiteShape, SiteAssumption
<1>3. /\ timer' \in [kind : {"off", "refresh", "request"}, site : Sites \cup {0}, left : Nat]
      /\ timer'.kind = "request" /\ timer'.site \in Sites
  BY <1>1, <1>2
<1>4. /\ maker' \in [at : {"idle", "begin", "arm"}, site : Sites \cup {0},
                     result : {"none", "start", "redirect"}]
      /\ maker'.at = "idle"
  BY <1>1 DEF Idle
<1>5. SiteShape'
  BY <1>1, <1>3, <1>4, ZenonT(40) DEF SiteInv, SiteShape
<1>6. /\ FetchPlace' /\ FetchingShown' /\ RequestHasResource' /\ Fetching' /\ Fetching
  BY <1>1, <1>4, ZenonT(40) DEF SiteInv, FetchPlace, FetchingShown, RequestHasResource, Fetching
<1> QED BY <1>1, <1>3, <1>5, <1>6, FetchGoesOn

LEMMA CompletesStep == ASSUME SiteInv, NEW r \in Results, Completes(r) PROVE SiteInv'
<1>1. /\ work_.at # "idle" /\ work_' = Idle
      /\ completion' = [at |-> "cancel", site |-> work_.site, result |-> r]
      /\ UNCHANGED <<timer, due, maker, fetching_, stopping_, activeResource, nextRefresh, stop,
                     raced>>
  BY SMTT(30) DEF Completes, Thread, flags, sites_
<1>2. work_.site \in Sites /\ Fetching /\ timer'.kind # "refresh"
  BY <1>1 DEF SiteInv, SiteShape, Fetching, OneRefresh, RefreshAhead
<1>3. /\ work_' \in [at : {"idle", "running", "cancelled"}, site : Sites \cup {0}, result : {"none"}]
      /\ work_'.at = "idle"
  BY <1>1 DEF Idle
<1>4. /\ completion' \in [at : {"idle", "cancel", "fetch", "state", "setTimer"},
                          site : Sites \cup {0}, result : Results \cup {"none"}]
      /\ completion'.at = "cancel" /\ completion'.site = work_.site
  BY <1>1, <1>2, SMTT(30)
<1>5. SiteShape'
  BY <1>1, <1>2, <1>3, <1>4, ZenonT(40) DEF SiteInv, SiteShape
<1>6. FetchPlace' /\ FetchingShown' /\ RequestHasResource' /\ Fetching'
  BY <1>1, <1>3, <1>4, SMTT(30) DEF SiteInv, FetchPlace, FetchingShown, RequestHasResource, Fetching
<1> QED BY <1>1, <1>2, <1>5, <1>6, FetchGoesOn

LEMMA TimeoutCancelStep == ASSUME SiteInv, timeoutCancel PROVE SiteInv'
<1>1. /\ completion.at = "cancel" /\ timer' = Off
      /\ completion' = [completion EXCEPT !.at = "fetch"]
      /\ UNCHANGED <<due, maker, work_, fetching_, stopping_, activeResource, nextRefresh, stop,
                     raced>>
  BY DEF timeoutCancel, flags, sites_
<1>2. /\ timer' \in [kind : {"off", "refresh", "request"}, site : Sites \cup {0}, left : Nat]
      /\ timer'.kind = "off"
  BY <1>1 DEF Off
<1>3. /\ completion' \in [at : {"idle", "cancel", "fetch", "state", "setTimer"},
                          site : Sites \cup {0}, result : Results \cup {"none"}]
      /\ completion'.at = "fetch" /\ completion'.site = completion.site
      /\ completion.site \in Sites
  BY <1>1 DEF SiteInv, SiteShape
<1>4. SiteShape'
  BY <1>1, <1>2, <1>3 DEF SiteInv, SiteShape
<1>5. FetchPlace' /\ FetchingShown' /\ RequestHasResource' /\ Fetching' /\ Fetching
  BY <1>1, <1>3 DEF SiteInv, FetchPlace, FetchingShown, RequestHasResource, Fetching
<1> QED BY <1>1, <1>2, <1>4, <1>5, FetchGoesOn

LEMMA SiteFetchStep == ASSUME SiteAssumption, SiteInv, onSiteFetch PROVE SiteInv'
<1> DEFINE s == completion.site
<1>1. /\ completion.at = "fetch" /\ maker.at = "idle"
      /\ UNCHANGED <<timer, due, work_, fetching_, stopping_, stop, raced>>
  BY SMTT(30) DEF onSiteFetch, sites_mutex_, flags
<1>2. /\ s \in Sites /\ work_.at = "idle" /\ Fetching /\ fetching_ /\ timer'.kind # "refresh"
  BY <1>1 DEF SiteInv, SiteShape, FetchPlace, FetchingShown, Fetching, OneRefresh, RefreshAhead
<1>3. CASE completion.result = "redirect" /\ Follows(s)
  <2>1. /\ maker' = [at |-> "begin", site |-> s, result |-> "redirect"] /\ completion' = Idle
        /\ UNCHANGED <<activeResource, nextRefresh>>
    BY <1>3 DEF onSiteFetch, Thread
  <2>2. /\ maker' \in [at : {"idle", "begin", "arm"}, site : Sites \cup {0},
                       result : {"none", "start", "redirect"}]
        /\ maker'.at = "begin" /\ maker'.site = s
    BY <1>2, <2>1
  <2>3. /\ completion' \in [at : {"idle", "cancel", "fetch", "state", "setTimer"},
                            site : Sites \cup {0}, result : Results \cup {"none"}]
        /\ completion'.at = "idle"
    BY <2>1, SMTT(30) DEF Idle
  <2>4. SiteShape'
    BY <1>1, <1>2, <2>1, <2>2, <2>3 DEF SiteInv, SiteShape
  <2>5. FetchPlace' /\ FetchingShown' /\ RequestHasResource' /\ Fetching'
    BY <1>1, <1>2, <2>2, <2>3 DEF FetchPlace, FetchingShown, RequestHasResource, Fetching
  <2> QED BY <1>1, <1>2, <2>4, <2>5, FetchGoesOn
<1>4. CASE ~(completion.result = "redirect" /\ Follows(s))
  <2>1. /\ activeResource' = [activeResource EXCEPT ![s] = FALSE]
        /\ nextRefresh' = [nextRefresh EXCEPT ![s] =
             IF completion.result = "error" THEN error_retry_interval
             ELSE IF completion.result = "interval" THEN refreshInterval ELSE @]
        /\ completion' = [completion EXCEPT !.at = "state"] /\ maker' = maker
    BY <1>4 DEF onSiteFetch
  <2>2. /\ completion' \in [at : {"idle", "cancel", "fetch", "state", "setTimer"},
                            site : Sites \cup {0}, result : Results \cup {"none"}]
        /\ completion'.at = "state" /\ completion'.site = s
        /\ activeResource' \in [Sites -> BOOLEAN]
    BY <2>1, ZenonT(40) DEF SiteInv, SiteShape
  <2>3. nextRefresh' \in [Sites -> Int] /\ \A t \in Sites : nextRefresh'[t] + MaxOverdue \in Nat
    BY <1>2, <2>1 DEF SiteInv, SiteShape, SiteAssumption
  <2>4. SiteShape'
    BY <1>1, <1>2, <2>1, <2>2, <2>3 DEF SiteInv, SiteShape
  <2>5. FetchPlace' /\ FetchingShown' /\ RequestHasResource' /\ Fetching'
    BY <1>1, <1>2, <2>1, <2>2 DEF FetchPlace, FetchingShown, RequestHasResource, Fetching
  <2> QED BY <1>1, <1>2, <2>4, <2>5, FetchGoesOn
<1> QED BY <1>3, <1>4

LEMMA FetchEndsStep == ASSUME SiteInv, fetchEnds PROVE SiteInv'
<1>1. /\ completion.at = "state" /\ fetching_' = FALSE
      /\ completion' = IF stopping_ THEN Idle ELSE [completion EXCEPT !.at = "setTimer"]
      /\ UNCHANGED <<timer, due, maker, work_, stopping_, activeResource, nextRefresh, stop, raced>>
  BY DEF fetchEnds, sites_
<1>2. /\ maker.at = "idle" /\ work_.at = "idle" /\ Fetching /\ ~RefreshAhead
  BY <1>1 DEF SiteInv, SiteShape, FetchPlace, Fetching, OneRefresh
<1>3. /\ completion' \in [at : {"idle", "cancel", "fetch", "state", "setTimer"},
                          site : Sites \cup {0}, result : Results \cup {"none"}]
      /\ completion'.at = IF stopping_ THEN "idle" ELSE "setTimer"
      /\ completion'.at # "idle" => completion'.site \in Sites
  BY <1>1 DEF Idle, SiteInv, SiteShape
<1>4. SiteShape'
  <2>1. SiteShape
    BY DEF SiteInv
  <2>2. fetching_' \in BOOLEAN
    BY <1>1, ZenonT(40)
  <2>3. Results' = Results
    BY DEF Results
  <2> HIDE DEF Results
  <2> QED BY <1>1, <1>3, <2>1, <2>2, <2>3 DEF SiteShape
<1>5. FetchPlace' /\ FetchingShown' /\ RequestHasResource' /\ ~RefreshAhead' /\ ~RefreshDue'
  BY <1>1, <1>2, <1>3
     DEF FetchPlace, FetchingShown, RequestHasResource, RefreshAhead, RefreshDue
<1>6. OneRefresh'
  BY <1>5 DEF OneRefresh, RefreshDue
<1>7. ~stopping_ => Fetching'
  BY <1>3 DEF Fetching
<1>8. StopPlace'
  BY <1>1, <1>2, <1>5, <1>7 DEF SiteInv, StopPlace
<1> QED BY <1>4, <1>5, <1>6, <1>8 DEF SiteInv

\* stop() returns when fetching_ is not set: nothing is fetched, unless unseen.
LEMMA StopEndsStep == ASSUME SiteInv, stopEnds PROVE SiteInv'
<1>1. /\ stop = "waiting" /\ completion.at # "setTimer" /\ ~fetching_
      /\ stop' = "stopped" /\ stopping_' = FALSE /\ timer' = Off /\ raced' = Unseen
      /\ UNCHANGED <<due, maker, completion, work_, fetching_, activeResource, nextRefresh>>
  BY DEF stopEnds, state_mutex_, handlers, sites_
<1>2. /\ timer' \in [kind : {"off", "refresh", "request"}, site : Sites \cup {0}, left : Nat]
      /\ timer'.kind = "off"
  BY <1>1 DEF Off
<1>3. raced' \in BOOLEAN /\ (~raced' => ~RefreshDue /\ maker.at # "begin")
  BY <1>1, ZenonT(40) DEF Unseen, RefreshDue
<1>4. SiteShape'
  BY <1>1, <1>2, <1>3, ZenonT(40) DEF SiteInv, SiteShape
<1>5. FetchPlace' /\ FetchingShown' /\ RequestHasResource'
  BY <1>1, SMTT(30) DEF SiteInv, FetchPlace, FetchingShown, RequestHasResource
<1>6. (RefreshDue' <=> RefreshDue) /\ (RefreshAhead' <=> RefreshDue) /\ (Fetching' <=> Fetching)
  BY <1>1, <1>2 DEF RefreshDue, RefreshAhead, Fetching
<1>7. OneRefresh'
  BY <1>1, <1>2, <1>6 DEF SiteInv, OneRefresh, RefreshAhead
<1>8. Fetching => maker.at = "begin"
  BY <1>1, SMTT(30) DEF SiteInv, SiteShape, FetchingShown, Fetching
<1>9. StopPlace'
  BY <1>1, <1>3, <1>6, <1>8 DEF StopPlace
<1> QED BY <1>4, <1>5, <1>7, <1>9 DEF SiteInv

LEMMA SiteStep == ASSUME SiteAssumption, SiteInv, [SiteNext]_siteVars PROVE SiteInv'
<1>1. CASE start \/ setsTimer \/ stopBegins \/ stopEnds \/ Tick \/ Expires
  BY <1>1, SetsTimerStep, CancelStep, StopEndsStep, TickStep, ExpiresStep
<1>2. CASE \E s \in Sites : onTimer(s) \/ onRequestTimeout(s)
  BY <1>2, OnTimerStep, TimeoutStep
<1>3. CASE makeRequest \/ makeRequestThrows \/ limitRequest \/ cancelRequest
  BY <1>3, MakeRequestStep, LimitStep, CancelStep
<1>4. CASE \E r \in Results : Completes(r)
  BY <1>4, CompletesStep
<1>5. CASE timeoutCancel \/ onSiteFetch \/ fetchEnds
  BY <1>5, TimeoutCancelStep, SiteFetchStep, FetchEndsStep
<1>6. CASE UNCHANGED siteVars
  <2>1. UNCHANGED <<timer, due, maker, completion, work_, fetching_, stopping_, activeResource,
                    nextRefresh, stop, raced>>
    BY <1>6, SMTT(30) DEF siteVars, handlers, flags, sites_
  <2>2. SiteShape'
    BY <2>1 DEF SiteInv, SiteShape
  <2> QED BY <2>1, <2>2, QuietSite
<1> QED BY <1>1, <1>2, <1>3, <1>4, <1>5, <1>6 DEF SiteNext

LEMMA RefreshingIs ==
    ASSUME SiteInv
    PROVE  /\ Refreshing = {} <=> ~RefreshAhead
           /\ Cardinality(Refreshing) <= 1
<1>1. \A w : w \in Refreshing <=> \/ w = <<timer.kind, timer.site>> /\ timer.kind = "refresh"
                                  \/ \E t \in Sites : w = <<"refresh", t>> /\ w \in due
  BY DEF SiteInv, SiteShape, Refreshing
<1>2. Refreshing = {} <=> ~RefreshAhead
  BY <1>1, ZenonT(40) DEF RefreshAhead, RefreshDue
<1>3. \A v, w \in Refreshing : v = w
  BY <1>1 DEF SiteInv, OneRefresh, RefreshDue
<1>4. Refreshing = {} \/ \E w : Refreshing = {w}
  BY <1>3
<1>5. Cardinality({}) = 0 /\ \A w : Cardinality({w}) = 1
  BY FS_EmptySet, FS_Singleton
<1>6. Cardinality(Refreshing) = 0 \/ Cardinality(Refreshing) = 1
  <2> HIDE DEF Refreshing
  <2> QED BY <1>4, <1>5, Zenon
<1>7. Cardinality(Refreshing) <= 1
  BY <1>6
<1> QED BY <1>2, <1>7

\* From start() to stop() one thing goes on at a time, the wait for a refresh, its handler or
\* one fetch with one request, and a completion finds its resource; the two mutexes are never
\* taken in opposite orders at once; and after stop() nothing is fetched, unless the handler of
\* a refresh had not come to makeRequest when stop() looked (ValidatorSite.cpp).
THEOREM OneFetchAtATime == ASSUME SiteAssumption PROVE SiteSpec => []OneChain
<1>1. SiteInit => SiteInv
  BY SiteStart
<1>2. SiteInv /\ [SiteNext]_siteVars => SiteInv'
  BY SiteStep
<1>3. SiteInv => OneChain
  <2> SUFFICES ASSUME SiteInv PROVE OneChain
    OBVIOUS
  <2>1. OneThing
    BY RefreshingIs DEF SiteInv, FetchPlace, OneRefresh, StopPlace, OneThing
  <2>2. NoLockCycle /\ CompletionHasResource
    BY DEF SiteInv, FetchPlace, RequestHasResource, NoLockCycle, CompletionHasResource
  <2>3. StopEnds
    BY RefreshingIs DEF SiteInv, StopPlace, StopEnds
  <2> QED BY <2>1, <2>2, <2>3 DEF OneChain
<1> QED BY <1>1, <1>2, <1>3, PTL DEF SiteSpec
=============================================================================
