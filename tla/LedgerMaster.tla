---------------------------- MODULE LedgerMaster ----------------------------
(***************************************************************************)
(* LedgerMaster: which ledger is fully validated, how validated ledgers    *)
(* are published to clients in order, and how the history before them is   *)
(* fetched and filled from the database (LedgerMaster.cpp).                *)
(*                                                                         *)
(* Validations, finished acquisitions, the consensus thread and the        *)
(* advance job run at the same time under the recursive m_mutex, which     *)
(* findNewLedgersToPublish, doAdvance and fetchForHistory release around   *)
(* their slow parts.  Every action is one stretch between such releases.   *)
(*                                                                         *)
(* A ledger is the sequence of its ancestors' ids (LedgerAncestry); its    *)
(* number is its length, and NullLedger, number 0, stands for none.          *)
(* External to LedgerMaster: the validators, who each stay on one branch,  *)
(* the acquisition of ledgers, and the database a server starts with.      *)
(***************************************************************************)
EXTENDS LedgerAncestry

CONSTANTS
    Validators,     \* the trusted validators
    Quorum,         \* ValidatorList::quorum()
    MaxGap,         \* MAX_LEDGER_GAP: publish no more than this in a row
    FetchSize,      \* ledger_fetch_size_
    LedgerHistory,  \* ledger_history_: how far back history is fetched
    InitialRows,    \* what the Ledgers table may hold at startup
    Clocks,         \* outcomes of the tests on close times
    Syncs,          \* outcomes of doAdvance's tests on load and ledger age
    Validated,      \* bound: the ledgers that are validated
    BuildSeqs,      \* bound: the sequences the consensus builds or switches to
    PathWork,       \* outcomes of newPFWork: false when the job is refused
    MayFail         \* whether an acquisition may fail

NullLedger == <<>>
Ancestor(l, s) == SubSeq(l, 1, s)
LastSeq == Max({Len(l) : l \in AllLedgers})

LedgerMasterAssumption ==
    /\ IsFiniteSet(Validators) /\ Quorum \in Nat \ {0}
    /\ Validated \subseteq Ledgers /\ BuildSeqs \subseteq 2..LastSeq
    /\ MaxGap \in Nat /\ FetchSize \in Nat /\ LedgerHistory \in Nat
    /\ Clocks \subseteq BOOLEAN /\ Syncs \subseteq BOOLEAN
    /\ PathWork \subseteq BOOLEAN /\ MayFail \in BOOLEAN

VARIABLES
    vals,       \* trusted validations held, by validator
    heard,      \* ledgers whose checkAccept(hash, seq) is about to run
    checks,     \* ledgers whose checkAccept(ledger) is about to run
    have,       \* LedgerHistory: ledgers found by hash
    acquiring,  \* ledgers being acquired
    arrived,    \* acquisitions whose AcquisitionDone job is about to run
    valid,      \* mValidLedger, with mValidLedgerSeq
    lastValid,  \* mLastValidLedger
    building,   \* mBuildingLedgerSeq
    pub,        \* mPubLedger
    streamed,   \* the last ledger given to NetworkOPs::pubLedger
    work,       \* mAdvanceWork
    thread,     \* the advance job: idle iff mAdvanceThread is false
    want,       \* the next sequence to publish and the ledger to reach
    ready,      \* pubLedgers
    row,        \* the Ledgers table
    complete,   \* mCompleteLedgers
    fill        \* tryFill: the ledgers it walks, mFillInProgress

chain == <<valid, lastValid, pub, streamed>>
inputs == <<vals, heard, checks, building>>
advance == <<work, thread, want, ready>>
history == <<row, complete, fill>>
fetching == <<have, acquiring, arrived>>
vars == <<inputs, fetching, chain, advance, history>>

NoFill == [top |-> 0, cur |-> NullLedger, rows |-> {}, read |-> FALSE]

Init ==
    /\ vals = [v \in Validators |-> {}]
    /\ heard = {} /\ checks = {} /\ building = 0
    /\ acquiring = {} /\ arrived = {}
    /\ valid = NullLedger /\ lastValid = NullLedger
    /\ pub = NullLedger /\ streamed = NullLedger
    /\ work = FALSE /\ thread = "idle"
    /\ want = <<0, NullLedger>> /\ ready = <<>>
    /\ \E rows \in InitialRows :
          /\ have = rows \union {Genesis}
          /\ row = [s \in 1..LastSeq |->
                      IF \E l \in rows : Len(l) = s
                      THEN CHOOSE l \in rows : Len(l) = s ELSE NullLedger]
    /\ complete = {} /\ fill = NoFill

-----------------------------------------------------------------------------
(* Validated ledgers.                                                      *)

numTrustedForLedger(l) == Cardinality({v \in Validators : l \in vals[v]})

\* tryAdvance, given the value v of mValidLedger.
tryAdvance(v) ==
    /\ work' = TRUE
    /\ thread' = IF thread = "idle" /\ v # NullLedger THEN "top" ELSE thread

\* canBeCurrent; timely is the outcome of its tests on close times.
canBeCurrent(l, timely) ==
    valid # NullLedger => Len(l) >= Len(valid) /\ timely

AcceptableAnyCount(l, timely) ==
    canBeCurrent(l, timely) /\ Len(l) > Len(valid)

\* checkAccept(ledger) finds the ledger fully validated.
Acceptable(l, timely) ==
    /\ canBeCurrent(l, timely) /\ Len(l) > Len(valid)
    /\ numTrustedForLedger(l) >= Quorum

setValidLedger(l) ==
    /\ valid' = l
    /\ pub' = IF pub = NullLedger THEN l ELSE pub
    /\ IF pub = NullLedger
       THEN /\ row' = [row EXCEPT ![Len(l)] = l]
            /\ UNCHANGED <<complete, fill>>
       ELSE UNCHANGED history
    /\ tryAdvance(l)

checkAccept(l, timely) ==
    IF Acceptable(l, timely)
    THEN setValidLedger(l) /\ UNCHANGED <<want, ready>>
    ELSE UNCHANGED <<valid, pub, advance, history>>

\* checkAccept(hash, seq), up to checkAccept(ledger).
checkHash(l) ==
    /\ lastValid' = IF /\ Len(l) >= Len(valid)
                       /\ numTrustedForLedger(l) >= Quorum
                       /\ Len(l) > Len(lastValid)
                    THEN l ELSE lastValid
    /\ LET goOn == Len(l) > Len(valid) /\ Len(l) # building IN
       /\ checks' = IF goOn /\ l \in have THEN checks \union {l} ELSE checks
       /\ acquiring' = IF goOn /\ l \notin have
                       THEN acquiring \union ({l} \ arrived) ELSE acquiring

\* A trusted validation arrives; its validator stays on one branch.
AddValidation(v, l) ==
    /\ \A o \in vals[v] : DescendsFrom(l, o) /\ o # l
    /\ vals' = [vals EXCEPT ![v] = @ \union {l}]
    /\ heard' = heard \union {l}
    /\ UNCHANGED <<checks, building, fetching, chain, advance, history>>

CheckHash(l) ==
    /\ l \in heard
    /\ heard' = heard \ {l}
    /\ checkHash(l)
    /\ UNCHANGED <<vals, building, have, arrived, valid, pub, streamed,
                   advance, history>>

CheckLedger(l, timely) ==
    /\ l \in checks
    /\ checks' = checks \ {l}
    /\ checkAccept(l, timely)
    /\ UNCHANGED <<vals, heard, building, fetching, lastValid, streamed>>

\* InboundLedger::done stores the ledger and queues the job that checks it.
Arrive(l) ==
    /\ l \in acquiring
    /\ acquiring' = acquiring \ {l}
    /\ arrived' = arrived \union {l}
    /\ have' = have \union {l}
    /\ UNCHANGED <<inputs, chain, advance, history>>

AcquireFails(l) ==
    /\ MayFail /\ l \in acquiring
    /\ acquiring' = acquiring \ {l}
    /\ UNCHANGED <<inputs, have, arrived, chain, advance, history>>

\* The AcquisitionDone job: checkAccept(ledger), then tryAdvance.
AcquisitionDone(l, timely) ==
    /\ l \in arrived
    /\ arrived' = arrived \ {l}
    /\ IF Acceptable(l, timely)
       THEN setValidLedger(l) /\ UNCHANGED <<want, ready>>
       ELSE tryAdvance(valid) /\ UNCHANGED <<valid, pub, want, ready, history>>
    /\ UNCHANGED <<inputs, have, acquiring, lastValid, streamed>>

\* RCLConsensus starts to build the ledger after one it has.
StartBuild(s) ==
    /\ building = 0
    /\ \E l \in have : Len(l) + 1 = s
    /\ building' = s
    /\ UNCHANGED <<vals, heard, checks, fetching, chain, advance, history>>

\* Each validator's current validation, and the ledgers enough of them are on.
currentTrusted(v) == CHOOSE l \in vals[v] : \A o \in vals[v] : Len(o) =< Len(l)

SavedUpFor(needed) ==
    {l \in AllLedgers :
        /\ Len(l) > Len(valid)
        /\ Cardinality({v \in Validators :
                          vals[v] # {} /\ currentTrusted(v) = l}) > needed}

\* consensusBuilt: the ledger itself, or else one we saved up validations for.
consensusBuilt(l, timely) ==
    IF Len(l) > Len(valid) /\ ~Acceptable(l, timely) /\ SavedUpFor(Quorum) # {}
    THEN /\ \E o \in SavedUpFor(Quorum) :
               /\ \A p \in SavedUpFor(Quorum) : Len(p) =< Len(o)
               /\ checkHash(o)
         /\ UNCHANGED <<valid, pub, advance, history>>
    ELSE /\ checkAccept(l, timely)
         /\ UNCHANGED <<lastValid, checks, acquiring>>

Built(l, timely) ==
    /\ Len(l) = building /\ parentOf(l) \in have
    /\ building' = 0
    /\ have' = have \union {l}
    /\ consensusBuilt(l, timely)
    /\ UNCHANGED <<vals, heard, arrived, streamed>>

\* switchLCL: the consensus moves to a ledger we have, which is checked too.
switchLCL(l) ==
    /\ l \in have \ {Genesis}
    /\ checks' = checks \union {l}
    /\ UNCHANGED <<vals, heard, building, fetching, chain, advance, history>>

-----------------------------------------------------------------------------
(* The advance job.                                                        *)

\* The end of an iteration of doAdvance.
EndIteration(progress) ==
    /\ work' = (work \/ progress)
    /\ thread' = IF work \/ progress THEN "top" ELSE "idle"

\* The largest sequence below the published ledger that is not complete.
Missing == {s \in 1..(Len(pub) - 1) : s \notin complete}
prevMissing == IF complete = {} \/ Missing = {} THEN 0 ELSE Max(Missing)

\* Without an advisory delete setting: only as much history as configured.
shouldAcquire(s) == Len(valid) - s =< LedgerHistory

\* Nothing to publish: see if we are in sync and history is missing; again
\* says whether somebody asked for more work since the iteration began.
LookForHistory(inSync, again) ==
    IF /\ inSync /\ Len(valid) = Len(pub) /\ prevMissing # 0
       /\ fill.top = 0 \/ prevMissing > fill.top
       /\ shouldAcquire(prevMissing)
    THEN /\ thread' = "fetch" /\ work' = again
         /\ want' = <<prevMissing, valid>> /\ ready' = <<>>
    ELSE /\ thread' = (IF again THEN "top" ELSE "idle") /\ work' = again
         /\ want' = <<0, NullLedger>> /\ ready' = <<>>

\* findNewLedgersToPublish, up to where it releases the lock.
FindNewLedgers(inSync) ==
    /\ thread = "top"
    /\ \/ /\ Len(valid) > Len(pub) + MaxGap
          /\ pub' = valid
          /\ ready' = <<valid>> /\ thread' = "full" /\ work' = FALSE
          /\ UNCHANGED want
       \/ /\ Len(valid) =< Len(pub)
          /\ LookForHistory(inSync, FALSE)
          /\ UNCHANGED pub
       \/ /\ Len(valid) > Len(pub) /\ Len(valid) =< Len(pub) + MaxGap
          /\ want' = <<Len(pub) + 1, valid>>
          /\ ready' = <<>> /\ thread' = "gather" /\ work' = FALSE
          /\ UNCHANGED pub
    /\ UNCHANGED <<inputs, fetching, valid, lastValid, streamed, history>>

\* The ledgers from want[1] to want[2], as far as we have them.
Gathered ==
    LET to == want[2]
        found(s) == s = Len(to) \/ Ancestor(to, s) \in have
        n == Max({k \in 0..(Len(to) - want[1] + 1) :
                    \A s \in want[1]..(want[1] + k - 1) : found(s)})
    IN  [k \in 1..n |-> Ancestor(to, want[1] + k - 1)]

\* The first FetchSize - 1 ledgers we do not have are acquired.
ToAcquire ==
    LET absent == {Ancestor(want[2], s) : s \in want[1]..Len(want[2])}
                  \ (have \union {want[2]})
    IN  {l \in absent :
           Cardinality({o \in absent : Len(o) =< Len(l)}) < FetchSize}

\* Outside the lock; after it is taken again, publish or look for history.
Gather(inSync) ==
    /\ thread = "gather"
    /\ acquiring' = acquiring \union ToAcquire
    /\ IF Gathered = <<>>
       THEN LookForHistory(inSync, work)
       ELSE ready' = Gathered /\ thread' = "full" /\ UNCHANGED <<work, want>>
    /\ UNCHANGED <<inputs, have, arrived, chain, history>>

\* setFullLedger before mCompleteLedgers: the index of the previous sequence
\* is checked against the ledger's parent, and the ledger is saved.
saveFull(l) ==
    /\ complete' = IF Len(l) > 1 /\ row[Len(l) - 1] \notin {NullLedger, parentOf(l)}
                   THEN complete \ {Len(l) - 1} ELSE complete
    /\ row' = [row EXCEPT ![Len(l)] = l]

\* getLedgerBySeq, for a sequence of the validated chain.
BySeq(s, v) == IF Ancestor(v, s) \in have \union {v} THEN Ancestor(v, s) ELSE NullLedger

\* fixMismatch erases complete sequences down to one where the chains meet.
fixMismatch(l, v, seqs) ==
    LET meet == {s \in seqs : s < Len(l) /\ BySeq(s, v) = Ancestor(l, s)}
    IN  {s \in seqs : s >= Len(l) \/ (meet # {} /\ s =< Max(meet))}

\* The rest of setFullLedger.
markFull(l) ==
    LET seqs == complete \union {Len(l)}
        v == IF Len(l) > Len(valid) THEN l ELSE valid
    IN  /\ valid' = v
        /\ complete' = IF Len(l) - 1 \in seqs /\ BySeq(Len(l) - 1, v) # parentOf(l)
                       THEN fixMismatch(l, v, seqs) ELSE seqs

\* Publish the next ledger of ready: setFullLedger, setPubLedger, pubLedger,
\* with the lock released before and after setPubLedger.
SaveFull ==
    /\ thread = "full"
    /\ have' = have \union {Head(ready)}
    /\ saveFull(Head(ready))
    /\ thread' = "mark"
    /\ UNCHANGED <<inputs, acquiring, arrived, chain, work, want, ready, fill>>

MarkFull ==
    /\ thread = "mark"
    /\ markFull(Head(ready))
    /\ thread' = "setPub"
    /\ UNCHANGED <<inputs, fetching, lastValid, pub, streamed, work, want, ready,
                   row, fill>>

setPubLedger ==
    /\ thread = "setPub"
    /\ pub' = Head(ready)
    /\ thread' = "stream"
    /\ UNCHANGED <<inputs, fetching, valid, lastValid, streamed, work, want,
                   ready, history>>

\* After the last ledger, newPFWork's result decides about another iteration.
pubLedger(more) ==
    /\ thread = "stream"
    /\ streamed' = Head(ready)
    /\ ready' = Tail(ready)
    /\ IF Len(ready) > 1 THEN thread' = "full" /\ UNCHANGED work
                         ELSE EndIteration(more)
    /\ want' = <<0, NullLedger>>
    /\ UNCHANGED <<inputs, fetching, valid, lastValid, pub, history>>

-----------------------------------------------------------------------------
(* History.                                                                *)

\* fetchForHistory of want[1], while the lock is released: a ledger we have
\* becomes full, another is acquired, with some of the ledgers before it.
FetchSave ==
    LET l == Ancestor(valid, want[1]) IN
    /\ thread = "fetch"
    /\ IF l \in have
       THEN saveFull(l) /\ thread' = "fetchMark" /\ UNCHANGED acquiring
       ELSE /\ acquiring' = acquiring \union
                 ({Ancestor(valid, s) : s \in Max({1, want[1] - FetchSize + 1})..want[1]}
                  \ (have \union arrived))
            /\ thread' = "fetched"
            /\ UNCHANGED <<row, complete>>
    /\ UNCHANGED <<inputs, have, arrived, chain, work, want, ready, fill>>

FetchMarkStops ==
    LET l == Ancestor(valid, want[1]) IN
    /\ thread = "fetchMark"
    /\ markFull(l)
    /\ EndIteration(FALSE)
    /\ want' = <<0, NullLedger>>
    /\ UNCHANGED <<inputs, fetching, lastValid, pub, streamed, ready, row, fill>>

\* A job fills the sequences below when the database holds the parent.
FetchMark ==
    LET l == Ancestor(valid, want[1]) IN
    /\ thread = "fetchMark"
    /\ markFull(l)
    /\ fill' = IF fill.top = 0 /\ Len(l) > 1 /\ row[Len(l) - 1] = parentOf(l)
               THEN [NoFill EXCEPT !.top = Len(l), !.cur = l] ELSE fill
    /\ EndIteration(TRUE)
    /\ want' = <<0, NullLedger>>
    /\ UNCHANGED <<inputs, fetching, lastValid, pub, streamed, ready, row>>

Fetched ==
    /\ thread = "fetched"
    /\ EndIteration(Len(valid) # Len(pub))
    /\ want' = <<0, NullLedger>>
    /\ UNCHANGED <<inputs, fetching, chain, ready, history>>

\* tryFill reads the hashes of the sequences below, which are complete as
\* long as each is the parent of the one above.
FillRead ==
    /\ fill.top # 0 /\ ~fill.read
    /\ fill' = [fill EXCEPT !.read = TRUE, !.rows = {row[s] : s \in 1..fill.top}]
    /\ complete' = complete \union {fill.top}
    /\ UNCHANGED <<inputs, fetching, chain, advance, row>>

FillNext ==
    /\ Len(fill.cur) > 1 /\ (Len(fill.cur) - 1) \notin complete
    /\ parentOf(fill.cur) \in fill.rows

FillStep ==
    /\ fill.read /\ FillNext
    /\ fill' = [fill EXCEPT !.cur = parentOf(fill.cur)]
    /\ UNCHANGED <<inputs, fetching, chain, advance, row, complete>>

FillEnd ==
    /\ fill.read /\ ~FillNext
    /\ complete' = complete \union Len(fill.cur)..fill.top
    /\ fill' = NoFill
    /\ tryAdvance(valid)
    /\ UNCHANGED <<inputs, fetching, chain, want, ready, row>>

Advance(inSync, more) ==
    \/ FindNewLedgers(inSync) \/ Gather(inSync)
    \/ SaveFull \/ MarkFull \/ setPubLedger \/ pubLedger(more)
    \/ FetchSave \/ FetchMark \/ Fetched

Fill == FillRead \/ FillStep \/ FillEnd

Next ==
    \/ \E v \in Validators, l \in Validated : AddValidation(v, l)
    \/ \E l \in AllLedgers : CheckHash(l) \/ Arrive(l) \/ AcquireFails(l)
    \/ \E l \in AllLedgers, timely \in Clocks :
          CheckLedger(l, timely) \/ AcquisitionDone(l, timely) \/ Built(l, timely)
    \/ \E s \in BuildSeqs : StartBuild(s)
    \/ \E l \in have : Len(l) \in BuildSeqs /\ switchLCL(l)
    \/ \E inSync \in Syncs, more \in PathWork : Advance(inSync, more)
    \/ Fill

\* The jobs run, and an acquisition that does not fail ends.
Fairness ==
    /\ \A l \in AllLedgers :
          WF_vars(Arrive(l)) /\ WF_vars(\E t \in Clocks : AcquisitionDone(l, t))
    /\ WF_vars(\E inSync \in Syncs, more \in PathWork : Advance(inSync, more))
    /\ WF_vars(Fill)

Spec == Init /\ [][Next]_vars /\ Fairness

-----------------------------------------------------------------------------
MaybeLedger == AllLedgers \union {NullLedger}

TypeOK ==
    /\ vals \in [Validators -> SUBSET AllLedgers]
    /\ UNION {heard, checks, have, acquiring, arrived} \subseteq AllLedgers
    /\ {valid, lastValid, pub, streamed} \subseteq MaybeLedger
    /\ building \in 0..LastSeq
    /\ work \in BOOLEAN
    /\ thread \in {"idle", "top", "gather", "full", "mark", "setPub", "stream",
                   "fetch", "fetchMark", "fetched"}
    /\ want \in (0..LastSeq) \X MaybeLedger
    /\ \A k \in 1..Len(ready) : ready[k] \in AllLedgers
    /\ row \in [1..LastSeq -> MaybeLedger]
    /\ complete \subseteq 1..LastSeq
    /\ fill.top \in 0..LastSeq /\ fill.cur \in MaybeLedger

(* One branch is validated: the fully validated ledger, the last ledger seen
   with a quorum (which isCompatible holds other ledgers against), the
   published one and the one clients were told of lie on one branch, in this
   order, whatever a minority of the validators is on. *)
OneBranch ==
    /\ Comparable(valid, lastValid)
    /\ DescendsFrom(valid, pub)
    /\ DescendsFrom(pub, streamed)

(* The validated ledger only moves on, to a descendant, and only with a
   quorum of trusted validations. *)
ValidStep ==
    valid' # valid => /\ DescendsFrom(valid', valid)
                      /\ numTrustedForLedger(valid') >= Quorum
ValidAdvances == [][ValidStep]_vars

(* Clients are given every ledger after the first, each once and right after
   its parent, unless more than MAX_LEDGER_GAP ledgers are skipped at once,
   although ledgers arrive in any order and new ones are validated while the
   advance job has released the lock. *)
PublishStep ==
    streamed' # streamed =>
        \/ streamed = NullLedger
        \/ parentOf(streamed') = streamed
        \/ Len(streamed') > Len(streamed) + MaxGap
PublishedInOrder == [][PublishStep]_vars

(* A sequence in the complete set is indexed in the database as the ledger
   of the validated chain, whatever branch the database held at startup and
   however tryFill, setFullLedger and fixMismatch interleave. *)
CompleteOnChain ==
    \A s \in complete : s =< Len(valid) /\ row[s] = Ancestor(valid, s)

(* The advance job is never left waiting: when work was asked for and there
   is a validated ledger, a job is queued or running. *)
WorkHasThread ==
    work /\ valid # NullLedger => thread # "idle"

(* A validated ledger is published in the end, if what is acquired arrives. *)
PublishesAll ==
    \A l \in AllLedgers : valid = l ~> Len(pub) >= Len(l)

(* The configured history before a published ledger is completed in the end,
   if what is acquired arrives and the server is in sync. *)
HistoryFills ==
    []<>(complete # {} => {s \in 1..Len(pub) : shouldAcquire(s)} \subseteq complete)

(* What consensusBuilt's "Of the ledgers with sufficient validations, find the
   one with the highest sequence" says: when the ledger it built cannot be
   validated, the highest ledger that has as many current validations as are
   needed is looked at. *)
SufficientAreChecked ==
    [][\A l \in AllLedgers :
         building # 0 /\ building' = 0 /\ l \notin heard \union have' \union acquiring'
         => l \notin SavedUpFor(Quorum - 1)]_vars
=============================================================================
