----------------------------- MODULE SHAMapStore -----------------------------
(***************************************************************************)
(* Online deletion (SHAMapStoreImp.cpp, DatabaseRotatingImp.cpp): two      *)
(* backends of tree nodes, a writable one and an archive, that a thread    *)
(* rotates every deleteInterval validated ledgers, after it has deleted    *)
(* old rows of the SQL tables and copied the validated state.  Crashes and *)
(* restarts may come between any two steps.                                *)
(*                                                                         *)
(* A ledger's state is a function from keys to the sequence that last      *)
(* changed the key, so that <<key, seq>> is a tree node.  rows stands for  *)
(* the four SQL tables that are cut alike.  A directory is a number, its   *)
(* content a set of nodes.                                                 *)
(***************************************************************************)
EXTENDS Naturals, FiniteSets, Sequences, FiniteSetsExt

CONSTANTS Keys,             \* what a ledger's state is made of
          MaxSeq,           \* the last ledger
          MaxDirs,          \* how many directories there may be at once
          deleteInterval,   \* setup_.deleteInterval
          deleteBatch,      \* setup_.deleteBatch
          advisoryDelete,   \* setup_.advisoryDelete
          Grants,           \* the sequences can_delete is called with
          EntriesAge        \* are cache entries gone before the next rotation?

StoreAssumption ==
    /\ {MaxSeq, MaxDirs, deleteInterval, deleteBatch} \subseteq Nat \ {0}
    /\ Grants \subseteq 0 .. MaxSeq /\ {advisoryDelete, EntriesAge} \subseteq BOOLEAN

VARIABLES states,           \* the validated ledgers: a sequence of states
          disk,             \* the directories and their nodes
          rows,             \* the sequences with rows in the SQL tables
          savedState,            \* the state database: DbState and CanDelete
          storeAt,               \* where the process and its deletion thread are
          stop_, newLedger_, canDelete_, healthy_,
          backends,         \* the directories of the two backends
          run,              \* the locals of run() and clearSql()
          hot               \* nodes the positive cache may still hold from
                            \* before the last rotation

durable == <<states, disk, rows, savedState>>
storeVars == <<durable, storeAt, stop_, newLedger_, canDelete_, healthy_, backends, run, hot>>

StoreSeqs == 1 .. MaxSeq
Nodes == Keys \X StoreSeqs
Dirs == 1 .. MaxDirs
NoDir == 0
Forever == MaxSeq + 1       \* numeric_limits<LedgerIndex>::max()
NoBackends == [writable |-> NoDir, archive |-> NoDir]
Idle == [validatedSeq |-> 0, left |-> {}, min |-> 0, newDir |-> NoDir, granted |-> 0]

closed == Len(states)
NodesOf(seq) == {<<k, states[seq][k]>> : k \in Keys}
Up == storeAt \notin {"down", "stateDbError"}
Serving == storeAt \notin {"down", "stateDbError", "open", "ready"}

StoreInit ==
    /\ states = <<>> /\ disk = [d \in {} |-> {}] /\ rows = {}
    /\ savedState = [writable |-> NoDir, archive |-> NoDir, lastRotated |-> 0, canDelete |-> 0]
    /\ storeAt = "down"
    /\ stop_ = FALSE /\ newLedger_ = 0 /\ canDelete_ = Forever /\ healthy_ = TRUE
    /\ backends = NoBackends /\ run = [lastRotated |-> 0, cycle |-> Idle] /\ hot = {}

-----------------------------------------------------------------------------
(* Starting.                                                               *)

\* makeBackendRotating(): a directory under a name that nothing has.
Unused == Min(Dirs \ DOMAIN disk)
makeBackendRotating ==
    /\ DOMAIN disk # Dirs
    /\ disk' = [d \in DOMAIN disk \cup {Unused} |-> IF d \in DOMAIN disk THEN disk[d] ELSE {}]
Keep(dirs) == disk' = [d \in DOMAIN disk \cap dirs |-> disk[d]]
Store(d, nodes) == disk' = [disk EXCEPT ![d] = @ \cup nodes]

\* The process starts.  dbPaths(): directories the saved state does not name
\* are removed; a name without its directory is an error.
dbPaths ==
    /\ storeAt = "down"
    /\ Keep({savedState.writable, savedState.archive})
    /\ storeAt' = IF /\ {savedState.writable, savedState.archive} \ {NoDir} \subseteq DOMAIN disk
                     /\ (savedState.writable = NoDir) = (savedState.archive = NoDir)
                  THEN "open" ELSE "stateDbError"
    /\ UNCHANGED <<states, rows, savedState, stop_, newLedger_, canDelete_, healthy_, backends,
                   run, hot>>

\* makeDatabase() opens the backends the saved state names; the first time it
\* makes two of them and then saves their names.
makeDirectory ==
    /\ storeAt = "open" /\ savedState.writable = NoDir /\ Cardinality(DOMAIN disk) < 2
    /\ makeBackendRotating
    /\ UNCHANGED <<states, rows, savedState, storeAt, stop_, newLedger_, canDelete_, healthy_,
                   backends, run, hot>>
makeDatabaseNamesFirst ==
    /\ storeAt = "open"
    /\ \/ /\ savedState.writable # NoDir /\ storeAt' = "ready" /\ UNCHANGED savedState
          /\ backends' = [writable |-> savedState.writable, archive |-> savedState.archive]
       \/ /\ savedState.writable = NoDir /\ UNCHANGED <<storeAt, backends>>
          /\ savedState' = [savedState EXCEPT !.writable = 1, !.archive = 2]
    /\ UNCHANGED <<states, disk, rows, stop_, newLedger_, canDelete_, healthy_, run, hot>>
makeDatabase ==
    /\ storeAt = "open"
    /\ \/ savedState.writable # NoDir /\ UNCHANGED savedState
       \/ /\ savedState.writable = NoDir /\ Cardinality(DOMAIN disk) = 2
          /\ savedState' = [savedState EXCEPT !.writable = Min(DOMAIN disk), !.archive = Max(DOMAIN disk)]
    /\ backends' = [writable |-> savedState'.writable, archive |-> savedState'.archive]
    /\ storeAt' = "ready"
    /\ UNCHANGED <<states, disk, rows, stop_, newLedger_, canDelete_, healthy_, run, hot>>

\* run() begins.
runBegins ==
    /\ storeAt = "ready"
    /\ run' = [run EXCEPT !.lastRotated = savedState.lastRotated]
    /\ canDelete_' = IF advisoryDelete THEN savedState.canDelete ELSE canDelete_
    /\ storeAt' = "top"
    /\ UNCHANGED <<durable, stop_, newLedger_, healthy_, backends, hot>>

\* The process ends: it crashes, or it has stopped.
Crash ==
    /\ Up
    /\ storeAt' = "down"
    /\ stop_' = FALSE /\ newLedger_' = 0 /\ canDelete_' = Forever /\ healthy_' = TRUE
    /\ backends' = NoBackends /\ run' = [lastRotated |-> 0, cycle |-> Idle] /\ hot' = {}
    /\ UNCHANGED durable

-----------------------------------------------------------------------------
(* The other threads: ledgers are validated, nodes read.                   *)

\* A store that took the writable backend before a rotation may end after it.
StoreTargets == {backends.writable} \cup (IF storeAt = "delete" THEN {backends.archive} ELSE {})

\* A ledger that changes some keys is validated: its new nodes and its rows are
\* stored, and onLedgerClosed() hands it on.
onLedgerClosed ==
    /\ Serving /\ storeAt # "swap" /\ closed < MaxSeq
    /\ \E changed \in SUBSET Keys, d \in StoreTargets :
          LET seq == closed + 1
              new == IF closed = 0 THEN Keys ELSE changed
          IN  /\ states' = Append(states, [k \in Keys |-> IF k \in new THEN seq
                                                          ELSE states[closed][k]])
              /\ Store(d, new \X {seq})
              /\ rows' = rows \cup {seq}
              /\ newLedger_' = seq
    /\ UNCHANGED <<savedState, storeAt, stop_, canDelete_, healthy_, backends, run, hot>>

\* doFetch() and fetchFrom(): a node only the archive has is copied, unless the
\* positive cache has it.
ArchiveOnly == disk[backends.archive] \ disk[backends.writable]
Fetch(nodes) == Store(backends.writable, nodes \cap ArchiveOnly)
fetch(n) ==
    /\ Serving /\ storeAt # "swap" /\ n \in ArchiveOnly
    /\ Fetch({n})
    /\ UNCHANGED <<states, rows, savedState, storeAt, stop_, newLedger_, canDelete_, healthy_,
                   backends, run, hot>>

setCanDelete(seq) ==
    /\ Serving
    /\ canDelete_' = IF advisoryDelete THEN seq ELSE canDelete_
    /\ savedState' = [savedState EXCEPT !.canDelete = seq]
    /\ UNCHANGED <<states, disk, rows, storeAt, stop_, newLedger_, healthy_, backends, run, hot>>

onStop ==
    /\ Serving /\ ~stop_
    /\ stop_' = TRUE
    /\ UNCHANGED <<durable, storeAt, newLedger_, canDelete_, healthy_, backends, run, hot>>
-----------------------------------------------------------------------------
(* The deletion thread.                                                    *)

others == <<states, stop_, newLedger_, canDelete_>>
Cycle(c) == run' = [run EXCEPT !.cycle = c]

\* The loop begins: healthy_ is set, a stop is seen, or the thread waits.
top ==
    /\ storeAt = "top"
    /\ healthy_' = TRUE
    /\ storeAt' = IF stop_ THEN "stopped" ELSE "wait"
    /\ Cycle(Idle)
    /\ UNCHANGED <<others, disk, rows, savedState, backends, hot>>

\* The thread wakes and takes the ledger.  Is it time to rotate?
rotates(seq, last) == seq >= last + deleteInterval /\ canDelete_ >= last - 1
wake ==
    /\ storeAt = "wait" /\ newLedger_ # 0
    /\ newLedger_' = 0
    /\ LET last == IF run.lastRotated = 0 THEN newLedger_ ELSE run.lastRotated
       IN  /\ savedState' = [savedState EXCEPT !.lastRotated = IF run.lastRotated = 0 THEN last ELSE @]
           /\ IF rotates(newLedger_, last)
              THEN /\ run' = [lastRotated |-> last,
                              cycle |-> [Idle EXCEPT !.validatedSeq = newLedger_,
                                                     !.granted = canDelete_]]
                   /\ hot' \in (IF EntriesAge THEN {{}} ELSE SUBSET hot)
                   /\ storeAt' = "begin"
              ELSE /\ run' = [run EXCEPT !.lastRotated = last]
                   /\ storeAt' = "top" /\ UNCHANGED hot
    /\ UNCHANGED <<states, disk, rows, stop_, canDelete_, healthy_, backends>>
wakeForStop ==
    /\ storeAt = "wait" /\ newLedger_ = 0 /\ stop_
    /\ storeAt' = "top"
    /\ UNCHANGED <<others, disk, rows, savedState, healthy_, backends, run, hot>>

\* health(): a stop, or a server that is not full or whose validated ledger is
\* old.  Once unhealthy, it stays so until the loop begins again.
health == healthy_' \in (IF stop_ THEN {healthy_} ELSE {healthy_, FALSE})
Goes(next, else) == health /\ storeAt' = IF ~stop_ /\ healthy_' THEN next ELSE else

\* The switch on health() between the phases of run().
Phase(from, next) ==
    /\ storeAt = from
    /\ Goes(next, IF stop_ THEN "stopped" ELSE "top")
    /\ UNCHANGED <<others, disk, rows, savedState, backends, run, hot>>

\* clearPrior() and clearSql(): the rows before lastRotated, in batches.
clearSql ==
    /\ storeAt = "clear"
    /\ LET first == Min(rows)
       IN  IF rows = {} \/ first > run.lastRotated
           THEN storeAt' = "cleared" /\ UNCHANGED <<healthy_, run>>
           ELSE Goes("batch", "cleared") /\ Cycle([run.cycle EXCEPT !.min = first])
    /\ UNCHANGED <<others, disk, rows, savedState, backends, hot>>
BatchEnd == Min({run.lastRotated, run.cycle.min + deleteBatch})
deleteRows ==
    /\ storeAt = "batch"
    /\ IF run.cycle.min < run.lastRotated
       THEN /\ rows' = {s \in rows : s >= BatchEnd}
            /\ Cycle([run.cycle EXCEPT !.min = BatchEnd])
            /\ Goes("batch", "cleared")
       ELSE storeAt' = "cleared" /\ UNCHANGED <<rows, run, healthy_>>
    /\ UNCHANGED <<others, disk, savedState, backends, hot>>

\* The validated state is visited.
visitNodes ==
    /\ storeAt = "visit"
    /\ Cycle([run.cycle EXCEPT !.left = NodesOf(run.cycle.validatedSeq)])
    /\ storeAt' = "copy"
    /\ UNCHANGED <<others, disk, rows, savedState, healthy_, backends, hot>>

\* copyNode() fetches a node and looks at health().
copyNode(n) ==
    /\ storeAt = "copy" /\ n \in run.cycle.left
    /\ Fetch({n} \ hot)
    /\ Cycle([run.cycle EXCEPT !.left = @ \ {n}])
    /\ Goes(IF run.cycle.left = {n} THEN "copied" ELSE "copy", "copied")
    /\ UNCHANGED <<others, rows, savedState, backends, hot>>

\* freshenCaches(): the nodes some cache still knows are fetched too.
freshenCaches ==
    /\ storeAt = "freshen"
    /\ \E known \in SUBSET ArchiveOnly : Fetch(known \ hot)
    /\ storeAt' = "freshened"
    /\ UNCHANGED <<others, rows, savedState, healthy_, backends, run, hot>>

\* A new backend, and clearCaches().
newBackend ==
    /\ storeAt = "make"
    /\ makeBackendRotating
    /\ Cycle([run.cycle EXCEPT !.newDir = Unused])
    /\ storeAt' = "made"
    /\ UNCHANGED <<others, rows, savedState, healthy_, backends, hot>>

\* Under the lock of the backends: setState(), then rotateBackends().
setState ==
    /\ storeAt = "save"
    /\ savedState' = [savedState EXCEPT !.writable = run.cycle.newDir, !.archive = backends.writable,
                              !.lastRotated = run.cycle.validatedSeq]
    /\ run' = [run EXCEPT !.lastRotated = run.cycle.validatedSeq]
    /\ storeAt' = "swap"
    /\ UNCHANGED <<others, disk, rows, healthy_, backends, hot>>
rotateBackends ==
    /\ storeAt = "swap"
    /\ backends' = [writable |-> run.cycle.newDir, archive |-> backends.writable]
    /\ Cycle([run.cycle EXCEPT !.newDir = backends.archive])
    /\ hot' = disk[backends.writable]
    /\ storeAt' = "delete"
    /\ UNCHANGED <<others, disk, rows, savedState, healthy_>>

\* The old backend is closed and its directory deleted.
setDeletePath ==
    /\ storeAt = "delete"
    /\ Keep(DOMAIN disk \ {run.cycle.newDir})
    /\ storeAt' = "top"
    /\ UNCHANGED <<others, rows, savedState, healthy_, backends, run, hot>>

StoreNext ==
    \/ dbPaths \/ makeDirectory \/ makeDatabase \/ runBegins \/ Crash
    \/ onLedgerClosed \/ onStop
    \/ \E n \in Nodes : fetch(n) \/ copyNode(n)
    \/ \E seq \in Grants : setCanDelete(seq)
    \/ top \/ wake \/ wakeForStop
    \/ Phase("begin", "clear") \/ clearSql \/ deleteRows
    \/ Phase("cleared", "visit") \/ visitNodes
    \/ Phase("copied", "freshen") \/ freshenCaches
    \/ Phase("freshened", "make") \/ newBackend
    \/ Phase("made", "save") \/ setState \/ rotateBackends \/ setDeletePath

StoreSpec == StoreInit /\ [][StoreNext]_storeVars

-----------------------------------------------------------------------------
\* Every variable has its type.
StoreTypeOK ==
    /\ states \in Seq([Keys -> StoreSeqs]) /\ closed <= MaxSeq
    /\ DOMAIN disk \subseteq Dirs /\ \A d \in DOMAIN disk : disk[d] \subseteq Nodes
    /\ rows \subseteq StoreSeqs /\ hot \subseteq Nodes
    /\ savedState \in [writable : Dirs \cup {NoDir}, archive : Dirs \cup {NoDir},
                  lastRotated : 0 .. MaxSeq, canDelete : 0 .. MaxSeq]
    /\ newLedger_ \in 0 .. MaxSeq /\ canDelete_ \in 0 .. Forever
    /\ {stop_, healthy_} \subseteq BOOLEAN
    /\ run.lastRotated \in 0 .. MaxSeq
    /\ run.cycle \in [validatedSeq : 0 .. MaxSeq, left : SUBSET Nodes, min : 0 .. MaxSeq,
                      newDir : Dirs \cup {NoDir}, granted : 0 .. Forever]

\* Whenever the process dies, the next one finds the directories the state
\* database names: it never ends with "state db error" (SHAMapStoreImp.cpp).
StartsAgain == storeAt # "stateDbError"

\* From the last rotated ledger on, every node of every validated ledger is in
\* one of the two directories that the state database names, whatever aborted
\* or interrupted the rotation.
RecentWhole ==
    savedState.lastRotated # 0 =>
        \A seq \in savedState.lastRotated .. closed :
            NodesOf(seq) \subseteq disk[savedState.writable] \cup disk[savedState.archive]

\* A crash between any two steps leaves the recent ledgers whole, and a state
\* database from which the next process starts: the two above.
RecentLedgersWhole == StartsAgain /\ RecentWhole

\* Rows are deleted before the last rotated ledger only, and not above what
\* can_delete allowed when the rotation began.
DeleteStep ==
    \A seq \in rows \ rows' : seq < savedState.lastRotated /\ seq <= run.cycle.granted
DeletesAllowedOnly == [][DeleteStep]_storeVars

\* The ledgers whose rows are kept have their nodes: "All ledgers prior to this
\* one [the last rotated] are eligible for deletion in the next rotation"
\* (SHAMapStoreImp.h).
KeptLedgersWhole ==
    Serving => \A seq \in rows :
        NodesOf(seq) \subseteq disk[backends.writable] \cup disk[backends.archive] \cup hot

=============================================================================
