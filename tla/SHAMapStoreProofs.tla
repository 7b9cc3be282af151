-------------------------- MODULE SHAMapStoreProofs --------------------------
(***************************************************************************)
(* Proofs about online deletion, for any keys, ledgers, directories,       *)
(* intervals and batches, with a crash between any two steps.              *)
(***************************************************************************)
EXTENDS SHAMapStore, FiniteSetTheorems, SequenceTheorems, WellFoundedInduction, TLAPS

\* A rotation is under way: the ledger to rotate at is chosen, the state not saved yet.
Copies == {"freshen", "freshened", "make", "made", "save"}
Rotating == storeAt \in {"begin", "clear", "batch", "cleared", "visit", "copy", "copied"} \cup Copies

StoreShape ==
    /\ states \in Seq([Keys -> StoreSeqs]) /\ rows \subseteq Nat
    /\ DOMAIN disk \subseteq Dirs /\ \A d \in DOMAIN disk : disk[d] \subseteq Nodes
    /\ savedState \in [writable : Dirs \cup {NoDir}, archive : Dirs \cup {NoDir},
                       lastRotated : Nat, canDelete : Nat]
    /\ storeAt \in {"down", "open", "ready", "top", "wait", "stopped", "begin", "clear", "batch",
                    "cleared", "visit", "copy", "copied", "swap", "delete"} \cup Copies
    /\ newLedger_ \in Nat /\ canDelete_ \in Nat /\ stop_ \in BOOLEAN /\ healthy_ \in BOOLEAN
    /\ backends \in [writable : Dirs \cup {NoDir}, archive : Dirs \cup {NoDir}]
    /\ run \in [lastRotated : Nat,
                cycle : [validatedSeq : Nat, left : SUBSET Nodes, min : Nat,
                         newDir : Dirs \cup {NoDir}, granted : Nat]]

\* The state database names two directories that exist, or none.
DirsFound ==
    /\ savedState.writable = NoDir <=> savedState.archive = NoDir
    /\ savedState.writable # NoDir =>
          /\ savedState.writable # savedState.archive
          /\ savedState.writable \in DOMAIN disk /\ savedState.archive \in DOMAIN disk

\* The process uses the directories the state database names, but while it swaps
\* them; the directory it made or is about to delete is another one.
BackendsNamed ==
    /\ storeAt = "ready" \/ Serving => savedState.writable # NoDir
    /\ (storeAt = "ready" \/ Serving) /\ storeAt # "swap" =>
          /\ backends.writable = savedState.writable
          /\ backends.archive = savedState.archive
    /\ storeAt = "swap" =>
          /\ backends.writable = savedState.archive /\ run.cycle.newDir = savedState.writable
          /\ backends.archive # savedState.writable /\ backends.archive # savedState.archive
    /\ storeAt \in {"made", "save"} => run.cycle.newDir \in DOMAIN disk
    /\ storeAt \in {"made", "save", "delete"} =>
          run.cycle.newDir # savedState.writable /\ run.cycle.newDir # savedState.archive

\* What the thread knows of the ledgers is what is saved and the last validated one.
LedgersKnown ==
    /\ savedState.lastRotated <= closed
    /\ savedState.writable = NoDir => closed = 0
    /\ newLedger_ # 0 => newLedger_ = closed
    /\ Serving => run.lastRotated = savedState.lastRotated
    /\ Rotating => /\ run.cycle.validatedSeq \in 1 .. closed
                   /\ run.cycle.validatedSeq >= savedState.lastRotated
                   /\ run.cycle.granted + 1 >= run.lastRotated
                   /\ EntriesAge => hot = {}

\* From the last rotated ledger on, or from the first when none was, all is there, if the
\* cache does not hide from the copy what the archive has.
Whole ==
    EntriesAge => \A s \in 1 .. closed :
        s >= savedState.lastRotated =>
            NodesOf(s) \subseteq disk[savedState.writable] \cup disk[savedState.archive]

\* What ledgers changed since the rotation began is in the writable backend.
SinceBegun ==
    Rotating => \A s \in run.cycle.validatedSeq .. closed :
                    NodesOf(s) \subseteq NodesOf(run.cycle.validatedSeq) \cup disk[backends.writable]

\* What was copied is in the writable backend; the copy goes on as long as the server is
\* healthy.
CopiedSoFar ==
    /\ storeAt = "copy" =>
          /\ run.cycle.left \subseteq NodesOf(run.cycle.validatedSeq)
          /\ EntriesAge => NodesOf(run.cycle.validatedSeq)
                             \subseteq run.cycle.left \cup disk[backends.writable]
    /\ EntriesAge /\ ((storeAt = "copied" /\ ~stop_ /\ healthy_) \/ storeAt \in Copies) =>
          NodesOf(run.cycle.validatedSeq) \subseteq disk[backends.writable]

StoreInv ==
    /\ StoreShape /\ DirsFound /\ BackendsNamed /\ LedgersKnown
    /\ Whole /\ SinceBegun /\ CopiedSoFar

-----------------------------------------------------------------------------
(* The least of some numbers.                                              *)

LEMMA Least ==
    ASSUME NEW S \in SUBSET Nat, S # {}
    PROVE  Min(S) \in S /\ \A y \in S : Min(S) <= y
<1>1. PICK x \in S : \A y \in S : ~(<<y, x>> \in OpToRel(<, Nat))
  BY WFMin, NatLessThanWellFounded
<1>2. \A y \in S : x <= y
  <2> SUFFICES ASSUME NEW y \in S, ~(x <= y) PROVE FALSE
    OBVIOUS
  <2>1. y < x /\ x \in Nat /\ y \in Nat
    OBVIOUS
  <2>2. <<y, x>> \in OpToRel(<, Nat)
    BY <2>1 DEF OpToRel
  <2> QED BY <1>1, <2>2
<1> QED BY <1>2 DEF Min

LEMMA UnusedIsNew ==
    ASSUME StoreAssumption, StoreShape, DOMAIN disk # Dirs
    PROVE  Unused \in Dirs /\ Unused \notin DOMAIN disk
<1>1. Dirs \ DOMAIN disk \in SUBSET Nat /\ Dirs \ DOMAIN disk # {}
  <2>1. Dirs \subseteq Nat
    BY DEF StoreAssumption, Dirs
  <2>2. DOMAIN disk \subseteq Dirs
    BY DEF StoreShape
  <2> QED BY <2>1, <2>2
<1> QED BY <1>1, Least DEF Unused

\* The two directories of the first start.
LEMMA TwoDirs ==
    ASSUME NEW S \in SUBSET Nat, IsFiniteSet(S), Cardinality(S) = 2
    PROVE  Min(S) \in S /\ Max(S) \in S /\ Min(S) # Max(S)
<1>1. PICK a : a \in S
  BY FS_EmptySet
<1>2. IsFiniteSet(S \ {a}) /\ Cardinality(S \ {a}) = 1
  BY <1>1, FS_RemoveElement
<1>3. PICK b : S \ {a} = {b}
  BY <1>2, FS_Singleton
<1>4. S = {a, b} /\ a # b /\ a \in Nat /\ b \in Nat
  BY <1>1, <1>3
<1>5. Max(S) \in S /\ \A y \in S : Max(S) >= y
  <2>1. \E x \in S : \A y \in S : x >= y
    BY <1>4
  <2> QED BY <2>1 DEF Max
<1>6. Min(S) \in S /\ \A y \in S : Min(S) <= y
  BY <1>4, Least
<1>7. Min(S) \in Nat /\ Max(S) \in Nat
  BY <1>5, <1>6
<1> QED BY <1>4, <1>5, <1>6, <1>7

-----------------------------------------------------------------------------
(* What steps leave alone.                                                 *)

\* No step takes anything from the directories the state database names, and no step
\* moves what it names but makeDatabase and setState.
Grows ==
    /\ states' = states
    /\ savedState'.writable = savedState.writable /\ savedState'.archive = savedState.archive
    /\ savedState'.lastRotated >= savedState.lastRotated
    /\ \A d \in {savedState.writable, savedState.archive} \cap DOMAIN disk :
          d \in DOMAIN disk' /\ disk[d] \subseteq disk'[d]

LEMMA GrowingKeeps ==
    ASSUME StoreInv, savedState'.lastRotated \in Nat, Grows
    PROVE  /\ DirsFound' /\ Whole' /\ closed' = closed
           /\ \A s : NodesOf(s)' = NodesOf(s)
<1>1. closed' = closed
  BY DEF Grows, closed
<1>2. \A s : NodesOf(s)' = NodesOf(s)
  BY DEF Grows, NodesOf
<1>3. DirsFound'
  BY DEF StoreInv, DirsFound, Grows
<1>4. closed \in Nat
  BY DEF StoreInv, StoreShape, closed
<1>5. Whole'
  <2> SUFFICES ASSUME EntriesAge, NEW s \in 1 .. closed, s >= savedState'.lastRotated
               PROVE  NodesOf(s) \subseteq disk'[savedState'.writable] \cup disk'[savedState'.archive]
    BY <1>1, <1>2 DEF Whole
  <2>1. savedState.writable # NoDir
    BY <1>4 DEF StoreInv, LedgersKnown
  <2>2. /\ disk[savedState.writable] \subseteq disk'[savedState.writable]
        /\ disk[savedState.archive] \subseteq disk'[savedState.archive]
    BY <2>1 DEF StoreInv, DirsFound, Grows
  <2>3. s >= savedState.lastRotated
    BY <1>4 DEF Grows, StoreInv, StoreShape
  <2>4. NodesOf(s) \subseteq disk[savedState.writable] \cup disk[savedState.archive]
    BY <2>3 DEF StoreInv, Whole
  <2> QED BY <2>2, <2>4 DEF Grows
<1> QED BY <1>1, <1>2, <1>3, <1>5

\* A rotation that goes on keeps what it has copied.
LEMMA RotationGoesOn ==
    ASSUME StoreInv, Grows, savedState'.lastRotated \in Nat, Rotating, Rotating',
           UNCHANGED <<backends, run.cycle.validatedSeq>>
    PROVE  /\ SinceBegun'
           /\ \A N : N \subseteq disk[backends.writable] => N \subseteq disk'[backends'.writable]
<1>1. closed' = closed /\ \A s : NodesOf(s)' = NodesOf(s)
  BY GrowingKeeps
<1>2. backends.writable = savedState.writable /\ savedState.writable \in DOMAIN disk
  BY DEF StoreInv, BackendsNamed, DirsFound, Rotating, Serving, Copies
<1>3. disk[backends.writable] \subseteq disk'[backends'.writable]
  BY <1>2 DEF Grows
<1>4. SinceBegun'
  BY <1>1, <1>3 DEF StoreInv, SinceBegun
<1> QED BY <1>3, <1>4

LEMMA StoreStart == ASSUME StoreAssumption, StoreInit PROVE StoreInv
<1>1. closed = 0
  BY DEF StoreInit, closed
<1>2. StoreShape
  <2>1. Forever \in Nat
    BY DEF StoreAssumption, Forever
  <2>2. /\ run \in [lastRotated : Nat,
                    cycle : [validatedSeq : Nat, left : SUBSET Nodes, min : Nat,
                             newDir : Dirs \cup {NoDir}, granted : Nat]]
        /\ backends \in [writable : Dirs \cup {NoDir}, archive : Dirs \cup {NoDir}]
        /\ savedState \in [writable : Dirs \cup {NoDir}, archive : Dirs \cup {NoDir},
                           lastRotated : Nat, canDelete : Nat]
    BY DEF StoreInit, Idle, NoBackends
  <2>3. states \in Seq([Keys -> StoreSeqs]) /\ DOMAIN disk = {}
    BY DEF StoreInit
  <2>4. rows \subseteq Nat /\ newLedger_ \in Nat /\ stop_ \in BOOLEAN /\ healthy_ \in BOOLEAN
    BY DEF StoreInit
  <2>5. DOMAIN disk \subseteq Dirs /\ \A d \in DOMAIN disk : disk[d] \subseteq Nodes
    BY <2>3
  <2>6. storeAt = "down" /\ canDelete_ = Forever
    BY DEF StoreInit
  <2> QED BY <2>1, <2>2, <2>3, <2>4, <2>5, <2>6 DEF StoreShape
<1>3. DirsFound
  BY DEF StoreInit, DirsFound
<1>4. BackendsNamed /\ LedgersKnown
  BY <1>1 DEF StoreInit, BackendsNamed, LedgersKnown, Serving, Rotating, Copies
<1>5. Whole /\ SinceBegun /\ CopiedSoFar
  BY <1>1 DEF StoreInit, Whole, SinceBegun, CopiedSoFar, Rotating, Copies
<1> QED BY <1>2, <1>3, <1>4, <1>5 DEF StoreInv

-----------------------------------------------------------------------------
(* Starting and ending.                                                    *)

\* Nothing rotates in the states outside the cycle of the thread.
LEMMA AtRest ==
    ASSUME storeAt' \in {"down", "open", "ready", "top", "wait", "stopped", "swap", "delete"}
    PROVE  SinceBegun' /\ CopiedSoFar' /\ ~Rotating'
  BY DEF SinceBegun, CopiedSoFar, Rotating, Copies

LEMMA DbPathsStep == ASSUME StoreAssumption, StoreInv, dbPaths PROVE StoreInv'
<1>1. /\ storeAt' = "open" /\ storeAt = "down"
      /\ disk' = [d \in DOMAIN disk \cap {savedState.writable, savedState.archive} |-> disk[d]]
      /\ UNCHANGED <<states, rows, savedState, stop_, newLedger_, canDelete_, healthy_, backends,
                     run, hot>>
  BY DEF dbPaths, Keep, StoreInv, DirsFound, StoreShape
<1>2. Grows /\ savedState'.lastRotated \in Nat
  BY <1>1 DEF Grows, StoreInv, StoreShape
<1>3. DirsFound' /\ Whole' /\ closed' = closed
  BY <1>2, GrowingKeeps
<1>4. StoreShape'
  BY <1>1 DEF StoreInv, StoreShape
<1>5. SinceBegun' /\ CopiedSoFar' /\ ~Rotating'
  BY <1>1, AtRest
<1>6. BackendsNamed'
  BY <1>1 DEF BackendsNamed, Serving
<1>7. LedgersKnown'
  BY <1>1, <1>3, <1>5 DEF StoreInv, LedgersKnown, Serving
<1> QED BY <1>3, <1>4, <1>5, <1>6, <1>7 DEF StoreInv

LEMMA MakeDirectoryStep == ASSUME StoreAssumption, StoreInv, makeDirectory PROVE StoreInv'
<1>1. /\ storeAt' = "open" /\ storeAt = "open"
      /\ disk' = [d \in DOMAIN disk \cup {Unused} |-> IF d \in DOMAIN disk THEN disk[d] ELSE {}]
      /\ DOMAIN disk # Dirs
      /\ UNCHANGED <<states, rows, savedState, stop_, newLedger_, canDelete_, healthy_, backends,
                     run, hot>>
  BY DEF makeDirectory, makeBackendRotating
<1>2. Unused \in Dirs
  BY <1>1, UnusedIsNew DEF StoreInv
<1>3. Grows /\ savedState'.lastRotated \in Nat
  BY <1>1 DEF Grows, StoreInv, StoreShape
<1>4. DirsFound' /\ Whole' /\ closed' = closed
  BY <1>3, GrowingKeeps
<1>5. StoreShape'
  BY <1>1, <1>2 DEF StoreInv, StoreShape
<1>6. SinceBegun' /\ CopiedSoFar' /\ ~Rotating'
  BY <1>1, AtRest
<1>7. BackendsNamed'
  BY <1>1 DEF BackendsNamed, Serving
<1>8. LedgersKnown'
  BY <1>1, <1>4, <1>6 DEF StoreInv, LedgersKnown, Serving
<1> QED BY <1>4, <1>5, <1>6, <1>7, <1>8 DEF StoreInv

LEMMA MakeDatabaseStep == ASSUME StoreAssumption, StoreInv, makeDatabase PROVE StoreInv'
<1>1. /\ storeAt = "open" /\ storeAt' = "ready"
      /\ backends' = [writable |-> savedState'.writable, archive |-> savedState'.archive]
      /\ UNCHANGED <<states, disk, rows, stop_, newLedger_, canDelete_, healthy_, run, hot>>
  BY DEF makeDatabase
<1>2. SinceBegun' /\ CopiedSoFar' /\ ~Rotating' /\ ~Serving'
  BY <1>1, AtRest DEF Serving
<1>3. CASE savedState.writable # NoDir
  <2>1. savedState' = savedState
    BY <1>3 DEF makeDatabase
  <2>2. Grows /\ savedState'.lastRotated \in Nat
    BY <1>1, <2>1 DEF Grows, StoreInv, StoreShape
  <2>3. DirsFound' /\ Whole' /\ closed' = closed
    BY <2>2, GrowingKeeps
  <2>4. StoreShape'
    BY <1>1, <2>1 DEF StoreInv, StoreShape
  <2>5. BackendsNamed' /\ LedgersKnown'
    BY <1>1, <1>2, <1>3, <2>1, <2>3 DEF StoreInv, BackendsNamed, LedgersKnown
  <2> QED BY <1>2, <2>3, <2>4, <2>5 DEF StoreInv
<1>4. CASE savedState.writable = NoDir
  <2> DEFINE a == Min(DOMAIN disk)
             b == Max(DOMAIN disk)
  <2>1. /\ Cardinality(DOMAIN disk) = 2
        /\ savedState' = [savedState EXCEPT !.writable = a, !.archive = b]
    BY <1>4 DEF makeDatabase
  <2>2. DOMAIN disk \in SUBSET Nat /\ IsFiniteSet(DOMAIN disk)
    <3>1. DOMAIN disk \subseteq 1 .. MaxDirs /\ MaxDirs \in Nat
      BY DEF StoreInv, StoreShape, Dirs, StoreAssumption
    <3>2. IsFiniteSet(1 .. MaxDirs)
      BY <3>1, FS_Interval
    <3> QED BY <3>1, <3>2, FS_Subset
  <2>3. a \in DOMAIN disk /\ b \in DOMAIN disk /\ a # b
    BY <2>1, <2>2, TwoDirs
  <2>4. a \in Dirs /\ b \in Dirs /\ a # NoDir /\ b # NoDir
    BY <2>3 DEF StoreInv, StoreShape, Dirs, NoDir
  <2> HIDE DEF a, b
  <2>5. /\ savedState'.writable = a /\ savedState'.archive = b
        /\ savedState'.lastRotated = savedState.lastRotated
        /\ savedState' \in [writable : Dirs \cup {NoDir}, archive : Dirs \cup {NoDir},
                            lastRotated : Nat, canDelete : Nat]
    BY <2>1, <2>4 DEF StoreInv, StoreShape
  <2>6. StoreShape'
    BY <1>1, <2>4, <2>5 DEF StoreInv, StoreShape
  <2>7. DirsFound' /\ BackendsNamed'
    BY <1>1, <1>2, <2>3, <2>4, <2>5 DEF DirsFound, BackendsNamed
  <2>8. closed' = closed /\ closed = 0
    BY <1>1, <1>4 DEF closed, StoreInv, LedgersKnown
  <2>9. LedgersKnown'
    BY <1>1, <1>2, <2>4, <2>5, <2>8 DEF StoreInv, LedgersKnown
  <2>10. Whole'
    BY <2>8 DEF Whole
  <2> QED BY <1>2, <2>6, <2>7, <2>9, <2>10 DEF StoreInv
<1> QED BY <1>3, <1>4

LEMMA RunBeginsStep == ASSUME StoreAssumption, StoreInv, runBegins PROVE StoreInv'
<1>1. /\ storeAt = "ready" /\ storeAt' = "top"
      /\ run' = [run EXCEPT !.lastRotated = savedState.lastRotated]
      /\ canDelete_' \in {savedState.canDelete, canDelete_}
      /\ UNCHANGED <<states, disk, rows, savedState, stop_, newLedger_, healthy_, backends, hot>>
  BY DEF runBegins, durable
<1>2. Grows /\ savedState'.lastRotated \in Nat
  BY <1>1 DEF Grows, StoreInv, StoreShape
<1>3. DirsFound' /\ Whole' /\ closed' = closed
  BY <1>2, GrowingKeeps
<1>4. StoreShape'
  BY <1>1 DEF StoreInv, StoreShape
<1>5. SinceBegun' /\ CopiedSoFar' /\ ~Rotating'
  BY <1>1, AtRest
<1>6. BackendsNamed'
  BY <1>1 DEF StoreInv, BackendsNamed
<1>7. LedgersKnown'
  BY <1>1, <1>3, <1>5 DEF StoreInv, StoreShape, LedgersKnown
<1> QED BY <1>3, <1>4, <1>5, <1>6, <1>7 DEF StoreInv

LEMMA CrashStep == ASSUME StoreAssumption, StoreInv, Crash PROVE StoreInv'
<1>1. /\ storeAt' = "down" /\ stop_' = FALSE /\ newLedger_' = 0 /\ canDelete_' = Forever
      /\ healthy_' = TRUE /\ backends' = NoBackends
      /\ run' = [lastRotated |-> 0, cycle |-> Idle] /\ hot' = {}
      /\ UNCHANGED <<states, disk, rows, savedState>>
  BY DEF Crash, durable
<1>2. Grows /\ savedState'.lastRotated \in Nat
  BY <1>1 DEF Grows, StoreInv, StoreShape
<1>3. DirsFound' /\ Whole' /\ closed' = closed
  BY <1>2, GrowingKeeps
<1>4. StoreShape'
  <2>1. Forever \in Nat
    BY DEF StoreAssumption, Forever
  <2>2. /\ run' \in [lastRotated : Nat,
                     cycle : [validatedSeq : Nat, left : SUBSET Nodes, min : Nat,
                              newDir : Dirs \cup {NoDir}, granted : Nat]]
        /\ backends' \in [writable : Dirs \cup {NoDir}, archive : Dirs \cup {NoDir}]
    BY <1>1 DEF Idle, NoBackends
  <2> QED BY <1>1, <2>1, <2>2 DEF StoreInv, StoreShape
<1>5. SinceBegun' /\ CopiedSoFar' /\ ~Rotating'
  BY <1>1, AtRest
<1>6. BackendsNamed'
  BY <1>1 DEF BackendsNamed, Serving
<1>7. LedgersKnown'
  BY <1>1, <1>3, <1>5 DEF StoreInv, LedgersKnown, Serving
<1> QED BY <1>3, <1>4, <1>5, <1>6, <1>7 DEF StoreInv

-----------------------------------------------------------------------------
(* The other threads.                                                      *)

LEMMA StoreGrows ==
    ASSUME StoreInv, NEW d \in DOMAIN disk, NEW nodes \in SUBSET Nodes, Store(d, nodes)
    PROVE  /\ DOMAIN disk' = DOMAIN disk
           /\ \A e \in DOMAIN disk : disk[e] \subseteq disk'[e] /\ disk'[e] \subseteq Nodes
           /\ disk'[d] = disk[d] \cup nodes
  BY DEF Store, StoreInv, StoreShape

\* Between rotations and in them, the process uses the directories that are named.
LEMMA InUse ==
    ASSUME StoreInv, Serving, storeAt # "swap"
    PROVE  /\ backends.writable = savedState.writable /\ backends.archive = savedState.archive
           /\ backends.writable \in DOMAIN disk /\ backends.archive \in DOMAIN disk
           /\ backends.writable # backends.archive
           /\ savedState.writable # NoDir /\ savedState.archive # NoDir
  BY DEF StoreInv, BackendsNamed, DirsFound

LEMMA OthersStep ==
    ASSUME StoreInv, StoreShape', Grows, savedState'.lastRotated = savedState.lastRotated,
           DOMAIN disk \subseteq DOMAIN disk', stop_ => stop_',
           UNCHANGED <<storeAt, run, backends, hot, newLedger_, healthy_>>
    PROVE  StoreInv'
<1>0. savedState'.lastRotated \in Nat
  BY DEF StoreShape
<1>1. DirsFound' /\ Whole' /\ closed' = closed /\ \A s : NodesOf(s)' = NodesOf(s)
  BY <1>0, GrowingKeeps
<1>2. BackendsNamed'
  BY DEF StoreInv, BackendsNamed, Serving, Grows
<1>3. LedgersKnown'
  BY <1>1 DEF StoreInv, LedgersKnown, Serving, Rotating, Grows
<1>4. CASE ~Rotating
  <2>1. SinceBegun' /\ CopiedSoFar'
    BY <1>4 DEF SinceBegun, CopiedSoFar, Rotating, Copies
  <2> QED BY <1>1, <1>2, <1>3, <2>1 DEF StoreInv
<1>5. CASE Rotating
  <2>1. Rotating'
    BY <1>5 DEF Rotating
  <2>2. /\ SinceBegun'
        /\ \A N : N \subseteq disk[backends.writable] => N \subseteq disk'[backends'.writable]
    BY <1>0, <1>5, <2>1, RotationGoesOn
  <2>3. disk[backends.writable] \subseteq disk'[backends'.writable]
    BY <2>2
  <2>4. CopiedSoFar'
    BY <1>1, <2>3 DEF StoreInv, CopiedSoFar
  <2> QED BY <1>1, <1>2, <1>3, <2>2, <2>4 DEF StoreInv
<1> QED BY <1>4, <1>5

LEMMA FetchStep == ASSUME StoreInv, NEW n \in Nodes, fetch(n) PROVE StoreInv'
<1>1. /\ Serving /\ storeAt # "swap" /\ Store(backends.writable, {n} \cap ArchiveOnly)
      /\ UNCHANGED <<states, rows, savedState, storeAt, stop_, newLedger_, canDelete_, healthy_,
                     backends, run, hot>>
  BY DEF fetch, Fetch
<1>2. /\ DOMAIN disk' = DOMAIN disk
      /\ \A e \in DOMAIN disk : disk[e] \subseteq disk'[e] /\ disk'[e] \subseteq Nodes
  BY <1>1, InUse, StoreGrows
<1>3. StoreShape'
  BY <1>1, <1>2 DEF StoreInv, StoreShape
<1>4. Grows /\ savedState'.lastRotated = savedState.lastRotated
  BY <1>1, <1>2 DEF Grows, StoreInv, StoreShape
<1> QED BY <1>1, <1>2, <1>3, <1>4, OthersStep

LEMMA QuietStep ==
    ASSUME StoreAssumption, StoreInv,
           (\E seq \in Grants : setCanDelete(seq)) \/ onStop \/ UNCHANGED storeVars
    PROVE  StoreInv'
<1>1. /\ UNCHANGED <<states, disk, rows, storeAt, newLedger_, healthy_, backends, run, hot>>
      /\ stop_' \in BOOLEAN /\ (stop_ => stop_')
      /\ savedState' = savedState \/ \E seq \in Grants : savedState' = [savedState EXCEPT !.canDelete = seq]
      /\ canDelete_' \in {canDelete_} \cup Grants
  BY DEF setCanDelete, onStop, storeVars, durable, StoreInv, StoreShape
<1>2. Grants \subseteq Nat
  BY DEF StoreAssumption
<1>3. /\ savedState' \in [writable : Dirs \cup {NoDir}, archive : Dirs \cup {NoDir},
                          lastRotated : Nat, canDelete : Nat]
      /\ savedState'.writable = savedState.writable /\ savedState'.archive = savedState.archive
      /\ savedState'.lastRotated = savedState.lastRotated
  BY <1>1, <1>2 DEF StoreInv, StoreShape
<1>4. StoreShape'
  BY <1>1, <1>2, <1>3 DEF StoreInv, StoreShape
<1>5. Grows
  BY <1>1, <1>3 DEF Grows, StoreInv, StoreShape
<1> QED BY <1>1, <1>3, <1>4, <1>5, OthersStep

\* The nodes of a new ledger are those it changed and those of the ledger before.
LEMMA LedgerClosedStep == ASSUME StoreAssumption, StoreInv, onLedgerClosed PROVE StoreInv'
<1>0. PICK seq : seq = closed + 1
  OBVIOUS
<1>1. PICK changed \in SUBSET Keys, d \in StoreTargets :
        LET new == IF closed = 0 THEN Keys ELSE changed
        IN  /\ states' = Append(states, [k \in Keys |-> IF k \in new THEN seq ELSE states[closed][k]])
            /\ Store(d, new \X {seq})
            /\ rows' = rows \cup {seq} /\ newLedger_' = seq
  BY <1>0 DEF onLedgerClosed
<1> DEFINE new == IF closed = 0 THEN Keys ELSE changed
           st == [k \in Keys |-> IF k \in new THEN seq ELSE states[closed][k]]
<1>2. /\ Serving /\ storeAt # "swap" /\ closed < MaxSeq
      /\ UNCHANGED <<savedState, storeAt, stop_, canDelete_, healthy_, backends, run, hot>>
  BY DEF onLedgerClosed
<1>3. states' = Append(states, st) /\ Store(d, new \X {seq})
  BY <1>1
<1>4. /\ closed \in Nat /\ MaxSeq \in Nat /\ seq \in StoreSeqs /\ seq \in Nat
      /\ states \in Seq([Keys -> StoreSeqs]) /\ new \subseteq Keys
  BY <1>0, <1>2 DEF StoreInv, StoreShape, StoreAssumption, closed, StoreSeqs
<1>5. st \in [Keys -> StoreSeqs]
  <2>1. closed # 0 => states[closed] \in [Keys -> StoreSeqs]
    BY <1>4 DEF closed
  <2> QED BY <1>4, <2>1
<1>6. /\ d \in DOMAIN disk /\ d \in {savedState.writable, savedState.archive}
      /\ Rotating => d = backends.writable
  BY <1>2, InUse DEF StoreTargets, Rotating, Copies
<1>7. new \X {seq} \in SUBSET Nodes
  BY <1>4 DEF Nodes
<1>8. /\ DOMAIN disk' = DOMAIN disk
      /\ \A e \in DOMAIN disk : disk[e] \subseteq disk'[e] /\ disk'[e] \subseteq Nodes
      /\ disk'[d] = disk[d] \cup (new \X {seq})
  BY <1>3, <1>6, <1>7, StoreGrows
<1>9. /\ states' \in Seq([Keys -> StoreSeqs]) /\ closed' = seq
      /\ \A s \in 1 .. closed : states'[s] = states[s]
      /\ states'[seq] = st
  BY <1>0, <1>3, <1>4, <1>5, AppendProperties DEF closed
<1>10. \A s \in 1 .. closed : NodesOf(s)' = NodesOf(s)
  BY <1>9 DEF NodesOf
<1>11. NodesOf(seq)' \subseteq (new \X {seq}) \cup (IF closed = 0 THEN {} ELSE NodesOf(closed))
  <2> SUFFICES ASSUME NEW k \in Keys
               PROVE  <<k, st[k]>> \in (new \X {seq}) \cup (IF closed = 0 THEN {} ELSE NodesOf(closed))
    BY <1>9 DEF NodesOf
  <2>1. CASE k \in new
    BY <2>1
  <2>2. CASE k \notin new
    BY <2>2 DEF NodesOf
  <2> QED BY <2>1, <2>2
<1>12. rows' = rows \cup {seq} /\ newLedger_' = seq
  BY <1>1
<1> HIDE DEF new, st
<1>14. StoreShape'
  BY <1>2, <1>4, <1>8, <1>9, <1>12, SMTT(20) DEF StoreInv, StoreShape
<1>15. DirsFound' /\ BackendsNamed'
  BY <1>2, <1>8 DEF StoreInv, DirsFound, BackendsNamed, Serving
<1>16. savedState.lastRotated \in Nat
  BY SMTT(20) DEF StoreInv, StoreShape
<1>17. LedgersKnown'
  <2>1. savedState'.writable # NoDir /\ (Rotating' <=> Rotating) /\ (Serving' <=> Serving)
    BY <1>2, InUse, SMTT(20) DEF Rotating, Serving
  <2> QED BY <1>2, <1>4, <1>9, <1>0, <1>12, <1>16, <2>1 DEF StoreInv, LedgersKnown
<1> DEFINE both == disk[savedState.writable] \cup disk[savedState.archive]
           both2 == disk'[savedState'.writable] \cup disk'[savedState'.archive]
<1>18. both \subseteq both2 /\ new \X {seq} \subseteq both2
  BY <1>2, <1>6, <1>8, InUse, SMTT(20)
<1>19. EntriesAge =>
          \A s \in 1 .. closed : s >= savedState.lastRotated => NodesOf(s) \subseteq both
  BY DEF StoreInv, Whole
<1>20. savedState.lastRotated <= closed
  BY DEF StoreInv, LedgersKnown
<1>21. Whole'
  <2> SUFFICES ASSUME EntriesAge PROVE Whole'
    BY DEF Whole
  <2> HIDE DEF both, both2
  <2>1. closed # 0 => NodesOf(closed) \subseteq both
    BY <1>4, <1>19, <1>20
  <2>2. NodesOf(seq)' \subseteq both2
    BY <1>11, <1>18, <2>1
  <2>3. ASSUME NEW s \in 1 .. closed, s >= savedState.lastRotated PROVE NodesOf(s)' \subseteq both2
    BY <1>10, <1>18, <1>19, <2>3
  <2>4. \A s \in 1 .. seq : s \in 1 .. closed \/ s = seq
    BY <1>0, <1>4
  <2> QED BY <1>2, <1>9, <2>2, <2>3, <2>4 DEF Whole, both2
<1>22. CASE ~Rotating
  <2>1. SinceBegun' /\ CopiedSoFar'
    BY <1>2, <1>22 DEF SinceBegun, CopiedSoFar, Rotating, Copies
  <2> QED BY <1>14, <1>15, <1>17, <1>21, <2>1 DEF StoreInv
<1>23. CASE Rotating
  <2> DEFINE vs == run.cycle.validatedSeq
             have == disk[backends.writable]
             have2 == disk'[backends'.writable]
  <2>1. vs \in 1 .. closed /\ vs' = vs
    BY <1>2, <1>23 DEF StoreInv, LedgersKnown
  <2>2. have \subseteq have2 /\ new \X {seq} \subseteq have2
    BY <1>2, <1>6, <1>8, <1>23, InUse
  <2>3. NodesOf(vs)' = NodesOf(vs)
    BY <1>10, <2>1
  <2>4. \A s \in vs .. closed : NodesOf(s) \subseteq NodesOf(vs) \cup have
    BY <1>23 DEF StoreInv, SinceBegun
  <2>5. CopiedSoFar'
    BY <1>2, <2>2, <2>3 DEF StoreInv, CopiedSoFar
  <2> HIDE DEF vs, have, have2
  <2>6. NodesOf(closed) \subseteq NodesOf(vs) \cup have
    BY <1>4, <2>1, <2>4
  <2>7. NodesOf(seq)' \subseteq NodesOf(vs) \cup have2
    BY <1>4, <1>11, <2>1, <2>2, <2>6
  <2>8. ASSUME NEW s \in vs .. seq PROVE NodesOf(s)' \subseteq NodesOf(vs) \cup have2
    <3>1. CASE s = seq
      BY <2>7, <3>1
    <3>2. CASE s # seq
      <4>1. s \in 1 .. closed /\ s \in vs .. closed
        BY <1>0, <1>4, <2>1, <3>2
      <4> QED BY <1>10, <2>2, <2>4, <4>1
    <3> QED BY <3>1, <3>2
  <2>9. SinceBegun'
    BY <1>2, <1>9, <2>1, <2>3, <2>8 DEF SinceBegun, vs, have2
  <2> QED BY <1>14, <1>15, <1>17, <1>21, <2>5, <2>9 DEF StoreInv
<1> QED BY <1>22, <1>23

-----------------------------------------------------------------------------
(* The deletion thread.                                                    *)

\* A step that leaves the data, the backends and the ledgers alone.
LEMMA ThreadStep ==
    ASSUME StoreInv, StoreShape', Serving, storeAt # "swap",
           UNCHANGED <<states, disk, savedState, backends, newLedger_, hot>>,
           run'.lastRotated = run.lastRotated,
           \/ storeAt' \in {"top", "wait", "stopped"}
           \/ /\ Rotating /\ Rotating' /\ CopiedSoFar'
              /\ run'.cycle.validatedSeq = run.cycle.validatedSeq
              /\ run'.cycle.granted = run.cycle.granted
              /\ storeAt' \in {"made", "save"} =>
                    storeAt \in {"made", "save"} /\ run'.cycle.newDir = run.cycle.newDir
    PROVE  StoreInv'
<1>0. Grows /\ savedState'.lastRotated \in Nat
  BY DEF Grows, StoreInv, StoreShape
<1>1. DirsFound' /\ Whole' /\ closed' = closed
  BY <1>0, GrowingKeeps
<1>2. Serving' /\ storeAt' # "swap" /\ storeAt' # "delete"
  BY DEF Rotating, Copies, Serving
<1>3. BackendsNamed'
  BY <1>2, InUse DEF StoreInv, BackendsNamed, Rotating, Copies
<1>4. CASE storeAt' \in {"top", "wait", "stopped"}
  <2>1. SinceBegun' /\ CopiedSoFar' /\ ~Rotating'
    BY <1>4, AtRest
  <2>2. LedgersKnown'
    BY <1>1, <2>1 DEF StoreInv, LedgersKnown
  <2> QED BY <1>1, <1>3, <2>1, <2>2 DEF StoreInv
<1>5. CASE storeAt' \notin {"top", "wait", "stopped"}
  <2>1. SinceBegun'
    BY <1>0, <1>5, RotationGoesOn
  <2>2. LedgersKnown'
    BY <1>1, <1>5 DEF StoreInv, LedgersKnown
  <2> QED BY <1>1, <1>3, <1>5, <2>1, <2>2 DEF StoreInv
<1> QED BY <1>4, <1>5

LEMMA TopStep == ASSUME StoreAssumption, StoreInv, top \/ wakeForStop PROVE StoreInv'
<1>1. /\ storeAt \in {"top", "wait"} /\ storeAt' \in {"top", "wait", "stopped"}
      /\ healthy_' \in BOOLEAN /\ run' \in {run, [run EXCEPT !.cycle = Idle]}
      /\ UNCHANGED <<states, stop_, newLedger_, canDelete_, disk, rows, savedState, backends, hot>>
  BY DEF top, wakeForStop, others, Cycle, StoreInv, StoreShape
<1>2. StoreShape' /\ run'.lastRotated = run.lastRotated
  BY <1>1 DEF StoreInv, StoreShape, Idle, NoDir
<1>3. Serving /\ storeAt # "swap"
  BY <1>1 DEF Serving
<1> QED BY <1>1, <1>2, <1>3, ThreadStep

LEMMA PhaseStep ==
    ASSUME StoreInv,
           \/ Phase("begin", "clear") \/ Phase("cleared", "visit") \/ Phase("copied", "freshen")
           \/ Phase("freshened", "make") \/ Phase("made", "save")
    PROVE  StoreInv'
<1>1. /\ healthy_' \in BOOLEAN /\ (healthy_' => healthy_)
      /\ UNCHANGED <<states, stop_, newLedger_, canDelete_, disk, rows, savedState, backends, run, hot>>
      /\ \/ storeAt' \in {"stopped", "top"}
         \/ storeAt = "begin" /\ storeAt' = "clear"
         \/ storeAt = "cleared" /\ storeAt' = "visit"
         \/ storeAt = "copied" /\ storeAt' = "freshen" /\ ~stop_ /\ healthy_
         \/ storeAt = "freshened" /\ storeAt' = "make"
         \/ storeAt = "made" /\ storeAt' = "save"
      /\ storeAt \in {"begin", "cleared", "copied", "freshened", "made"}
  BY DEF Phase, Goes, health, others, StoreInv, StoreShape
<1>2. StoreShape'
  BY <1>1, SMTT(20) DEF StoreInv, StoreShape, Copies
<1>3. \A s : NodesOf(s)' = NodesOf(s)
  BY <1>1 DEF NodesOf
<1>4. CopiedSoFar'
  BY <1>1, <1>3 DEF StoreInv, CopiedSoFar, Copies
<1>5. Serving /\ storeAt # "swap" /\ Rotating
  BY <1>1 DEF Serving, Rotating, Copies
<1>6. storeAt' \in {"stopped", "top"} \/ Rotating'
  BY <1>1 DEF Rotating, Copies
<1> QED BY <1>1, <1>2, <1>4, <1>5, <1>6, ThreadStep

LEMMA BatchEndIsLow ==
    ASSUME StoreAssumption, StoreInv
    PROVE  BatchEnd \in Nat /\ BatchEnd <= run.lastRotated
<1> DEFINE S == {run.lastRotated, run.cycle.min + deleteBatch}
<1>1. S \in SUBSET Nat /\ S # {} /\ run.lastRotated \in S
  BY DEF StoreInv, StoreShape, StoreAssumption
<1> HIDE DEF S
<1>2. Min(S) \in S /\ Min(S) <= run.lastRotated
  BY <1>1, Least
<1> QED BY <1>1, <1>2 DEF BatchEnd, S

LEMMA SqlStep == ASSUME StoreAssumption, StoreInv, clearSql \/ deleteRows PROVE StoreInv'
<1>1. PICK m \in Nat : run' = run \/ run' = [run EXCEPT !.cycle = [run.cycle EXCEPT !.min = m]]
  <2>1. CASE clearSql
    <3>1. CASE rows = {} \/ Min(rows) > run.lastRotated
      BY <2>1, <3>1 DEF clearSql
    <3>2. CASE ~(rows = {} \/ Min(rows) > run.lastRotated)
      <4>1. Min(rows) \in Nat
        BY <3>2, Least DEF StoreInv, StoreShape
      <4>2. run' = [run EXCEPT !.cycle = [run.cycle EXCEPT !.min = Min(rows)]]
        BY <2>1, <3>2 DEF clearSql, Cycle
      <4> QED BY <4>1, <4>2
    <3> QED BY <3>1, <3>2
  <2>2. CASE deleteRows
    BY <2>2, BatchEndIsLow DEF deleteRows, Cycle
  <2> QED BY <2>1, <2>2
<1>2. /\ healthy_' \in BOOLEAN /\ storeAt \in {"clear", "batch"}
      /\ storeAt' \in {"batch", "cleared"} /\ rows' \subseteq rows
      /\ UNCHANGED <<states, stop_, newLedger_, canDelete_, disk, savedState, backends, hot>>
  BY DEF clearSql, deleteRows, Goes, health, others, StoreInv, StoreShape
<1>3. /\ StoreShape' /\ run'.lastRotated = run.lastRotated
      /\ run'.cycle.validatedSeq = run.cycle.validatedSeq
      /\ run'.cycle.granted = run.cycle.granted
  <2>1. /\ run'.lastRotated = run.lastRotated
        /\ run'.cycle.validatedSeq = run.cycle.validatedSeq
        /\ run'.cycle.granted = run.cycle.granted
        /\ run' \in [lastRotated : Nat,
                     cycle : [validatedSeq : Nat, left : SUBSET Nodes, min : Nat,
                              newDir : Dirs \cup {NoDir}, granted : Nat]]
    <3>1. CASE run' = run
      BY <3>1 DEF StoreInv, StoreShape
    <3>2. CASE run' = [run EXCEPT !.cycle = [run.cycle EXCEPT !.min = m]]
      BY <3>2 DEF StoreInv, StoreShape
    <3> QED BY <1>1, <3>1, <3>2
  <2> QED BY <1>2, <2>1 DEF StoreInv, StoreShape
<1>4. CopiedSoFar'
  BY <1>2 DEF CopiedSoFar, Copies
<1>5. Serving /\ storeAt # "swap" /\ Rotating /\ Rotating' /\ storeAt' \notin {"made", "save"}
  BY <1>2 DEF Serving, Rotating, Copies
<1> QED BY <1>2, <1>3, <1>4, <1>5, ThreadStep

LEMMA VisitStep == ASSUME StoreAssumption, StoreInv, visitNodes PROVE StoreInv'
<1> DEFINE N == NodesOf(run.cycle.validatedSeq)
<1>1. /\ storeAt = "visit" /\ storeAt' = "copy"
      /\ run' = [run EXCEPT !.cycle = [run.cycle EXCEPT !.left = N]]
      /\ UNCHANGED <<states, stop_, newLedger_, canDelete_, disk, rows, savedState, healthy_,
                     backends, hot>>
  BY DEF visitNodes, Cycle, others
<1>2. Serving /\ storeAt # "swap" /\ Rotating /\ Rotating' /\ storeAt' \notin {"made", "save"}
  BY <1>1 DEF Serving, Rotating, Copies
<1>3. N \subseteq Nodes
  <2>1. run.cycle.validatedSeq \in 1 .. closed
    BY <1>2 DEF StoreInv, LedgersKnown
  <2>2. states[run.cycle.validatedSeq] \in [Keys -> StoreSeqs]
    BY <2>1 DEF StoreInv, StoreShape, closed
  <2> QED BY <2>2 DEF NodesOf, Nodes
<1>4. \A s : NodesOf(s)' = NodesOf(s)
  BY <1>1 DEF NodesOf
<1> HIDE DEF N
<1>5. /\ StoreShape' /\ run'.lastRotated = run.lastRotated /\ run'.cycle.left = N
      /\ run'.cycle.validatedSeq = run.cycle.validatedSeq
      /\ run'.cycle.granted = run.cycle.granted
  BY <1>1, <1>3 DEF StoreInv, StoreShape
<1>6. CopiedSoFar'
  <2>1. run'.cycle.left = NodesOf(run.cycle.validatedSeq)'
    BY <1>4, <1>5 DEF N
  <2> QED BY <1>1, <2>1 DEF CopiedSoFar, Copies
<1> QED BY <1>1, <1>2, <1>5, <1>6, ThreadStep

\* If the cache has no entries from before the last rotation, copying a node leaves it in
\* the writable backend.
LEMMA CopyStep ==
    ASSUME StoreAssumption, StoreInv, NEW n \in Nodes, copyNode(n)
    PROVE  StoreInv'
<1> DEFINE vs == run.cycle.validatedSeq
           w == backends.writable
<1>1. /\ storeAt = "copy" /\ n \in run.cycle.left /\ Fetch({n} \ hot)
      /\ run' = [run EXCEPT !.cycle = [run.cycle EXCEPT !.left = @ \ {n}]]
      /\ healthy_' \in BOOLEAN
      /\ storeAt' \in {"copy", "copied"}
      /\ storeAt' = "copied" /\ ~stop_ /\ healthy_' => run.cycle.left = {n}
      /\ UNCHANGED <<states, stop_, newLedger_, canDelete_, rows, savedState, backends, hot>>
  BY DEF copyNode, Goes, health, Cycle, others, StoreInv, StoreShape
<1>2. Serving /\ storeAt # "swap" /\ Rotating /\ Rotating'
  BY <1>1 DEF Serving, Rotating, Copies
<1>3. /\ EntriesAge => hot = {}
      /\ vs \in 1 .. closed /\ vs >= savedState.lastRotated
  BY <1>2 DEF StoreInv, LedgersKnown
<1>4. /\ w = savedState.writable /\ backends.archive = savedState.archive
      /\ w \in DOMAIN disk /\ backends.archive \in DOMAIN disk
  BY <1>2, InUse
<1>5. EntriesAge => n \in disk[w] \cup disk[backends.archive]
  <2>1. n \in NodesOf(vs)
    BY <1>1 DEF StoreInv, CopiedSoFar
  <2> QED BY <1>3, <1>4, <2>1 DEF StoreInv, Whole
<1>6. Store(w, ({n} \ hot) \cap ArchiveOnly) /\ ({n} \ hot) \cap ArchiveOnly \in SUBSET Nodes
  BY <1>1 DEF Fetch
<1>7. /\ DOMAIN disk' = DOMAIN disk
      /\ \A e \in DOMAIN disk : disk[e] \subseteq disk'[e] /\ disk'[e] \subseteq Nodes
      /\ disk'[w] = disk[w] \cup (({n} \ hot) \cap ArchiveOnly)
  BY <1>4, <1>6, StoreGrows
<1>8. EntriesAge => n \in disk'[w]
  BY <1>3, <1>5, <1>7 DEF ArchiveOnly
<1>9. Grows /\ savedState'.lastRotated \in Nat
  BY <1>1, <1>7 DEF Grows, StoreInv, StoreShape
<1>10. DirsFound' /\ Whole' /\ closed' = closed /\ \A s : NodesOf(s)' = NodesOf(s)
  BY <1>9, GrowingKeeps
<1>11. /\ StoreShape' /\ run'.lastRotated = run.lastRotated
       /\ run'.cycle.left = run.cycle.left \ {n}
       /\ run'.cycle.validatedSeq = vs /\ run'.cycle.granted = run.cycle.granted
  BY <1>1, <1>7 DEF StoreInv, StoreShape
<1>12. /\ SinceBegun'
       /\ \A N : N \subseteq disk[backends.writable] => N \subseteq disk'[backends'.writable]
  BY <1>1, <1>2, <1>9, <1>11, RotationGoesOn
<1>13. LedgersKnown' /\ BackendsNamed'
  BY <1>1, <1>2, <1>4, <1>10, <1>11 DEF StoreInv, LedgersKnown, BackendsNamed, Serving
<1>14. CopiedSoFar'
  <2>1. /\ run.cycle.left \subseteq NodesOf(vs)
        /\ EntriesAge => NodesOf(vs) \subseteq run.cycle.left \cup disk[w]
    BY <1>1 DEF StoreInv, CopiedSoFar
  <2>2. disk[w] \subseteq disk'[w] /\ NodesOf(vs)' = NodesOf(vs) /\ run'.cycle.validatedSeq = vs
    BY <1>4, <1>7, <1>10, <1>11
  <2>3. EntriesAge => NodesOf(vs) \subseteq (run.cycle.left \ {n}) \cup disk'[w]
    BY <1>8, <2>1, <2>2
  <2>4. NodesOf(run.cycle.validatedSeq)' = NodesOf(vs)
    BY <1>10, <2>2
  <2>5. backends'.writable = w /\ storeAt' \notin Copies
    BY <1>1 DEF Copies
  <2> HIDE DEF vs, w
  <2> QED BY <1>1, <1>11, <2>1, <2>3, <2>4, <2>5 DEF CopiedSoFar
<1> QED BY <1>10, <1>11, <1>12, <1>13, <1>14 DEF StoreInv

LEMMA FreshenStep == ASSUME StoreAssumption, StoreInv, freshenCaches PROVE StoreInv'
<1>1. PICK known \in SUBSET ArchiveOnly : Fetch(known \ hot)
  BY DEF freshenCaches
<1>2. /\ storeAt = "freshen" /\ storeAt' = "freshened"
      /\ UNCHANGED <<states, stop_, newLedger_, canDelete_, rows, savedState, healthy_, backends,
                     run, hot>>
  BY DEF freshenCaches, others
<1>3. Serving /\ storeAt # "swap" /\ Rotating /\ Rotating' /\ Serving' /\ storeAt \in Copies
  BY <1>2 DEF Serving, Rotating, Copies
<1>4. /\ backends.writable \in DOMAIN disk /\ backends.archive \in DOMAIN disk
      /\ Store(backends.writable, (known \ hot) \cap ArchiveOnly)
  BY <1>1, <1>3, InUse DEF Fetch
<1>5. (known \ hot) \cap ArchiveOnly \in SUBSET Nodes
  BY <1>4 DEF ArchiveOnly, StoreInv, StoreShape
<1>6. /\ DOMAIN disk' = DOMAIN disk
      /\ \A e \in DOMAIN disk : disk[e] \subseteq disk'[e] /\ disk'[e] \subseteq Nodes
  BY <1>4, <1>5, StoreGrows
<1>7. Grows /\ savedState'.lastRotated \in Nat
  BY <1>2, <1>6 DEF Grows, StoreInv, StoreShape
<1>8. DirsFound' /\ Whole' /\ closed' = closed /\ \A s : NodesOf(s)' = NodesOf(s)
  BY <1>7, GrowingKeeps
<1>9. StoreShape'
  BY <1>2, <1>6 DEF StoreInv, StoreShape, Copies
<1>10. /\ SinceBegun'
       /\ \A N : N \subseteq disk[backends.writable] => N \subseteq disk'[backends'.writable]
  BY <1>2, <1>3, <1>7, RotationGoesOn, SMTT(20)
<1>11. LedgersKnown' /\ BackendsNamed'
  BY <1>2, <1>3, <1>8, SMTT(20) DEF StoreInv, LedgersKnown, BackendsNamed
<1>12. CopiedSoFar'
  <2>1. EntriesAge => NodesOf(run.cycle.validatedSeq) \subseteq disk[backends.writable]
    BY <1>3 DEF StoreInv, CopiedSoFar
  <2>2. EntriesAge => NodesOf(run.cycle.validatedSeq)' \subseteq disk'[backends'.writable]
    BY <1>2, <1>8, <1>10, <2>1
  <2> QED BY <1>2, <2>2 DEF CopiedSoFar
<1> QED BY <1>8, <1>9, <1>10, <1>11, <1>12 DEF StoreInv

\* The thread takes the last validated ledger, and begins to rotate if it is time.
LEMMA WakeStep == ASSUME StoreAssumption, StoreInv, wake PROVE StoreInv'
<1> DEFINE last == IF run.lastRotated = 0 THEN newLedger_ ELSE run.lastRotated
<1>1. /\ storeAt = "wait" /\ newLedger_ # 0 /\ newLedger_' = 0
      /\ savedState' = [savedState EXCEPT !.lastRotated = IF run.lastRotated = 0 THEN last ELSE @]
      /\ UNCHANGED <<states, disk, rows, stop_, canDelete_, healthy_, backends>>
  BY DEF wake
<1>2. \/ /\ storeAt' = "begin" /\ canDelete_ >= last - 1 /\ (EntriesAge => hot' = {})
         /\ run' = [lastRotated |-> last,
                    cycle |-> [Idle EXCEPT !.validatedSeq = newLedger_, !.granted = canDelete_]]
      \/ storeAt' = "top" /\ run' = [run EXCEPT !.lastRotated = last]
  BY DEF wake, rotates
<1>3. Serving /\ storeAt # "swap" /\ Serving'
  BY <1>1, <1>2 DEF Serving
<1>4. /\ run.lastRotated = savedState.lastRotated /\ newLedger_ = closed
      /\ savedState.lastRotated <= closed
      /\ closed \in Nat /\ run.lastRotated \in Nat /\ canDelete_ \in Nat
  BY <1>1, <1>3 DEF StoreInv, StoreShape, LedgersKnown, closed
<1>5. /\ last \in 1 .. closed /\ last >= savedState.lastRotated
      /\ IF run.lastRotated = 0 THEN last = newLedger_ ELSE last = savedState.lastRotated
  BY <1>1, <1>4
<1> HIDE DEF last
<1>6. /\ savedState'.writable = savedState.writable /\ savedState'.archive = savedState.archive
      /\ savedState'.lastRotated = last
      /\ savedState' \in [writable : Dirs \cup {NoDir}, archive : Dirs \cup {NoDir},
                          lastRotated : Nat, canDelete : Nat]
  BY <1>1, <1>4, <1>5 DEF StoreInv, StoreShape
<1>7. Grows /\ savedState'.lastRotated \in Nat
  BY <1>1, <1>5, <1>6 DEF Grows
<1>8. DirsFound' /\ Whole' /\ closed' = closed
  BY <1>7, GrowingKeeps
<1>9. /\ run'.lastRotated = last
      /\ storeAt' = "begin" => run'.cycle.validatedSeq = closed /\ run'.cycle.granted = canDelete_
      /\ run' \in [lastRotated : Nat,
                   cycle : [validatedSeq : Nat, left : SUBSET Nodes, min : Nat,
                            newDir : Dirs \cup {NoDir}, granted : Nat]]
  <2>1. CASE storeAt' = "begin"
    <3>1. run' = [lastRotated |-> last,
                  cycle |-> [Idle EXCEPT !.validatedSeq = newLedger_, !.granted = canDelete_]]
      BY <1>2, <2>1
    <3>2. last \in Nat /\ newLedger_ \in Nat
      BY <1>4, <1>5
    <3>3. Idle \in [validatedSeq : Nat, left : SUBSET Nodes, min : Nat,
                    newDir : Dirs \cup {NoDir}, granted : Nat]
      BY DEF Idle
    <3> QED BY <1>4, <3>1, <3>2, <3>3
  <2>2. CASE storeAt' = "top"
    <3>1. run' = [run EXCEPT !.lastRotated = last] /\ last \in Nat
      BY <1>2, <1>4, <1>5, <2>2
    <3> QED BY <2>2, <3>1 DEF StoreInv, StoreShape
  <2> QED BY <1>2, <2>1, <2>2
<1>10. StoreShape'
  BY <1>1, <1>2, <1>6, <1>9 DEF StoreInv, StoreShape
<1>11. BackendsNamed'
  BY <1>1, <1>2, <1>3, <1>6, InUse DEF BackendsNamed
<1>12. LedgersKnown'
  <2>1. Rotating' => storeAt' = "begin"
    BY <1>2 DEF Rotating, Copies
  <2>2. storeAt' = "begin" => canDelete_ + 1 >= last /\ (EntriesAge => hot' = {})
    BY <1>2, <1>4, <1>5
  <2> QED BY <1>1, <1>3, <1>4, <1>5, <1>6, <1>8, <1>9, <2>1, <2>2, InUse DEF LedgersKnown
<1>13. SinceBegun'
  <2>1. Rotating' => run'.cycle.validatedSeq = closed'
    BY <1>2, <1>8, <1>9 DEF Rotating, Copies
  <2>2. \A s \in closed' .. closed' : s = closed'
    BY <1>4, <1>8
  <2> QED BY <2>1, <2>2 DEF SinceBegun
<1>14. CopiedSoFar'
  BY <1>2 DEF CopiedSoFar, Copies
<1> QED BY <1>8, <1>10, <1>11, <1>12, <1>13, <1>14 DEF StoreInv

LEMMA NewBackendStep == ASSUME StoreAssumption, StoreInv, newBackend PROVE StoreInv'
<1> DEFINE new == Unused
<1>1. /\ storeAt = "make" /\ storeAt' = "made" /\ DOMAIN disk # Dirs
      /\ disk' = [d \in DOMAIN disk \cup {new} |-> IF d \in DOMAIN disk THEN disk[d] ELSE {}]
      /\ run' = [run EXCEPT !.cycle = [run.cycle EXCEPT !.newDir = new]]
      /\ UNCHANGED <<states, stop_, newLedger_, canDelete_, rows, savedState, healthy_, backends,
                     hot>>
  BY DEF newBackend, makeBackendRotating, Cycle, others
<1>2. new \in Dirs /\ new \notin DOMAIN disk
  BY <1>1, UnusedIsNew DEF StoreInv
<1> HIDE DEF new
<1>3. /\ Serving /\ storeAt # "swap" /\ Rotating /\ Rotating' /\ Serving'
      /\ storeAt \in Copies /\ storeAt' \in Copies
  BY <1>1 DEF Serving, Rotating, Copies
<1>4. /\ DOMAIN disk' = DOMAIN disk \cup {new} /\ \A d \in DOMAIN disk : disk'[d] = disk[d]
      /\ \A d \in DOMAIN disk' : disk'[d] \subseteq Nodes
  BY <1>1 DEF StoreInv, StoreShape
<1>5. Grows /\ savedState'.lastRotated \in Nat
  BY <1>1, <1>4 DEF Grows, StoreInv, StoreShape
<1>6. DirsFound' /\ Whole' /\ closed' = closed /\ \A s : NodesOf(s)' = NodesOf(s)
  BY <1>5, GrowingKeeps
<1>7. /\ run'.cycle.newDir = new /\ run'.lastRotated = run.lastRotated
      /\ run'.cycle.validatedSeq = run.cycle.validatedSeq
      /\ run'.cycle.granted = run.cycle.granted
      /\ run' \in [lastRotated : Nat,
                   cycle : [validatedSeq : Nat, left : SUBSET Nodes, min : Nat,
                            newDir : Dirs \cup {NoDir}, granted : Nat]]
  BY <1>1, <1>2 DEF StoreInv, StoreShape
<1>8. StoreShape'
  BY <1>1, <1>2, <1>4, <1>7 DEF StoreInv, StoreShape, Copies
<1>9. BackendsNamed'
  BY <1>1, <1>2, <1>3, <1>4, <1>7, InUse DEF BackendsNamed
<1>10. LedgersKnown'
  BY <1>1, <1>3, <1>6, <1>7 DEF StoreInv, LedgersKnown
<1>11. /\ SinceBegun'
       /\ \A N : N \subseteq disk[backends.writable] => N \subseteq disk'[backends'.writable]
  BY <1>1, <1>3, <1>5, <1>7, RotationGoesOn
<1>12. CopiedSoFar'
  <2>1. EntriesAge => NodesOf(run.cycle.validatedSeq) \subseteq disk[backends.writable]
    BY <1>3 DEF StoreInv, CopiedSoFar
  <2>2. EntriesAge => NodesOf(run.cycle.validatedSeq)' \subseteq disk'[backends'.writable]
    BY <1>6, <1>7, <1>11, <2>1
  <2> QED BY <1>1, <2>2 DEF CopiedSoFar
<1> QED BY <1>6, <1>8, <1>9, <1>10, <1>11, <1>12 DEF StoreInv

\* What the rotation does not save is in the writable backend, which becomes the archive.
LEMMA SetStateStep == ASSUME StoreAssumption, StoreInv, setState PROVE StoreInv'
<1> DEFINE vs == run.cycle.validatedSeq
           new == run.cycle.newDir
           w == backends.writable
<1>1. /\ storeAt = "save" /\ storeAt' = "swap"
      /\ savedState' = [savedState EXCEPT !.writable = new, !.archive = w, !.lastRotated = vs]
      /\ run' = [run EXCEPT !.lastRotated = vs]
      /\ UNCHANGED <<states, stop_, newLedger_, canDelete_, disk, rows, healthy_, backends, hot>>
  BY DEF setState, others
<1>2. Serving /\ storeAt # "swap" /\ Rotating /\ storeAt \in Copies /\ Serving'
  BY <1>1 DEF Serving, Rotating, Copies
<1>3. /\ new \in DOMAIN disk /\ new # w /\ new # backends.archive /\ w # backends.archive
      /\ w \in DOMAIN disk
  BY <1>1, <1>2, InUse DEF StoreInv, BackendsNamed
<1>4. new \in Dirs /\ w \in Dirs /\ new # NoDir /\ w # NoDir
  BY <1>3 DEF StoreInv, StoreShape, Dirs, NoDir
<1>5. vs \in 1 .. closed /\ vs \in Nat
  BY <1>2 DEF StoreInv, LedgersKnown, StoreShape
<1>6. /\ EntriesAge => NodesOf(vs) \subseteq disk[w]
      /\ \A s \in vs .. closed : NodesOf(s) \subseteq NodesOf(vs) \cup disk[w]
  BY <1>2 DEF StoreInv, CopiedSoFar, SinceBegun
<1> HIDE DEF vs, new, w
<1>7. /\ savedState'.writable = new /\ savedState'.archive = w /\ savedState'.lastRotated = vs
      /\ savedState' \in [writable : Dirs \cup {NoDir}, archive : Dirs \cup {NoDir},
                          lastRotated : Nat, canDelete : Nat]
  BY <1>1, <1>4, <1>5 DEF StoreInv, StoreShape
<1>8. /\ run'.lastRotated = vs /\ run'.cycle = run.cycle
      /\ run' \in [lastRotated : Nat,
                   cycle : [validatedSeq : Nat, left : SUBSET Nodes, min : Nat,
                            newDir : Dirs \cup {NoDir}, granted : Nat]]
  BY <1>1, <1>5 DEF StoreInv, StoreShape
<1>9. StoreShape'
  BY <1>1, <1>7, <1>8 DEF StoreInv, StoreShape
<1>10. closed' = closed /\ \A s : NodesOf(s)' = NodesOf(s)
  BY <1>1 DEF closed, NodesOf
<1>11. SinceBegun' /\ CopiedSoFar' /\ ~Rotating'
  BY <1>1, AtRest
<1>12. DirsFound'
  BY <1>1, <1>3, <1>4, <1>7 DEF DirsFound
<1>13. BackendsNamed'
  BY <1>1, <1>3, <1>4, <1>7, <1>8 DEF BackendsNamed, new, w
<1>14. LedgersKnown'
  BY <1>1, <1>4, <1>5, <1>7, <1>8, <1>10, <1>11 DEF StoreInv, LedgersKnown
<1>15. Whole'
  <2> SUFFICES ASSUME EntriesAge, NEW s \in 1 .. closed, s >= vs
               PROVE  NodesOf(s) \subseteq disk[w]
    BY <1>1, <1>7, <1>10 DEF Whole
  <2>1. s \in vs .. closed
    BY <1>5
  <2> QED BY <1>6, <2>1
<1> QED BY <1>9, <1>11, <1>12, <1>13, <1>14, <1>15 DEF StoreInv

\* A step out of the rotation that takes nothing from the named directories.
LEMMA RestStep ==
    ASSUME StoreInv, StoreShape', BackendsNamed', Grows, Serving,
           UNCHANGED <<savedState, newLedger_>>, run'.lastRotated = run.lastRotated,
           storeAt' \in {"top", "delete"}
    PROVE  StoreInv'
<1>1. savedState'.lastRotated \in Nat
  BY DEF StoreShape
<1>2. DirsFound' /\ Whole' /\ closed' = closed
  BY <1>1, GrowingKeeps
<1>3. SinceBegun' /\ CopiedSoFar' /\ ~Rotating'
  BY AtRest
<1>4. LedgersKnown'
  BY <1>2, <1>3 DEF StoreInv, LedgersKnown
<1> QED BY <1>2, <1>3, <1>4 DEF StoreInv

LEMMA SwapStep == ASSUME StoreInv, rotateBackends \/ setDeletePath PROVE StoreInv'
<1>1. /\ storeAt \in {"swap", "delete"} /\ storeAt' \in {"delete", "top"}
      /\ UNCHANGED <<states, stop_, newLedger_, canDelete_, rows, savedState, healthy_>>
  BY DEF rotateBackends, setDeletePath, others
<1>2. Serving /\ Serving' /\ storeAt' # "swap" /\ storeAt' \notin {"made", "save"}
  BY <1>1 DEF Serving
<1>3. CASE rotateBackends
  <2>1. /\ storeAt = "swap" /\ storeAt' = "delete" /\ disk' = disk
        /\ backends' = [writable |-> run.cycle.newDir, archive |-> backends.writable]
        /\ run' = [run EXCEPT !.cycle = [run.cycle EXCEPT !.newDir = backends.archive]]
    BY <1>3 DEF rotateBackends, Cycle
  <2>2. /\ run'.cycle.newDir = backends.archive /\ run'.lastRotated = run.lastRotated
        /\ run' \in [lastRotated : Nat,
                     cycle : [validatedSeq : Nat, left : SUBSET Nodes, min : Nat,
                              newDir : Dirs \cup {NoDir}, granted : Nat]]
        /\ backends' \in [writable : Dirs \cup {NoDir}, archive : Dirs \cup {NoDir}]
    BY <2>1 DEF StoreInv, StoreShape
  <2>3. StoreShape'
    BY <1>1, <2>1, <2>2 DEF StoreInv, StoreShape
  <2>4. BackendsNamed'
    BY <1>1, <1>2, <2>1, <2>2 DEF StoreInv, BackendsNamed
  <2>5. Grows
    BY <1>1, <2>1 DEF Grows, StoreInv, StoreShape
  <2> QED BY <1>1, <1>2, <2>2, <2>3, <2>4, <2>5, RestStep
<1>4. CASE setDeletePath
  <2>1. /\ storeAt = "delete" /\ storeAt' = "top" /\ UNCHANGED <<backends, run>>
        /\ disk' = [d \in DOMAIN disk \cap (DOMAIN disk \ {run.cycle.newDir}) |-> disk[d]]
    BY <1>4 DEF setDeletePath, Keep
  <2>2. StoreShape'
    BY <1>1, <2>1, SMTT(20) DEF StoreInv, StoreShape
  <2>3. BackendsNamed'
    BY <1>1, <1>2, <2>1 DEF StoreInv, BackendsNamed
  <2>4. Grows
    BY <1>1, <2>1 DEF Grows, StoreInv, StoreShape, BackendsNamed
  <2> QED BY <1>1, <1>2, <2>1, <2>2, <2>3, <2>4, RestStep
<1> QED BY <1>3, <1>4

-----------------------------------------------------------------------------
(* The theorems.                                                           *)

LEMMA StoreStep == ASSUME StoreAssumption, StoreInv, [StoreNext]_storeVars PROVE StoreInv'
<1>1. CASE dbPaths \/ makeDirectory \/ makeDatabase \/ runBegins \/ Crash
  BY <1>1, DbPathsStep, MakeDirectoryStep, MakeDatabaseStep, RunBeginsStep, CrashStep
<1>2. CASE onLedgerClosed \/ onStop \/ (\E seq \in Grants : setCanDelete(seq)) \/ UNCHANGED storeVars
  BY <1>2, LedgerClosedStep, QuietStep
<1>3. CASE \E n \in Nodes : fetch(n) \/ copyNode(n)
  BY <1>3, FetchStep, CopyStep
<1>4. CASE top \/ wake \/ wakeForStop \/ clearSql \/ deleteRows \/ visitNodes \/ freshenCaches
  BY <1>4, TopStep, WakeStep, SqlStep, VisitStep, FreshenStep
<1>5. CASE \/ Phase("begin", "clear") \/ Phase("cleared", "visit") \/ Phase("copied", "freshen")
           \/ Phase("freshened", "make") \/ Phase("made", "save")
  BY <1>5, PhaseStep
<1>6. CASE newBackend \/ setState \/ rotateBackends \/ setDeletePath
  BY <1>6, NewBackendStep, SetStateStep, SwapStep
<1> QED BY <1>1, <1>2, <1>3, <1>4, <1>5, <1>6 DEF StoreNext

LEMMA StoreInvariant == ASSUME StoreAssumption PROVE StoreSpec => []StoreInv
<1>1. StoreInit => StoreInv
  BY StoreStart
<1>2. StoreInv /\ [StoreNext]_storeVars => StoreInv'
  BY StoreStep
<1> QED BY <1>1, <1>2, PTL DEF StoreSpec

\* Whenever the process dies in a rotation, the next one finds the directories the state
\* database names (dbPaths(), SHAMapStoreImp.cpp), whatever the cache holds.
THEOREM StoreStartsAgain == ASSUME StoreAssumption PROVE StoreSpec => []StartsAgain
<1>1. StoreInv => StartsAgain
  BY DEF StoreInv, StoreShape, StartsAgain, Copies
<1> QED BY <1>1, StoreInvariant, PTL

\* If cache entries are gone before the next rotation, every node of every ledger since the
\* last rotated one is in the two directories the state database names: the copy, the new
\* backend and the swap (SHAMapStoreImp::run) lose nothing, a crash between any two of them
\* included.
THEOREM RotationLosesNothing ==
    ASSUME StoreAssumption, EntriesAge PROVE StoreSpec => []RecentLedgersWhole
<1>1. StoreInv => RecentLedgersWhole
  <2> SUFFICES ASSUME StoreInv PROVE RecentLedgersWhole
    OBVIOUS
  <2>1. StartsAgain
    BY DEF StoreInv, StoreShape, StartsAgain, Copies
  <2>2. closed \in Nat /\ savedState.lastRotated \in Nat
    BY DEF StoreInv, StoreShape, closed
  <2>3. ASSUME savedState.lastRotated # 0, NEW seq \in savedState.lastRotated .. closed
        PROVE  seq \in 1 .. closed /\ seq >= savedState.lastRotated
    BY <2>2, <2>3
  <2>4. RecentWhole
    BY <2>3 DEF StoreInv, Whole, RecentWhole
  <2> QED BY <2>1, <2>4 DEF RecentLedgersWhole
<1> QED BY <1>1, StoreInvariant, PTL

\* clearSql() deletes rows before the last rotated ledger only, and none above what
\* can_delete allowed when the rotation began.
THEOREM DeletesOnlyAllowed == ASSUME StoreAssumption PROVE StoreSpec => [][DeleteStep]_storeVars
<1>1. StoreInv /\ [StoreNext]_storeVars => [DeleteStep]_storeVars
  <2> SUFFICES ASSUME StoreInv, StoreNext PROVE DeleteStep
    OBVIOUS
  <2>1. CASE deleteRows /\ run.cycle.min < run.lastRotated
    <3>1. storeAt = "batch" /\ rows' = {s \in rows : s >= BatchEnd}
      BY <2>1 DEF deleteRows
    <3>2. Rotating /\ Serving
      BY <3>1 DEF Rotating, Serving
    <3>3. /\ run.lastRotated = savedState.lastRotated
          /\ run.cycle.granted + 1 >= run.lastRotated
          /\ rows \subseteq Nat /\ run.lastRotated \in Nat /\ run.cycle.granted \in Nat
      BY <3>2 DEF StoreInv, LedgersKnown, StoreShape
    <3>4. BatchEnd \in Nat /\ BatchEnd <= run.lastRotated
      BY BatchEndIsLow
    <3> QED BY <3>1, <3>3, <3>4 DEF DeleteStep
  <2>2. CASE ~(deleteRows /\ run.cycle.min < run.lastRotated)
    <3>1. rows \subseteq rows'
      BY <2>2 DEF StoreNext, dbPaths, makeDirectory, makeDatabase, runBegins, Crash, onLedgerClosed,
                  onStop, fetch, copyNode, setCanDelete, top, wake, wakeForStop, Phase, clearSql,
                  deleteRows, visitNodes, freshenCaches, newBackend, setState, rotateBackends,
                  setDeletePath, durable
    <3> QED BY <3>1, SMTT(20) DEF DeleteStep
  <2> QED BY <2>1, <2>2
<1> QED BY <1>1, StoreInvariant, PTL DEF StoreSpec
=============================================================================
