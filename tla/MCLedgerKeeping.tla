--------------------------- MODULE MCLedgerKeeping ---------------------------
(***************************************************************************)
(* What keeps validated ledgers, for TLC: the saves of ledgers, the ledger *)
(* master, the writer of stale validations, and online deletion.  In one   *)
(* behaviour one of them moves.                                            *)
(*                                                                         *)
(* Saves: l1 and l2 are two ledgers of one sequence (the second appears when*)
(* the ledger cleaner repairs an index).  The ledger master runs twice:    *)
(* "fork" has three validators, a quorum of two and an empty database;     *)
(* "chain" has one validator, acquisitions that fail, and a database that  *)
(* is empty, holds part of the chain, a ledger of the other branch, or     *)
(* some of both (a repair of the index that did not get further).  Online  *)
(* deletion rotates at every ledger, twice at most; p1 and p2 are the keys *)
(* of its ledgers' states.                                                 *)
(***************************************************************************)
EXTENDS PendingSaves, SHAMapStore, TLC

CONSTANTS p1, p2, l1, l2, v1, v2, v3, n1, n2

VARIABLES part,
          vals, heard, checks, have, acquiring, arrived, valid, lastValid, building,
          pub, streamed, work, thread, want, ready, masterRow, masterComplete, fill,
          current_, received, stale, staleWriting_, batch, pc, table, staleClosed

masterVars == <<vals, heard, checks, have, acquiring, arrived, valid, lastValid, building,
                pub, streamed, work, thread, want, ready, masterRow, masterComplete, fill>>
staleVars == <<current_, received, stale, staleWriting_, batch, pc, table, staleClosed>>

MCSeqOf == [l \in {l1, l2} |-> 1]

ForkLedgers == {<<0>>, <<0, 1>>, <<0, 1, 2>>, <<0, 1, 3>>}
ChainLedgers == {<<0>>, <<0, 1>>, <<0, 1, 2>>, <<0, 1, 2, 3>>, <<0, 1, 2, 3, 5>>, <<0, 4>>}

Fork == INSTANCE LedgerMaster
            WITH Ledgers <- ForkLedgers, Validators <- {v1, v2, v3}, Quorum <- 2,
                 MaxGap <- 1, FetchSize <- 2, LedgerHistory <- 3, InitialRows <- {{}},
                 Clocks <- {TRUE}, Syncs <- {FALSE}, Validated <- ForkLedgers \ {<<0>>},
                 BuildSeqs <- {3}, PathWork <- {TRUE}, MayFail <- FALSE,
                 row <- masterRow, complete <- masterComplete
Chain == INSTANCE LedgerMaster
            WITH Ledgers <- ChainLedgers, Validators <- {v1}, Quorum <- 1,
                 MaxGap <- 2, FetchSize <- 2, LedgerHistory <- 3,
                 InitialRows <- {{}, {<<0>>, <<0, 1>>}, {<<0>>, <<0, 4>>},
                                 {<<0>>, <<0, 4>>, <<0, 1, 2>>}},
                 Clocks <- {TRUE}, Syncs <- BOOLEAN,
                 Validated <- ChainLedgers \ {<<0>>, <<0, 4>>},
                 BuildSeqs <- {3}, PathWork <- BOOLEAN, MayFail <- TRUE,
                 row <- masterRow, complete <- masterComplete
Stale == INSTANCE StaleValidations
            WITH Nodes <- {n1, n2}, MaxSeq <- 3, Full <- {1, 3}, MayExpire <- TRUE,
                 closed <- staleClosed
ASSUME /\ SavesAssumption /\ StoreAssumption /\ Stale!StaleAssumption
       /\ Fork!LedgerMasterAssumption /\ Chain!LedgerMasterAssumption

\* Validators are alike, the two threads or keys, and the ledgers of one sequence.
Symmetry == Permutations({v1, v2, v3}) \cup Permutations({p1, p2}) \cup Permutations({l1, l2})

Init ==
    /\ part \in {"saves", "fork", "chain", "stale", "deletion"}
    /\ SavesInit /\ Stale!Init /\ StoreInit
    /\ IF part = "chain" THEN Chain!Init ELSE Fork!Init

\* The ledger master comes to rest when nothing more is validated.
Rest == part \in {"fork", "chain"} /\ UNCHANGED <<savesVars, masterVars, staleVars, storeVars>>

Next ==
    /\ part' = part
    /\ \/ part = "saves" /\ SavesNext /\ UNCHANGED <<masterVars, staleVars, storeVars>>
       \/ part = "fork" /\ Fork!Next /\ UNCHANGED <<savesVars, staleVars, storeVars>>
       \/ part = "chain" /\ Chain!Next /\ UNCHANGED <<savesVars, staleVars, storeVars>>
       \/ part = "stale" /\ Stale!Next /\ UNCHANGED <<savesVars, masterVars, storeVars>>
       \/ part = "deletion" /\ StoreNext /\ UNCHANGED <<savesVars, masterVars, staleVars>>
       \/ Rest

Spec == Init /\ [][Next]_<<part, savesVars, masterVars, staleVars, storeVars>>

\* Online deletion alone.
DeletionSpec == Init /\ part = "deletion"
                /\ [][Next]_<<part, savesVars, masterVars, staleVars, storeVars>>

-----------------------------------------------------------------------------
(* The properties are those of the components, stated there: SavesOwned of  *)
(* the saves, RecentLedgersWhole of online deletion, and these.             *)

\* Validated, published and streamed ledgers lie on one branch, a sequence in the
\* complete set is indexed as the ledger of that branch, and the advance job is
\* never left waiting (LedgerMaster.cpp); a stale validation is held in one place,
\* by one writer (RCLValidations.cpp).
CompleteOnChain ==
    /\ part = "fork" => Fork!OneBranch
    /\ part = "chain" => Chain!OneBranch /\ Chain!CompleteOnChain /\ Chain!WorkHasThread
    /\ part = "stale" => Stale!HeldOnce /\ Stale!OneWriter

\* History only moves forward: the validated ledger moves on to descendants, with a
\* quorum only; clients are given every ledger, in order, but for large gaps; and
\* rows are deleted only before the last rotated ledger and as can_delete allowed
\* (LedgerMaster.cpp, SHAMapStoreImp.cpp).
HistoryMovesOn ==
    [][/\ part = "fork" => Fork!ValidStep
       /\ part = "chain" => Chain!ValidStep /\ Chain!PublishStep
       /\ part = "deletion" => DeleteStep]_<<masterVars, storeVars>>
=============================================================================
