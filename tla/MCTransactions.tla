--------------------------- MODULE MCTransactions ----------------------------
(***************************************************************************)
(* What a transaction passes on its way into a ledger, for TLC: the hash   *)
(* router, the batches of NetworkOPs, the queue, the building of a ledger, *)
(* the open ledger that follows, and the transactions that set funds       *)
(* aside.  In one behaviour one of them moves.                             *)
(*                                                                         *)
(* "router": one hash through every operation, and one whose creation      *)
(* expires it.  "batch": two callers and the batch jobs, transactions of   *)
(* one account, the last of them malformed.                                *)
(* "queue": two accounts, a blocker and a transaction that expires;        *)
(* "limit": one account with more transactions than it may queue.          *)
(* "build": three accounts and a chain of four transactions that need each *)
(* other.  "open": three ledgers and two transactions; "poor": the second  *)
(* of them cannot pay.  "funds": an escrow or a channel of an owner        *)
(* whose fee may exceed the reserve, for a receiver that takes deposits of *)
(* a third account only.                                                   *)
(***************************************************************************)
EXTENDS TransactionBatch, HashRouter, Integers, TLC

CONSTANTS peer1, peer2, acct1, acct2, x, y, z

VARIABLES part,
          byFee_, txs, penalty, maxSize_, txnsExpected, aSeq, closedSeq, txCount, ledgerSeq,
          txqPhase, cursor, tried,
          parent, salted, set, txns, pos, pass, changes, certainRetry, view, failed, existing,
          count, buildPhase, final, replayed,
          closed, current_, valid, m_txns, recovered, how,
          ledger, destroyed, closeTime, made, authorised, announced, enforce

queueVars == <<byFee_, txs, penalty, maxSize_, txnsExpected, aSeq, closedSeq, txCount, ledgerSeq,
               txqPhase, cursor, tried>>
buildVars == <<parent, salted, set, txns, pos, pass, changes, certainRetry, view, failed,
               existing, count, buildPhase, final, replayed>>
openVars == <<closed, current_, valid, m_txns, recovered, how>>
fundVars == <<ledger, destroyed, closeTime, made, authorised, announced, enforce>>

vars == <<part, routerVars, batchVars, queueVars, buildVars, openVars, fundVars>>

-----------------------------------------------------------------------------
(* The instances.                                                          *)

Tx(level, blocker, lastValid) == [level |-> level, blocker |-> blocker, lastValid |-> lastValid]

Queue == INSTANCE TxQ
            WITH Accounts <- {acct1, acct2}, MaxSeq <- 2, MaxLedger <- 2,
                 Kinds <- {Tx(256, FALSE, 0), Tx(400, TRUE, 2), Tx(1100, FALSE, 2)},
                 Expected <- {1}, Multiplier <- 256, baseLevel <- 256,
                 retrySequencePercent <- 25, multiTxnPercent <- -90, maximumTxnPerAccount <- 2,
                 minimumLastLedgerBuffer <- 1, ledgersInQueue <- 1, queueSizeMin <- 2,
                 retriesAllowed <- 1, Reserve <- 2000, NoLimit <- None,
                 phase <- txqPhase
Limit == INSTANCE TxQ
            WITH Accounts <- {x}, MaxSeq <- 4, MaxLedger <- 1,
                 Kinds <- {Tx(256, FALSE, 0), Tx(3400, FALSE, 0)},
                 Expected <- {1}, Multiplier <- 256, baseLevel <- 256,
                 retrySequencePercent <- 25, multiTxnPercent <- -90, maximumTxnPerAccount <- 2,
                 minimumLastLedgerBuffer <- 2, ledgersInQueue <- 1, queueSizeMin <- 2,
                 retriesAllowed <- 1, Reserve <- 2000, NoLimit <- None,
                 phase <- txqPhase

BuildTxs == {"x1", "x1b", "x2", "x3", "y1", "y2", "z1", "z2"}

\* y2 waits for z1, y1 and x2 in a chain; z2 needs what never succeeds.
Build == INSTANCE BuildLedger
            WITH Txs <- BuildTxs, Accounts <- {x, y, z}, Malformed <- {"x3"}, Parents <- {{}, {"x1"}},
                 account <- [t \in BuildTxs |-> CASE t \in {"x1", "x1b", "x2", "x3"} -> x
                                             [] t \in {"y1", "y2"} -> y [] OTHER -> z],
                 seq <- [t \in BuildTxs |-> CASE t \in {"x1", "x1b", "y1", "z1"} -> 1
                                         [] t = "x3" -> 3 [] OTHER -> 2],
                 txid <- [t \in BuildTxs |-> IF t = "x1b" THEN 1 ELSE 2],
                 needs <- [t \in BuildTxs |-> CASE t = "y1" -> {"x2"} [] t = "z1" -> {"y1"}
                                           [] t = "y2" -> {"z1"} [] t = "z2" -> {"x3"}
                                           [] OTHER -> {}],
                 funds <- [u \in {x, y, z} |-> IF u = y THEN {"x1"} ELSE {}],
                 LEDGER_TOTAL_PASSES <- 3, LEDGER_RETRY_PASSES <- 1, phase <- buildPhase

Open == INSTANCE OpenLedger
            WITH MaxSeq <- 2, MaxLedger <- 3, holdLedgers <- 1, LowFees <- {{}}
Poor == INSTANCE OpenLedger
            WITH MaxSeq <- 2, MaxLedger <- 3, holdLedgers <- 1, LowFees <- {{2}}

Funds == INSTANCE HeldFunds
            WITH Accounts <- {x, y, z}, Owners <- {x}, Balance <- 4, Amounts <- {1, 2},
                 Claims <- {1, 2}, Fees <- [u \in {x, y, z} |-> IF u = x THEN {0, 3} ELSE {0}],
                 Delays <- {2}, Times <- {1, 3}, reserveBase <- 1, reserveIncrement <- 1,
                 RequiresAuth <- {y}, Preauthorised <- {<<y, z>>}, fix1571 <- TRUE,
                 MaxEntries <- 1, MaxTime <- 4, TimeLimit <- 16, now <- closeTime

ASSUME /\ BatchAssumption /\ RouterAssumption
       /\ Queue!TxQAssumption /\ Limit!TxQAssumption
       /\ Build!BuildAssumption /\ Open!OpenAssumption /\ Poor!OpenAssumption
       /\ Funds!HeldAssumption

\* Peers are alike, and so are the accounts of the queue.
Symmetry == Permutations({peer1, peer2}) \cup Permutations({acct1, acct2})

-----------------------------------------------------------------------------
(* The behaviours.                                                         *)

Init ==
    /\ part \in {"router", "batch", "queue", "limit", "build", "open", "poor", "funds"}
    /\ RouterInit /\ BatchInit /\ Open!Init
    /\ Funds!Init /\ (part # "funds" => enforce)
    /\ IF part = "limit" THEN Limit!Init ELSE Queue!Init
    /\ Build!Init /\ (part # "build" => parent = {} /\ salted = <<x, y, z>> /\ set = {})

\* The submissions and the ledgers come to an end.
Rest == part \in {"batch", "open", "poor", "funds"} /\ UNCHANGED vars

Next ==
    \/ /\ part' = part
       /\ \/ /\ part = "router" /\ RouterNext
             /\ UNCHANGED <<batchVars, queueVars, buildVars, openVars, fundVars>>
          \/ /\ part = "batch" /\ BatchNext
             /\ UNCHANGED <<routerVars, queueVars, buildVars, openVars, fundVars>>
          \/ /\ part = "queue" /\ Queue!Next
             /\ UNCHANGED <<routerVars, batchVars, buildVars, openVars, fundVars>>
          \/ /\ part = "limit" /\ Limit!Next
             /\ UNCHANGED <<routerVars, batchVars, buildVars, openVars, fundVars>>
          \/ /\ part = "build" /\ Build!Next
             /\ UNCHANGED <<routerVars, batchVars, queueVars, openVars, fundVars>>
          \/ /\ part = "open" /\ Open!Next
             /\ UNCHANGED <<routerVars, batchVars, queueVars, buildVars, fundVars>>
          \/ /\ part = "poor" /\ Poor!Next
             /\ UNCHANGED <<routerVars, batchVars, queueVars, buildVars, fundVars>>
          \/ /\ part = "funds" /\ Funds!Next
             /\ UNCHANGED <<routerVars, batchVars, queueVars, buildVars, openVars>>
    \/ Rest

Spec == Init /\ [][Next]_vars

-----------------------------------------------------------------------------
(* The properties are those of the components, stated there:               *)
(* RelayedOncePerHold of the hash router, ApplyingAccounted of the batches, *)
(* and these.                                                               *)

\* accept tries every transaction that could be applied; a full queue does not
\* grow, a newcomer drops only what pays less, nothing is queued behind a blocker
\* of its account or past the account's limit but in front, and the two indexes
\* hold the same (TxQ.cpp).
NonePassedOver ==
    [][/\ part = "queue" => /\ Queue!NonePassedOverStep /\ Queue!FullNeverGrowsStep
                            /\ Queue!DropsCheaperStep /\ Queue!NotBehindBlockerStep
                            /\ Queue!IndexesAgree'
       /\ part = "limit" => Limit!LimitAtBackStep /\ Limit!AppliedLeavesStep]_vars

\* A replay of a built ledger gives the same results; every transaction of the
\* agreed set is in one place at any time, those of an account are applied in
\* sequence, what is left was tried in a final pass, and the passes suffice for
\* chains as long as there are passes (BuildLedger.cpp).
ReplayReproduces ==
    part = "build" => /\ Build!ReplayReproduces /\ Build!EachInOnePlace /\ Build!InSequence
                      /\ Build!LeftTriedFinally /\ Build!ChainsHonoured

\* What the new closed ledger lacks is in the new open one, which is on top of the
\* last closed ledger; local transactions are applied to it and tracked until they
\* are validated or expire (OpenLedger.cpp, LocalTxs.cpp).
OpenTxsKept ==
    [][/\ part = "open" => /\ Open!OpenTxsKeptStep /\ Open!LocalsReappliedStep
                           /\ Open!TrackedUntilValidatedStep /\ Open!ParentIsClosed'
       /\ part = "poor" => /\ Poor!OpenTxsKeptStep /\ Poor!TrackedUntilValidatedStep
                           /\ Poor!ParentIsClosed']_vars

\* SFC is neither made nor lost, with invariants enforced no account is overdrawn,
\* owner counts are exact, a channel pays what its owner signed for, whose receiver
\* has the settle delay to collect it, and an escrow past its finish time can be
\* finished or cancelled, not both (Escrow.cpp, PayChan.cpp, Transactor.cpp).
Conserved ==
    part = "funds" => /\ Funds!Conserved /\ Funds!NoOverdraft /\ Funds!OwnerCountExact
                      /\ Funds!ClaimsAuthorised /\ Funds!OwnerWaits /\ Funds!EscrowEitherWay
=============================================================================
