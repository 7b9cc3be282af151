----------------------------- MODULE OpenLedger ------------------------------
(***************************************************************************)
(* The open ledger (OpenLedger.cpp accept and modify) and the local        *)
(* transactions that are applied again to every new one until they are     *)
(* validated (LocalTxs.cpp), as the consensus round, a jump to another     *)
(* ledger and validation drive them.  The transactions are those of one    *)
(* account by their sequence numbers, so a ledger is told by the account's *)
(* next number in it.                                                      *)
(***************************************************************************)
EXTENDS Naturals, FiniteSets, FiniteSetsExt

CONSTANTS MaxSeq,        \* transactions 1 .. MaxSeq
          MaxLedger,     \* bound on ledger sequence numbers
          holdLedgers,
          LowFees        \* sets of transactions that can pay neither for the open
                         \* ledger nor for the queue

OpenAssumption ==
    /\ MaxSeq \in Nat /\ MaxLedger \in Nat /\ holdLedgers \in Nat
    /\ LowFees \subseteq SUBSET (1 .. MaxSeq)

VARIABLES closed,    \* the last closed ledger: number and the account's next
          current_,  \* the open ledger: its parent and the account's next
          valid,     \* the last validated ledger
          m_txns,    \* local transactions with the ledger they expire after
          recovered, \* transactions the hash router recovered the last time
          how        \* the accept that switchLCL has not followed yet, and what it tried first

vars == <<closed, current_, valid, m_txns, recovered, how>>

Txs == 1 .. MaxSeq
Ledgers == [seq: 1 .. MaxLedger, next: 1 .. MaxSeq + 1]
LocalTx == [tx: Txs, expire: Nat]

Idle == [by |-> "none", first |-> {}]
switching == how # Idle

Init ==
    /\ closed = [seq |-> 1, next |-> 1] /\ valid = closed
    /\ current_ = [parent |-> closed, next |-> 1]
    /\ m_txns = {} /\ recovered = {} /\ how = Idle

-----------------------------------------------------------------------------
(* The open view.                                                          *)

\* The account's next number after the transactions of ts that follow n
\* without a gap; in canonical order one pass finds them all.
Run(n, ts) == Max({m \in n .. MaxSeq + 1 : n .. m - 1 \subseteq ts})

OpenTxs == current_.parent.next .. current_.next - 1

\* OpenLedger::apply_one for the transactions the fee does not keep out: one
\* that can not queue is applied directly when it is to be recovered.
Usable(ts, low, recover) == ts \ (low \ recover)

\* Each transaction is recovered every other time.
shouldRecover(ts) == ts \ recovered

\* The transactions of the old open ledger are not looked at again.
acceptDropsOpen(ledger, locals, retriesFirst, retries, low) ==
    LET n1 == IF retriesFirst THEN Run(ledger.next, Usable(retries, low, shouldRecover(retries))) ELSE ledger.next
    IN  /\ current_' = [parent |-> ledger, next |-> Run(n1, locals \ low)]
        /\ recovered' = shouldRecover(retries)

\* accept: the disputed transactions first, then those of the open ledger with
\* what is left to retry, then the local ones.  A transaction that had its
\* chance with the disputes is not recovered again.
accept(ledger, locals, retriesFirst, retries, low) ==
    LET first == IF retriesFirst THEN shouldRecover(retries) ELSE {}
        n1 == IF retriesFirst THEN Run(ledger.next, Usable(retries, low, first)) ELSE ledger.next
        second == shouldRecover(OpenTxs \ (IF retriesFirst THEN retries ELSE {}))
        n2 == IF OpenTxs = {} THEN n1 ELSE Run(n1, Usable(OpenTxs \cup retries, low, second \cup (first \ OpenTxs)))
    IN  /\ current_' = [parent |-> ledger, next |-> Run(n2, locals \ low)]
        /\ recovered' = (recovered \ (OpenTxs \cup (IF retriesFirst THEN retries ELSE {}))) \cup first \cup second

-----------------------------------------------------------------------------
(* Local transactions.                                                     *)

getTxSet == {l.tx : l \in m_txns}

sweep(view) == m_txns' = {l \in m_txns : ~(view.seq > l.expire) /\ ~(view.next > l.tx)}

\* A transaction submitted here: modify, then push_back whatever its result (one
\* submitted with fail_hard that is not applied leaves nothing behind).
SubmitLocal(t) ==
    /\ ~switching
    /\ current_' = [current_ EXCEPT !.next = IF t = @ THEN @ + 1 ELSE @]
    /\ m_txns' = m_txns \cup {[tx |-> t, expire |-> current_.parent.seq + 1 + holdLedgers]}
    /\ UNCHANGED <<closed, valid, recovered, how>>

\* A transaction that a peer sent.
SubmitRemote(t) ==
    /\ ~switching /\ t = current_.next
    /\ current_' = [current_ EXCEPT !.next = @ + 1]
    /\ UNCHANGED <<closed, valid, m_txns, recovered, how>>

-----------------------------------------------------------------------------
(* New ledgers.                                                            *)

\* doAccept: the round ended on a ledger with the transactions below k.  What is
\* left of the consensus set and the disputed ones we voted against are retries,
\* tried first if there are disputes.
doAccept(k, left, disputed, low) ==
    LET built == [seq |-> closed.seq + 1, next |-> k]
        anyDisputes == disputed # {}
        retriableTxs == left \cup disputed
    IN  /\ ~switching /\ closed.seq < MaxLedger
        /\ k >= closed.next /\ left \subseteq Txs \ (1 .. k)
        /\ accept(built, getTxSet, anyDisputes, retriableTxs, low)
        /\ how' = [by |-> "round", first |-> IF anyDisputes THEN retriableTxs ELSE {}]
        /\ UNCHANGED <<closed, valid, m_txns>>

\* switchLastClosedLedger to a ledger that extends the validated one: the local
\* transactions are passed as retries.
switchLastClosedLedger(newLCL, low) ==
    /\ ~switching /\ newLCL # closed /\ newLCL.next >= valid.next /\ newLCL.seq > valid.seq
    /\ accept(newLCL, {}, FALSE, getTxSet, low)
    /\ how' = [by |-> "jump", first |-> {}]
    /\ UNCHANGED <<closed, valid, m_txns>>

\* LedgerMaster::switchLCL.
switchLCL ==
    /\ switching /\ how' = Idle
    /\ closed' = current_.parent
    /\ UNCHANGED <<current_, valid, m_txns, recovered>>

\* setValidLedger for a ledger that extends the last validated one, not always
\* the closed one: updateLocalTx sweeps.
setValidLedger(l) ==
    /\ ~switching /\ l.seq > valid.seq /\ l.next >= valid.next
    /\ valid' = l /\ sweep(l)
    /\ UNCHANGED <<closed, current_, recovered, how>>

Next ==
    \/ \E t \in Txs : SubmitLocal(t) \/ SubmitRemote(t)
    \/ \E low \in LowFees :
         \/ \E k \in 1 .. MaxSeq + 1, left \in SUBSET Txs, disputed \in SUBSET Txs :
              doAccept(k, left, disputed, low)
         \/ \E l \in Ledgers : switchLastClosedLedger(l, low)
    \/ switchLCL
    \/ \E l \in Ledgers : setValidLedger(l)

Spec == Init /\ [][Next]_vars

-----------------------------------------------------------------------------
(* Properties.                                                             *)

TypeOK ==
    /\ closed \in Ledgers /\ valid \in Ledgers
    /\ current_.parent \in Ledgers /\ current_.next \in current_.parent.next .. MaxSeq + 1
    /\ m_txns \subseteq LocalTx /\ recovered \subseteq Txs

NewOpen == current_'.parent # current_.parent

\* The open ledger is on top of the last closed one whenever nobody is between
\* accept and switchLCL (the assertions at 619-622 of RCLConsensus.cpp).
ParentIsClosed == ~switching => current_.parent = closed

\* Transactions of the open ledger that did not get into the new closed ledger
\* are in the new open ledger, after a round as after a jump.  One that can
\* neither pay nor queue is kept too if it was not the last time, unless it had
\* its chance before the open ledger's turn came.
OpenTxsKeptStep ==
    \A low \in LowFees : NewOpen /\ LowFees = {low} =>
       current_'.next >= Run(current_'.parent.next,
                             Usable(OpenTxs, low, (OpenTxs \ recovered) \ how'.first))

OpenTxsKept == [][OpenTxsKeptStep]_vars

\* After a round a local transaction that is not in the new closed ledger is
\* applied to the new open ledger with the ones that follow it, so that a later
\* one of the account finds its turn (LocalTxs.cpp 42-46).
LocalsReappliedStep ==
    NewOpen /\ LowFees = {{}} /\ how'.by = "round" =>
       current_'.next >= Run(current_'.parent.next, getTxSet)

LocalsReapplied == [][LocalsReappliedStep]_vars

\* A local transaction is tracked until it, or one with its number, is
\* validated, or it expires; a ledger that loses to another does not end it.
TrackedUntilValidatedStep ==
    \A l \in m_txns : l \in m_txns' \/ valid'.next > l.tx \/ valid'.seq > l.expire

TrackedUntilValidated == [][TrackedUntilValidatedStep]_vars

\* What the comment at 1390 says of a jump: "Apply tx in old open ledger to new
\* open ledger. Then apply local tx."
JumpAppliesLocalsStep ==
    NewOpen /\ how'.by = "jump" => current_'.next >= Run(current_'.parent.next, getTxSet)

JumpAppliesLocals == [][JumpAppliesLocalsStep]_vars
=============================================================================
