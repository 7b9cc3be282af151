-------------------------------- MODULE TxQ ---------------------------------
(***************************************************************************)
(* The transaction queue (TxQ.cpp): transactions whose fee does not get    *)
(* them into the open ledger wait in two indexes, by fee level and by      *)
(* account and sequence, until a later open ledger takes them.             *)
(*                                                                         *)
(* Every operation holds mutex_.  apply and processClosedLedger are one    *)
(* step each; accept is one step for each candidate that it looks at, and  *)
(* no other operation comes between them.  A transaction that is rejected  *)
(* changes nothing and is not a step.  Fees are counted in fee levels: the *)
(* base fee is one drop for a level.  What a transactor makes of a         *)
(* transaction with the right sequence number, and an account's balance,   *)
(* are not known to the queue and are open here; free transactions are     *)
(* left out.  The metrics are any that FeeMetrics may produce.             *)
(***************************************************************************)
EXTENDS Integers, SequencesExt, FiniteSetsExt

CONSTANTS
    Accounts,
    MaxSeq,                 \* bound: sequence numbers of an account
    MaxLedger,              \* bound: ledger sequences told apart
    Kinds,                  \* transactions: records of level, blocker, lastValid
    Expected,               \* values of txnsExpected
    Multiplier,             \* escalationMultiplier
    baseLevel,
    retrySequencePercent,
    multiTxnPercent,
    maximumTxnPerAccount,
    minimumLastLedgerBuffer,
    ledgersInQueue,
    queueSizeMin,
    retriesAllowed,
    Reserve,                \* view.fees().accountReserve(0)
    NoLimit                 \* maxSize_ is not set

TxQAssumption ==
    /\ IsFiniteSet(Accounts) /\ MaxSeq \in Nat \ {0} /\ MaxLedger \in Nat \ {0}
    /\ Expected \subseteq Nat \ {0} /\ Expected # {}
    /\ maximumTxnPerAccount > 0 /\ NoLimit \notin Nat /\ multiTxnPercent > -100

VARIABLES
    byFee_,         \* pairs of account and sequence, from high to low fee level
    txs,            \* TxQAccount::transactions of each account
    penalty,        \* its retryPenalty and dropPenalty
    maxSize_,
    txnsExpected,   \* the metrics
    aSeq,           \* sfSequence of each account in the open ledger
    closedSeq,      \* and in the last closed one
    txCount,        \* transactions in the open ledger
    ledgerSeq,      \* the sequence of the open ledger
    phase,          \* "open", "closed": accept is due, or "accept"
    cursor,         \* candidateIter, an index of byFee_
    tried           \* the transactions accept has tried, with their levels

queue == <<byFee_, txs, penalty>>
metrics == <<maxSize_, txnsExpected>>
ledger == <<aSeq, closedSeq, txCount, ledgerSeq>>
vars == <<queue, metrics, ledger, phase, cursor, tried>>

Init ==
    /\ byFee_ = <<>> /\ txs = [a \in Accounts |-> <<>>]
    /\ penalty = [a \in Accounts |-> [retry |-> FALSE, drop |-> FALSE]]
    /\ maxSize_ = NoLimit /\ txnsExpected \in Expected
    /\ aSeq = [a \in Accounts |-> 1] /\ closedSeq = aSeq
    /\ txCount = 0 /\ ledgerSeq = 1
    /\ phase = "open" /\ cursor = 0 /\ tried = {}

-----------------------------------------------------------------------------
(* Fee levels.                                                             *)

increase(level, percent) == (level * (100 + percent)) \div 100

\* A ledger that is full does not raise the level.
scaleFeeLevel ==
    IF txCount > txnsExpected
      THEN (Multiplier * txCount * txCount) \div (txnsExpected * txnsExpected)
      ELSE baseLevel

escalatedSeriesFeeLevel(size) ==
    (Multiplier * SumSet({n * n : n \in txCount .. txCount + size - 1}))
        \div (txnsExpected * txnsExpected)

Level(t, e) == t[e[1]][e[2]].level
requiredLevel(prefer) ==
    IF prefer /\ byFee_ # <<>> THEN Max({scaleFeeLevel, Level(txs, byFee_[1])})
                               ELSE scaleFeeLevel

-----------------------------------------------------------------------------
(* The two indexes, as a record of both.                                   *)

Queued(a) == DOMAIN txs[a]
Both == [fee |-> byFee_, acct |-> txs]
Becomes(q) == byFee_' = q.fee /\ txs' = q.acct

\* Only the index by account is updated.
erase(q, a, S) ==
    [fee  |-> SelectSeq(q.fee, LAMBDA e : ~(e[1] = a /\ e[2] \in S)),
     acct |-> [q.acct EXCEPT ![a] = [s \in DOMAIN @ \ S |-> @[s]]]]

\* The index by fee is a multiset ordered by GreaterFee: a new entry comes
\* after those that pay the same.
add(q, a, s, tx) ==
    LET acct == [q.acct EXCEPT ![a] = (s :> tx) @@ @]
        higher == SelectSeq(q.fee, LAMBDA e : Level(q.acct, e) >= tx.level)
        lower == SelectSeq(q.fee, LAMBDA e : Level(q.acct, e) < tx.level)
    IN  [fee |-> higher \o <<<<a, s>>>> \o lower, acct |-> acct]

isFull(percent) == maxSize_ # NoLimit /\ Len(byFee_) >= (maxSize_ * percent) \div 100

-----------------------------------------------------------------------------
(* apply.                                                                  *)

canBeHeld(a, s, k) ==
    /\ k.lastValid = 0 \/ k.lastValid >= ledgerSeq + minimumLastLedgerBuffer
    /\ \/ Queued(a) = {} \/ s \in Queued(a)
       \/ Cardinality(Queued(a)) < maximumTxnPerAccount
       \/ \E t \in Queued(a) : s < t

\* The transaction may take the place of one with its sequence.
replaces(a, s, k, prefer) ==
    s \in Queued(a) =>
        LET old == txs[a][s]
            required == requiredLevel(prefer)
        IN  /\ \/ k.level > increase(old.level, retrySequencePercent)
               \/ /\ old.level < required /\ k.level >= required
                  /\ s = Min(Queued(a))
            /\ s # Max(Queued(a)) /\ ~old.blocker => ~k.blocker

\* The transaction is queued behind those of its account.
multiTxn(a, s, k) == aSeq[a] < s /\ canBeHeld(a, s, k) /\ aSeq[a] .. s - 1 \subseteq Queued(a)

multiTxnAllowed(a, s, k) ==
    LET others == {t \in Queued(a) : t >= aSeq[a]} \ {s}
        own == IF s \in Queued(a) /\ s # Max(Queued(a)) THEN k.level ELSE 0
    IN  /\ k.level > increase(txs[a][s - 1].level, multiTxnPercent)
        /\ \A t \in aSeq[a] .. s - 1 : ~txs[a][t].blocker
        /\ MapThenSumSet(LAMBDA t : txs[a][t].level, others) + own < Reserve

\* The conditions of apply before anything is changed: preclaim sees the
\* account's own sequence unless the transaction is behind others.
mayApply(a, s, k, prefer) ==
    /\ phase # "accept"
    /\ replaces(a, s, k, prefer)
    /\ IF multiTxn(a, s, k) THEN multiTxnAllowed(a, s, k) ELSE s = aSeq[a]

\* The transaction pays for those in front of it.
paysForAll(a, s, k, prefer) ==
    LET required == requiredLevel(prefer)
        front == aSeq[a] .. s - 1
    IN  /\ ~prefer /\ multiTxn(a, s, k)
        /\ txs[a][aSeq[a]].retries = retriesAllowed
        /\ k.level > required /\ required > baseLevel
        /\ k.level + MapThenSumSet(LAMBDA t : txs[a][t].level, front)
              >= escalatedSeriesFeeLevel(Cardinality(front) + 1)

\* One transaction in the open ledger.
didApply(a, n) ==
    /\ aSeq' = [aSeq EXCEPT ![a] = @ + n]
    /\ txCount' = txCount + n
    /\ UNCHANGED <<closedSeq, ledgerSeq>>

\* tryClearAccountQueue succeeds.
clear(a, s, k) ==
    /\ paysForAll(a, s, k, FALSE)
    /\ didApply(a, s - aSeq[a] + 1)
    /\ Becomes(erase(Both, a, aSeq[a] .. s))

\* The queue after tryClearAccountQueue failed on the transaction `bad':
\* those tried have used up a retry and keep the result.
attempted(a, bad, result) ==
    [Both EXCEPT !.acct[a] =
        [t \in DOMAIN @ |-> IF t \in aSeq[a] .. bad
                              THEN [@[t] EXCEPT !.retries = @ - 1,
                                                !.last = IF t = bad THEN result ELSE "tes"]
                              ELSE @[t]]]

\* The queues after tryClearAccountQueue, if it was called, failed.
cleared(a, s, k, prefer) ==
    IF paysForAll(a, s, k, prefer)
      THEN {attempted(a, bad, r) : bad \in aSeq[a] .. s - 1, r \in {"ter", "tef"}}
           \union {attempted(a, s - 1, "tes")}
      ELSE {Both}

direct(a, s, k, prefer) ==
    /\ ~multiTxn(a, s, k) /\ k.level >= requiredLevel(prefer)
    /\ didApply(a, 1)
    /\ Becomes(erase(Both, a, {s}))

\* The average level of the account whose transaction pays the least.
endEffectiveFeeLevel(k) ==
    LET e == Last(byFee_)
        end == txs[e[1]]
        n == Cardinality(DOMAIN end)
    IN  IF Level(txs, e) > k.level \/ n = 1
          THEN Level(txs, e)
          ELSE MapThenSumSet(LAMBDA t : end[t].level \div n, DOMAIN end)
             + MapThenSumSet(LAMBDA t : end[t].level % n, DOMAIN end) \div n

\* A full queue drops the last transaction of that account, or refuses.
roomFor(q, a, s, k) ==
    IF s \notin Queued(a) /\ isFull(100)
      THEN LET b == Last(byFee_)[1]
           IN  IF b # a /\ k.level > endEffectiveFeeLevel(k)
                 THEN {erase(q, b, {Max(Queued(b))})}
                 ELSE {}
      ELSE {q}

hold(a, s, k, prefer) ==
    /\ multiTxn(a, s, k) \/ (canBeHeld(a, s, k) /\ k.level < requiredLevel(prefer))
    /\ \E q0 \in cleared(a, s, k, prefer) : \E q1 \in roomFor(q0, a, s, k) :
         Becomes(add(erase(q1, a, {s}), a, s,
                     [level |-> k.level, blocker |-> k.blocker, lastValid |-> k.lastValid,
                      retries |-> retriesAllowed, last |-> "none"]))
    /\ UNCHANGED ledger

apply(a, s, k, prefer) ==
    /\ mayApply(a, s, k, prefer)
    /\ (~prefer /\ clear(a, s, k)) \/ direct(a, s, k, prefer) \/ hold(a, s, k, prefer)
    /\ UNCHANGED <<penalty, metrics, phase, cursor, tried>>

-----------------------------------------------------------------------------
(* processClosedLedger.                                                    *)

\* Transactions that can no longer be valid stay in the queue.
expired(a) == {s \in Queued(a) : txs[a][s].lastValid # 0 /\ txs[a][s].lastValid <= ledgerSeq}

Expire == [fee  |-> SelectSeq(byFee_, LAMBDA e : e[2] \notin expired(e[1])),
           acct |-> [a \in Accounts |-> [s \in Queued(a) \ expired(a) |-> txs[a][s]]]]

\* A ledger closes, by consensus: it may lack what the open ledger held, and
\* hold what was queued here or never seen.  A new open ledger is built on it.
processClosedLedger(timeLeap) ==
    /\ phase = "open"
    /\ \E c \in [Accounts -> 1 .. MaxSeq + 1] :
         /\ \A a \in Accounts : c[a] >= closedSeq[a]
         /\ closedSeq' = c /\ aSeq' = c
    /\ txCount' = 0
    /\ ledgerSeq' = Min({ledgerSeq + 1, MaxLedger})
    /\ txnsExpected' \in Expected
    /\ maxSize_' = IF timeLeap THEN maxSize_
                               ELSE Max({txnsExpected' * ledgersInQueue, queueSizeMin})
    /\ Becomes(Expire)
    /\ penalty' = [a \in Accounts |->
                     IF DOMAIN txs'[a] = {} THEN [retry |-> FALSE, drop |-> FALSE]
                     ELSE [penalty[a] EXCEPT !.drop = @ \/ expired(a) # {}]]
    /\ phase' = "closed"
    /\ UNCHANGED <<cursor, tried>>

-----------------------------------------------------------------------------
(* accept.                                                                 *)

accept ==
    /\ phase = "closed"
    /\ phase' = "accept" /\ cursor' = 1 /\ tried' = {}
    /\ UNCHANGED <<queue, metrics, ledger>>

Candidate == byFee_[cursor]
MayTry ==
    LET a == Candidate[1]
    IN  /\ phase = "accept" /\ cursor <= Len(byFee_)
        /\ Candidate[2] = Min(Queued(a))
        /\ Level(txs, Candidate) >= scaleFeeLevel

\* Not the first transaction of its account.
skip ==
    /\ phase = "accept" /\ cursor <= Len(byFee_)
    /\ Candidate[2] > Min(Queued(Candidate[1]))
    /\ cursor' = cursor + 1
    /\ UNCHANGED <<queue, metrics, ledger, phase, tried>>

\* The next transaction by fee, always.
eraseAndAdvanceByFee ==
    LET a == Candidate[1]
        s == Candidate[2]
    IN  Becomes(erase(Both, a, {s})) /\ cursor' = cursor

\* The account's next transaction, if it was skipped, or the next by fee.
eraseAndAdvance ==
    LET a == Candidate[1]
        s == Candidate[2]
        useAccountNext == /\ s + 1 \in Queued(a)
                          /\ \/ cursor = Len(byFee_)
                             \/ txs[a][s + 1].level > Level(txs, byFee_[cursor + 1])
        q == erase(Both, a, {s})
    IN  /\ Becomes(q)
        /\ cursor' = IF useAccountNext THEN CHOOSE i \in DOMAIN q.fee : q.fee[i] = <<a, s + 1>>
                                       ELSE cursor

Try == tried' = tried \union {<<Candidate, Level(txs, Candidate)>>}

applied ==
    LET a == Candidate[1]
    IN  /\ MayTry /\ Candidate[2] = aSeq[a]
        /\ didApply(a, 1)
        /\ eraseAndAdvance /\ Try
        /\ UNCHANGED <<penalty, metrics, phase>>

\* A failure for good, or one too many.
failed ==
    LET a == Candidate[1]
        s == Candidate[2]
    IN  /\ MayTry
        /\ s <= aSeq[a] \/ txs[a][s].retries <= 0
        /\ penalty' = IF txs[a][s].retries <= 0 THEN [penalty EXCEPT ![a].retry = TRUE]
                                                ELSE [penalty EXCEPT ![a].drop = TRUE]
        /\ eraseAndAdvance /\ Try
        /\ UNCHANGED <<metrics, ledger, phase>>

\* A failure that may pass; an account with a dropped transaction may lose
\* its last one when the queue is nearly full.
retry ==
    LET a == Candidate[1]
        s == Candidate[2]
        left == txs[a][s].retries
        q == [Both EXCEPT !.acct[a][s].retries = IF penalty[a].retry /\ left > 2 THEN 1 ELSE @ - 1,
                          !.acct[a][s].last = "ter"]
    IN  /\ MayTry /\ s >= aSeq[a] /\ left > 0
        /\ Becomes(IF penalty[a].drop /\ Cardinality(Queued(a)) > 1 /\ isFull(95)
                     THEN erase(q, a, {Max(Queued(a))}) ELSE q)
        /\ cursor' = (CHOOSE i \in DOMAIN byFee_' : byFee_'[i] = Candidate) + 1
        /\ Try
        /\ UNCHANGED <<penalty, metrics, ledger, phase>>

\* The end of the queue, or of what can pay.
accepted ==
    /\ phase = "accept"
    /\ \/ cursor > Len(byFee_)
       \/ /\ cursor <= Len(byFee_)
          /\ Candidate[2] = Min(Queued(Candidate[1]))
          /\ Level(txs, Candidate) < scaleFeeLevel
    /\ phase' = "open" /\ cursor' = 0 /\ tried' = {}
    /\ UNCHANGED <<queue, metrics, ledger>>

acceptStep == accept \/ skip \/ applied \/ failed \/ retry \/ accepted

Next ==
    \/ \E a \in Accounts, s \in 1 .. MaxSeq, k \in Kinds, prefer \in BOOLEAN :
          apply(a, s, k, prefer)
    \/ \E timeLeap \in BOOLEAN : processClosedLedger(timeLeap)
    \/ acceptStep

Spec == Init /\ [][Next]_vars

\* Ledgers close from time to time, and accept goes on once it has begun.
Fairness == WF_vars(\E timeLeap \in BOOLEAN : processClosedLedger(timeLeap)) /\ WF_vars(acceptStep)
FairSpec == Spec /\ Fairness

-----------------------------------------------------------------------------
(* Properties.                                                             *)

TypeOK ==
    /\ \A a \in Accounts :
         /\ Queued(a) \subseteq 1 .. MaxSeq
         /\ \A s \in Queued(a) :
              /\ txs[a][s].retries <= retriesAllowed
              /\ txs[a][s].last \in {"none", "ter", "tef", "tes"}
         /\ closedSeq[a] <= aSeq[a] /\ aSeq[a] \in 1 .. MaxSeq + 1
    /\ maxSize_ \in Nat \union {NoLimit} /\ txnsExpected \in Expected
    /\ txCount \in Nat /\ ledgerSeq \in 1 .. MaxLedger
    /\ cursor \in 0 .. Len(byFee_) + 1 /\ phase \in {"open", "closed", "accept"}

\* erase, add and eraseAndAdvance keep the intrusive index by fee and the map
\* by account the same: every queued transaction is in both, once, and the
\* index is in order.
IndexesAgree ==
    /\ {byFee_[i] : i \in DOMAIN byFee_} = UNION {{<<a, s>> : s \in Queued(a)} : a \in Accounts}
    /\ Len(byFee_) = MapThenSumSet(LAMBDA a : Cardinality(Queued(a)), Accounts)
    /\ \A i \in 1 .. Len(byFee_) - 1 : Level(txs, byFee_[i]) >= Level(txs, byFee_[i + 1])

\* The queue does not grow when it is full, whatever a closed ledger made of
\* its limit meanwhile.
FullNeverGrowsStep ==
    Len(byFee_') > Len(byFee_) => maxSize_ = NoLimit \/ Len(byFee_) < maxSize_

FullNeverGrows == [][FullNeverGrowsStep]_vars

\* maximumTxnPerAccount: an account goes past its limit only in front of what
\* it has queued, to recover transactions of an open ledger.
LimitAtBackStep ==
    \A a \in Accounts :
      (/\ DOMAIN txs'[a] \ Queued(a) # {}
       /\ Max(DOMAIN txs'[a]) \notin Queued(a))
          => Cardinality(DOMAIN txs'[a]) <= maximumTxnPerAccount

LimitAtBack == [][LimitAtBackStep]_vars

\* A transaction that gets into the open ledger, on its own, by accept or with
\* others that were cleared, leaves no queued one with its sequence behind.
AppliedLeavesStep ==
    \A a \in Accounts : \A s \in DOMAIN txs'[a] :
        phase' # "closed" => ~(aSeq[a] <= s /\ s < aSeq'[a])

AppliedLeaves == [][AppliedLeavesStep]_vars

\* telCAN_NOT_QUEUE_BLOCKED: nothing is queued behind a transaction that may
\* make it fail, while that one is still to be applied.
NotBehindBlockerStep ==
    \A a \in Accounts : \A s \in DOMAIN txs'[a] \ Queued(a) : \A t \in Queued(a) :
        aSeq[a] <= t /\ t < s => ~txs[a][t].blocker

NotBehindBlocker == [][NotBehindBlockerStep]_vars

\* A transaction that pays less never makes room for itself: what a newcomer
\* drops has a lower level than the newcomer, or is of an account that pays
\* less on the average.
DropsCheaperStep ==
    \A a, b \in Accounts : \A s \in DOMAIN txs'[a] \ Queued(a) :
        (phase # "accept" /\ a # b /\ Queued(b) \ DOMAIN txs'[b] # {})
            => \E t \in Queued(b) : txs[b][t].level < txs'[a][s].level

DropsCheaper == [][DropsCheaperStep]_vars

\* accept: a transaction that is the next of its account and could have paid
\* has been tried when accept ends, although its turn may have come before it
\* was the first (eraseAndAdvance); only ties may pass it over.
NonePassedOverStep ==
    phase = "accept" /\ phase' = "open" =>
      \A i \in DOMAIN byFee_ :
          LET e == byFee_[i]
          IN  (e[2] = aSeq[e[1]] /\ e[2] = Min(Queued(e[1])) /\ Level(txs, e) >= scaleFeeLevel)
                => \/ <<e, Level(txs, e)>> \in tried
                   \/ \E t \in tried : t[2] = Level(txs, e)
                   \/ \E j \in DOMAIN byFee_ \ {i} : Level(txs, byFee_[j]) = Level(txs, e)

NonePassedOver == [][NonePassedOverStep]_vars

\* The comment on lastResult in TxQ.h: it is never that of a transaction that
\* was applied or failed for good, because those leave the queue.
LastResultIsRetry ==
    \A a \in Accounts : \A s \in Queued(a) : txs[a][s].last \in {"none", "ter"}

\* accept returns: it goes back in the queue only when it has taken one out.
AcceptReturns == phase = "accept" ~> phase = "open"

\* When no more transactions come, the queue empties: each one is applied,
\* fails, or runs out of retries (the comment on retriesAllowed).
QueueDrains ==
    <>[][acceptStep \/ \E timeLeap \in BOOLEAN : processClosedLedger(timeLeap)]_vars
        => []<>(byFee_ = <<>>)
=============================================================================
