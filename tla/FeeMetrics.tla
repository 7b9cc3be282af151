------------------------------ MODULE FeeMetrics ------------------------------
(***************************************************************************)
(* The fee metrics of the transaction queue (TxQ::FeeMetrics): how many    *)
(* transactions a ledger is expected to take before the fee escalates, and *)
(* by how much.  Every closed ledger updates them from the fee levels of   *)
(* its transactions and from whether consensus was slow.                   *)
(***************************************************************************)
EXTENDS Integers, SequencesExt, FiniteSetsExt

CONSTANTS
    minimumTxnInLedger, targetTxnInLedger,
    maximumTxnInLedger,             \* or NoMaximum
    NoMaximum,
    ledgersInQueue,
    normalConsensusIncreasePercent, slowConsensusDecreasePercent,
    minimumEscalationMultiplier, baseLevel,
    Levels,                         \* fee levels that transactions pay
    MaxSize,                        \* bound: transactions in a ledger
    MaxCurrent,                     \* bound: sizes of the open ledger
    UInt64Max                       \* stands for the largest 64 bit number

FeeMetricsAssumption ==
    /\ minimumTxnInLedger \in Nat \ {0} /\ targetTxnInLedger \in Nat
    /\ maximumTxnInLedger \in Nat \union {NoMaximum} /\ NoMaximum \notin Nat
    /\ ledgersInQueue \in Nat \ {0} /\ slowConsensusDecreasePercent \in 0 .. 100
    /\ Levels \subseteq Nat /\ MaxSize \in Nat /\ MaxCurrent \in Nat

VARIABLES
    txnsExpected_, recentTxnCounts_, escalationMultiplier_,
    closed,         \* the fee levels in the last closed ledger
    slowly          \* whether consensus on it was slow
vars == <<txnsExpected_, recentTxnCounts_, escalationMultiplier_, closed, slowly>>

\* The constructor puts the three limits in order.
minimumTxnCount_ == minimumTxnInLedger
targetTxnCount_ == Max({targetTxnInLedger, minimumTxnCount_})
HasMaximum == maximumTxnInLedger # NoMaximum
maximumTxnCount_ == Max({maximumTxnInLedger, targetTxnCount_})

Init ==
    /\ txnsExpected_ = minimumTxnCount_
    /\ recentTxnCounts_ = <<>>
    /\ escalationMultiplier_ = minimumEscalationMultiplier
    /\ closed = <<>> /\ slowly = FALSE

\* A quotient that does not fit is clipped.
mulDiv(value, mul, div) == Min({(value * mul) \div div, UInt64Max})

\* boost::algorithm::clamp
clamp(x, lo, hi) == IF x < lo THEN lo ELSE IF x > hi THEN hi ELSE x

\* The history grows.
\* A circular buffer forgets its oldest count.
push(s, x) == IF Len(s) = ledgersInQueue THEN Append(Tail(s), x) ELSE Append(s, x)

\* Ledgers take too long: clamp down.
slow(size) ==
    LET cutPct == 100 - slowConsensusDecreasePercent
        upperLimit == Max({mulDiv(txnsExpected_, cutPct, 100), minimumTxnCount_})
    IN  /\ txnsExpected_' = clamp(mulDiv(size, cutPct, 100), minimumTxnCount_, upperLimit)
        /\ recentTxnCounts_' = <<>>

\* Ledgers are timely: grow at once, shrink slowly.
timely(size) ==
    IF size > txnsExpected_ \/ size > targetTxnCount_
      THEN LET counts == push(recentTxnCounts_,
                              mulDiv(size, 100 + normalConsensusIncreasePercent, 100))
               most == Max(ToSet(counts))
               next == IF most >= txnsExpected_ THEN most ELSE (txnsExpected_ * 9 + most) \div 10
           IN  /\ recentTxnCounts_' = counts
               /\ txnsExpected_' = IF HasMaximum THEN Min({next, maximumTxnCount_}) ELSE next
      ELSE UNCHANGED <<txnsExpected_, recentTxnCounts_>>

\* The mean of the two in the middle of a sorted sequence, rounded up.
median(levels) ==
    LET size == Len(levels)
    IN  (levels[size \div 2 + 1] + levels[(size - 1) \div 2 + 1] + 1) \div 2

\* Fee levels of the transactions of a ledger, sorted.
Ledgers(n) == {s \in [1 .. n -> Levels] : \A i \in 1 .. n - 1 : s[i] <= s[i + 1]}

update(levels, timeLeap) ==
    /\ IF timeLeap THEN slow(Len(levels)) ELSE timely(Len(levels))
    /\ escalationMultiplier_' =
         IF levels = <<>> THEN minimumEscalationMultiplier
                          ELSE Max({median(levels), minimumEscalationMultiplier})
    /\ closed' = levels /\ slowly' = timeLeap

Next ==
    \E n \in 0 .. MaxSize, timeLeap \in BOOLEAN : \E levels \in Ledgers(n) : update(levels, timeLeap)

Spec == Init /\ [][Next]_vars

-----------------------------------------------------------------------------
(* What a transaction pays.                                                *)

scaleFeeLevel(current) ==
    IF current > txnsExpected_
      THEN mulDiv(escalationMultiplier_, current * current, txnsExpected_ * txnsExpected_)
      ELSE baseLevel

\* The last square is left out.
sumOfFirstSquaresShort(x) == (x * (x - 1) * (2 * x - 1)) \div 6

sumOfFirstSquares(x) == (x * (x + 1) * (2 * x + 1)) \div 6

escalatedSeriesFeeLevel(current, seriesSize) ==
    mulDiv(escalationMultiplier_,
           sumOfFirstSquares(current + seriesSize - 1) - sumOfFirstSquares(current - 1),
           txnsExpected_ * txnsExpected_)

-----------------------------------------------------------------------------
(* Properties.                                                             *)

TypeOK ==
    /\ txnsExpected_ \in Nat \ {0} /\ escalationMultiplier_ \in Nat
    /\ recentTxnCounts_ \in Seq(Nat) /\ Len(recentTxnCounts_) <= ledgersInQueue

\* Through growth, slow shrinking and cuts the expectation stays between its
\* minimum and its maximum, which the two branches of update guard in
\* different ways.
ExpectedInLimits ==
    /\ txnsExpected_ >= minimumTxnCount_
    /\ HasMaximum => txnsExpected_ <= maximumTxnCount_

\* The comment on slowConsensusDecreasePercent: after slow consensus less is
\* expected, by the percentage, of the ledger and of the expectation.
SlowCutsStep ==
    slowly' =>
      \/ txnsExpected_' = minimumTxnCount_
      \/ /\ 100 * txnsExpected_' <= (100 - slowConsensusDecreasePercent) * txnsExpected_
         /\ 100 * txnsExpected_' <= (100 - slowConsensusDecreasePercent) * Len(closed')

SlowCuts == [][SlowCutsStep]_vars

\* The comment in update: while ledgers are timely the limit shrinks slowly,
\* by a tenth of the distance at most.
ShrinksSlowlyStep ==
    ~slowly' /\ txnsExpected_' < txnsExpected_ =>
      10 * (txnsExpected_' + 1) > 9 * txnsExpected_ + Len(closed')

ShrinksSlowly == [][ShrinksSlowlyStep]_vars

\* The multiplier is the median of the last ledger: half of it paid as much,
\* and half of it paid no more.
MultiplierIsMedian ==
    closed # <<>> /\ escalationMultiplier_ # minimumEscalationMultiplier =>
        /\ 2 * Cardinality({i \in DOMAIN closed : closed[i] <= escalationMultiplier_}) >= Len(closed)
        /\ 2 * Cardinality({i \in DOMAIN closed : closed[i] >= escalationMultiplier_}) >= Len(closed)

\* The comment on escalatedSeriesFeeLevel: clearing an account's queue with
\* one payment costs what the transactions would have cost one after the
\* other in the ledger they escalate, up to rounding.
SeriesIsSum ==
    \A current \in txnsExpected_ + 1 .. MaxCurrent, size \in 1 .. 4 :
        LET single == FoldSet(LAMBDA n, acc : acc + scaleFeeLevel(n), 0, current .. current + size - 1)
            series == escalatedSeriesFeeLevel(current, size)
        IN  series < UInt64Max => single <= series /\ series < single + size
=============================================================================
