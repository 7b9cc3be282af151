----------------------------- MODULE BuildLedger -----------------------------
(***************************************************************************)
(* Building a ledger from the transactions consensus agreed on             *)
(* (BuildLedger.cpp), in the order of CanonicalTXSet: by account, in an    *)
(* order of the accounts the salt makes unpredictable, then by sequence    *)
(* number.  What a transactor does is abstracted to what the passes tell   *)
(* apart: a transaction may have to wait for its sequence number, for its  *)
(* account, or for another transaction to succeed.                         *)
(***************************************************************************)
EXTENDS Naturals, Sequences, FiniteSets, FiniteSetsExt, SequencesExt

CONSTANTS Accounts,
          Txs,           \* the transactions
          account, seq,  \* of each transaction
          txid,          \* the transactions in the order of their hashes
          needs,         \* the transactions it claims a fee without
          funds,         \* the transactions that create an account
          Malformed,     \* transactions that fail or throw
          Parents,       \* sets of transactions a parent ledger may already have
          LEDGER_TOTAL_PASSES, LEDGER_RETRY_PASSES

BuildAssumption ==
    /\ account \in [Txs -> Accounts] /\ seq \in [Txs -> Nat] /\ txid \in [Txs -> Nat]
    /\ needs \in [Txs -> SUBSET Txs] /\ funds \in [Accounts -> SUBSET Txs]
    /\ LEDGER_TOTAL_PASSES \in Nat /\ LEDGER_RETRY_PASSES + 1 < LEDGER_TOTAL_PASSES

VARIABLES parent,        \* transactions the parent ledger already has
          salted,        \* the accounts in the order of their salted keys
          set,           \* the agreed set
          txns,          \* what is left of it, in canonical order
          pos,           \* the iterator
          pass, changes, certainRetry,
          view,          \* transactions applied, in order, and with what result
          failed,
          existing,      \* transactions found in the parent ledger
          count,         \* the value returned
          phase,
          final,         \* history: transactions tried in a pass that does not retry
          replayed       \* the view of the replay

vars == <<parent, salted, set, txns, pos, pass, changes, certainRetry, view, failed, existing, count,
          phase, final, replayed>>

\* CanonicalTXSet::Key::operator<, the account's place standing for its key.
Before(order, t, u) ==
    LET place(a) == CHOOSE i \in DOMAIN order : order[i] = a
    IN  \/ place(account[t]) < place(account[u])
        \/ account[t] = account[u] /\ seq[t] < seq[u]
        \/ account[t] = account[u] /\ seq[t] = seq[u] /\ txid[t] < txid[u]

\* The i-th transaction has i - 1 before it.
Sorted(order, ts) ==
    [i \in 1 .. Cardinality(ts) |->
       CHOOSE t \in ts : Cardinality({u \in ts : Before(order, u, t)}) = i - 1]

Canonical(order, ts) == Sorted(order, ts)

Init ==
    /\ parent \in Parents
    /\ salted \in {s \in [1 .. Cardinality(Accounts) -> Accounts] : Range(s) = Accounts}
    /\ set \in SUBSET Txs /\ txns = Canonical(salted, set)
    /\ pos = 1 /\ pass = 0 /\ changes = 0 /\ certainRetry = TRUE
    /\ view = <<>> /\ failed = {} /\ existing = {} /\ count = 0
    /\ phase = "build" /\ final = {} /\ replayed = <<>>

-----------------------------------------------------------------------------
(* One transaction on a view.                                              *)

Applied(v) == {v[i].tx : i \in DOMAIN v}
Succeeded(v) == {v[i].tx : i \in {j \in DOMAIN v : v[j].result = "tesSUCCESS"}}

\* The next sequence number of an account.
Sequence(v, a) == 1 + Cardinality({t \in Applied(v) \cup parent : account[t] = a})

Exists(v, a) == funds[a] = {} \/ funds[a] \cap (Succeeded(v) \cup parent) # {}

result(v, t) ==
    CASE t \in Malformed                       -> "temMALFORMED"
      [] ~Exists(v, account[t])                -> "terNO_ACCOUNT"
      [] seq[t] < Sequence(v, account[t])      -> "tefPAST_SEQ"
      [] seq[t] > Sequence(v, account[t])      -> "terPRE_SEQ"
      [] ~(needs[t] \subseteq Succeeded(v) \cup parent) -> "tecCLAIM"
      [] OTHER                                 -> "tesSUCCESS"

applyTransaction(v, t, retryAssured) ==
    CASE result(v, t) = "tesSUCCESS" -> "Success"
      [] result(v, t) = "tecCLAIM" /\ ~retryAssured -> "Success"
      [] result(v, t) \in {"temMALFORMED", "tefPAST_SEQ"} -> "Fail"
      [] OTHER -> "Retry"

-----------------------------------------------------------------------------
(* applyTransactions.                                                      *)

erase == RemoveAt(txns, pos)

\* The body of the inner loop.
Visit ==
    LET t == txns[pos]
        known == pass = 0 /\ t \in parent
        applied == applyTransaction(view, t, certainRetry)
    IN  /\ phase = "build" /\ pos <= Len(txns)
        /\ IF applied = "Retry" /\ ~known THEN pos' = pos + 1 /\ UNCHANGED txns
                                          ELSE txns' = erase /\ UNCHANGED pos
        /\ existing' = IF known THEN existing \cup {t} ELSE existing
        /\ IF applied = "Success" /\ ~known
             THEN changes' = changes + 1 /\ view' = Append(view, [tx |-> t, result |-> result(view, t)])
             ELSE UNCHANGED <<changes, view>>
        /\ failed' = IF applied = "Fail" /\ ~known THEN failed \cup {t} ELSE failed
        /\ UNCHANGED <<parent, salted, set, pass, certainRetry, count, phase, replayed>>
        /\ final' = IF certainRetry THEN final ELSE final \cup {t}

StopRetries == changes = 0 \/ pass >= LEDGER_RETRY_PASSES

\* The end of a pass; the sum of the changes is not kept.
EndPass ==
    /\ phase = "build" /\ pos > Len(txns)
    /\ IF changes = 0 /\ ~certainRetry
         THEN phase' = "built" /\ UNCHANGED <<pos, pass, changes, certainRetry>>
         ELSE /\ certainRetry' = (certainRetry /\ ~StopRetries)
              /\ pass' = pass + 1 /\ pos' = 1 /\ changes' = 0
              /\ phase' = IF pass + 1 < LEDGER_TOTAL_PASSES THEN "build" ELSE "built"
    /\ UNCHANGED <<parent, salted, set, txns, view, failed, existing, count, final, replayed>>

\* The replay applies as a pass that retries would.
ReplayRetriable ==
    /\ phase = "built" /\ Len(replayed) < Len(view)
    /\ LET t == view[Len(replayed) + 1].tx
           r == IF applyTransaction(replayed, t, TRUE) = "Success" THEN result(replayed, t) ELSE "lost"
       IN  replayed' = Append(replayed, [tx |-> t, result |-> r])
    /\ UNCHANGED <<parent, salted, set, txns, pos, pass, changes, certainRetry, view, failed, existing, count, final, phase>>

\* buildLedger from replay data: the transactions of the ledger by their
\* index, each applied once.
ReplayStep ==
    /\ phase = "built" /\ Len(replayed) < Len(view)
    /\ LET t == view[Len(replayed) + 1].tx
           r == IF applyTransaction(replayed, t, FALSE) = "Success" THEN result(replayed, t) ELSE "lost"
       IN  replayed' = Append(replayed, [tx |-> t, result |-> r])
    /\ UNCHANGED <<parent, salted, set, txns, pos, pass, changes, certainRetry, view, failed, existing, count, final, phase>>

Done == phase = "built" /\ replayed = view /\ UNCHANGED vars

Next == Visit \/ EndPass \/ ReplayStep \/ Done

Spec == Init /\ [][Next]_vars /\ WF_vars(Next)

-----------------------------------------------------------------------------
(* Properties.                                                             *)

TypeOK ==
    /\ Range(txns) \subseteq set /\ pos \in 1 .. Len(txns) + 1 /\ failed \subseteq set
    /\ pass \in 0 .. LEDGER_TOTAL_PASSES /\ certainRetry \in BOOLEAN
    /\ phase \in {"build", "built"}

\* Every transaction of the agreed set is at any time in exactly one place:
\* applied, failed, known from the parent ledger, or still to be retried.
EachInOnePlace ==
    LET places == <<Applied(view), failed, existing, Range(txns)>>
    IN  /\ UNION Range(places) = set
        /\ MapThenSumSet(LAMBDA i : Cardinality(places[i]), 1 .. 4) = Cardinality(set)
        /\ Len(view) = Cardinality(Applied(view))

\* Transactions of an account are applied in the order of their sequence
\* numbers without a gap, over all passes.
InSequence ==
    \A i \in DOMAIN view :
       seq[view[i].tx] = 1 + Cardinality({j \in 1 .. i - 1 : account[view[j].tx] = account[view[i].tx]})
                           + Cardinality({t \in parent : account[t] = account[view[i].tx]})

\* What is left at the end was tried in a pass that no longer retries (the
\* comment at 166).
LeftTriedFinally == phase = "built" => Range(txns) \subseteq final

Waits(t) == needs[t] \cup funds[account[t]]

\* The length of the chain of transactions t waits for.
Depth == LET d[n \in 0 .. Cardinality(Txs), t \in Txs] ==
               IF n = 0 \/ Waits(t) = {} THEN 1 ELSE 1 + Max({d[n - 1, u] : u \in Waits(t)})
         IN  [t \in Txs |-> d[Cardinality(Txs), t]]

\* The passes are enough for chains as long as there are passes: a transaction
\* pays without effect only if what it needs did not succeed, or came later in
\* a longer chain.
ChainsHonoured ==
    \A i \in DOMAIN view :
       LET t == view[i].tx
       IN  view[i].result = "tecCLAIM" /\ phase = "built" /\ Depth[t] <= LEDGER_TOTAL_PASSES
             => ~(needs[t] \subseteq Succeeded(view) \cup parent)

\* Replaying the ledger's transactions by their index on its parent gives the
\* same results, so the same ledger.
ReplayReproduces == \A i \in DOMAIN replayed : replayed[i] = view[i]

\* "return number of transactions applied" (BuildLedger.cpp 91).
CountIsApplied == phase = "built" => count = Len(view)
=============================================================================
