-------------------------- MODULE PreferredLedger ---------------------------
(***************************************************************************)
(* The trie as Validations.h feeds it: every validator supports the last   *)
(* ledger it validated, and a new validation moves its support.  Here each *)
(* validator stays on its chain: what it validates descends from what it   *)
(* validated before.  Which ledger is preferred is asked at any time once  *)
(* every validator has been heard of (support nobody knows of yet is not   *)
(* uncommitted support), with any sequence number this node may itself     *)
(* have validated meanwhile.                                               *)
(***************************************************************************)
EXTENDS LedgerTrie

CONSTANTS Validators, NoLedger

VARIABLES
    lastLedger,   (* the ledger each validator supports                    *)
    preferred     (* history: the ledgers getPreferred has returned        *)

prefVars == <<nodes, seqSupport, lastLedger, preferred>>

PrefInit ==
    /\ Init
    /\ lastLedger = [v \in Validators |-> NoLedger]
    /\ preferred = {}

(* Ways to get updateTrie wrong: the sequence number the validator moves   *)
(* to is not counted, or the one it leaves is not forgotten.               *)
MoveSupportUncounted(old, new) ==
    /\ nodes' = inserted(IF old = NoLedger THEN nodes ELSE removed(nodes, old, 1), new, 1)
    /\ UNCHANGED seqSupport
(* updateTrie: remove the support of the validator's last ledger, if there *)
(* is one, then insert the new one.                                        *)
MoveSupport(old, new) ==
    LET t == IF old = NoLedger THEN nodes ELSE removed(nodes, old, 1)
        s == IF old = NoLedger THEN seqSupport
             ELSE [seqSupport EXCEPT ![seq(old)] = @ - 1]
    IN  /\ nodes' = inserted(t, new, 1)
        /\ seqSupport' = RestrictValues(
                           With(s, seq(new), 1 + IF seq(new) \in DOMAIN s
                                                 THEN s[seq(new)] ELSE 0),
                           LAMBDA n : n > 0)

updateTrie(v, ledger) ==
    /\ MoveSupport(lastLedger[v], ledger)
    /\ lastLedger' = [lastLedger EXCEPT ![v] = ledger]
    /\ UNCHANGED preferred

Validate(v, ledger) ==
    /\ lastLedger[v] # NoLedger =>
          ledger # lastLedger[v] /\ DescendsFrom(ledger, lastLedger[v])
    /\ updateTrie(v, ledger)

Ask(largestIssued) ==
    /\ \A v \in Validators : lastLedger[v] # NoLedger
    /\ preferred' = preferred \union {getPreferred(nodes, seqSupport, largestIssued)}
    /\ UNCHANGED <<nodes, seqSupport, lastLedger>>

PrefNext ==
    \/ \E v \in Validators, ledger \in Ledgers : Validate(v, ledger)
    \/ \E largestIssued \in Seqs \union {Max(Seqs) + 1} : Ask(largestIssued)

PrefSpec == PrefInit /\ [][PrefNext]_prefVars

(* The preferred ledger never moves to another branch while every          *)
(* validator stays on its own: whatever order the validations arrive in,   *)
(* and however far this node is ahead, all the ledgers getPreferred ever   *)
(* returned are on one chain.  This is what "only switch to a different    *)
(* branch when you see enough peer validations to know another branch      *)
(* won't have preferred support" has to mean.                              *)
NeverSidesteps == \A a, b \in preferred : Comparable(a, b)

(* With all validators on descendants of the same ledger and none behind   *)
(* it, that ledger's history is preferred: unanimous support is never      *)
(* outweighed by the arithmetic on uncommitted support.                    *)
UnanimityPrevails ==
    \A a \in AllLedgers :
        (\A v \in Validators : lastLedger[v] # NoLedger /\ DescendsFrom(lastLedger[v], a))
            => DescendsFrom(getPreferred(nodes, seqSupport, 0), a)

=============================================================================
