--------------------------- MODULE LedgerAncestry ---------------------------
(***************************************************************************)
(* Ledgers and their history, as LedgerTrie.h sees them, and a reference   *)
(* definition of the preferred ledger.                                     *)
(*                                                                         *)
(* A ledger is the sequence of the ids of its ancestors, from the genesis  *)
(* ledger to itself; ids are numbers, as they are compared.  That two      *)
(* ledgers with the same id have the same ancestors is the unique history  *)
(* invariant LedgerTrie.h asks of its ledgers.                             *)
(***************************************************************************)
EXTENDS Integers, Sequences, FiniteSets, FiniteSetsExt, Functions

CONSTANT Ledgers    (* the ledgers that may be validated                   *)

Genesis == <<0>>
History(l) == {SubSeq(l, 1, k) : k \in 1..Len(l)}
AllLedgers == {Genesis} \union UNION {History(l) : l \in Ledgers}

ASSUME LedgersAssumption ==
    /\ IsFiniteSet(Ledgers)
    /\ \A l \in Ledgers : Len(l) > 0 /\ l[1] = 0
    /\ \A a, b \in AllLedgers : a[Len(a)] = b[Len(b)] => a = b

seq(l) == Len(l) - 1
id(l) == l[Len(l)]
parentOf(l) == SubSeq(l, 1, Len(l) - 1)
DescendsFrom(l, a) == Len(a) =< Len(l) /\ SubSeq(l, 1, Len(a)) = a
Comparable(a, b) == DescendsFrom(a, b) \/ DescendsFrom(b, a)

-----------------------------------------------------------------------------
(* The preferred ledger for the support s of each ledger.  A ledger wins over its         *)
(* siblings if it would still win (by support, ties going to the larger    *)
(* id) were all uncommitted support given to one of them, known or not.    *)
Branch(s, l) == SumFunctionOnSet(s, {d \in Ledgers : DescendsFrom(d, l)})

UncommittedAt(s, q, largestIssued) ==
    SumFunctionOnSet(s, {d \in Ledgers : seq(d) < Max({q, largestIssued})})

Siblings(s, l) ==
    {o \in AllLedgers \ {l} : Len(o) = Len(l) /\ parentOf(o) = parentOf(l)
                              /\ Branch(s, o) > 0}

Wins(s, l, largestIssued) ==
    LET u == UncommittedAt(s, seq(l), largestIssued) IN
    /\ Siblings(s, l) = {} => Branch(s, l) > u
    /\ \A o \in Siblings(s, l) :
          \/ Branch(s, l) > Branch(s, o) + u
          \/ Branch(s, l) = Branch(s, o) + u /\ id(l) > id(o)

(* The last ledger up to which every ledger of the history wins. *)
PreferredOf(s, largestIssued) ==
    LET reached == {l \in AllLedgers :
                      \A a \in History(l) \ {Genesis} : Wins(s, a, largestIssued)}
    IN  CHOOSE l \in reached : \A o \in reached : Len(o) =< Len(l)

=============================================================================
