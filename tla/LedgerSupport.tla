--------------------------- MODULE LedgerSupport ----------------------------
(***************************************************************************)
(* What the ledger trie promises, without the trie: how much support each  *)
(* ledger has.                                                             *)
(***************************************************************************)
EXTENDS LedgerAncestry

CONSTANTS
    Counts,      (* the counts insert and remove are called with           *)
    MaxSupport   (* bound: the most support there is in a run              *)

VARIABLE support

Init == support = [l \in Ledgers |-> 0]

insert(l, count) ==
    /\ SumFunction(support) + count =< MaxSupport
    /\ support' = [support EXCEPT ![l] = @ + count]

remove(l, count) ==
    support' = [support EXCEPT ![l] = IF @ < count THEN 0 ELSE @ - count]

Next == \E l \in Ledgers, count \in Counts : insert(l, count) \/ remove(l, count)

Spec == Init /\ [][Next]_support

=============================================================================
