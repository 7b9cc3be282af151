----------------------------- MODULE LedgerTrie -----------------------------
(***************************************************************************)
(* The compressed ancestry trie of consensus/LedgerTrie.h.                 *)
(*                                                                         *)
(* A node is named by the ledger at the tip of its span, so nodes is a     *)
(* function on ledgers: span.start_, tipSupport and branchSupport.  The    *)
(* span ends with the tip, the parent is the node that ends where the span *)
(* starts, and the children are the nodes a node is the parent of; the     *)
(* order of the vector of children is never visible, as siblings differ    *)
(* in their first ledger.  Truncating the span of a node, as insert does,  *)
(* gives the node another name and its old name to the new node.           *)
(***************************************************************************)
EXTENDS LedgerAncestry, TLC

CONSTANTS
    Counts,      (* the counts insert and remove are called with           *)
    MaxSupport   (* bound: the most support there is in a run              *)

VARIABLES nodes, seqSupport

vars == <<nodes, seqSupport>>

-----------------------------------------------------------------------------
(* class Span.  Sequence numbers are those of the code: [start, end).      *)
spanEnd(n) == Len(n)
startID(t, n) == n[t[n].start + 1]
mismatch(a, b) ==
    Max({k \in 0..Min({Len(a), Len(b)}) : SubSeq(a, 1, k) = SubSeq(b, 1, k)})
diff(t, n, l) == Min({Max({t[n].start, mismatch(n, l)}), spanEnd(n)})
before(n, spot) == SubSeq(n, 1, spot)

Children(t, n) == {c \in DOMAIN t \ {Genesis} : before(c, t[c].start) = n}
Parent(t, n) == before(n, t[n].start)
UpFrom(t, n) == {a \in DOMAIN t : DescendsFrom(n, a)}

-----------------------------------------------------------------------------
(* find: the node with the longest common history with l, and the first    *)
(* sequence number at which they differ.                                   *)
RECURSIVE findFrom(_, _, _, _)
findFrom(t, l, curr, pos) ==
    LET longer == {c \in Children(t, curr) : diff(t, c, l) > pos} IN
    IF pos < spanEnd(curr) \/ longer = {}
    THEN [loc |-> curr, pos |-> pos]
    ELSE LET c == CHOOSE c \in longer : TRUE
         IN  findFrom(t, l, c, diff(t, c, l))

find(t, l) == findFrom(t, l, Genesis, diff(t, Genesis, l))

-----------------------------------------------------------------------------
(* insert: split the node found where l leaves it, add what is left of l   *)
(* below it, and count the support from there up to the root.              *)
With(t, n, node) == [m \in DOMAIN t \union {n} |-> IF m = n THEN node ELSE t[m]]

split(t, loc, pos) ==
    IF pos = spanEnd(loc) THEN t
    ELSE With([t EXCEPT ![loc].start = pos], before(loc, pos),
              [t[loc] EXCEPT !.tipSupport = 0])

grow(t, l, pos) ==
    IF pos = Len(l) THEN t
    ELSE With(t, l, [start |-> pos, tipSupport |-> 0, branchSupport |-> 0])

inserted(t, l, count) ==
    LET f == find(t, l)
        g == grow(split(t, f.loc, f.pos), l, f.pos)
    IN  [n \in DOMAIN g |->
           [g[n] EXCEPT !.branchSupport = IF n \in UpFrom(g, l) THEN @ + count ELSE @,
                        !.tipSupport = IF n = l THEN @ + count ELSE @]]

insert(l, count) ==
    /\ nodes[Genesis].branchSupport + count =< MaxSupport
    /\ nodes' = inserted(nodes, l, count)
    /\ seqSupport' = With(seqSupport, seq(l),
                          count + IF seq(l) \in DOMAIN seqSupport
                                  THEN seqSupport[seq(l)] ELSE 0)

-----------------------------------------------------------------------------
(* remove: give support back, then drop the nodes that have become         *)
(* needless, upwards from the node that lost its tip support.              *)
RECURSIVE compressLeavesOnly(_, _)
compressLeavesOnly(t, loc) ==
    IF loc = Genesis \/ t[loc].tipSupport > 0 \/ Children(t, loc) # {} THEN t
    ELSE compressLeavesOnly(Restrict(t, DOMAIN t \ {loc}), Parent(t, loc))

RECURSIVE compress(_, _)
compress(t, loc) ==
    LET kids == Children(t, loc)
        c == CHOOSE c \in kids : TRUE
    IN  CASE loc = Genesis \/ t[loc].tipSupport > 0 \/ Cardinality(kids) > 1 -> t
          [] OTHER ->
             LET merged == IF kids = {} THEN t
                           ELSE [t EXCEPT ![c].start = Min({@, t[loc].start})]
             IN  compress(Restrict(merged, DOMAIN t \ {loc}), Parent(t, loc))

removed(t, l, count) ==
    compress([n \in DOMAIN t |->
                [t[n] EXCEPT !.branchSupport = IF n \in UpFrom(t, l) THEN @ - count ELSE @,
                             !.tipSupport = IF n = l THEN @ - count ELSE @]], l)

RemoveNothing(l) ==
    /\ l \in DOMAIN nodes => nodes[l].tipSupport = 0
    /\ UNCHANGED <<nodes, seqSupport>>

RemoveAllSupport(l, count) ==
    /\ l \in DOMAIN nodes /\ nodes[l].tipSupport > 0
    /\ nodes' = removed(nodes, l, nodes[l].tipSupport)
    /\ seqSupport' = RestrictValues([seqSupport EXCEPT ![seq(l)] = @ - nodes[l].tipSupport],
                                   LAMBDA v : v > 0)

RemoveSupport(l, count) ==
    /\ l \in DOMAIN nodes /\ nodes[l].tipSupport > 0
    /\ LET n == Min({count, nodes[l].tipSupport})
           left == [seqSupport EXCEPT ![seq(l)] = @ - n]
       IN  /\ nodes' = removed(nodes, l, n)
           /\ seqSupport' = RestrictValues(left, LAMBDA v : v > 0)

remove(l, count) == RemoveNothing(l) \/ RemoveSupport(l, count)

Init ==
    /\ nodes = Genesis :> [start |-> 0, tipSupport |-> 0, branchSupport |-> 0]
    /\ seqSupport = <<>>

Next == \E l \in Ledgers, count \in Counts : insert(l, count) \/ remove(l, count)

Spec == Init /\ [][Next]_vars

-----------------------------------------------------------------------------
(* getPreferred.  uncommittedIt is modelled by the first sequence number   *)
(* whose support has not been added to uncommitted yet.                    *)
empty(t) == t[Genesis].branchSupport = 0

uncommitted(s, it) == SumFunctionOnSet(s, {q \in DOMAIN s : q < it})

(* Along one span: how far the branch support exceeds the uncommitted      *)
(* support, jumping from one change of the latter to the next.             *)
RECURSIVE advance(_, _, _, _, _)
advance(t, s, curr, nextSeq, it) ==
    LET changes == {q \in DOMAIN s : it =< q /\ q < spanEnd(curr)} IN
    IF nextSeq >= spanEnd(curr) \/ t[curr].branchSupport =< uncommitted(s, it)
    THEN [nextSeq |-> nextSeq, it |-> it]
    ELSE IF changes = {} THEN advance(t, s, curr, spanEnd(curr), it)
         ELSE advance(t, s, curr, Min(changes) + 1, Min(changes) + 1)

(* The order of partial_sort. *)
ahead(t, a, b) ==
    \/ t[a].branchSupport > t[b].branchSupport
    \/ t[a].branchSupport = t[b].branchSupport /\ startID(t, a) > startID(t, b)

first(t, kids) == CHOOSE a \in kids : \A b \in kids \ {a} : ahead(t, a, b)

marginAlwaysMore(t, kids) ==
    IF Cardinality(kids) = 1 THEN t[first(t, kids)].branchSupport
    ELSE t[first(t, kids)].branchSupport
           - t[first(t, kids \ {first(t, kids)})].branchSupport + 1

margin(t, kids) ==
    LET best == first(t, kids)
        second == first(t, kids \ {best})
    IN  IF Cardinality(kids) = 1 THEN t[best].branchSupport
        ELSE t[best].branchSupport - t[second].branchSupport
               + IF startID(t, best) > startID(t, second) THEN 1 ELSE 0

RECURSIVE preferredFrom(_, _, _, _, _)
preferredFrom(t, s, curr, it, largestIssued) ==
    LET next == t[curr].start + 1
        a == advance(t, s, curr, next, Max({it, next, largestIssued}))
        kids == Children(t, curr)
    IN  CASE a.nextSeq < spanEnd(curr) -> before(curr, a.nextSeq)
          [] /\ a.nextSeq >= spanEnd(curr)
             /\ kids # {}
             /\ \/ margin(t, kids) > uncommitted(s, a.it)
                \/ uncommitted(s, a.it) = 0
             -> preferredFrom(t, s, first(t, kids), a.it, largestIssued)
          [] OTHER -> curr

getPreferred(t, s, largestIssued) == preferredFrom(t, s, Genesis, 0, largestIssued)

-----------------------------------------------------------------------------
(* What callers ask about one ledger. *)
tipSupport(t, l) == IF l \in DOMAIN t THEN t[l].tipSupport ELSE 0

branchSupport(t, l) ==
    LET f == find(t, l) IN
    IF l \in DOMAIN t THEN t[l].branchSupport
    ELSE IF f.pos > seq(l) /\ seq(l) < spanEnd(f.loc) THEN t[f.loc].branchSupport
    ELSE 0

-----------------------------------------------------------------------------
Seqs == {seq(l) : l \in AllLedgers}
tips == [l \in Ledgers |-> tipSupport(nodes, l)]

TypeOK ==
    /\ Genesis \in DOMAIN nodes /\ DOMAIN nodes \subseteq AllLedgers
    /\ \A n \in DOMAIN nodes :
          nodes[n] \in [start : 0..seq(n), tipSupport : 0..MaxSupport,
                       branchSupport : 0..MaxSupport]
    /\ DOMAIN seqSupport \subseteq Seqs
    /\ \A q \in DOMAIN seqSupport : seqSupport[q] \in 1..MaxSupport

(* The trie is as small as it can be, and does not depend on the order of  *)
(* the insertions and removals that led to it: besides the root it has a   *)
(* node for each ledger with support and for each ledger two supported     *)
(* ones part at, and its spans tile the histories.  (The first and the     *)
(* third part of checkInvariants, and that no span is lost or doubled.)    *)
CanonicalTrie ==
    LET tip == {l \in Ledgers : tips[l] > 0}
        forks == {l \in AllLedgers : \E a, b \in tip :
                     DescendsFrom(a, l) /\ DescendsFrom(b, l) /\ mismatch(a, b) = Len(l)}
    IN  /\ DOMAIN nodes = {Genesis} \union tip \union forks
        /\ \A n \in DOMAIN nodes \ {Genesis} :
              nodes[n].start = Max({Len(a) : a \in UpFrom(nodes, n) \ {n}})

(* The counts the node keeps are right: for every ledger, in the trie or   *)
(* inside a span, branchSupport is the support of the ledger and its       *)
(* descendants, and seqSupport that of the ledgers with the number.        *)
SupportIsRight ==
    /\ \A l \in AllLedgers : branchSupport(nodes, l) = Branch(tips, l)
    /\ \A q \in Seqs :
          SumFunctionOnSet(tips, {l \in Ledgers : seq(l) = q})
            = IF q \in DOMAIN seqSupport THEN seqSupport[q] ELSE 0

(* getPreferred, which walks spans and jumps between changes of the        *)
(* uncommitted support, finds the ledger its comment describes: the last   *)
(* one up to which every ledger wins over its siblings whichever way the   *)
(* uncommitted validators go.                                              *)
PreferredIsRight ==
    ~ empty(nodes) =>
        \A largestIssued \in Seqs \union {Max(Seqs) + 1} :
            getPreferred(nodes, seqSupport, largestIssued) = PreferredOf(tips, largestIssued)

(* The trie implements the table of supports: insert adds to the support   *)
(* of one ledger, remove takes from it, and splitting, merging and erasing *)
(* nodes change the support of no other ledger.                            *)
Support == INSTANCE LedgerSupport WITH support <- tips
ImplementsSupport == Support!Spec

=============================================================================
