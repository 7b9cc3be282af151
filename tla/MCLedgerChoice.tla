--------------------------- MODULE MCLedgerChoice ----------------------------
(***************************************************************************)
(* What decides the ledger to work on, for TLC: the trie of validated      *)
(* ledgers, the preference it gives to a node, and the store of            *)
(* validations, twice: with two validators and with one over a longer      *)
(* time; and whom the server trusts, the published lists and manifests.    *)
(* They stand side by side; in one behaviour one of them moves.            *)
(***************************************************************************)
EXTENDS LedgerAncestry, FiniteSets, TLC

CONSTANTS v1, v2, v3, v4, n1, n2, valA, valB, valC, pub1, pub2, None

VARIABLES part,
          nodes, seqSupport,
          prefNodes, prefSeqSupport, supported, preferred,
          now, listed, trustedKeys, changes, inHand, available,
          current, seqEnforcers, byLedger, touched, trie, lastLedger, acquiring,
          up, listNow, publisherManifests_, validatorManifests_, signingToMasterKeys_,
          publisherLists_, keyListings_, trustedKeys_, quorum_, inserts,
          ValidatorManifests, PublisherManifests, accepted, revocations

\* Forks at two heights, one of them three ways, spans of several ledgers, and a
\* fork whose smaller ids come first and one whose larger ids do.
MCLedgers ==
    {<<0, 1, 2>>, <<0, 1, 2, 3>>, <<0, 1, 2, 4>>, <<0, 1, 2, 5>>,
     <<0, 1, 2, 3, 6, 7>>, <<0, 8, 9>>, <<0, 8, 9, 10>>}
PrefLedgers ==
    {<<0, 1>>, <<0, 1, 2>>, <<0, 1, 3>>, <<0, 1, 2, 4>>, <<0, 1, 3, 5>>, <<0, 6, 7>>}
Fork == {<<0, 1>>, <<0, 1, 2>>, <<0, 1, 3>>}
Validators == {v1, v2, v3, v4}

Trie == INSTANCE LedgerTrie WITH Counts <- {1, 2}, MaxSupport <- 5
Pref == INSTANCE PreferredLedger
            WITH Ledgers <- PrefLedgers, Counts <- {1}, MaxSupport <- 5, NoLedger <- None,
                 nodes <- prefNodes, seqSupport <- prefSeqSupport, lastLedger <- supported
Vals == INSTANCE Validations
            WITH Ledgers <- Fork, Available <- {<<0, 1>>}, Nodes <- {n1, n2},
                 validationCURRENT_WALL <- 2, validationCURRENT_LOCAL <- 1,
                 validationCURRENT_EARLY <- 1, validationSET_EXPIRES <- 1,
                 Skews <- {0}, MaxTime <- 1, Window <- FALSE
Times == INSTANCE Validations
            WITH Ledgers <- Fork, Available <- {<<0, 1>>}, Nodes <- {n1},
                 validationCURRENT_WALL <- 2, validationCURRENT_LOCAL <- 1,
                 validationCURRENT_EARLY <- 1, validationSET_EXPIRES <- 1,
                 Skews <- {0, 1}, MaxTime <- 2, Window <- FALSE

\* Two publishers, our own key valC and the configured valA: lists that grow, shrink and
\* name a key twice, a new and a revoked key of a publisher, manifests in lists.
List(pub, manifest, sequence, expiration, names, manifests) ==
    [pub |-> pub, manifest |-> manifest, signed |-> TRUE, sequence |-> sequence,
     expiration |-> expiration, manifests |-> manifests,
     list |-> [v \in {valA, valB, valC} |-> Cardinality({i \in DOMAIN names : names[i] = v})]]
Lists == INSTANCE ValidatorList
            WITH Validators <- {valA, valB, valC}, Publishers <- {pub1, pub2}, Configured <- {valA}, Local <- valC,
                 ConfigManifests <- {<<valC, 1>>}, Revoked <- 3,
                 Published <- {List(pub1, 1, 1, 1, <<valA, valA, valB>>, {<<valB, 2>>}),
                               List(pub1, 2, 2, 2, <<valB, valC>>, {<<valA, 3>>, <<valB, 1>>}),
                               List(pub1, 3, 2, 2, <<valA>>, {}),
                               List(pub2, 1, 1, 2, <<valA, valB>>, {<<valB, 1>>}),
                               List(pub2, 3, 1, 1, <<>>, {}),
                               [List(pub2, 2, 2, 2, <<valA>>, {}) EXCEPT !.signed = FALSE]},
                 Gossip <- {<<valB, 2>>, <<valB, 3>>},
                 minimumQuorum_ <- 1, MaxSeq <- 2, MaxTime <- 1, MaxUNL <- 20,
                 now <- listNow

ASSUME Lists!ListAssumption

trieVars == <<nodes, seqSupport>>
prefVars == <<prefNodes, prefSeqSupport, supported, preferred>>
valVars == <<now, listed, trustedKeys, changes, inHand, available,
             current, seqEnforcers, byLedger, touched, trie, lastLedger, acquiring>>

listVars == <<up, listNow, publisherManifests_, validatorManifests_, signingToMasterKeys_,
              publisherLists_, keyListings_, trustedKeys_, quorum_, inserts,
              ValidatorManifests, PublisherManifests, accepted, revocations>>

Symmetry == Permutations(Validators) \cup Permutations({n1, n2})

Init ==
    /\ part \in {"trie", "preferred", "validations", "times", "lists"}
    /\ Trie!Init /\ Pref!PrefInit /\ Lists!Init
    /\ IF part = "times" THEN Times!Init ELSE Vals!Init

Next ==
    /\ part' = part
    /\ \/ part = "trie" /\ Trie!Next /\ UNCHANGED <<prefVars, valVars, listVars>>
       \/ part = "preferred" /\ Pref!PrefNext /\ UNCHANGED <<trieVars, valVars, listVars>>
       \/ part = "validations" /\ Vals!Next /\ UNCHANGED <<trieVars, prefVars, listVars>>
       \/ part = "times" /\ Times!Next /\ UNCHANGED <<trieVars, prefVars, listVars>>
       \/ part = "lists" /\ Lists!Next /\ UNCHANGED <<trieVars, prefVars, valVars>>

Spec == Init /\ [][Next]_<<part, trieVars, prefVars, valVars, listVars>>

-----------------------------------------------------------------------------
(* The properties are those of the components, stated there.               *)

\* After any insertions and removals no node of the trie is needless, its supports
\* are those of the tips, and getPreferred finds what the rule for preferred
\* ledgers says (LedgerTrie.h).
PreferredIsRight ==
    part = "trie" => Trie!CanonicalTrie /\ Trie!SupportIsRight /\ Trie!PreferredIsRight

\* The trie implements the table of supports.
ImplementsSupport == Trie!ImplementsSupport

\* getPreferred never changes branch while the validators stay on theirs, and
\* what all of them support is preferred.
NeverSidesteps == part = "preferred" => Pref!NeverSidesteps /\ Pref!UnanimityPrevails

\* The trie holds the last ledger of each trusted validator, a current trusted
\* validation is in it or waits for its ledger, ledgers are acquired for current
\* validations only, and trust follows the list of keys (Validations.h); a
\* validator's stored sequence numbers increase until they expire.
TrieIsLastLedgers ==
    /\ part = "validations" => /\ Vals!TrieIsLastLedgers /\ Vals!AcquiringIsCurrent
                               /\ Vals!TrustedIsAccounted /\ Vals!TrustFollowsKeys
    /\ part = "times" => Times!StoredSequencesIncrease

\* The counts of keyListings_ are those of the lists held, a revocation is never
\* lost and takes the publisher's list with it, a signing key leads to the
\* validator whose newest manifest names it (ValidatorList.cpp, Manifest.cpp); no
\* quorum is in reach before every list has come, and the quorum gives the overlap
\* that calculateQuorum's comment derives.
ListingsExact ==
    /\ part = "lists" => /\ Lists!ListingsExact /\ Lists!SigningFollowsManifests
                         /\ Lists!RevocationKept /\ Lists!RevokedPublisherGone
                         /\ Lists!NoQuorumBeforeLists
    /\ part = "lists" /\ ~up => Lists!QuorumOverlaps
=============================================================================
