--------------------------- MODULE ValidatorList ----------------------------
(***************************************************************************)
(* Whom a server trusts: the lists that publishers sign (ValidatorList.cpp), *)
(* the manifests that tie a master key to its signing keys (Manifest.cpp), *)
(* the tables that keep the manifests from one run to the next             *)
(* (OverlayImpl.cpp, Application.cpp) and the quorum.                      *)
(*                                                                         *)
(* A manifest is the number of its sequence; the last number revokes the   *)
(* master key.  The signing key of a manifest belongs to it alone.  A list *)
(* is the number of times it names each validator.                         *)
(***************************************************************************)
EXTENDS Integers, FiniteSets, FiniteSetsExt, Functions

CONSTANTS Validators,      \* master keys
          Publishers,      \* [validator_list_keys]
          Configured,      \* [validators]
          Local,           \* our own master key, or None
          ConfigManifests, \* our own manifest and [validator_key_revocation]
          Revoked,         \* the largest sequence of a manifest
          Published,       \* the lists that may arrive, of set Message
          Gossip,          \* the manifests that peers may send
          minimumQuorum_,  \* of the command line, or None
          None,
          MaxSeq,          \* bound on the sequences of lists
          MaxTime,         \* bound on the clock
          MaxUNL           \* bound on the size of the UNLs compared

VARIABLES up, now,
          publisherManifests_, validatorManifests_, \* the highest sequence, 0: none
          signingToMasterKeys_,
          publisherLists_, keyListings_, trustedKeys_, quorum_,
          inserts,         \* manifests accepted from peers, not in the database yet
          ValidatorManifests, PublisherManifests,   \* the tables
          accepted,        \* history: publishers whose list came in this run
          revocations      \* history: validators whose revocation was in the table

lists == <<publisherLists_, keyListings_>>
trust == <<trustedKeys_, quorum_>>
vars == <<up, now, publisherManifests_, validatorManifests_, signingToMasterKeys_, lists, trust,
          inserts, ValidatorManifests, PublisherManifests, accepted, revocations>>

Times == 0 .. MaxTime
Never == MaxTime + 1
Manifests(S) == S \X (1 .. Revoked)

\* A list beside the manifest of its publisher; signed: with the key of that manifest.
Message == [pub : Publishers, manifest : 1 .. Revoked, signed : BOOLEAN, sequence : 0 .. MaxSeq,
            expiration : 1 .. MaxTime + 1, list : [Validators -> 0 .. 2],
            manifests : SUBSET Manifests(Validators)]

ListAssumption ==
    /\ IsFiniteSet(Validators) /\ Configured \subseteq Validators /\ Revoked \in Nat \ {0}
    /\ Published \subseteq Message /\ Gossip \subseteq Manifests(Validators) /\ MaxSeq \in Nat /\ MaxTime \in Nat /\ MaxUNL \in Nat
    /\ None \notin Validators \cup Publishers /\ Local \in Validators \cup {None}

Empty == [p \in {} |-> None]

Memory(publishers, validators, signing, published, listings, trusted, quorum, pending, received) ==
    /\ publishers = [p \in Publishers |-> 0] /\ validators = [v \in Validators |-> 0]
    /\ published = Empty /\ listings = [v \in Validators |-> 0]
    /\ signing = {} /\ trusted = {} /\ quorum = 0 /\ pending = {} /\ received = {}

Init ==
    /\ up = FALSE /\ now = 0
    /\ Memory(publisherManifests_, validatorManifests_, signingToMasterKeys_, publisherLists_,
              keyListings_, trustedKeys_, quorum_, inserts, accepted)
    /\ ValidatorManifests = {} /\ PublisherManifests = {} /\ revocations = {}

-----------------------------------------------------------------------------
(* ManifestCache.                                                          *)

getSigningKey(v, map) == <<v, map[v]>>

revoked(v) == validatorManifests_[v] = Revoked

KeysOf(map) == {getSigningKey(v, map) : v \in {u \in DOMAIN map : map[u] \in 1 .. Revoked - 1}}

SigningKeys(map, signing, v, n) ==
    (signing \ {getSigningKey(v, map)}) \cup ({<<v, n>>} \ {<<v, Revoked>>})

\* A manifest that is not newer than the one stored is stale.
Newer(map, v, n) == n > map[v]

applyManifest(v, n) ==
    /\ Newer(validatorManifests_, v, n)
    /\ validatorManifests_' = [validatorManifests_ EXCEPT ![v] = n]
    /\ signingToMasterKeys_' = SigningKeys(validatorManifests_, signingToMasterKeys_, v, n)

\* What is left of a table once its manifests are applied, in any order.
Loaded(table, keys) == [k \in keys |-> Max({0} \cup {n \in 1 .. Revoked : <<k, n>> \in table})]

Saved(map, isTrusted) == {<<k, map[k]>> : k \in {j \in isTrusted : map[j] # 0}}

\* All revocations, and what else belongs to a trusted key.
save(map, isTrusted) == Saved(map, isTrusted \cup {k \in DOMAIN map : map[k] = Revoked})

-----------------------------------------------------------------------------
(* ValidatorList.                                                          *)

listed == {v \in Validators : keyListings_[v] > 0}

NoKeys == [v \in Validators |-> 0]

\* The keys of the configuration, in the list of the empty key None.
ConfigList == [v \in Validators |-> IF v \in Configured \ {Local} THEN 1 ELSE 0]

PublisherList(available, list, sequence, expiration) ==
    [available |-> available, list |-> list, sequence |-> sequence, expiration |-> expiration]

load(map) ==
    /\ publisherLists_' =
         [p \in {q \in Publishers : map[q] # Revoked} \cup (IF ConfigList = NoKeys THEN {} ELSE {None}) |->
            IF p = None THEN PublisherList(TRUE, ConfigList, 0, Never)
                        ELSE PublisherList(FALSE, NoKeys, 0, 0)]
    /\ keyListings_' = [v \in Validators |-> ConfigList[v] + (IF v = Local THEN 1 ELSE 0)]
    /\ trustedKeys_' = {}
    /\ quorum_' = IF minimumQuorum_ = None THEN 1 ELSE minimumQuorum_

\* The lists and the counts once the publishers of P have theirs removed.
removed(P) == [p \in DOMAIN publisherLists_ |->
    IF p \in P THEN [publisherLists_[p] EXCEPT !.list = NoKeys, !.available = FALSE]
               ELSE publisherLists_[p]]

Sum(P, v) == MapThenSumSet(LAMBDA p : publisherLists_[p].list[v], P)

\* A key that several lists name is no longer listed.
WithoutForgotten(P) == [v \in Validators |-> IF Sum(P, v) > 0 THEN 0 ELSE keyListings_[v]]

Without(P) == [v \in Validators |-> Max({0, keyListings_[v] - Sum(P, v)})]

removePublisherList(P) == publisherLists_' = removed(P) /\ keyListings_' = Without(P)

\* What verify makes of a list m: the publisher's manifest is applied before the
\* signature of the list is looked at.
Verdict(m) ==
    CASE m.pub \notin DOMAIN publisherLists_ -> "untrusted"
      [] m.manifest = Revoked -> "untrusted"
      [] m.manifest < publisherManifests_[m.pub] \/ ~m.signed -> "invalid"
      [] m.sequence < publisherLists_[m.pub].sequence \/ m.expiration <= now -> "stale"
      [] m.sequence = publisherLists_[m.pub].sequence -> "same_sequence"
      [] OTHER -> "accepted"

verify(m) ==
    /\ publisherManifests_' = [publisherManifests_ EXCEPT ![m.pub] = Max({@, m.manifest})]
    /\ IF m.manifest = Revoked /\ Newer(publisherManifests_, m.pub, m.manifest)
       THEN /\ publisherLists_' = Restrict(publisherLists_, DOMAIN publisherLists_ \ {m.pub})
            /\ keyListings_' = Without({m.pub})
       ELSE UNCHANGED lists

\* The merge of the old and the new list.
Merged(m) == [v \in Validators |->
    Max({0, keyListings_[v] + m.list[v] - publisherLists_[m.pub].list[v]})]

\* The manifests of a list that name a validator that is listed now.
Applied(m, listings) ==
    [v \in Validators |-> Max({validatorManifests_[v]} \cup
       (IF listings[v] > 0 THEN {n \in 1 .. Revoked : <<v, n>> \in m.manifests} ELSE {}))]

Accept(m) ==
    /\ publisherManifests_' = [publisherManifests_ EXCEPT ![m.pub] = Max({@, m.manifest})]
    /\ publisherLists_' =
         [publisherLists_ EXCEPT ![m.pub] = PublisherList(TRUE, m.list, m.sequence, m.expiration)]
    /\ keyListings_' = Merged(m)
    /\ validatorManifests_' = Applied(m, Merged(m))
    /\ signingToMasterKeys_' = LET map == Applied(m, Merged(m)) IN
         (signingToMasterKeys_ \ {k \in signingToMasterKeys_ : map[k[1]] # validatorManifests_[k[1]]})
         \cup KeysOf([v \in {u \in Validators : map[u] # validatorManifests_[u]} |-> map[v]])
    /\ accepted' = accepted \cup {m.pub}

applyList(m) ==
    /\ up /\ m.pub \in DOMAIN publisherLists_
    /\ IF Verdict(m) = "accepted"
       THEN Accept(m)
       ELSE verify(m) /\ UNCHANGED <<validatorManifests_, signingToMasterKeys_, accepted>>
    /\ UNCHANGED <<up, now, trust, inserts, ValidatorManifests, PublisherManifests, revocations>>

\* The largest std::size_t.
Unreachable == Cardinality(Validators) + 1

Quorum(trusted) == (4 * trusted + 4) \div 5

calculateQuorum(lists_, trusted, seen) ==
    IF \E p \in DOMAIN lists_ : ~lists_[p].available THEN Unreachable
    ELSE IF minimumQuorum_ # None /\ minimumQuorum_ < Quorum(trusted) /\ seen < Quorum(trusted)
         THEN minimumQuorum_ ELSE Quorum(trusted)

updateTrusted(seen) ==
    /\ up
    /\ removePublisherList({p \in DOMAIN publisherLists_ :
                              publisherLists_[p].available /\ publisherLists_[p].expiration <= now})
    /\ trustedKeys_' = {v \in Validators : keyListings_'[v] > 0 /\ ~revoked(v)}
    /\ quorum_' = calculateQuorum(publisherLists_', Cardinality(trustedKeys_'), seen)
    /\ UNCHANGED <<up, now, publisherManifests_, validatorManifests_, signingToMasterKeys_, inserts,
                   ValidatorManifests, PublisherManifests, accepted, revocations>>

-----------------------------------------------------------------------------
(* The server around them.                                                 *)

\* ApplicationImp::setup.
setup ==
    /\ ~up /\ up' = TRUE
    /\ publisherManifests_' = Loaded(PublisherManifests, Publishers)
    /\ validatorManifests_' = Loaded(ValidatorManifests \cup ConfigManifests, Validators)
    /\ signingToMasterKeys_' = KeysOf(validatorManifests_')
    /\ load(publisherManifests_')
    /\ UNCHANGED <<now, inserts, ValidatorManifests, PublisherManifests, accepted, revocations>>

\* OverlayImpl::onManifests: the cache first, the table after it.
onManifests(v, n) ==
    /\ up /\ v \in listed
    /\ applyManifest(v, n)
    /\ inserts' = inserts \cup {<<v, n>>}
    /\ UNCHANGED <<up, now, publisherManifests_, lists, trust, ValidatorManifests,
                   PublisherManifests, accepted, revocations>>

RevokedIn(table) == {v \in Validators : <<v, Revoked>> \in table}

insert(x) ==
    /\ x \in inserts
    /\ inserts' = inserts \ {x}
    /\ ValidatorManifests' = ValidatorManifests \cup {x}
    /\ revocations' = revocations \cup RevokedIn(ValidatorManifests')
    /\ UNCHANGED <<up, now, publisherManifests_, validatorManifests_, signingToMasterKeys_, lists,
                   trust, PublisherManifests, accepted>>

\* What the process held is gone.
Down ==
    /\ up' = FALSE
    /\ Memory(publisherManifests_', validatorManifests_', signingToMasterKeys_', publisherLists_',
              keyListings_', trustedKeys_', quorum_', inserts', accepted')
    /\ now' = now

\* ApplicationImp::onStop.
onStop ==
    /\ up /\ Down
    /\ ValidatorManifests' = save(validatorManifests_, listed)
    /\ PublisherManifests' = save(publisherManifests_, Publishers \cap DOMAIN publisherLists_)
    /\ revocations' = revocations \cup RevokedIn(ValidatorManifests')

Crash == up /\ Down /\ UNCHANGED <<ValidatorManifests, PublisherManifests, revocations>>

Tick ==
    /\ now < MaxTime /\ now' = now + 1
    /\ UNCHANGED <<up, publisherManifests_, validatorManifests_, signingToMasterKeys_, lists, trust,
                   inserts, ValidatorManifests, PublisherManifests, accepted, revocations>>

Next ==
    \/ setup \/ onStop \/ Crash \/ Tick
    \/ \E m \in Published : applyList(m)
    \/ \E seen \in 0 .. Cardinality(Validators) : updateTrusted(seen)
    \/ \E x \in Gossip : onManifests(x[1], x[2]) \/ insert(x)

Spec == Init /\ [][Next]_vars

-----------------------------------------------------------------------------
TypeOK ==
    /\ up \in BOOLEAN /\ now \in Times
    /\ publisherManifests_ \in [Publishers -> 0 .. Revoked]
    /\ validatorManifests_ \in [Validators -> 0 .. Revoked]
    /\ signingToMasterKeys_ \subseteq Manifests(Validators)
    /\ DOMAIN publisherLists_ \subseteq Publishers \cup {None}
    /\ \A p \in DOMAIN publisherLists_ :
         publisherLists_[p] \in [available : BOOLEAN, list : [Validators -> Nat],
                                 sequence : 0 .. MaxSeq, expiration : 0 .. Never]
    /\ keyListings_ \in [Validators -> Nat] /\ trustedKeys_ \subseteq Validators
    /\ quorum_ \in 0 .. Unreachable
    /\ inserts \subseteq Manifests(Validators) /\ ValidatorManifests \subseteq Manifests(Validators)
    /\ PublisherManifests \subseteq Manifests(Publishers)
    /\ accepted \subseteq Publishers /\ revocations \subseteq Validators

\* The counts that say who is listed (keyListings_) are kept by adding and
\* subtracting as lists come, change, expire and are revoked.  They never drift: a
\* key's count is the number of times the lists now held name it, and one for our own key.
ListingsExact ==
    up => \A v \in Validators :
            keyListings_[v] = Sum(DOMAIN publisherLists_, v) + (IF v = Local THEN 1 ELSE 0)

\* Whatever manifests came from lists, peers, tables and the configuration, a signing
\* key leads to a validator (getMasterKey) exactly while the newest manifest of that
\* validator names it, and a revoked validator has none.
SigningFollowsManifests == up => signingToMasterKeys_ = KeysOf(validatorManifests_)

\* A revocation that reached the table of manifests is never lost again: not by a
\* restart, a crash, an older manifest or the loss of the validator's listing.
RevocationKept ==
    \A v \in revocations : <<v, Revoked>> \in ValidatorManifests /\ (up => revoked(v))

\* A publisher that has revoked its key has no list, and none of the validators it
\* named counts on its account.
RevokedPublisherGone ==
    up => \A p \in Publishers : publisherManifests_[p] = Revoked => p \notin DOMAIN publisherLists_

\* "Do not use achievable quorum until lists from all configured publishers are
\* available" (calculateQuorum): a quorum that the trusted validators can reach is in
\* force only once every publisher, unless it has revoked its key, sent a list in this run.
NoQuorumBeforeLists ==
    up /\ quorum_ <= Cardinality(trustedKeys_) =>
        \A p \in Publishers : p \in accepted \/ publisherManifests_[p] = Revoked

\* The arithmetic calculateQuorum rests on: with its quorum, any two UNLs with fewer
\* than .2*ni unique validators between them satisfy Oi,j > nj/2 + ni - qi + ti,j for
\* every ti,j <= .2*ni.  Rounding the 80% up is what makes it true of every size.
QuorumOverlaps ==
    \A n \in 0 .. MaxUNL : \A pi, pj, t \in 0 .. n \div 5 :
        5 * (pi + pj) < n => 2 * (n - pi) > (n - pi + pj) + 2 * (n - Quorum(n)) + 2 * t
=============================================================================
