------------------------- MODULE TransactionProofs --------------------------
(***************************************************************************)
(* Proofs about what a transaction meets first: the routing table of       *)
(* hashes, for any hashes, peers, flags and times, and the batches of      *)
(* NetworkOPs, for any callers, transactions and bounds.                   *)
(***************************************************************************)
EXTENDS TransactionBatch, HashRouter, FiniteSetTheorems, SequenceTheorems, TLAPS

-----------------------------------------------------------------------------
(* The routing table (HashRouter).                                         *)

\* What an entry of the table is, and the times that are remembered.
EntryShape == [when: Nat, flags_: SUBSET Flags, peers_: SUBSET Peers, relayed_: Nat \cup {Never},
               processed_: Nat \cup {Never}, recoveries_: 0 .. recoverLimit]
Past == {t \in Nat : t <= now} \cup {Never}
RouterShape ==
    /\ now \in Nat /\ \A k \in DOMAIN suppressionMap_ : suppressionMap_[k] \in EntryShape
    /\ relays \in [Keys -> Past] /\ processings \in [Keys -> Past]
    /\ flagged \in [Keys -> [Flags -> Past]] /\ tellers \in [Keys -> [Peers -> Past]]
    /\ recovers \in [Keys -> [row : Nat, last : Past]]

\* Less than a hold time ago.
Held(t) == t # Never /\ now < t + holdTime_

\* The table map has what happened to the hash k, and was touched since.
Touched(map, k, t) == k \in DOMAIN map /\ map[k].when >= t
Remembers(map, k) ==
    /\ Held(relays[k]) => Touched(map, k, relays[k]) /\ map[k].relayed_ = relays[k]
    /\ Held(processings[k]) => Touched(map, k, processings[k]) /\ map[k].processed_ = processings[k]
    /\ \A f \in Flags : Held(flagged[k][f]) => Touched(map, k, flagged[k][f]) /\ f \in map[k].flags_
    /\ \A p \in Peers : Held(tellers[k][p]) => Touched(map, k, tellers[k][p]) /\ p \in map[k].peers_
    /\ Held(recovers[k].last) =>
          Touched(map, k, recovers[k].last) /\ recovers[k].row <= map[k].recoveries_

RouterInv ==
    /\ RouterShape /\ RecoveriesBounded
    /\ \A k \in Keys : Remembers(suppressionMap_, k)

-----------------------------------------------------------------------------
\* Finding or making the entry of a hash loses nothing that is less than a hold time old.
LEMMA EmplaceKeeps ==
    ASSUME RouterAssumption, RouterInv, NEW key
    PROVE  LET s == emplace(key) IN
           /\ key \in DOMAIN s /\ s[key].when = now
           /\ \A k \in DOMAIN s : s[k] \in EntryShape
           /\ \A k \in Keys : Remembers(s, k)
<1> DEFINE m == suppressionMap_
           s == emplace(key)
<1>1. now \in Nat /\ holdTime_ \in Nat /\ Never \notin Nat /\ recoverLimit \in Nat
  BY DEF RouterInv, RouterShape, RouterAssumption
<1>2. CASE key \in DOMAIN m
  <2>1. /\ DOMAIN s = DOMAIN m
        /\ s[key] = [m[key] EXCEPT !.when = now]
        /\ \A k \in DOMAIN m : k # key => s[k] = m[k]
    BY <1>2 DEF emplace
  <2>2. /\ s[key] \in EntryShape /\ s[key].when = now
        /\ s[key].relayed_ = m[key].relayed_ /\ s[key].processed_ = m[key].processed_
        /\ s[key].flags_ = m[key].flags_ /\ s[key].peers_ = m[key].peers_
        /\ s[key].recoveries_ = m[key].recoveries_
    BY <1>1, <1>2, <2>1, ZenonT(40) DEF RouterInv, RouterShape, EntryShape
  <2>3. \A k \in DOMAIN s : s[k] \in EntryShape
    BY <2>1, <2>2 DEF RouterInv, RouterShape
  <2> HIDE DEF s, m
  <2>4. ASSUME NEW k \in Keys, Remembers(m, k) PROVE Remembers(s, k)
    <3>1. CASE k # key
      BY <2>1, <2>4, <3>1 DEF Remembers, Touched
    <3>2. CASE k = key
      <4>1. \A t \in Past : Held(t) => Touched(s, k, t)
        BY <1>1, <1>2, <2>1, <2>2, <3>2, ZenonT(40) DEF Touched, Held, Past
      <4>2. /\ relays[k] \in Past /\ processings[k] \in Past /\ recovers[k].last \in Past
            /\ \A f \in Flags : flagged[k][f] \in Past
            /\ \A p \in Peers : tellers[k][p] \in Past
        BY DEF RouterInv, RouterShape
      <4> QED BY <2>2, <2>4, <3>2, <4>1, <4>2 DEF Remembers
    <3> QED BY <3>1, <3>2
  <2> QED BY <1>2, <2>1, <2>2, <2>3, <2>4 DEF RouterInv, s, m
<1>3. CASE key \notin DOMAIN m
  <2>1. s = [k \in {key} \cup {k \in DOMAIN m : m[k].when > now - holdTime_} |->
                IF k = key THEN NewEntry ELSE m[k]]
    BY <1>3 DEF emplace, Created, expire
  <2>2. /\ key \in DOMAIN s /\ s[key] = NewEntry
        /\ DOMAIN s \subseteq {key} \cup DOMAIN m
        /\ \A k \in DOMAIN m : m[k].when > now - holdTime_ => k \in DOMAIN s
        /\ \A k \in DOMAIN s : k # key => s[k] = m[k]
    BY <2>1
  <2>3. NewEntry \in EntryShape /\ NewEntry.when = now
    BY <1>1 DEF NewEntry, EntryShape
  <2> HIDE DEF s
  <2>4. \A k \in DOMAIN s : s[k] \in EntryShape
    BY <2>2, <2>3 DEF RouterInv, RouterShape
  <2>5. ASSUME NEW k \in Keys, NEW t \in Past, Held(t), Touched(m, k, t)
        PROVE  k \in DOMAIN s /\ s[k] = m[k] /\ Touched(s, k, t)
    <3>1. k \in DOMAIN m /\ m[k].when \in Nat /\ m[k].when >= t /\ t \in Nat /\ now < t + holdTime_
      BY <1>1, <2>5 DEF Touched, Held, Past, RouterInv, RouterShape, EntryShape
    <3>2. m[k].when > now - holdTime_ /\ k # key
      BY <1>1, <1>3, <3>1
    <3>3. k \in DOMAIN s /\ s[k] = m[k]
      BY <2>2, <3>1, <3>2
    <3> QED BY <2>5, <3>3 DEF Touched
  <2> HIDE DEF m
  <2>6. ASSUME NEW k \in Keys, Remembers(m, k) PROVE Remembers(s, k)
    <3>1. /\ relays[k] \in Past /\ processings[k] \in Past /\ recovers[k].last \in Past
          /\ \A f \in Flags : flagged[k][f] \in Past
          /\ \A p \in Peers : tellers[k][p] \in Past
      BY DEF RouterInv, RouterShape
    <3> QED BY <2>5, <2>6, <3>1 DEF Remembers
  <2> QED BY <2>2, <2>3, <2>4, <2>6 DEF RouterInv, s, m
<1> QED BY <1>2, <1>3

LEMMA RouterStart == ASSUME RouterAssumption, RouterInit PROVE RouterInv
<1>1. RouterShape
  <2>1. now = 0 /\ Never \in Past /\ DOMAIN suppressionMap_ = {}
    BY DEF RouterInit, Past
  <2>2. recovers \in [Keys -> [row : Nat, last : Past]]
    BY <2>1 DEF RouterInit
  <2> QED BY <2>1, <2>2 DEF RouterInit, RouterShape
<1>2. RecoveriesBounded
  BY DEF RouterInit, RecoveriesBounded, RouterAssumption
<1>3. ASSUME NEW k \in Keys PROVE Remembers(suppressionMap_, k)
  BY DEF RouterInit, Remembers, Held
<1> QED BY <1>1, <1>2, <1>3 DEF RouterInv

\* A step of the clock makes nothing younger.
LEMMA RouterTickStep == ASSUME RouterAssumption, RouterInv, Tick PROVE RouterInv'
<1>1. now' = now + 1 /\ now \in Nat /\ holdTime_ \in Nat /\ Never \notin Nat
  BY DEF Tick, RouterInv, RouterShape, RouterAssumption
<1>2. UNCHANGED <<suppressionMap_, relays, processings, flagged, tellers, recovers>>
  BY DEF Tick, history
<1>3. Past \subseteq Past'
  BY <1>1 DEF Past
<1>4. RouterShape'
  <2>1. /\ relays' \in [Keys -> Past'] /\ processings' \in [Keys -> Past']
        /\ flagged' \in [Keys -> [Flags -> Past']] /\ tellers' \in [Keys -> [Peers -> Past']]
        /\ recovers' \in [Keys -> [row : Nat, last : Past']]
    <3> HIDE DEF Past
    <3> QED BY <1>2, <1>3 DEF RouterInv, RouterShape
  <2> QED BY <1>1, <1>2, <2>1 DEF RouterInv, RouterShape, EntryShape
<1>5. \A t \in Past : Held(t)' => Held(t)
  BY <1>1 DEF Past, Held
<1>6. ASSUME NEW k \in Keys PROVE Remembers(suppressionMap_, k)'
  <2>1. /\ relays[k] \in Past /\ processings[k] \in Past /\ recovers[k].last \in Past
        /\ \A f \in Flags : flagged[k][f] \in Past
        /\ \A p \in Peers : tellers[k][p] \in Past
    BY DEF RouterInv, RouterShape
  <2>2. Remembers(suppressionMap_, k)
    BY DEF RouterInv
  <2> QED BY <1>2, <1>5, <2>1, <2>2 DEF Remembers, Touched
<1> QED BY <1>2, <1>4, <1>6 DEF RouterInv, RecoveriesBounded

\* An operation on a hash changes its entry and what is remembered of it only.
LEMMA EntryStep ==
    ASSUME RouterAssumption, RouterInv, NEW key \in Keys, now' = now,
           DOMAIN suppressionMap_' = DOMAIN emplace(key),
           \A k \in DOMAIN emplace(key) : k # key => suppressionMap_'[k] = emplace(key)[k],
           suppressionMap_'[key] \in EntryShape,
           relays' \in [Keys -> Past], processings' \in [Keys -> Past],
           flagged' \in [Keys -> [Flags -> Past]], tellers' \in [Keys -> [Peers -> Past]],
           recovers' \in [Keys -> [row : Nat, last : Past]],
           \A k \in Keys : k # key => /\ relays'[k] = relays[k] /\ processings'[k] = processings[k]
                                     /\ flagged'[k] = flagged[k] /\ tellers'[k] = tellers[k]
                                     /\ recovers'[k] = recovers[k],
           recovers'[key].row <= recoverLimit, Remembers(suppressionMap_, key)'
    PROVE  RouterInv'
<1> DEFINE s == emplace(key)
<1>1. /\ key \in DOMAIN s /\ \A k \in DOMAIN s : s[k] \in EntryShape
      /\ \A k \in Keys : Remembers(s, k)
  BY EmplaceKeeps
<1> HIDE DEF s
<1>2. DOMAIN suppressionMap_' = DOMAIN s /\ \A k \in DOMAIN s : k # key => suppressionMap_'[k] = s[k]
  BY DEF s
<1>3. Past' = Past /\ \A t : Held(t)' <=> Held(t)
  BY DEF Past, Held
<1>4. RouterShape'
  <2>1. \A k \in DOMAIN suppressionMap_' : suppressionMap_'[k] \in EntryShape
    BY <1>1, <1>2, ZenonT(40)
  <2>2. now' \in Nat /\ EntryShape' = EntryShape
    BY DEF RouterInv, RouterShape, EntryShape
  <2> QED BY <1>3, <2>1, <2>2 DEF RouterShape
<1>5. RecoveriesBounded'
  BY DEF RouterInv, RecoveriesBounded
<1>6. ASSUME NEW k \in Keys, k # key PROVE Remembers(suppressionMap_, k)'
  <2>1. Remembers(s, k)
    BY <1>1
  <2>2. /\ k \in DOMAIN suppressionMap_' <=> k \in DOMAIN s
        /\ k \in DOMAIN s => suppressionMap_'[k] = s[k]
    BY <1>2, <1>6
  <2>3. /\ relays'[k] = relays[k] /\ processings'[k] = processings[k]
        /\ flagged'[k] = flagged[k] /\ tellers'[k] = tellers[k]
        /\ recovers'[k] = recovers[k]
    BY <1>6
  <2> QED BY <1>3, <2>1, <2>2, <2>3 DEF Remembers, Touched
<1> QED BY <1>4, <1>5, <1>6 DEF RouterInv

-----------------------------------------------------------------------------
(* The operations.                                                         *)

\* What is known of the entry that emplace finds or makes.
LEMMA Emplaced ==
    ASSUME RouterAssumption, RouterInv, NEW key \in Keys
    PROVE  /\ key \in DOMAIN emplace(key) /\ emplace(key)[key].when = now
           /\ emplace(key)[key] \in EntryShape /\ Remembers(emplace(key), key)
           /\ now \in Nat /\ now \in Past /\ Never \in Past /\ Never # now
           /\ relays \in [Keys -> Past] /\ processings \in [Keys -> Past]
           /\ flagged \in [Keys -> [Flags -> Past]] /\ tellers \in [Keys -> [Peers -> Past]]
           /\ recovers \in [Keys -> [row : Nat, last : Past]]
           /\ recovers[key].row <= recoverLimit /\ recoverLimit \in Nat
<1>1. now \in Nat /\ now \in Past /\ Never \in Past /\ Never # now /\ recoverLimit \in Nat
  BY DEF RouterInv, RouterShape, Past, RouterAssumption
<1>2. recovers[key].row <= recoverLimit
  BY DEF RouterInv, RecoveriesBounded
<1> QED BY <1>1, <1>2, EmplaceKeeps DEF RouterInv, RouterShape

LEMMA AddStep ==
    ASSUME RouterAssumption, RouterInv, NEW key, addSuppression(key)
    PROVE  RouterInv'
<1>1. /\ suppressionMap_' = emplace(key)
      /\ UNCHANGED <<now, relays, processings, flagged, tellers, recovers>>
  BY DEF addSuppression, history
<1>2. /\ \A k \in DOMAIN emplace(key) : emplace(key)[k] \in EntryShape
      /\ \A k \in Keys : Remembers(emplace(key), k)
  BY EmplaceKeeps
<1>3. RouterShape'
  BY <1>1, <1>2 DEF RouterInv, RouterShape, EntryShape, Past
<1>4. ASSUME NEW k \in Keys PROVE Remembers(suppressionMap_, k)'
  <2>1. Remembers(emplace(key), k)
    BY <1>2
  <2> QED BY <1>1, <2>1 DEF Remembers, Touched, Held
<1> QED BY <1>1, <1>3, <1>4 DEF RouterInv, RecoveriesBounded

LEMMA AddPeerStep ==
    ASSUME RouterAssumption, RouterInv, NEW key \in Keys, NEW peer \in Peers,
           addSuppressionPeer(key, peer) \/ shouldProcess(key, peer)
    PROVE  RouterInv'
<1> DEFINE e == emplace(key)[key]
           recent == e.processed_ # Never /\ e.processed_ + tx_interval > now
<1>1. /\ now' = now /\ relays' = relays /\ flagged' = flagged /\ recovers' = recovers
      /\ tellers' = [tellers EXCEPT ![key][peer] = now]
  BY DEF addSuppressionPeer, shouldProcess, Told
<1>2. /\ key \in DOMAIN emplace(key) /\ e.when = now /\ e \in EntryShape
      /\ Remembers(emplace(key), key) /\ now \in Nat /\ now \in Past
      /\ relays \in [Keys -> Past] /\ processings \in [Keys -> Past]
      /\ flagged \in [Keys -> [Flags -> Past]] /\ tellers \in [Keys -> [Peers -> Past]]
      /\ recovers \in [Keys -> [row : Nat, last : Past]] /\ recovers[key].row <= recoverLimit
  BY Emplaced
<1>3. PICK done \in BOOLEAN :
        /\ DOMAIN suppressionMap_' = DOMAIN emplace(key)
        /\ \A k \in DOMAIN emplace(key) : k # key => suppressionMap_'[k] = emplace(key)[k]
        /\ suppressionMap_'[key] = IF done THEN [e EXCEPT !.peers_ = @ \cup {peer}, !.processed_ = now]
                                   ELSE [e EXCEPT !.peers_ = @ \cup {peer}]
        /\ processings' = IF done THEN [processings EXCEPT ![key] = now] ELSE processings
  <2>1. CASE addSuppressionPeer(key, peer)
    BY <1>2, <2>1, ZenonT(40) DEF addSuppressionPeer, addPeer
  <2>2. CASE shouldProcess(key, peer)
    <3>1. PICK t : t = addPeer(emplace(key), key, peer)
      OBVIOUS
    <3>2. /\ DOMAIN t = DOMAIN emplace(key) /\ t[key] = [e EXCEPT !.peers_ = @ \cup {peer}]
          /\ \A k \in DOMAIN emplace(key) : k # key => t[k] = emplace(key)[k]
      BY <1>2, <3>1 DEF addPeer
    <3>3. t[key].processed_ = e.processed_
      BY <1>2, <3>2 DEF EntryShape
    <3>4. /\ suppressionMap_' = IF recent THEN t ELSE [t EXCEPT ![key].processed_ = now]
          /\ processings' = IF recent THEN processings ELSE [processings EXCEPT ![key] = now]
      BY <2>2, <3>1, <3>3 DEF shouldProcess
    <3>5. CASE recent
      BY <3>2, <3>4, <3>5, ZenonT(40)
    <3>6. CASE ~recent
      BY <1>2, <3>2, <3>4, <3>6, ZenonT(40)
    <3> QED BY <3>5, <3>6
  <2> QED BY <2>1, <2>2
<1> DEFINE n == suppressionMap_'[key]
<1>4. /\ n \in EntryShape /\ n.when = e.when /\ n.relayed_ = e.relayed_ /\ n.flags_ = e.flags_
      /\ n.recoveries_ = e.recoveries_ /\ n.peers_ = e.peers_ \cup {peer}
      /\ n.processed_ = IF done THEN now ELSE e.processed_
  <2>1. n = IF done THEN [e EXCEPT !.peers_ = @ \cup {peer}, !.processed_ = now]
            ELSE [e EXCEPT !.peers_ = @ \cup {peer}]
    BY <1>3
  <2> HIDE DEF e, n
  <2>2. CASE done
    BY <1>2, <2>1, <2>2, ZenonT(40) DEF EntryShape
  <2>3. CASE ~done
    BY <1>2, <2>1, <2>3, ZenonT(40) DEF EntryShape
  <2> QED BY <2>2, <2>3
<1>5. /\ processings' \in [Keys -> Past] /\ tellers' \in [Keys -> [Peers -> Past]]
      /\ processings'[key] = IF done THEN now ELSE processings[key]
      /\ \A p \in Peers : tellers'[key][p] = IF p = peer THEN now ELSE tellers[key][p]
      /\ \A k \in Keys : k # key => processings'[k] = processings[k] /\ tellers'[k] = tellers[k]
  BY <1>1, <1>2, <1>3, SMTT(30)
<1>6. Remembers(suppressionMap_, key)'
  <2>1. key \in DOMAIN suppressionMap_' /\ \A t : Held(t)' <=> Held(t)
    BY <1>1, <1>2, <1>3 DEF Held
  <2> HIDE DEF n, e
  <2>2. n = suppressionMap_'[key] /\ e = emplace(key)[key] /\ now >= now
    BY <1>2, SMTT(30) DEF n, e
  <2> QED BY <1>1, <1>2, <1>4, <1>5, <2>1, <2>2 DEF Remembers, Touched
<1> QED BY <1>1, <1>2, <1>3, <1>4, <1>5, <1>6, EntryStep, ZenonT(40)

LEMMA GetFlagsStep ==
    ASSUME RouterAssumption, RouterInv, NEW key \in Keys, getFlags(key)
    PROVE  RouterInv'
<1> DEFINE e == emplace(key)[key]
           n == suppressionMap_'[key]
<1>1. /\ now' = now /\ relays' = relays /\ processings' = processings /\ tellers' = tellers
      /\ recovers' = recovers
  BY DEF getFlags
<1>2. /\ key \in DOMAIN emplace(key) /\ e.when = now /\ e \in EntryShape
      /\ Remembers(emplace(key), key) /\ now \in Nat /\ now \in Past
      /\ relays \in [Keys -> Past] /\ processings \in [Keys -> Past]
      /\ flagged \in [Keys -> [Flags -> Past]] /\ tellers \in [Keys -> [Peers -> Past]]
      /\ recovers \in [Keys -> [row : Nat, last : Past]] /\ recovers[key].row <= recoverLimit
  BY Emplaced
<1>3. /\ suppressionMap_' = emplace(key)
      /\ flagged' = [flagged EXCEPT ![key] =
                       [f \in Flags |-> IF f \in e.flags_ THEN now ELSE @[f]]]
  BY DEF getFlags
<1>4. n = e
  BY <1>3
<1>5. /\ flagged' \in [Keys -> [Flags -> Past]]
      /\ \A f \in Flags : flagged'[key][f] = IF f \in e.flags_ THEN now ELSE flagged[key][f]
      /\ \A k \in Keys : k # key => flagged'[k] = flagged[k]
  <2> HIDE DEF e
  <2> QED BY <1>2, <1>3, SMTT(30)
<1>6. Remembers(suppressionMap_, key)'
  <2>1. key \in DOMAIN suppressionMap_' /\ \A t : Held(t)' <=> Held(t)
    BY <1>1, <1>2, <1>3 DEF Held
  <2> HIDE DEF n, e
  <2>2. n = suppressionMap_'[key] /\ e = emplace(key)[key] /\ now >= now
    BY <1>2 DEF n, e
  <2> QED BY <1>1, <1>2, <1>4, <1>5, <2>1, <2>2, ZenonT(40) DEF Remembers, Touched
<1> QED BY <1>1, <1>2, <1>3, <1>4, <1>5, <1>6, EntryStep, ZenonT(40)

LEMMA SetFlagsStep ==
    ASSUME RouterAssumption, RouterInv, NEW key \in Keys, NEW flag \in Flags, setFlags(key, flag)
    PROVE  RouterInv'
<1> DEFINE e == emplace(key)[key]
           n == suppressionMap_'[key]
<1>1. /\ now' = now /\ relays' = relays /\ processings' = processings /\ tellers' = tellers
      /\ recovers' = recovers
  BY DEF setFlags
<1>2. /\ key \in DOMAIN emplace(key) /\ e.when = now /\ e \in EntryShape
      /\ Remembers(emplace(key), key) /\ now \in Nat /\ now \in Past
      /\ relays \in [Keys -> Past] /\ processings \in [Keys -> Past]
      /\ flagged \in [Keys -> [Flags -> Past]] /\ tellers \in [Keys -> [Peers -> Past]]
      /\ recovers \in [Keys -> [row : Nat, last : Past]] /\ recovers[key].row <= recoverLimit
  BY Emplaced
<1>3. /\ suppressionMap_' = [emplace(key) EXCEPT ![key].flags_ = @ \cup {flag}]
      /\ flagged' = [flagged EXCEPT ![key][flag] = now]
  BY DEF setFlags
<1>4. /\ DOMAIN suppressionMap_' = DOMAIN emplace(key)
      /\ \A k \in DOMAIN emplace(key) : k # key => suppressionMap_'[k] = emplace(key)[k]
      /\ n = [e EXCEPT !.flags_ = @ \cup {flag}]
  BY <1>2, <1>3
<1>5. /\ n \in EntryShape /\ n.when = e.when /\ n.relayed_ = e.relayed_ /\ n.peers_ = e.peers_
      /\ n.recoveries_ = e.recoveries_ /\ n.processed_ = e.processed_
      /\ n.flags_ = e.flags_ \cup {flag}
  <2> HIDE DEF e, n
  <2> QED BY <1>2, <1>4, ZenonT(40) DEF EntryShape
<1>6. /\ flagged' \in [Keys -> [Flags -> Past]]
      /\ \A f \in Flags : flagged'[key][f] = IF f = flag THEN now ELSE flagged[key][f]
      /\ \A k \in Keys : k # key => flagged'[k] = flagged[k]
  BY <1>2, <1>3
<1>7. Remembers(suppressionMap_, key)'
  <2>1. key \in DOMAIN suppressionMap_' /\ \A t : Held(t)' <=> Held(t)
    BY <1>1, <1>2, <1>4 DEF Held
  <2> HIDE DEF n, e
  <2>2. n = suppressionMap_'[key] /\ e = emplace(key)[key] /\ now >= now
    BY <1>2 DEF n, e
  <2> QED BY <1>1, <1>2, <1>5, <1>6, <2>1, <2>2, SMTT(30) DEF Remembers, Touched
<1> QED BY <1>1, <1>2, <1>4, <1>5, <1>6, <1>7, EntryStep, ZenonT(40)

LEMMA RelayStep ==
    ASSUME RouterAssumption, RouterInv, NEW key \in Keys, shouldRelay(key)
    PROVE  RouterInv'
<1> DEFINE e == emplace(key)[key]
           n == suppressionMap_'[key]
<1>1. CASE recentlyRelayed(e)
  <2>1. addSuppression(key)
    BY <1>1 DEF shouldRelay, addSuppression
  <2> QED BY <2>1, AddStep
<1>2. CASE ~recentlyRelayed(e)
  <2>2. /\ key \in DOMAIN emplace(key) /\ e.when = now /\ e \in EntryShape
        /\ Remembers(emplace(key), key) /\ now \in Nat /\ now \in Past
        /\ relays \in [Keys -> Past] /\ processings \in [Keys -> Past]
        /\ flagged \in [Keys -> [Flags -> Past]] /\ tellers \in [Keys -> [Peers -> Past]]
        /\ recovers \in [Keys -> [row : Nat, last : Past]] /\ recovers[key].row <= recoverLimit
    BY Emplaced
  <2>3. /\ suppressionMap_' = [emplace(key) EXCEPT ![key].relayed_ = now, ![key].peers_ = {}]
        /\ relays' = [relays EXCEPT ![key] = now]
        /\ tellers' = [tellers EXCEPT ![key] = [p \in Peers |-> Never]]
        /\ now' = now /\ processings' = processings /\ flagged' = flagged /\ recovers' = recovers
    BY <1>2 DEF shouldRelay
  <2>4. /\ DOMAIN suppressionMap_' = DOMAIN emplace(key)
        /\ \A k \in DOMAIN emplace(key) : k # key => suppressionMap_'[k] = emplace(key)[k]
        /\ n = [e EXCEPT !.relayed_ = now, !.peers_ = {}]
    BY <2>2, <2>3
  <2>5. /\ n \in EntryShape /\ n.when = e.when /\ n.flags_ = e.flags_ /\ n.relayed_ = now
        /\ n.recoveries_ = e.recoveries_ /\ n.processed_ = e.processed_
    <3> HIDE DEF e, n
    <3> QED BY <2>2, <2>4, ZenonT(40) DEF EntryShape
  <2>6. /\ relays' \in [Keys -> Past] /\ tellers' \in [Keys -> [Peers -> Past]]
        /\ relays'[key] = now /\ \A p \in Peers : tellers'[key][p] = Never
        /\ \A k \in Keys : k # key => relays'[k] = relays[k] /\ tellers'[k] = tellers[k]
    <3>1. Never \in Past
      BY DEF Past
    <3> QED BY <2>2, <2>3, <3>1
  <2>7. Remembers(suppressionMap_, key)'
    <3>1. key \in DOMAIN suppressionMap_' /\ \A t : Held(t)' <=> Held(t)
      BY <2>2, <2>3, <2>4 DEF Held
    <3>2. ~Held(Never)
      BY DEF Held
    <3> HIDE DEF n, e
    <3>3. n = suppressionMap_'[key] /\ e = emplace(key)[key] /\ now >= now
      BY <2>2 DEF n, e
    <3> QED BY <2>2, <2>3, <2>5, <2>6, <3>1, <3>2, <3>3 DEF Remembers, Touched
  <2> QED BY <2>2, <2>3, <2>4, <2>5, <2>6, <2>7, EntryStep, ZenonT(40)
<1> QED BY <1>1, <1>2

\* The count of recoveries starts again when it comes to the limit.
LEMMA SmallRemainder == ASSUME NEW a \in Nat, NEW b \in Nat, a < b PROVE a % b = a
<1>1. b > 0 /\ a = b * (a \div b) + (a % b) /\ a % b \in 0 .. b - 1 /\ a \div b \in Int
  OBVIOUS
<1>2. a \div b = 0
  <2> DEFINE q == a \div b
             r == a % b
  <2>1. q \in Int /\ r \in 0 .. b - 1 /\ a = b * q + r
    BY <1>1
  <2> HIDE DEF q, r
  <2>2. q >= 1 => b * q >= b
    BY <2>1
  <2>3. q <= -1 => b * q <= -b
    BY <2>1
  <2>4. q = 0
    BY <2>1, <2>2, <2>3
  <2> QED BY <2>4 DEF q
<1>3. b * 0 = 0
  OBVIOUS
<1> QED BY <1>1, <1>2, <1>3

LEMMA CountOf ==
    ASSUME RouterAssumption, NEW c \in 0 .. recoverLimit
    PROVE  /\ counted(c).count = IF c = recoverLimit THEN 0 ELSE c + 1
           /\ counted(c).recover <=> c # recoverLimit
<1>1. recoverLimit \in Nat /\ c \in Nat /\ c <= recoverLimit
  BY DEF RouterAssumption
<1>2. ASSUME c # recoverLimit PROVE (c + 1) % recoverLimit_ = c + 1
  BY <1>1, <1>2, SmallRemainder DEF recoverLimit_
<1>3. ASSUME c = recoverLimit PROVE (c + 1) % recoverLimit_ = 0
  BY <1>1, <1>3 DEF recoverLimit_
<1>4. /\ counted(c).count = (c + 1) % recoverLimit_
      /\ counted(c).recover <=> (c + 1) % recoverLimit_ # 0
  BY ZenonT(40) DEF counted
<1>5. c + 1 # 0
  BY <1>1
<1> QED BY <1>2, <1>3, <1>4, <1>5

LEMMA RecoverStep ==
    ASSUME RouterAssumption, RouterInv, NEW key \in Keys, shouldRecover(key)
    PROVE  RouterInv'
<1> DEFINE e == emplace(key)[key]
           n == suppressionMap_'[key]
           c == counted(e.recoveries_)
           lately == recovers[key].last # Never /\ recovers[key].last + holdTime_ > now
<1>1. /\ now' = now /\ relays' = relays /\ processings' = processings /\ tellers' = tellers
      /\ flagged' = flagged
  BY DEF shouldRecover
<1>2. /\ key \in DOMAIN emplace(key) /\ e.when = now /\ e \in EntryShape
      /\ Remembers(emplace(key), key) /\ now \in Nat /\ now \in Past
      /\ relays \in [Keys -> Past] /\ processings \in [Keys -> Past]
      /\ flagged \in [Keys -> [Flags -> Past]] /\ tellers \in [Keys -> [Peers -> Past]]
      /\ recovers \in [Keys -> [row : Nat, last : Past]] /\ recoverLimit \in Nat
  BY Emplaced
<1>3. /\ suppressionMap_' = [emplace(key) EXCEPT ![key].recoveries_ = c.count]
      /\ recovers' = [recovers EXCEPT ![key] =
            [row |-> IF ~c.recover THEN 0 ELSE IF lately THEN @.row + 1 ELSE 1, last |-> now]]
  BY DEF shouldRecover
<1>4. e.recoveries_ \in 0 .. recoverLimit
  BY <1>2 DEF EntryShape
<1>5. /\ c.count = IF e.recoveries_ = recoverLimit THEN 0 ELSE e.recoveries_ + 1
      /\ c.recover <=> e.recoveries_ # recoverLimit
  BY <1>4, CountOf
<1>6. lately => recovers[key].row <= e.recoveries_
  <2>1. lately => Held(recovers[key].last)
    <3>1. recovers[key].last # Never => recovers[key].last \in Nat
      BY <1>2 DEF Past
    <3>2. holdTime_ \in Nat
      BY DEF RouterAssumption
    <3> QED BY <1>2, <3>1, <3>2 DEF Held
  <2> QED BY <1>2, <2>1 DEF Remembers
<1>7. PICK row \in Nat : /\ row <= c.count /\ c.count \in 0 .. recoverLimit
                         /\ recovers' = [recovers EXCEPT ![key] = [row |-> row, last |-> now]]
  <2> DEFINE r == IF ~c.recover THEN 0 ELSE IF lately THEN recovers[key].row + 1 ELSE 1
  <2>1. recovers[key].row \in Nat
    BY <1>2
  <2>2. r \in Nat /\ r <= c.count /\ c.count \in 0 .. recoverLimit
    <3> HIDE DEF e, c, lately, r
    <3>0. recoverLimit \in Nat
      BY DEF RouterAssumption
    <3>1. CASE e.recoveries_ = recoverLimit
      <4>1. r = 0 /\ c.count = 0
        BY <1>5, <3>1 DEF r
      <4> QED BY <3>0, <4>1
    <3>2. CASE e.recoveries_ # recoverLimit /\ lately
      <4>1. r = recovers[key].row + 1 /\ c.count = e.recoveries_ + 1
        BY <1>5, <3>2 DEF r
      <4> QED BY <1>4, <1>6, <2>1, <3>0, <3>2, <4>1
    <3>3. CASE e.recoveries_ # recoverLimit /\ ~lately
      <4>1. r = 1 /\ c.count = e.recoveries_ + 1
        BY <1>5, <3>3 DEF r
      <4> QED BY <1>4, <3>0, <3>3, <4>1
    <3> QED BY <3>1, <3>2, <3>3
  <2>3. recovers' = [recovers EXCEPT ![key] = [row |-> r, last |-> now]]
    BY <1>3
  <2> HIDE DEF r, c
  <2> QED BY <2>2, <2>3, ZenonT(40)
<1> HIDE DEF c, lately
<1>8. /\ DOMAIN suppressionMap_' = DOMAIN emplace(key)
      /\ \A k \in DOMAIN emplace(key) : k # key => suppressionMap_'[k] = emplace(key)[k]
      /\ n = [e EXCEPT !.recoveries_ = c.count]
  BY <1>2, <1>3
<1>9. /\ n \in EntryShape /\ n.when = e.when /\ n.relayed_ = e.relayed_ /\ n.peers_ = e.peers_
      /\ n.flags_ = e.flags_ /\ n.processed_ = e.processed_ /\ n.recoveries_ = c.count
  <2> HIDE DEF e, n
  <2> QED BY <1>2, <1>7, <1>8, ZenonT(40) DEF EntryShape
<1>10. /\ recovers' \in [Keys -> [row : Nat, last : Past]]
       /\ recovers'[key].row = row /\ recovers'[key].last = now /\ row <= recoverLimit
       /\ \A k \in Keys : k # key => recovers'[k] = recovers[k]
  BY <1>2, <1>7
<1>11. Remembers(suppressionMap_, key)'
  <2>1. key \in DOMAIN suppressionMap_' /\ \A t : Held(t)' <=> Held(t)
    BY <1>1, <1>2, <1>8 DEF Held
  <2> HIDE DEF n, e
  <2>2. n = suppressionMap_'[key] /\ e = emplace(key)[key] /\ now >= now
    BY <1>2 DEF n, e
  <2> QED BY <1>1, <1>2, <1>7, <1>9, <1>10, <2>1, <2>2, ZenonT(40) DEF Remembers, Touched
<1> QED BY <1>1, <1>2, <1>8, <1>9, <1>10, <1>11, EntryStep, ZenonT(40)

LEMMA RouterStep == ASSUME RouterAssumption, RouterInv, [RouterNext]_routerVars PROVE RouterInv'
<1>1. CASE \E key \in Keys \cup Others : addSuppression(key)
  BY <1>1, AddStep
<1>2. CASE \E key \in Keys : getFlags(key) \/ shouldRelay(key) \/ shouldRecover(key)
  BY <1>2, GetFlagsStep, RelayStep, RecoverStep
<1>3. CASE \E key \in Keys, peer \in Peers :
              addSuppressionPeer(key, peer) \/ shouldProcess(key, peer)
  BY <1>3, AddPeerStep
<1>4. CASE \E key \in Keys, flag \in Flags : setFlags(key, flag)
  BY <1>4, SetFlagsStep
<1>5. CASE Tick
  BY <1>5, RouterTickStep
<1>6. CASE UNCHANGED routerVars
  <2>1. UNCHANGED <<now, suppressionMap_, relays, processings, flagged, tellers, recovers>>
    BY <1>6, SMTT(30) DEF routerVars
  <2>2. ASSUME NEW k \in Keys PROVE Remembers(suppressionMap_, k)'
    BY <2>1, SMTT(30) DEF RouterInv, Remembers, Touched, Held
  <2>3. RouterShape' /\ RecoveriesBounded'
    BY <2>1 DEF RouterInv, RouterShape, RecoveriesBounded, EntryShape, Past
  <2> QED BY <2>2, <2>3 DEF RouterInv
<1> QED BY <1>1, <1>2, <1>3, <1>4, <1>5, <1>6 DEF RouterNext

-----------------------------------------------------------------------------
(* No step is too soon.                                                    *)

LEMMA RelayIsDue ==
    ASSUME RouterAssumption, RouterInv, NEW key \in Keys, shouldRelay(key)
    PROVE  /\ RelayedOncePerHoldStep /\ TellersSkippedStep /\ ProcessedOncePerIntervalStep
<1> DEFINE e == emplace(key)[key]
<1>1. Remembers(emplace(key), key) /\ relays \in [Keys -> Past] /\ now \in Nat
  BY Emplaced
<1>2. holdTime_ \in Nat /\ Never \notin Nat
  BY SMTT(30) DEF RouterAssumption
<1>3. CASE recentlyRelayed(e)
  <2>1. relays' = relays /\ processings' = processings
    BY <1>3 DEF shouldRelay, history
  <2> QED BY <2>1 DEF RelayedOncePerHoldStep, TellersSkippedStep, ProcessedOncePerIntervalStep
<1>4. CASE ~recentlyRelayed(e)
  <2>1. /\ relays' = [relays EXCEPT ![key] = now] /\ skipped' = e.peers_
        /\ processings' = processings
    BY <1>4 DEF shouldRelay
  <2>2. relays[key] # Never => now >= relays[key] + holdTime_
    <3>1. relays[key] # Never => relays[key] \in Nat
      BY <1>1, SMTT(30) DEF Past
    <3>2. Held(relays[key]) => e.relayed_ = relays[key]
      BY <1>1 DEF Remembers
    <3> HIDE DEF e
    <3> QED BY <1>1, <1>2, <1>4, <3>1, <3>2 DEF Held, recentlyRelayed
  <2>3. {p \in Peers : tellers[key][p] # Never /\ now < tellers[key][p] + holdTime_} \subseteq e.peers_
    BY <1>1 DEF Remembers, Held
  <2>4. \A k \in Keys : k # key => relays'[k] = relays[k]
    BY <1>1, <2>1
  <2>5. RelayedOncePerHoldStep
    BY <2>2, <2>4 DEF RelayedOncePerHoldStep
  <2>6. TellersSkippedStep
    <3> HIDE DEF e
    <3> QED BY <2>1, <2>3, <2>4 DEF TellersSkippedStep
  <2>7. ProcessedOncePerIntervalStep
    BY <2>1 DEF ProcessedOncePerIntervalStep
  <2> QED BY <2>5, <2>6, <2>7
<1> QED BY <1>3, <1>4, SMTT(30)

LEMMA ProcessingIsDue ==
    ASSUME RouterAssumption, RouterInv, NEW key \in Keys, NEW peer \in Peers,
           shouldProcess(key, peer)
    PROVE  ProcessedOncePerIntervalStep /\ relays' = relays
<1> DEFINE e == emplace(key)[key]
           s == addPeer(emplace(key), key, peer)
<1>1. /\ Remembers(emplace(key), key) /\ processings \in [Keys -> Past] /\ now \in Nat
      /\ e \in EntryShape /\ key \in DOMAIN emplace(key)
  BY Emplaced
<1>2. holdTime_ \in Nat /\ tx_interval \in Nat /\ tx_interval <= holdTime_ /\ Never \notin Nat
  BY DEF RouterAssumption
<1>3. s[key].processed_ = e.processed_
  <2>1. s[key] = [e EXCEPT !.peers_ = @ \cup {peer}]
    BY <1>1 DEF addPeer
  <2> QED BY <1>1, <2>1 DEF EntryShape
<1>4. /\ relays' = relays
      /\ processings' = IF e.processed_ # Never /\ e.processed_ + tx_interval > now
                        THEN processings ELSE [processings EXCEPT ![key] = now]
  BY <1>3 DEF shouldProcess
<1>5. processings[key] # Never => processings[key] \in Nat
  BY <1>1 DEF Past
<1>6. Held(processings[key]) => e.processed_ = processings[key]
  BY <1>1 DEF Remembers
<1> HIDE DEF e, s
<1>7. CASE e.processed_ # Never /\ e.processed_ + tx_interval > now
  BY <1>4, <1>7 DEF ProcessedOncePerIntervalStep
<1>8. CASE ~(e.processed_ # Never /\ e.processed_ + tx_interval > now)
  <2>1. processings[key] # Never => now >= processings[key] + tx_interval
    BY <1>1, <1>2, <1>5, <1>6, <1>8 DEF Held
  <2>2. \A k \in Keys : k # key => processings'[k] = processings[k]
    BY <1>1, <1>4, <1>8
  <2> QED BY <1>4, <2>1, <2>2 DEF ProcessedOncePerIntervalStep
<1> QED BY <1>7, <1>8

\* A hash is relayed at most once in the hold time and processed at most once in its
\* interval, a relay leaves out the peers the message came from, a flag is kept for the hold
\* time after it was last set or read, and recoveries in a row are bounded: whatever other
\* entries emplace() expires meanwhile (HashRouter.cpp).
THEOREM NothingTooSoon == ASSUME RouterAssumption PROVE RouterSpec => RelayedOncePerHold
<1>1. RouterInit => RouterInv
  BY RouterStart
<1>2. RouterInv /\ [RouterNext]_routerVars => RouterInv'
  BY RouterStep
<1>3. RouterInv => FlagsKept /\ RecoveriesBounded
  BY DEF RouterInv, Remembers, Held, Touched, FlagsKept
<1>4. RouterInv /\ RouterNext =>
        RelayedOncePerHoldStep /\ ProcessedOncePerIntervalStep /\ TellersSkippedStep
  <2> SUFFICES ASSUME RouterInv, RouterNext
               PROVE  RelayedOncePerHoldStep /\ ProcessedOncePerIntervalStep /\ TellersSkippedStep
    OBVIOUS
  <2>1. CASE \E key \in Keys : shouldRelay(key)
    BY <2>1, RelayIsDue
  <2>2. CASE \E key \in Keys, peer \in Peers : shouldProcess(key, peer)
    BY <2>2, ProcessingIsDue DEF RelayedOncePerHoldStep, TellersSkippedStep
  <2>3. CASE /\ ~(\E key \in Keys : shouldRelay(key))
             /\ ~(\E key \in Keys, peer \in Peers : shouldProcess(key, peer))
    <3>1. relays' = relays /\ processings' = processings
      BY <2>3 DEF RouterNext, addSuppression, getFlags, shouldRecover, addSuppressionPeer, setFlags,
                  Tick, history
    <3> QED BY <3>1 DEF RelayedOncePerHoldStep, ProcessedOncePerIntervalStep, TellersSkippedStep
  <2> QED BY <2>1, <2>2, <2>3
<1> QED BY <1>1, <1>2, <1>3, <1>4, PTL DEF RouterSpec, RelayedOncePerHold

-----------------------------------------------------------------------------
(* The batches (TransactionBatch).                                         *)

-----------------------------------------------------------------------------
(* The batches.                                                            *)

Results == {"temMALFORMED", "tefPAST_SEQ", "tesSUCCESS", "terQUEUED", "terPRE_SEQ"}

BatchShape ==
    /\ mTransactions \in Seq(TransactionStatus) /\ batch \in Seq(TransactionStatus)
    /\ submit_held \in Seq(TransactionStatus) /\ results \in Seq(Results)
    /\ mDispatchState \in {"none", "scheduled", "running"}
    /\ mApplying \subseteq Txs
    /\ callerAt \in [Callers -> {"idle", "wait", "woken", "apply"}]
    /\ jobs \in Nat /\ owner \in Callers \cup {Job, None} /\ held \subseteq Txs

\* Somebody's flag is in the sequence, and nobody's twice.
Has(s, t) == \E i \in DOMAIN s : s[i].canonical /\ s[i].tx = t
Once(s) ==
    \A i, j \in DOMAIN s : s[i].canonical /\ s[j].canonical /\ s[i].tx = s[j].tx => i = j
NoFlag(s) == \A i \in DOMAIN s : ~s[i].canonical

\* FlagIsExact without counting, which the steps can be followed through.
FlagOnce ==
    /\ Once(mTransactions) /\ Once(batch)
    /\ \A t \in Txs : /\ t \in mApplying <=> Has(mTransactions, t) \/ Has(batch, t)
                      /\ ~(Has(mTransactions, t) /\ Has(batch, t))

\* Where apply is in the batch: what Modify and Post take from it is there.
ApplyPlace ==
    /\ owner = None => batch = <<>>
    /\ owner # None /\ phase = "modify" => Len(results) < Len(batch)
    /\ owner # None /\ phase = "post" => Len(results) \in 1 .. Len(batch)

\* A job that was scheduled finds the queue as it was left to it, or another took it.
ScheduledHasWork == mDispatchState = "scheduled" => mTransactions # <<>>

BatchInv ==
    /\ BatchShape /\ ApplyPlace /\ OneBatch /\ PendingHasTaker /\ ScheduledHasWork
    /\ FlagOnce /\ NoFlag(submit_held) /\ WaitersServed

\* An entry with the flag adds its transaction, one without adds nothing.
LEMMA AppendFlag ==
    ASSUME NEW s \in Seq(TransactionStatus), NEW t \in Txs, NEW l \in BOOLEAN,
           Once(s), ~Has(s, t)
    PROVE  LET a == Append(s, [tx |-> t, canonical |-> TRUE, local |-> l])
           IN  /\ a \in Seq(TransactionStatus) /\ a # <<>> /\ Once(a)
               /\ \A u \in Txs : Has(a, u) <=> Has(s, u) \/ u = t
<1> DEFINE e == [tx |-> t, canonical |-> TRUE, local |-> l]
           a == Append(s, e)
<1>0. e \in TransactionStatus /\ e.tx = t /\ e.canonical
  BY DEF TransactionStatus
<1> HIDE DEF e
<1>1. /\ a \in Seq(TransactionStatus) /\ a # <<>> /\ DOMAIN a = 1 .. Len(s) + 1
      /\ \A i \in 1 .. Len(s) : a[i] = s[i]
      /\ a[Len(s) + 1] = e /\ Len(s) \in Nat /\ DOMAIN s = 1 .. Len(s)
  BY <1>0, AppendProperties
<1> HIDE DEF a
<1>2. Once(a)
  <2> SUFFICES ASSUME NEW i \in DOMAIN a, NEW j \in DOMAIN a,
                      a[i].canonical, a[j].canonical, a[i].tx = a[j].tx
               PROVE  i = j
    BY DEF Once
  <2>1. CASE i \in 1 .. Len(s) /\ j \in 1 .. Len(s)
    BY <1>1, <2>1 DEF Once
  <2>2. CASE i = Len(s) + 1 /\ j \in 1 .. Len(s)
    BY <1>0, <1>1, <2>2 DEF Has
  <2>3. CASE i \in 1 .. Len(s) /\ j = Len(s) + 1
    BY <1>0, <1>1, <2>3 DEF Has
  <2> QED BY <1>1, <2>1, <2>2, <2>3
<1>3. ASSUME NEW u \in Txs PROVE Has(a, u) <=> Has(s, u) \/ u = t
  <2>1. Has(a, u) => Has(s, u) \/ u = t
    BY <1>0, <1>1 DEF Has
  <2>2. Has(s, u) => Has(a, u)
    BY <1>1 DEF Has
  <2>3. u = t => Has(a, u)
    BY <1>0, <1>1 DEF Has
  <2> QED BY <2>1, <2>2, <2>3
<1> QED BY <1>1, <1>2, <1>3, ZenonT(40) DEF a, e

LEMMA ConcatNoFlag ==
    ASSUME NEW s \in Seq(TransactionStatus), NEW h \in Seq(TransactionStatus), NoFlag(h), Once(s)
    PROVE  /\ s \o h \in Seq(TransactionStatus) /\ Once(s \o h)
           /\ s \o h = <<>> <=> s = <<>> /\ h = <<>>
           /\ \A u \in Txs : Has(s \o h, u) <=> Has(s, u)
<1> DEFINE a == s \o h
<1>1. /\ a \in Seq(TransactionStatus) /\ DOMAIN a = 1 .. Len(s) + Len(h)
      /\ Len(s) \in Nat /\ Len(h) \in Nat
      /\ \A i \in 1 .. Len(s) : a[i] = s[i]
      /\ \A i \in Len(s) + 1 .. Len(s) + Len(h) : a[i] = h[i - Len(s)] /\ i - Len(s) \in DOMAIN h
      /\ DOMAIN s = 1 .. Len(s)
  BY ConcatProperties
<1>2. a = <<>> <=> s = <<>> /\ h = <<>>
  BY ConcatEqualIffEmpty
<1> HIDE DEF a
<1>3. \A i \in DOMAIN a : a[i].canonical => i \in 1 .. Len(s) /\ a[i] = s[i]
  BY <1>1 DEF NoFlag
<1>4. Once(a)
  BY <1>1, <1>3 DEF Once
<1>5. ASSUME NEW u \in Txs PROVE Has(a, u) <=> Has(s, u)
  BY <1>1, <1>3 DEF Has
<1> QED BY <1>1, <1>2, <1>4, <1>5 DEF a

LEMMA BatchStart == BatchAssumption /\ BatchInit => BatchInv
<1> SUFFICES ASSUME BatchAssumption, BatchInit PROVE BatchInv
  OBVIOUS
<1>1. Once(<<>>) /\ NoFlag(<<>>) /\ \A u : ~Has(<<>>, u)
  BY DEF Once, NoFlag, Has
<1>2. BatchShape /\ ApplyPlace
  BY DEF BatchInit, BatchShape, ApplyPlace
<1>3. OneBatch /\ PendingHasTaker /\ ScheduledHasWork /\ WaitersServed
  BY DEF BatchAssumption, BatchInit, OneBatch, PendingHasTaker, ScheduledHasWork, WaitersServed
<1>4. FlagOnce /\ NoFlag(submit_held)
  BY <1>1 DEF BatchInit, FlagOnce
<1> QED BY <1>2, <1>3, <1>4 DEF BatchInv

\* What a submission leaves in the queue: the transaction is there once, with its flag.
LEMMA Pushed ==
    ASSUME BatchInv, NEW t \in Txs, NEW l \in BOOLEAN
    PROVE  /\ pushed(t, l) \in Seq(TransactionStatus) /\ Once(pushed(t, l))
           /\ t \notin mApplying => pushed(t, l) # <<>>
           /\ t \in mApplying => pushed(t, l) = mTransactions
           /\ mTransactions # <<>> => pushed(t, l) # <<>>
           /\ \A u \in Txs : /\ u \in mApplying \cup {t} <=> Has(pushed(t, l), u) \/ Has(batch, u)
                            /\ ~(Has(pushed(t, l), u) /\ Has(batch, u))
<1>1. CASE t \in mApplying
  BY <1>1 DEF pushed, BatchInv, BatchShape, FlagOnce
<1>2. CASE t \notin mApplying
  <2> DEFINE p == Append(mTransactions, [tx |-> t, canonical |-> TRUE, local |-> l])
  <2>1. /\ mTransactions \in Seq(TransactionStatus) /\ Once(mTransactions)
        /\ ~Has(mTransactions, t) /\ ~Has(batch, t)
    BY <1>2 DEF BatchInv, BatchShape, FlagOnce
  <2>2. /\ p \in Seq(TransactionStatus) /\ p # <<>> /\ Once(p)
        /\ \A u \in Txs : Has(p, u) <=> Has(mTransactions, u) \/ u = t
    BY <2>1, AppendFlag
  <2>3. pushed(t, l) = p
    BY <1>2 DEF pushed
  <2> HIDE DEF p
  <2> QED BY <1>2, <2>1, <2>2, <2>3 DEF BatchInv, FlagOnce
<1> QED BY <1>1, <1>2

\* apply takes a queue when nobody else is in it.
LEMMA TakesBatch ==
    ASSUME BatchAssumption, BatchInv, NEW o \in Callers \cup {Job},
           NEW queue \in Seq(TransactionStatus), queue # <<>>, Once(queue),
           swap(o, queue), mApplying' \subseteq Txs,
           \A u \in Txs : u \in mApplying' <=> Has(queue, u)
    PROVE  /\ mTransactions' \in Seq(TransactionStatus) /\ batch' \in Seq(TransactionStatus)
           /\ submit_held' \in Seq(TransactionStatus) /\ results' \in Seq(Results)
           /\ mDispatchState' = "running" /\ owner' = o /\ owner' # None /\ batch' # <<>>
           /\ ApplyPlace' /\ FlagOnce' /\ NoFlag(submit_held)' /\ PendingHasTaker'
           /\ ScheduledHasWork'
<1>1. /\ batch' = queue /\ mTransactions' = <<>> /\ submit_held' = <<>> /\ results' = <<>>
      /\ owner' = o /\ phase' = "modify" /\ mDispatchState' = "running"
  BY DEF swap
<1>2. owner' # None
  BY <1>1 DEF BatchAssumption
<1>3. Len(queue) > 0 /\ Len(<<>>) = 0
  OBVIOUS
<1>4. Once(<<>>) /\ NoFlag(<<>>) /\ \A u : ~Has(<<>>, u)
  BY DEF Once, NoFlag, Has
<1>5. ApplyPlace'
  BY <1>1, <1>2, <1>3 DEF ApplyPlace
<1>6. FlagOnce'
  BY <1>1, <1>4 DEF FlagOnce
<1>7. NoFlag(submit_held)'
  BY <1>1, <1>4
<1>8. PendingHasTaker' /\ ScheduledHasWork'
  BY <1>1 DEF PendingHasTaker, ScheduledHasWork
<1> QED BY <1>1, <1>2, <1>5, <1>6, <1>7, <1>8

LEMMA AsyncStep ==
    ASSUME BatchAssumption, BatchInv, NEW t \in Txs, doTransactionAsync(t)
    PROVE  BatchInv'
<1> DEFINE q == pushed(t, FALSE)
<1>1. /\ q \in Seq(TransactionStatus) /\ Once(q)
      /\ t \notin mApplying => q # <<>>
      /\ t \in mApplying => q = mTransactions
      /\ mTransactions # <<>> => q # <<>>
      /\ \A u \in Txs : /\ u \in mApplying \cup {t} <=> Has(q, u) \/ Has(batch, u)
                       /\ ~(Has(q, u) /\ Has(batch, u))
  BY Pushed, ZenonT(40)
<1>2. /\ mApplying' = mApplying \cup {t} /\ mTransactions' = q
      /\ UNCHANGED <<callerAt, tx, owner, phase, batch, results, submit_held, held, stopping>>
  BY DEF doTransactionAsync, applyVars, ledgerVars
<1>3. \/ UNCHANGED <<jobs, mDispatchState>>
            /\ (t \in mApplying \/ mDispatchState # "none" \/ stopping)
      \/ /\ mDispatchState = "none" /\ t \notin mApplying
         /\ jobs' = jobs + 1 /\ mDispatchState' = "scheduled"
  BY DEF doTransactionAsync, addJob
<1> HIDE DEF q
<1>4. BatchShape'
  BY <1>1, <1>2, <1>3 DEF BatchInv, BatchShape
<1>5. ApplyPlace' /\ NoFlag(submit_held)'
  BY <1>2 DEF BatchInv, ApplyPlace
<1>6. FlagOnce'
  BY <1>1, <1>2 DEF BatchInv, FlagOnce
<1>7. OneBatch' /\ WaitersServed'
  BY <1>2, <1>3 DEF BatchInv, OneBatch, WaitersServed
<1>8. PendingHasTaker' /\ ScheduledHasWork'
  BY <1>1, <1>2, <1>3 DEF BatchInv, BatchShape, PendingHasTaker, ScheduledHasWork
<1> QED BY <1>4, <1>5, <1>6, <1>7, <1>8 DEF BatchInv

\* Waiting for the running batch, or taking the queue when none is running: then no
\* batch holds a flag.
LEMMA TurnStep ==
    ASSUME BatchAssumption, BatchInv, NEW c \in Callers, callerAt[c] \in {"idle", "woken"},
           NEW queue \in Seq(TransactionStatus), Once(queue),
           mDispatchState # "running" => queue # <<>>,
           Turn(c, queue), mApplying' \subseteq Txs,
           \A u \in Txs : /\ u \in mApplying' <=> Has(queue, u) \/ Has(batch, u)
                        /\ ~(Has(queue, u) /\ Has(batch, u)),
           UNCHANGED <<jobs, held, stopping>>
    PROVE  BatchInv'
<1>1. CASE mDispatchState = "running"
  <2>1. /\ callerAt' = [callerAt EXCEPT ![c] = "wait"] /\ mTransactions' = queue
        /\ UNCHANGED <<mDispatchState, owner, phase, batch, results, submit_held>>
    BY <1>1 DEF Turn, applyVars
  <2>2. owner # c
    BY DEF BatchInv, OneBatch
  <2>3. BatchShape' /\ ApplyPlace' /\ NoFlag(submit_held)'
    BY <2>1 DEF BatchInv, BatchShape, ApplyPlace
  <2>4. FlagOnce'
    BY <2>1 DEF BatchInv, FlagOnce
  <2>5. OneBatch' /\ WaitersServed'
    BY <1>1, <2>1, <2>2 DEF BatchInv, BatchShape, OneBatch, WaitersServed
  <2>6. PendingHasTaker' /\ ScheduledHasWork'
    BY <1>1, <2>1 DEF PendingHasTaker, ScheduledHasWork
  <2> QED BY <2>3, <2>4, <2>5, <2>6 DEF BatchInv
<1>2. CASE mDispatchState # "running"
  <2>1. callerAt' = [callerAt EXCEPT ![c] = "apply"] /\ swap(c, queue)
    BY <1>2 DEF Turn
  <2>2. owner = None /\ batch = <<>>
    BY <1>2 DEF BatchInv, OneBatch, ApplyPlace
  <2>3. \A u \in Txs : u \in mApplying' <=> Has(queue, u)
    BY <2>2 DEF Has
  <2>4. /\ mTransactions' \in Seq(TransactionStatus) /\ batch' \in Seq(TransactionStatus)
        /\ submit_held' \in Seq(TransactionStatus) /\ results' \in Seq(Results)
        /\ mDispatchState' = "running" /\ owner' = c /\ owner' # None /\ batch' # <<>>
        /\ ApplyPlace' /\ FlagOnce' /\ NoFlag(submit_held)' /\ PendingHasTaker'
        /\ ScheduledHasWork'
    BY <1>2, <2>1, <2>3, TakesBatch
  <2>5. BatchShape'
    BY <2>1, <2>4, SMTT(30) DEF BatchInv, BatchShape
  <2>6. OneBatch' /\ WaitersServed'
    BY <1>2, <2>1, <2>2, <2>4 DEF BatchInv, BatchShape, OneBatch, WaitersServed, BatchAssumption
  <2> QED BY <2>4, <2>5, <2>6 DEF BatchInv
<1> QED BY <1>1, <1>2

LEMMA SyncStep ==
    ASSUME BatchAssumption, BatchInv, NEW c \in Callers, NEW t \in Txs, doTransactionSync(c, t)
    PROVE  BatchInv'
<1> DEFINE q == pushed(t, TRUE)
<1>1. /\ q \in Seq(TransactionStatus) /\ Once(q)
      /\ t \notin mApplying => q # <<>>
      /\ t \in mApplying => q = mTransactions
      /\ \A u \in Txs : /\ u \in mApplying \cup {t} <=> Has(q, u) \/ Has(batch, u)
                       /\ ~(Has(q, u) /\ Has(batch, u))
  BY Pushed, ZenonT(40)
<1>2. /\ callerAt[c] = "idle" /\ mApplying' = mApplying \cup {t} /\ Turn(c, q)
      /\ UNCHANGED <<jobs, held, stopping>>
  BY ZenonT(40) DEF doTransactionSync, ledgerVars
<1> HIDE DEF q
<1>3. mDispatchState # "running" => q # <<>>
  <2> SUFFICES ASSUME mDispatchState # "running", q = <<>> PROVE FALSE
    OBVIOUS
  <2>1. owner = None /\ batch = <<>>
    BY DEF BatchInv, OneBatch, ApplyPlace
  <2>2. Has(q, t) \/ Has(batch, t)
    BY <1>1
  <2> QED BY <2>1, <2>2 DEF Has
<1>4. mApplying' \subseteq Txs
  BY <1>2 DEF BatchInv, BatchShape
<1> QED BY <1>1, <1>2, <1>3, <1>4, TurnStep

LEMMA LoopStep ==
    ASSUME BatchAssumption, BatchInv, NEW c \in Callers, Loop(c)
    PROVE  BatchInv'
<1>1. callerAt[c] = "woken" /\ UNCHANGED <<mApplying, jobs, held, stopping>>
  BY DEF Loop, ledgerVars
<1>2. CASE tx[c] \in mApplying
  <2>1. Turn(c, mTransactions)
    BY <1>2 DEF Loop
  <2>2. mDispatchState # "running" => mTransactions # <<>>
    <3> SUFFICES ASSUME mDispatchState # "running", mTransactions = <<>> PROVE FALSE
      OBVIOUS
    <3>1. owner = None /\ batch = <<>> /\ tx[c] \in Txs
      BY <1>2 DEF BatchInv, BatchShape, OneBatch, ApplyPlace
    <3>2. Has(mTransactions, tx[c]) \/ Has(batch, tx[c])
      BY <1>2, <3>1 DEF BatchInv, FlagOnce
    <3> QED BY <3>1, <3>2 DEF Has
  <2>3. /\ mTransactions \in Seq(TransactionStatus) /\ Once(mTransactions) /\ mApplying' \subseteq Txs
        /\ \A u \in Txs : /\ u \in mApplying' <=> Has(mTransactions, u) \/ Has(batch, u)
                         /\ ~(Has(mTransactions, u) /\ Has(batch, u))
    BY <1>1 DEF BatchInv, BatchShape, FlagOnce
  <2> QED BY <1>1, <2>1, <2>2, <2>3, TurnStep
<1>3. CASE tx[c] \notin mApplying
  <2>1. /\ callerAt' = [callerAt EXCEPT ![c] = "idle"]
        /\ UNCHANGED <<mTransactions, mDispatchState, owner, phase, batch, results, submit_held>>
    BY <1>3, SMTT(30) DEF Loop, applyVars
  <2>2. BatchShape' /\ ApplyPlace' /\ FlagOnce' /\ NoFlag(submit_held)'
    BY <1>1, <2>1 DEF BatchInv, BatchShape, ApplyPlace, FlagOnce
  <2>3. OneBatch' /\ WaitersServed'
    BY <1>1, <2>1 DEF BatchInv, BatchShape, OneBatch, WaitersServed
  <2>4. PendingHasTaker' /\ ScheduledHasWork'
    BY <1>1, <2>1 DEF BatchInv, PendingHasTaker, ScheduledHasWork
  <2> QED BY <2>2, <2>3, <2>4 DEF BatchInv
<1> QED BY <1>2, <1>3

LEMMA JobStep ==
    ASSUME BatchAssumption, BatchInv, transactionBatch
    PROVE  BatchInv'
<1>1. /\ jobs > 0 /\ jobs' = jobs - 1
      /\ UNCHANGED <<mApplying, callerAt, held, stopping>>
  BY DEF transactionBatch, ledgerVars
<1>2. CASE mDispatchState = "running" \/ mTransactions = <<>>
  <2>1. UNCHANGED <<mTransactions, mDispatchState, owner, phase, batch, results, submit_held>>
    BY <1>2, SMTT(30) DEF transactionBatch, applyVars
  <2>2. BatchShape' /\ ApplyPlace' /\ FlagOnce' /\ NoFlag(submit_held)'
    BY <1>1, <2>1 DEF BatchInv, BatchShape, ApplyPlace, FlagOnce
  <2>3. OneBatch' /\ WaitersServed'
    BY <1>1, <2>1 DEF BatchInv, OneBatch, WaitersServed
  <2>4. PendingHasTaker' /\ ScheduledHasWork'
    BY <1>1, <1>2, <2>1 DEF BatchInv, PendingHasTaker, ScheduledHasWork
  <2> QED BY <2>2, <2>3, <2>4 DEF BatchInv
<1>3. CASE mDispatchState # "running" /\ mTransactions # <<>>
  <2>1. swap(Job, mTransactions)
    BY <1>3 DEF transactionBatch
  <2>2. owner = None /\ batch = <<>>
    BY <1>3 DEF BatchInv, OneBatch, ApplyPlace
  <2>3. /\ \A u \in Txs : u \in mApplying' <=> Has(mTransactions, u)
        /\ mApplying' \subseteq Txs /\ Once(mTransactions)
        /\ mTransactions \in Seq(TransactionStatus)
    BY <1>1, <2>2 DEF Has, BatchInv, BatchShape, FlagOnce
  <2>4. /\ mTransactions' \in Seq(TransactionStatus) /\ batch' \in Seq(TransactionStatus)
        /\ submit_held' \in Seq(TransactionStatus) /\ results' \in Seq(Results)
        /\ mDispatchState' = "running" /\ owner' = Job /\ owner' # None /\ batch' # <<>>
        /\ ApplyPlace' /\ FlagOnce' /\ NoFlag(submit_held)' /\ PendingHasTaker'
        /\ ScheduledHasWork'
    BY <1>3, <2>1, <2>3, TakesBatch, SMTT(30)
  <2>5. BatchShape'
    BY <1>1, <2>4, SMTT(30) DEF BatchInv, BatchShape
  <2>6. OneBatch' /\ WaitersServed'
    BY <1>1, <2>2, <2>4 DEF BatchInv, BatchShape, OneBatch, WaitersServed, BatchAssumption
  <2> QED BY <2>4, <2>5, <2>6 DEF BatchInv
<1> QED BY <1>2, <1>3

LEMMA ResultIsOne ==
    ASSUME BatchAssumption, NEW n, NEW q, NEW t, NEW l \in BOOLEAN
    PROVE  TxQApply(n, q, t, l).result \in Results
  BY DEF TxQApply, Results

LEMMA ModifyStep ==
    ASSUME BatchAssumption, BatchInv, NEW lowFee \in BOOLEAN, Modify(lowFee)
    PROVE  BatchInv'
<1> DEFINE e == batch[Len(results) + 1]
           r == TxQApply(next, queued, e.tx, lowFee)
<1>1. /\ owner # None /\ phase = "modify" /\ results' = Append(results, r.result)
      /\ phase' = IF Len(results) + 1 = Len(batch) THEN "post" ELSE "modify"
      /\ UNCHANGED <<mTransactions, mDispatchState, mApplying, callerAt, jobs, owner, batch,
                     submit_held, held, stopping>>
  BY DEF Modify
<1>2. Len(results) < Len(batch) /\ Len(results) \in Nat /\ Len(batch) \in Nat
  BY <1>1, SMTT(30) DEF BatchInv, ApplyPlace, BatchShape
<1>3. results' \in Seq(Results) /\ Len(results') = Len(results) + 1
  BY <1>1, ResultIsOne, AppendProperties DEF BatchInv, BatchShape
<1>4. BatchShape'
  BY <1>1, <1>3 DEF BatchInv, BatchShape
<1>5. ApplyPlace'
  BY <1>1, <1>2, <1>3 DEF ApplyPlace
<1>6. FlagOnce' /\ NoFlag(submit_held)'
  BY <1>1 DEF BatchInv, FlagOnce
<1>7. OneBatch' /\ WaitersServed' /\ PendingHasTaker' /\ ScheduledHasWork'
  BY <1>1 DEF BatchInv, OneBatch, WaitersServed, PendingHasTaker, ScheduledHasWork
<1> QED BY <1>4, <1>5, <1>6, <1>7 DEF BatchInv

\* Held transactions come back as new objects, without the flag.
LEMMA PostStep ==
    ASSUME BatchAssumption, BatchInv, Post
    PROVE  BatchInv'
<1> DEFINE e == batch[Len(batch) - Len(results) + 1]
           r == Head(results)
           p == pruneHeldTransactions(e.tx)
           f == [i \in 1 .. Cardinality(p) |-> Fresh(e.tx + 1)]
           more == IF r # "tesSUCCESS" THEN <<>> ELSE f
<1>1. /\ owner # None /\ phase = "post" /\ PostHandled(e, r) /\ results' = Tail(results)
      /\ phase' = IF Len(results) = 1 THEN "finish" ELSE "post"
      /\ UNCHANGED <<mTransactions, mDispatchState, mApplying, callerAt, jobs, owner, batch,
                     stopping>>
  BY DEF Post
<1>2. /\ Len(results) \in 1 .. Len(batch) /\ Len(results) \in Nat /\ Len(batch) \in Nat
      /\ results \in Seq(Results) /\ batch \in Seq(TransactionStatus) /\ held \subseteq Txs
  BY <1>1 DEF BatchInv, ApplyPlace, BatchShape
<1>3. /\ e \in TransactionStatus /\ results' \in Seq(Results)
      /\ Len(results') = Len(results) - 1
  BY <1>1, <1>2, HeadTailProperties, SMTT(30)
<1>4. more \in Seq(TransactionStatus) /\ NoFlag(more)
  <2>1. CASE p = {}
    <3>1. Cardinality(p) = 0
      BY <2>1, FS_EmptySet
    <3>2. f = <<>>
      BY <3>1
    <3>3. more = <<>>
      BY <3>2
    <3> HIDE DEF more
    <3> QED BY <3>3 DEF NoFlag
  <2>2. CASE p # {}
    <3>1. p = {e.tx + 1} /\ e.tx + 1 \in Txs
      BY <1>2, <2>2 DEF pruneHeldTransactions
    <3>2. Cardinality(p) = 1
      BY <3>1, FS_Singleton, ZenonT(40)
    <3>3. Fresh(e.tx + 1) \in TransactionStatus /\ ~Fresh(e.tx + 1).canonical
      BY <3>1 DEF Fresh, TransactionStatus
    <3> HIDE DEF e
    <3>4. f = [i \in 1 .. 1 |-> Fresh(e.tx + 1)]
      BY <3>2
    <3>5. f \in [1 .. 1 -> TransactionStatus]
      BY <3>3, <3>4
    <3>6. f \in Seq(TransactionStatus)
      <4> HIDE DEF f
      <4> QED BY <3>5, SeqDef, ZenonT(40)
    <3>7. NoFlag(f)
      BY <3>3, <3>4 DEF NoFlag
    <3>8. NoFlag(<<>>)
      BY DEF NoFlag
    <3> HIDE DEF f
    <3> QED BY <3>6, <3>7, <3>8
  <2> QED BY <2>1, <2>2
<1>5. submit_held' = submit_held \o more /\ held' \subseteq Txs
  <2>1. submit_held' = submit_held \o more
    BY <1>1 DEF PostHandled
  <2>2. held' \subseteq held \cup {e.tx}
    BY <1>1 DEF PostHandled
  <2>3. e.tx \in Txs
    BY <1>3 DEF TransactionStatus
  <2> HIDE DEF e
  <2> QED BY <1>2, <2>1, <2>2, <2>3
<1> HIDE DEF e, r, p, f, more
<1>6. submit_held' \in Seq(TransactionStatus) /\ NoFlag(submit_held)'
  <2>1. submit_held \in Seq(TransactionStatus) /\ NoFlag(submit_held)
    BY DEF BatchInv, BatchShape
  <2>2. /\ submit_held \o more \in Seq(TransactionStatus)
        /\ DOMAIN (submit_held \o more) = 1 .. Len(submit_held) + Len(more)
        /\ \A i \in 1 .. Len(submit_held) + Len(more) :
              (submit_held \o more)[i] = IF i <= Len(submit_held) THEN submit_held[i]
                                         ELSE more[i - Len(submit_held)]
    BY <1>4, <2>1, ConcatProperties
  <2>3. \A i \in 1 .. Len(submit_held) + Len(more) : ~(submit_held \o more)[i].canonical
    BY <1>4, <2>1, <2>2 DEF NoFlag
  <2> QED BY <1>5, <2>2, <2>3 DEF NoFlag
<1>7. BatchShape'
  BY <1>1, <1>3, <1>5, <1>6 DEF BatchInv, BatchShape
<1>8. ApplyPlace'
  BY <1>1, <1>2, <1>3 DEF ApplyPlace
<1>9. FlagOnce'
  BY <1>1 DEF BatchInv, FlagOnce
<1>10. OneBatch' /\ WaitersServed' /\ PendingHasTaker' /\ ScheduledHasWork'
  BY <1>1 DEF BatchInv, OneBatch, WaitersServed, PendingHasTaker, ScheduledHasWork
<1> QED BY <1>6, <1>7, <1>8, <1>9, <1>10 DEF BatchInv

\* What is left when a batch is over: the flags of its transactions are cleared, those
\* of the queue stay, and the held transactions come after it.
LEMMA Cleared ==
    ASSUME BatchInv
    PROVE  LET q == mTransactions \o submit_held
           IN  /\ q \in Seq(TransactionStatus) /\ Once(q) /\ cleared \subseteq Txs
               /\ mTransactions # <<>> => q # <<>>
               /\ \A u \in Txs : u \in cleared <=> Has(q, u)
<1> DEFINE q == mTransactions \o submit_held
<1>1. /\ q \in Seq(TransactionStatus) /\ Once(q)
      /\ q = <<>> <=> mTransactions = <<>> /\ submit_held = <<>>
      /\ \A u \in Txs : Has(q, u) <=> Has(mTransactions, u)
  BY ConcatNoFlag, SMTT(30) DEF BatchInv, BatchShape, FlagOnce
<1> HIDE DEF q
<1>2. \A u \in Txs : u \in cleared <=> u \in mApplying /\ ~Has(batch, u)
  BY DEF cleared, Has
<1>3. cleared \subseteq Txs
  BY DEF cleared, BatchInv, BatchShape
<1> QED BY <1>1, <1>2, <1>3 DEF q, BatchInv, FlagOnce

LEMMA FinishSyncStep ==
    ASSUME BatchAssumption, BatchInv, NEW c \in Callers, FinishSync(c)
    PROVE  BatchInv'
<1> DEFINE q == mTransactions \o submit_held
<1>1. /\ owner = c /\ mApplying' = cleared /\ mTransactions' = q /\ callerAt' = Woken(c)
      /\ owner' = None /\ batch' = <<>> /\ submit_held' = <<>>
      /\ UNCHANGED <<phase, results, held, stopping>>
      /\ IF q # <<>> /\ ~stopping
           THEN jobs' = jobs + 1 /\ mDispatchState' = "scheduled"
           ELSE UNCHANGED jobs /\ mDispatchState' = "none"
  BY DEF FinishSync, ledgerVars
<1>2. /\ q \in Seq(TransactionStatus) /\ Once(q) /\ cleared \subseteq Txs
      /\ \A u \in Txs : u \in cleared <=> Has(q, u)
  BY Cleared
<1> HIDE DEF q
<1>3. Once(<<>>) /\ NoFlag(<<>>) /\ \A u : ~Has(<<>>, u)
  BY DEF Once, NoFlag, Has
<1>4. /\ callerAt' \in [Callers -> {"idle", "woken"}]
  <2>1. \A d \in Callers : d # c => callerAt[d] # "apply"
    BY <1>1 DEF BatchInv, OneBatch
  <2> QED BY <1>1, <2>1 DEF Woken, BatchInv, BatchShape
<1>5. BatchShape'
  BY <1>1, <1>2, <1>4 DEF BatchInv, BatchShape
<1>6. ApplyPlace'
  BY <1>1 DEF ApplyPlace
<1>7. FlagOnce' /\ NoFlag(submit_held)'
  BY <1>1, <1>2, <1>3 DEF FlagOnce
<1>8. OneBatch' /\ WaitersServed'
  BY <1>1, <1>4 DEF OneBatch, WaitersServed, BatchAssumption
<1>9. PendingHasTaker' /\ ScheduledHasWork'
  BY <1>1 DEF BatchInv, BatchShape, PendingHasTaker, ScheduledHasWork
<1> QED BY <1>5, <1>6, <1>7, <1>8, <1>9 DEF BatchInv

LEMMA FinishJobStep ==
    ASSUME BatchAssumption, BatchInv, FinishJob
    PROVE  BatchInv'
<1> DEFINE q == mTransactions \o submit_held
<1>1. /\ owner = Job /\ mApplying' = cleared /\ callerAt' = Woken(None)
      /\ UNCHANGED <<jobs, held, stopping>>
  BY DEF FinishJob, ledgerVars
<1>2. /\ q \in Seq(TransactionStatus) /\ Once(q) /\ cleared \subseteq Txs
      /\ \A u \in Txs : u \in cleared <=> Has(q, u)
  BY Cleared
<1>3. /\ q # <<>> => swap(Job, q)
      /\ q = <<>> => /\ mTransactions' = <<>> /\ owner' = None /\ batch' = <<>>
                     /\ submit_held' = <<>> /\ mDispatchState' = "none"
                     /\ UNCHANGED <<phase, results>>
  BY DEF FinishJob
<1> HIDE DEF q
<1>4. /\ callerAt' \in [Callers -> {"idle", "woken"}]
  <2>1. \A d \in Callers : callerAt[d] # "apply" /\ d # None
    BY <1>1 DEF BatchInv, OneBatch, BatchAssumption
  <2> QED BY <1>1, <2>1, SMTT(30) DEF Woken, BatchInv, BatchShape
<1>5. CASE q # <<>>
  <2>1. /\ mTransactions' \in Seq(TransactionStatus) /\ batch' \in Seq(TransactionStatus)
        /\ submit_held' \in Seq(TransactionStatus) /\ results' \in Seq(Results)
        /\ mDispatchState' = "running" /\ owner' = Job /\ owner' # None /\ batch' # <<>>
        /\ ApplyPlace' /\ FlagOnce' /\ NoFlag(submit_held)' /\ PendingHasTaker'
        /\ ScheduledHasWork'
    BY <1>1, <1>2, <1>3, <1>5, TakesBatch, ZenonT(40)
  <2>2. BatchShape'
    BY <1>1, <1>2, <1>4, <2>1, SMTT(30) DEF BatchInv, BatchShape
  <2>3. OneBatch' /\ WaitersServed'
    BY <1>4, <2>1 DEF OneBatch, WaitersServed, BatchAssumption
  <2> QED BY <2>1, <2>2, <2>3 DEF BatchInv
<1>6. CASE q = <<>>
  <2>1. Once(<<>>) /\ NoFlag(<<>>) /\ \A u : ~Has(<<>>, u)
    BY DEF Once, NoFlag, Has
  <2>2. BatchShape'
    BY <1>1, <1>2, <1>3, <1>4, <1>6 DEF BatchInv, BatchShape
  <2>3. ApplyPlace' /\ PendingHasTaker' /\ ScheduledHasWork'
    BY <1>3, <1>6 DEF ApplyPlace, PendingHasTaker, ScheduledHasWork
  <2>4. FlagOnce' /\ NoFlag(submit_held)'
    BY <1>1, <1>2, <1>3, <1>6, <2>1 DEF FlagOnce
  <2>5. OneBatch' /\ WaitersServed'
    BY <1>3, <1>4, <1>6 DEF OneBatch, WaitersServed, BatchAssumption
  <2> QED BY <2>2, <2>3, <2>4, <2>5 DEF BatchInv
<1> QED BY <1>5, <1>6

LEMMA QuietStep ==
    ASSUME BatchInv, applyHeldTransactions \/ onStop \/ UNCHANGED batchVars
    PROVE  BatchInv'
<1>1. /\ UNCHANGED <<mTransactions, mDispatchState, mApplying, callerAt, jobs, owner, phase,
                     batch, results, submit_held>>
      /\ held' \subseteq held /\ (stopping => stopping')
  BY SMTT(30) DEF applyHeldTransactions, onStop, batchVars, applyVars, ledgerVars
<1>2. BatchShape' /\ ApplyPlace' /\ FlagOnce' /\ NoFlag(submit_held)'
  BY <1>1 DEF BatchInv, BatchShape, ApplyPlace, FlagOnce
<1>3. OneBatch' /\ WaitersServed' /\ PendingHasTaker' /\ ScheduledHasWork'
  BY <1>1 DEF BatchInv, OneBatch, WaitersServed, PendingHasTaker, ScheduledHasWork
<1> QED BY <1>2, <1>3, SMTT(30) DEF BatchInv

LEMMA BatchStep == BatchAssumption /\ BatchInv /\ [BatchNext]_batchVars => BatchInv'
<1> SUFFICES ASSUME BatchAssumption, BatchInv, [BatchNext]_batchVars PROVE BatchInv'
  OBVIOUS
<1> QED
  BY AsyncStep, SyncStep, LoopStep, JobStep, ModifyStep, PostStep, FinishSyncStep, FinishJobStep,
     QuietStep DEF BatchNext

\* The flags counted: a transaction in one place has one index in the queue and the
\* batch together.
LEMMA FlagsCounted == ASSUME BatchInv PROVE FlagIsExact
<1> DEFINE all == mTransactions \o batch
           m == Len(mTransactions)
           n == Len(batch)
<1>1. /\ DOMAIN all = 1 .. m + n /\ m \in Nat /\ n \in Nat
      /\ DOMAIN mTransactions = 1 .. m /\ DOMAIN batch = 1 .. n
      /\ \A i \in 1 .. m + n : all[i] = IF i <= m THEN mTransactions[i] ELSE batch[i - m]
  BY ConcatProperties DEF BatchInv, BatchShape
<1> HIDE DEF all, m, n
<1> SUFFICES ASSUME NEW t \in Txs
             PROVE  Cardinality({i \in DOMAIN all : all[i].canonical /\ all[i].tx = t})
                      = IF t \in mApplying THEN 1 ELSE 0
  BY DEF FlagIsExact, all
<1> DEFINE I == {i \in DOMAIN all : all[i].canonical /\ all[i].tx = t}
<1>2. CASE t \notin mApplying
  <2>1. ~Has(mTransactions, t) /\ ~Has(batch, t)
    BY <1>2 DEF BatchInv, FlagOnce
  <2>2. \A i \in 1 .. m + n : i <= m \/ i - m \in 1 .. n
    BY <1>1
  <2>3. ASSUME NEW i \in I PROVE FALSE
    <3>1. CASE i <= m
      BY <1>1, <2>1, <3>1, SMTT(30) DEF Has
    <3>2. CASE ~(i <= m)
      BY <1>1, <2>1, <2>2, <3>2 DEF Has
    <3> QED BY <3>1, <3>2
  <2>4. I = {}
    BY <2>3
  <2> QED BY <1>2, <2>4, FS_EmptySet
<1>3. CASE t \in mApplying
  <2>1. PICK k \in DOMAIN all : all[k].canonical /\ all[k].tx = t
    <3>1. CASE Has(mTransactions, t)
      BY <1>1, <3>1 DEF Has
    <3>2. CASE Has(batch, t)
      <4>1. PICK j \in 1 .. n : batch[j].canonical /\ batch[j].tx = t
        BY <1>1, <3>2 DEF Has
      <4>2. j + m \in 1 .. m + n /\ ~(j + m <= m) /\ (j + m) - m = j
        BY <1>1
      <4> QED BY <1>1, <4>1, <4>2, ZenonT(40)
    <3> QED BY <1>3, <3>1, <3>2, SMTT(30) DEF BatchInv, FlagOnce
  <2>2. ASSUME NEW i \in I PROVE i = k
    <3>1. /\ Once(mTransactions) /\ Once(batch) /\ ~(Has(mTransactions, t) /\ Has(batch, t))
      BY SMTT(30) DEF BatchInv, FlagOnce
    <3>2. CASE i <= m /\ k <= m
      BY <1>1, <2>1, <3>1, <3>2, SMTT(30) DEF Once
    <3>3. CASE i <= m /\ ~(k <= m)
      <4>1. i \in 1 .. m /\ k - m \in 1 .. n
        BY <1>1, <2>1, <3>3, SMTT(30)
      <4> QED BY <1>1, <2>1, <3>1, <3>3, <4>1, SMTT(30) DEF Has
    <3>4. CASE ~(i <= m) /\ k <= m
      <4>1. k \in 1 .. m /\ i - m \in 1 .. n
        BY <1>1, <2>1, <3>4, SMTT(30)
      <4> QED BY <1>1, <2>1, <3>1, <3>4, <4>1, SMTT(30) DEF Has
    <3>5. CASE ~(i <= m) /\ ~(k <= m)
      <4>1. i - m \in 1 .. n /\ k - m \in 1 .. n
        BY <1>1, <2>1, <3>5, SMTT(30)
      <4>2. i - m = k - m
        BY <1>1, <2>1, <3>1, <3>5, <4>1 DEF Once
      <4> QED BY <1>1, <2>1, <4>2
    <3> QED BY <3>2, <3>3, <3>4, <3>5
  <2>3. I = {k}
    BY <2>1, <2>2
  <2> QED BY <1>3, <2>3, FS_Singleton
<1> QED BY <1>2, <1>3

\* One batch at a time is applied and it is not empty, what is queued has a taker while
\* jobs are taken, the flag of a transaction is set exactly while it is queued or being
\* applied, once, and a caller that waits is notified: in any interleaving of
\* doTransactionSync, doTransactionAsync, the batch jobs and apply (NetworkOPs.cpp).
THEOREM TransactionsAccounted == ASSUME BatchAssumption PROVE BatchSpec => []ApplyingAccounted
<1>1. BatchInit => BatchInv
  BY BatchStart
<1>2. BatchInv /\ [BatchNext]_batchVars => BatchInv'
  BY BatchStep
<1>3. BatchInv => ApplyingAccounted
  BY FlagsCounted DEF BatchInv, ApplyingAccounted
<1> QED BY <1>1, <1>2, <1>3, PTL DEF BatchSpec
=============================================================================
