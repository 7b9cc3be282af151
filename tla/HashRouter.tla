---------------------------- MODULE HashRouter ------------------------------
(***************************************************************************)
(* The routing table for messages identified by hash (HashRouter.cpp).     *)
(* Every operation takes the lock, finds or creates the entry of the hash  *)
(* and touches it; creating an entry first expires the entries that were   *)
(* not touched for the hold time.  Nothing else ever removes one.          *)
(***************************************************************************)
EXTENDS Integers, FiniteSets

CONSTANTS Keys,          \* the hashes followed through every operation
          Others,        \* hashes that are only ever added
          Peers,         \* the peers' short ids, without 0
          Flags,         \* the bits of flags_
          holdTime_,
          tx_interval,   \* of the transactions, PeerImp.cpp
          recoverLimit,
          Never,         \* an empty optional time
          MaxTime        \* bound on the clock

RouterAssumption ==
    /\ holdTime_ \in Nat \ {0} /\ tx_interval \in 1 .. holdTime_
    /\ recoverLimit \in Nat /\ MaxTime \in Nat /\ Never \notin Nat

VARIABLES now,
          suppressionMap_,
          relays,      \* history: when each hash was last relayed
          processings, \* history: when each hash was last processed
          flagged,     \* history: when a flag of a hash was last set or seen
          tellers,     \* history: who sent the hash since it was last relayed, when
          recovers,    \* history: recoveries of the hash in a row, and the last
          skipped      \* the peers the last relay left out

routerVars == <<now, suppressionMap_, relays, processings, flagged, tellers, recovers, skipped>>
history == <<relays, processings, flagged, tellers, recovers, skipped>>

Times == 0 .. MaxTime
recoverLimit_ == recoverLimit + 1

Entry == [when: Times, flags_: SUBSET Flags, peers_: SUBSET Peers,
          relayed_: Times \cup {Never}, processed_: Times \cup {Never},
          recoveries_: 0 .. recoverLimit]

NewEntry == [when |-> now, flags_ |-> {}, peers_ |-> {}, relayed_ |-> Never,
             processed_ |-> Never, recoveries_ |-> 0]

RouterInit ==
    /\ now = 0 /\ suppressionMap_ = [k \in {} |-> NewEntry]
    /\ relays = [k \in Keys |-> Never] /\ processings = [k \in Keys |-> Never]
    /\ flagged = [k \in Keys |-> [f \in Flags |-> Never]]
    /\ tellers = [k \in Keys |-> [p \in Peers |-> Never]]
    /\ recovers = [k \in Keys |-> [row |-> 0, last |-> Never]]
    /\ skipped = {}

-----------------------------------------------------------------------------
(* The table.                                                              *)

expire(map) == [k \in {k \in DOMAIN map : map[k].when > now - holdTime_} |-> map[k]]

\* A new entry, after the ones not touched for the hold time are gone.
Created(key) ==
    [k \in {key} \cup DOMAIN expire(suppressionMap_) |->
        IF k = key THEN NewEntry ELSE suppressionMap_[k]]

emplace(key) ==
    IF key \in DOMAIN suppressionMap_
      THEN [suppressionMap_ EXCEPT ![key].when = now]
      ELSE Created(key)

addPeer(map, key, peer) == [map EXCEPT ![key].peers_ = @ \cup {peer}]

Told(key, peer) == tellers' = [tellers EXCEPT ![key][peer] = now]

addSuppression(key) ==
    /\ suppressionMap_' = emplace(key)
    /\ UNCHANGED <<now, history>>

addSuppressionPeer(key, peer) ==
    /\ suppressionMap_' = addPeer(emplace(key), key, peer)
    /\ Told(key, peer)
    /\ UNCHANGED <<now, relays, processings, flagged, recovers, skipped>>

shouldProcess(key, peer) ==
    LET s == addPeer(emplace(key), key, peer)
        recent == s[key].processed_ # Never /\ s[key].processed_ + tx_interval > now
    IN  /\ suppressionMap_' = IF recent THEN s ELSE [s EXCEPT ![key].processed_ = now]
        /\ processings' = IF recent THEN processings ELSE [processings EXCEPT ![key] = now]
        /\ Told(key, peer)
        /\ UNCHANGED <<now, relays, flagged, recovers, skipped>>

getFlags(key) ==
    /\ suppressionMap_' = emplace(key)
    /\ flagged' = [flagged EXCEPT ![key] =
                     [f \in Flags |-> IF f \in emplace(key)[key].flags_ THEN now ELSE @[f]]]
    /\ UNCHANGED <<now, relays, processings, tellers, recovers, skipped>>

\* Whether the flag was there already is the value returned, not the state.
setFlags(key, flag) ==
    /\ suppressionMap_' = [emplace(key) EXCEPT ![key].flags_ = @ \cup {flag}]
    /\ flagged' = [flagged EXCEPT ![key][flag] = now]
    /\ UNCHANGED <<now, relays, processings, tellers, recovers, skipped>>

\* The entry relays again one second early.
recentlyRelayedShort(e) == e.relayed_ # Never /\ e.relayed_ + holdTime_ > now + 1

recentlyRelayed(e) == e.relayed_ # Never /\ e.relayed_ + holdTime_ > now

shouldRelay(key) ==
    LET s == emplace(key)
    IN  IF recentlyRelayed(s[key])
          THEN suppressionMap_' = s /\ UNCHANGED <<now, history>>
          ELSE /\ suppressionMap_' = [s EXCEPT ![key].relayed_ = now, ![key].peers_ = {}]
               /\ skipped' = s[key].peers_
               /\ relays' = [relays EXCEPT ![key] = now]
               /\ tellers' = [tellers EXCEPT ![key] = [p \in Peers |-> Never]]
               /\ UNCHANGED <<now, processings, flagged, recovers>>

counted(n) == [count |-> (n + 1) % recoverLimit_, recover |-> (n + 1) % recoverLimit_ # 0]

shouldRecover(key) ==
    LET s == emplace(key)
        c == counted(s[key].recoveries_)
        held == recovers[key].last # Never /\ recovers[key].last + holdTime_ > now
    IN  /\ suppressionMap_' = [s EXCEPT ![key].recoveries_ = c.count]
        /\ recovers' = [recovers EXCEPT ![key] =
              [row |-> IF ~c.recover THEN 0 ELSE IF held THEN @.row + 1 ELSE 1, last |-> now]]
        /\ UNCHANGED <<now, relays, processings, flagged, tellers, skipped>>

Tick == now < MaxTime /\ now' = now + 1 /\ UNCHANGED <<suppressionMap_, history>>

RouterNext ==
    \/ \E key \in Keys \cup Others : addSuppression(key)
    \/ \E key \in Keys :
         \/ getFlags(key)
         \/ shouldRelay(key)
         \/ shouldRecover(key)
         \/ \E peer \in Peers : addSuppressionPeer(key, peer) \/ shouldProcess(key, peer)
         \/ \E flag \in Flags : setFlags(key, flag)
    \/ Tick

RouterSpec == RouterInit /\ [][RouterNext]_routerVars

-----------------------------------------------------------------------------
(* Properties.                                                             *)

RouterTypeOK ==
    /\ now \in Times
    /\ DOMAIN suppressionMap_ \subseteq Keys \cup Others
    /\ \A k \in DOMAIN suppressionMap_ : suppressionMap_[k] \in Entry

\* A hash is relayed at most once in the hold time (HashRouter.h 185-190):
\* its entry cannot be expired, and forget the relay, before that time is over.
RelayedOncePerHoldStep ==
    \A k \in Keys : relays'[k] # relays[k] /\ relays[k] # Never
                       => now >= relays[k] + holdTime_

\* A transaction is processed at most once in tx_interval however often the
\* peers send it, and whatever else touches or expires entries meanwhile.
ProcessedOncePerIntervalStep ==
    \A k \in Keys : processings'[k] # processings[k] /\ processings[k] # Never
                       => now >= processings[k] + tx_interval

\* A flag (SF_BAD, SF_SAVED, the cached validity of a signature) that was set
\* or read less than a hold time ago is still there.
FlagsKept ==
    \A k \in Keys, f \in Flags :
       flagged[k][f] # Never /\ now < flagged[k][f] + holdTime_
          => k \in DOMAIN suppressionMap_ /\ f \in suppressionMap_[k].flags_

\* A relay leaves out every peer that sent the message less than a hold time
\* ago and since the last relay: it is not sent back where it came from.
TellersSkippedStep ==
    \A k \in Keys : relays'[k] # relays[k]
       => {p \in Peers : tellers[k][p] # Never /\ now < tellers[k][p] + holdTime_}
            \subseteq skipped'

\* A disputed transaction is put back in the open ledger at most recoverLimit
\* times in a row, as long as the attempts are closer than the hold time.
RecoveriesBounded == \A k \in Keys : recovers[k].row <= recoverLimit

\* No step relays or processes a hash too soon, sends it back to who sent it, or
\* forgets a flag or the count of recoveries: the five above.
RelayedOncePerHold ==
    [][/\ RelayedOncePerHoldStep /\ ProcessedOncePerIntervalStep /\ TellersSkippedStep
       /\ FlagsKept' /\ RecoveriesBounded']_routerVars
=============================================================================
