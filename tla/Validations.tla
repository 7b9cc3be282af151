---------------------------- MODULE Validations -----------------------------
(***************************************************************************)
(* The store of received validations: class Validations of                 *)
(* consensus/Validations.h, with the callers that decide which validators  *)
(* are trusted (handleNewValidation, beginConsensus).                      *)
(*                                                                         *)
(* The trie is the table of supports it is shown to implement in module    *)
(* LedgerTrie.  A ledger stands for its pair of sequence number and id.    *)
(* One clock stands for the network time and the steady clock.  A          *)
(* validation is full (partial ones differ only in not being counted for a *)
(* quorum).  What has been acquired is external: a ledger that is waited   *)
(* for becomes available at some time.                                     *)
(*                                                                         *)
(* Two pairs of steps are apart in the code: handleNewValidation looks up  *)
(* the trust of a validator and then adds the validation, and              *)
(* beginConsensus updates the trusted keys and then tells the store.       *)
(***************************************************************************)
EXTENDS LedgerAncestry, SequencesExt

CONSTANTS
    Nodes,                        (* validators                            *)
    Available,                    (* ledgers we have from the start        *)
    validationCURRENT_WALL, validationCURRENT_LOCAL,
    validationCURRENT_EARLY, validationSET_EXPIRES,
    Skews,                        (* how far signing clocks are ahead      *)
    MaxTime,                      (* bound on the clock                    *)
    Window,                       (* may others run inside the two gaps    *)
    None                          (* no validation, no ledger              *)

VARIABLES
    now,
    listed, trustedKeys,          (* ValidatorList: keyListings_, and keys *)
    changes,                      (* beginConsensus: changes, while it has *)
                                  (* not told the store                    *)
    inHand,                       (* handleNewValidation: the validation   *)
                                  (* whose trust has been looked up        *)
    available,
    current, seqEnforcers, byLedger, touched,
    trie, lastLedger, acquiring

storeVars == <<current, seqEnforcers, byLedger, touched, trie, lastLedger, acquiring>>
callerVars == <<listed, trustedKeys, changes, inHand>>
vars == <<now, available, callerVars, storeVars>>

Time == 0..MaxTime
Vals == [node : Nodes, ledger : Ledgers, signTime : 0..(MaxTime + Max(Skews)),
         seenTime : Time, trusted : BOOLEAN]

Init ==
    /\ now = 0
    /\ listed = Nodes /\ trustedKeys = Nodes
    /\ changes = None /\ inHand = None
    /\ available = Available
    /\ current = [n \in Nodes |-> None]
    /\ seqEnforcers = [n \in Nodes |-> [seq |-> 0, when |-> 0]]
    /\ byLedger = [l \in Ledgers |-> [n \in Nodes |-> None]]
    /\ touched = [l \in Ledgers |-> 0]
    /\ trie = [l \in Ledgers |-> 0]
    /\ lastLedger = [n \in Nodes |-> None]
    /\ acquiring = [l \in Ledgers |-> {}]

-----------------------------------------------------------------------------
isCurrent(v) ==
    /\ v.signTime > now - validationCURRENT_EARLY
    /\ v.signTime < now + validationCURRENT_WALL
    /\ v.seenTime < now + validationCURRENT_LOCAL

(* SeqEnforcer: the largest number counts while it has not expired. *)
largest(e) == IF now > e.when + validationSET_EXPIRES THEN 0 ELSE e.seq

-----------------------------------------------------------------------------
(* The trie, the ledgers counted in it and the ledgers waited for change   *)
(* together; a record v holds the three while one call runs.               *)
Store == [trie |-> trie, last |-> lastLedger, acq |-> acquiring]

SetStore(v) == trie' = v.trie /\ lastLedger' = v.last /\ acquiring' = v.acq

moveTrieKeepsOld(v, n, l) ==
    [v EXCEPT !.trie[l] = @ + 1, !.last[n] = l]

(* updateTrie for an acquired ledger. *)
moveTrie(v, n, l) ==
    LET old == v.last[n]
        t == IF old = None THEN v.trie ELSE [v.trie EXCEPT ![old] = @ - 1]
    IN  [v EXCEPT !.trie = [t EXCEPT ![l] = @ + 1], !.last[n] = l]

stopAcquiring(v, n, l) == [v EXCEPT !.acq[l] = @ \ {n}]

removeTrie(v, n, l) ==
    LET w == stopAcquiring(v, n, l) IN
    IF v.last[n] = l
    THEN [w EXCEPT !.trie[l] = @ - 1, !.last[n] = None]
    ELSE w

(* checkAcquired: the entries come in the order of a hash table, so any    *)
(* order: a node waited for under two ledgers ends on either.              *)
Ready(v) == {l \in Ledgers : v.acq[l] # {} /\ l \in available}

acquired(v, l) ==
    [FoldSet(LAMBDA n, x : moveTrie(x, n, l), v, v.acq[l]) EXCEPT !.acq[l] = {}]

checkAcquired(v) ==
    {FoldLeft(acquired, v, order) : order \in SetToSeqs(Ready(v))}

(* updateTrie for a trusted validation. *)
updateTrie(v, n, l, prior) ==
    LET w == IF prior = None THEN v ELSE stopAcquiring(v, n, prior) IN
    {IF x.acq[l] # {} \/ l \notin available
     THEN [x EXCEPT !.acq[l] = @ \union {n}]
     ELSE moveTrie(x, n, l) : x \in checkAcquired(w)}

-----------------------------------------------------------------------------
(* current(): every use of the current validations first drops the stale   *)
(* ones; withTrie() then looks for acquired ledgers.                       *)
StaleNodes == {n \in Nodes : current[n] # None /\ ~ isCurrent(current[n])}

Kept == [n \in Nodes |-> IF n \in StaleNodes THEN None ELSE current[n]]
Flushed ==
    FoldSet(LAMBDA n, x : removeTrie(x, n, current[n].ledger), Store, StaleNodes)

Idle == Window \/ (changes = None /\ inHand = None)

(* currentTrusted, getCurrentNodeIDs, laggards. *)
FlushCurrent ==
    /\ Idle /\ StaleNodes # {}
    /\ current' = Kept
    /\ SetStore(Flushed)
    /\ UNCHANGED <<now, available, callerVars, seqEnforcers, byLedger, touched>>

(* getPreferred, getNodesAfter: what they return is a function of the      *)
(* state they leave.                                                       *)
withTrie ==
    /\ Idle /\ (StaleNodes # {} \/ Ready(Store) # {})
    /\ current' = Kept
    /\ \E v \in checkAcquired(Flushed) : SetStore(v)
    /\ UNCHANGED <<now, available, callerVars, seqEnforcers, byLedger, touched>>

-----------------------------------------------------------------------------
(* handleNewValidation: the trust of the signer is looked up, then the     *)
(* validation is added.  A signer neither trusted nor listed is dropped.   *)
LookUpTrust(n, l, skew) ==
    /\ Idle /\ inHand = None
    /\ n \in trustedKeys \union listed
    /\ now + skew >= 0
    /\ inHand' = [node |-> n, ledger |-> l, signTime |-> now + skew,
                  seenTime |-> now, trusted |-> n \in trustedKeys]
    /\ UNCHANGED <<now, available, listed, trustedKeys, changes, storeVars>>

Exists(l) == \E n \in Nodes : byLedger[l][n] # None

(* Everything add() does once the sequence number is accepted. *)
AddCurrent(val) ==
    LET n == val.node
        old == current[n]
    IN  IF old # None /\ val.signTime =< old.signTime
        THEN UNCHANGED <<current, trie, lastLedger, acquiring>>
        ELSE /\ current' = [current EXCEPT ![n] = val]
             /\ IF ~ val.trusted THEN SetStore(Store)
                ELSE \E v \in updateTrie(Store, n, val.ledger,
                                         IF old = None THEN None ELSE old.ledger) :
                        SetStore(v)

AddAccepted(val) ==
    /\ seqEnforcers' = [seqEnforcers EXCEPT ![val.node] =
                           [seq |-> seq(val.ledger), when |-> now]]
    /\ byLedger' = [byLedger EXCEPT ![val.ledger][val.node] = val]
    /\ touched' = [touched EXCEPT ![val.ledger] = IF Exists(val.ledger) THEN @ ELSE now]
    /\ AddCurrent(val)

add ==
    /\ inHand # None
    /\ IF isCurrent(inHand) /\ seq(inHand.ledger) > largest(seqEnforcers[inHand.node])
       THEN AddAccepted(inHand)
       ELSE UNCHANGED storeVars
    /\ inHand' = None
    /\ UNCHANGED <<now, available, listed, trustedKeys, changes>>

-----------------------------------------------------------------------------
(* The lists of validators change (a list is applied, expires or is        *)
(* revoked); the keys follow when a round begins, and then the store.      *)
ChangeListing(s) ==
    /\ Idle
    /\ listed' = s
    /\ UNCHANGED <<now, available, trustedKeys, changes, inHand, storeVars>>

updateTrusted ==
    /\ Idle /\ changes = None /\ listed # trustedKeys
    /\ changes' = [added |-> listed \ trustedKeys, removed |-> trustedKeys \ listed]
    /\ trustedKeys' = listed
    /\ UNCHANGED <<now, available, listed, inHand, storeVars>>

Retrust(val) ==
    IF val = None THEN None
    ELSE [val EXCEPT !.trusted = (@ \/ val.node \in changes.added)
                                   /\ val.node \notin changes.removed]

(* trustChanged walks the current validations in any order; the order      *)
(* shows only through checkAcquired.                                       *)
Changing == {n \in Nodes : current[n] # None /\ n \in changes.added \union changes.removed}

changeTrust(vs, n) ==
    IF n \in changes.added
    THEN UNION {updateTrie(v, n, current[n].ledger, None) : v \in vs}
    ELSE {removeTrie(v, n, current[n].ledger) : v \in vs}

trustChanged ==
    /\ changes # None
    /\ current' = [n \in Nodes |-> Retrust(current[n])]
    /\ byLedger' = [l \in Ledgers |-> [n \in Nodes |-> Retrust(byLedger[l][n])]]
    /\ \E order \in SetToSeqs(Changing) :
          \E v \in FoldLeft(changeTrust, {Store}, order) : SetStore(v)
    /\ changes' = None
    /\ UNCHANGED <<now, available, listed, trustedKeys, inHand, seqEnforcers, touched>>

-----------------------------------------------------------------------------
(* numTrustedForLedger, getTrustedForLedger, fees: reading a set keeps it. *)
byLedgerTouch(l) ==
    /\ Idle /\ Exists(l) /\ touched[l] # now
    /\ touched' = [touched EXCEPT ![l] = now]
    /\ UNCHANGED <<now, available, callerVars, current, seqEnforcers, byLedger,
                   trie, lastLedger, acquiring>>

Expired(l) == Exists(l) /\ touched[l] + validationSET_EXPIRES =< now

expire ==
    /\ Idle /\ \E l \in Ledgers : Expired(l)
    /\ byLedger' = [l \in Ledgers |-> IF Expired(l) THEN [n \in Nodes |-> None]
                                       ELSE byLedger[l]]
    /\ touched' = [l \in Ledgers |-> IF Expired(l) THEN 0 ELSE touched[l]]
    /\ UNCHANGED <<now, available, callerVars, current, seqEnforcers,
                   trie, lastLedger, acquiring>>

(* The rest of the world. *)
Acquire(l) ==
    /\ Idle /\ acquiring[l] # {} /\ l \notin available
    /\ available' = available \union {l}
    /\ UNCHANGED <<now, callerVars, storeVars>>

Tick ==
    /\ Idle /\ now < MaxTime
    /\ now' = now + 1
    /\ UNCHANGED <<available, callerVars, storeVars>>

Next ==
    \/ FlushCurrent \/ withTrie \/ add \/ updateTrusted \/ trustChanged
    \/ expire \/ Tick
    \/ \E n \in Nodes, l \in Ledgers, skew \in Skews : LookUpTrust(n, l, skew)
    \/ \E s \in SUBSET Nodes : ChangeListing(s)
    \/ \E l \in Ledgers : byLedgerTouch(l) \/ Acquire(l)

Spec == Init /\ [][Next]_vars

-----------------------------------------------------------------------------
TypeOK ==
    /\ now \in Time
    /\ listed \subseteq Nodes /\ trustedKeys \subseteq Nodes
    /\ changes = None \/ changes \in [added : SUBSET Nodes, removed : SUBSET Nodes]
    /\ inHand \in Vals \union {None}
    /\ available \subseteq Ledgers
    /\ \A n \in Nodes :
          /\ current[n] \in Vals \union {None}
          /\ seqEnforcers[n] \in [seq : Nat, when : Time]
          /\ lastLedger[n] \in Ledgers \union {None}
    /\ \A l \in Ledgers :
          /\ \A n \in Nodes : byLedger[l][n] \in Vals \union {None}
          /\ touched[l] \in Time
          /\ trie[l] \in Nat
          /\ acquiring[l] \subseteq Nodes

(* Every validator counts once in the trie, for its last acquired ledger:  *)
(* lastLedger_, "if in this map, it is accounted for in the trie".         *)
TrieIsLastLedgers ==
    \A l \in Ledgers : trie[l] = Cardinality({n \in Nodes : lastLedger[n] = l})

(* A validator is waited for under the ledger of its current validation    *)
(* only, so a ledger that arrives late never takes support back to a       *)
(* ledger the validator has left.                                          *)
AcquiringIsCurrent ==
    \A l \in Ledgers : \A n \in acquiring[l] :
        current[n] # None /\ current[n].ledger = l /\ current[n].trusted

(* Every current trusted validation is in the trie, or its ledger is being *)
(* acquired: however trust, validations and acquired ledgers interleave,   *)
(* none is forgotten.                                                      *)
TrustedIsAccounted ==
    \A n \in Nodes :
        current[n] # None /\ current[n].trusted =>
            n \in acquiring[current[n].ledger] \/ lastLedger[n] = current[n].ledger

(* The validations of one validator stored within validationSET_EXPIRES of *)
(* each other have increasing sequence numbers: SeqEnforcer, "a validation *)
(* must be larger than all unexpired validation sequence numbers           *)
(* previously issued by the validator".                                    *)
StoredSequencesIncrease ==
    \A n \in Nodes : \A a, b \in Ledgers :
        LET va == byLedger[a][n]
            vb == byLedger[b][n]
        IN  a # b /\ va # None /\ vb # None /\ va.seenTime =< vb.seenTime
              /\ vb.seenTime =< va.seenTime + validationSET_EXPIRES
            => seq(a) # seq(b) /\ (va.seenTime < vb.seenTime => seq(a) < seq(b))

(* Once the store has been told, what it takes for a trusted validation    *)
(* comes from a validator that is trusted: currentTrusted, "validations    *)
(* from currently trusted validators".  It holds when nobody runs between  *)
(* the look-up of the trust and the addition, and not otherwise.           *)
TrustFollowsKeys ==
    changes = None => \A n \in Nodes :
        current[n] # None /\ current[n].trusted => n \in trustedKeys

(* Claims of comments that the code does not keep; see the findings.       *)

(* trustChanged "updates the trie to ensure only currently trusted nodes'  *)
(* validations are used".                                                  *)
OnlyTrustedSupport ==
    changes = None => \A n \in Nodes : lastLedger[n] # None => n \in trustedKeys

(* validationCURRENT_LOCAL: "Duration a validation remains current after   *)
(* first observed".                                                        *)
SeenTimeLimits ==
    \A n \in Nodes : current[n] # None /\ isCurrent(current[n]) =>
        now < current[n].seenTime + validationCURRENT_LOCAL

=============================================================================
