------------------------- MODULE InboundLedgerProofs -------------------------
(***************************************************************************)
(* The acquisition of a ledger: a ledger that is said to be complete is    *)
(* whole and is handed on, what peers send is taken by a job, and the      *)
(* timer is kept while the acquisition is not over, for any maps, any      *)
(* number of threads and any packets.                                      *)
(*                                                                         *)
(* What the code does under mLock is an operator on the acquisition; each  *)
(* has a lemma: it keeps the acquisition sound, and undoes nothing.        *)
(***************************************************************************)
EXTENDS InboundLedger, TLAPS, SequenceTheorems

Acquisitions ==
    [header : BOOLEAN, haveState : BOOLEAN, haveTx : BOOLEAN, complete : BOOLEAN,
     failed : BOOLEAN, signaled : BOOLEAN, progress : BOOLEAN, timeouts : Nat,
     peers : BOOLEAN, byHash : BOOLEAN, recent : SUBSET (StateNodes \cup TxNodes),
     state : SUBSET StateNodes, tx : SUBSET TxNodes,
     stateSynching : BOOLEAN, txSynching : BOOLEAN, announced : Nat]

\* What mHaveState, mHaveTransactions and mComplete say is so.  A map that is no longer
\* synching is whole, but after a failure, when its nodes are no longer taken.
Truthful(q) ==
    /\ q.haveState => q.header /\ q.state = StateNodes
    /\ q.haveTx => q.header /\ q.tx = TxNodes
    /\ q.complete => q.haveState /\ q.haveTx
    /\ q.stateSynching \/ q.failed \/ q.state = StateNodes
    /\ q.txSynching \/ q.failed \/ q.tx = TxNodes
    /\ q.signaled => q.announced > 0
Sound(q) == q \in Acquisitions /\ Truthful(q)

\* Nothing of q is undone in d.
Keeps(q, d) ==
    /\ q.header => d.header
    /\ q.state \subseteq d.state /\ q.tx \subseteq d.tx
    /\ q.complete => d.complete
    /\ q.failed => d.failed
    /\ q.announced <= d.announced

\* A ledger that has become complete is handed on.
HandsOn(q, d) == d.complete => q.complete \/ d.announced > 0

-----------------------------------------------------------------------------
(* The maps.                                                               *)

LEMMA KeepsSame == ASSUME NEW q, Sound(q) PROVE Keeps(q, q) /\ HandsOn(q, q)
BY DEF Keeps, HandsOn, Sound, Acquisitions

LEMMA KeepsOn ==
    ASSUME NEW q, NEW d, NEW e, Sound(q), Sound(d), Sound(e), Keeps(q, d), Keeps(d, e)
    PROVE  /\ Keeps(q, e)
           /\ HandsOn(q, d) /\ HandsOn(d, e) => HandsOn(q, e)
<1>1. q.announced \in Nat /\ d.announced \in Nat /\ e.announced \in Nat
  BY DEF Sound, Acquisitions
<1>2. q.announced <= e.announced /\ (d.announced > 0 => e.announced > 0)
  BY <1>1 DEF Keeps
<1> QED BY <1>2 DEF Keeps, HandsOn

LEMMA MissingState ==
    ASSUME NEW q, Sound(q)
    PROVE  /\ Sound(getMissingState(q)) /\ Keeps(q, getMissingState(q))
           /\ HandsOn(q, getMissingState(q))
<1> DEFINE d == getMissingState(q)
<1>1. d \in Acquisitions
  BY Zenon DEF Sound, getMissingState, Acquisitions
<1>2. Truthful(d)
  BY DEF Sound, getMissingState, Acquisitions, Truthful
<1>3. Keeps(q, d) /\ HandsOn(q, d)
  BY DEF Sound, getMissingState, Acquisitions, Keeps, HandsOn
<1> QED BY <1>1, <1>2, <1>3 DEF Sound

LEMMA MissingTx ==
    ASSUME NEW q, Sound(q)
    PROVE  /\ Sound(getMissingTx(q)) /\ Keeps(q, getMissingTx(q))
           /\ HandsOn(q, getMissingTx(q))
<1> DEFINE d == getMissingTx(q)
<1>1. d \in Acquisitions
  BY Zenon DEF Sound, getMissingTx, Acquisitions
<1>2. Truthful(d)
  BY DEF Sound, getMissingTx, Acquisitions, Truthful
<1>3. Keeps(q, d) /\ HandsOn(q, d)
  BY DEF Sound, getMissingTx, Acquisitions, Keeps, HandsOn
<1> QED BY <1>1, <1>2, <1>3 DEF Sound

\* tryDB: what is stored here is taken, and mComplete is set when it is all.
LEMMA TryHeader ==
    ASSUME NEW q, Sound(q)
    PROVE  Sound(tryHeader(q)) /\ Keeps(q, tryHeader(q)) /\ HandsOn(q, tryHeader(q))
<1>1. CASE tryHeader(q) = q
  BY <1>1, KeepsSame
<1>2. CASE tryHeader(q) = [q EXCEPT !.header = TRUE]
  <2> DEFINE d == [q EXCEPT !.header = TRUE]
  <2>1. d \in Acquisitions
    BY Zenon DEF Sound, Acquisitions
  <2>2. Truthful(d)
    BY <1>2 DEF Sound, Acquisitions, Truthful
  <2>3. Keeps(q, d) /\ HandsOn(q, d)
    BY DEF Sound, Acquisitions, Keeps, HandsOn
  <2> QED BY <1>2, <2>1, <2>2, <2>3 DEF Sound
<1>3. CASE tryHeader(q) = [q EXCEPT !.failed = TRUE]
  <2> DEFINE d == [q EXCEPT !.failed = TRUE]
  <2>1. d \in Acquisitions
    BY Zenon DEF Sound, Acquisitions
  <2>2. Truthful(d)
    BY <1>3 DEF Sound, Acquisitions, Truthful
  <2>3. Keeps(q, d) /\ HandsOn(q, d)
    BY DEF Sound, Acquisitions, Keeps, HandsOn
  <2> QED BY <1>3, <2>1, <2>2, <2>3 DEF Sound
<1> QED BY <1>1, <1>2, <1>3 DEF tryHeader

LEMMA TryTx ==
    ASSUME InboundAssumption, NEW q, Sound(q), q.header
    PROVE  Sound(tryTx(q)) /\ Keeps(q, tryTx(q)) /\ tryTx(q).failed = q.failed
<1>1. CASE tryTx(q) = q
  BY <1>1, KeepsSame
<1>2. CASE ~q.haveTx /\ TxNodes = {} /\ tryTx(q) = [q EXCEPT !.haveTx = TRUE]
  <2> DEFINE d == [q EXCEPT !.haveTx = TRUE]
  <2>1. d \in Acquisitions
    BY Zenon DEF Sound, Acquisitions
  <2>2. Truthful(d)
    BY <1>2 DEF Sound, Acquisitions, Truthful
  <2>3. Keeps(q, d) /\ d.failed = q.failed
    BY DEF Sound, Acquisitions, Keeps
  <2> QED BY <1>2, <2>1, <2>2, <2>3 DEF Sound
<1>3. CASE ~q.haveTx /\ tryTx(q) = noteTx(getMissingTx(q))
  <2> DEFINE d == getMissingTx(q)
  <2>1. Sound(d) /\ Keeps(q, d)
    BY MissingTx
  <2>2. ~d.haveTx /\ d.header /\ d.failed = q.failed
    BY <1>3 DEF getMissingTx, Sound, Acquisitions
  <2> HIDE DEF d
  <2>3. Sound(noteTx(d)) /\ Keeps(d, noteTx(d)) /\ noteTx(d).failed = d.failed
    BY <2>1, <2>2 DEF noteTx, Sound, Acquisitions, Truthful, Keeps
  <2>4. Keeps(q, noteTx(d))
    BY <2>1, <2>3, KeepsOn
  <2> QED BY <1>3, <2>2, <2>3, <2>4 DEF d
<1> QED BY <1>1, <1>2, <1>3 DEF tryTx

LEMMA TryState ==
    ASSUME NEW q, Sound(q), q.header
    PROVE  Sound(tryState(q)) /\ Keeps(q, tryState(q)) /\ tryState(q).failed = q.failed
<1>1. CASE tryState(q) = q
  BY <1>1, KeepsSame
<1>2. CASE ~q.haveState /\ tryState(q) = noteState(getMissingState(q))
  <2> DEFINE d == getMissingState(q)
  <2>1. Sound(d) /\ Keeps(q, d)
    BY MissingState
  <2>2. ~d.haveState /\ d.header /\ d.failed = q.failed
    BY <1>2 DEF getMissingState, Sound, Acquisitions
  <2> HIDE DEF d
  <2>3. Sound(noteState(d)) /\ Keeps(d, noteState(d)) /\ noteState(d).failed = d.failed
    BY <2>1, <2>2 DEF noteState, Sound, Acquisitions, Truthful, Keeps
  <2>4. Keeps(q, noteState(d))
    BY <2>1, <2>3, KeepsOn
  <2> QED BY <1>2, <2>2, <2>3, <2>4 DEF d
<1> QED BY <1>1, <1>2 DEF tryState

LEMMA TryDB ==
    ASSUME InboundAssumption, NEW q, Sound(q)
    PROVE  /\ Sound(tryDB(q)) /\ Keeps(q, tryDB(q))
           /\ tryDB(q).failed => q.failed \/ HandsOn(q, tryDB(q))
<1> DEFINE h == tryHeader(q)
<1>1. Sound(h) /\ Keeps(q, h) /\ HandsOn(q, h)
  BY TryHeader
<1>0. h.failed => q.failed \/ ~h.header
  BY DEF tryHeader, Sound, Acquisitions
<1> HIDE DEF h
<1>2. /\ Sound(tryMaps(h)) /\ Keeps(h, tryMaps(h))
      /\ tryMaps(h).failed = h.failed /\ (~h.header => tryMaps(h) = h)
  <2>1. CASE ~h.header
    BY <1>1, <2>1, KeepsSame DEF tryMaps
  <2>2. CASE h.header
    <3> DEFINE t == tryTx(h)
    <3>1. Sound(t) /\ Keeps(h, t) /\ t.header /\ t.failed = h.failed
      BY <1>1, <2>2, TryTx DEF Keeps
    <3> HIDE DEF t
    <3> DEFINE s == tryState(t)
    <3>2. Sound(s) /\ Keeps(t, s) /\ s.failed = t.failed
      BY <3>1, TryState
    <3> HIDE DEF s
    <3>3. Sound(noteComplete(s)) /\ Keeps(s, noteComplete(s)) /\ noteComplete(s).failed = s.failed
      BY <3>2 DEF noteComplete, Sound, Acquisitions, Truthful, Keeps
    <3>4. Keeps(h, s)
      BY <1>1, <3>1, <3>2, KeepsOn
    <3>5. Keeps(h, noteComplete(s))
      BY <1>1, <3>2, <3>3, <3>4, KeepsOn
    <3>6. tryMaps(h) = noteComplete(s)
      BY <2>2 DEF tryMaps, s, t
    <3> QED BY <2>2, <3>1, <3>2, <3>3, <3>5, <3>6
  <2> QED BY <2>1, <2>2
<1>3. Keeps(q, tryMaps(h))
  BY <1>1, <1>2, KeepsOn
<1> QED BY <1>0, <1>1, <1>2, <1>3 DEF tryDB, h

\* done: the ledger is handed on, unless it was.
LEMMA DoneNow ==
    ASSUME NEW q, Sound(q)
    PROVE  /\ Sound(doneNow(q)) /\ Keeps(q, doneNow(q)) /\ doneNow(q).announced > 0
           /\ doneNow(q).complete = q.complete /\ doneNow(q).failed = q.failed
<1> DEFINE d == doneNow(q)
<1>0. q.announced + 1 \in Nat /\ q.announced + 1 > 0 /\ q \in Acquisitions
  BY DEF Sound, Acquisitions
<1>1. d \in Acquisitions /\ d.announced > 0
  BY <1>0, Zenon DEF doneNow, Acquisitions
<1>2. Truthful(d)
  BY DEF doneNow, Sound, Acquisitions, Truthful
<1>3. Keeps(q, d) /\ d.complete = q.complete /\ d.failed = q.failed
  BY DEF doneNow, Sound, Acquisitions, Keeps
<1> QED BY <1>1, <1>2, <1>3 DEF Sound

LEMMA Done ==
    ASSUME NEW q, Sound(q)
    PROVE  /\ Sound(done(q)) /\ Keeps(q, done(q)) /\ done(q).announced > 0
           /\ done(q).complete = q.complete /\ done(q).failed = q.failed
<1>1. CASE q.signaled
  BY <1>1, KeepsSame DEF done, Sound, Truthful
<1>2. CASE ~q.signaled
  BY <1>2, DoneNow DEF done
<1> QED BY <1>1, <1>2

LEMMA DoneIfOver ==
    ASSUME NEW q, Sound(q)
    PROVE  /\ Sound(doneIfOver(q)) /\ Keeps(q, doneIfOver(q))
           /\ doneIfOver(q).complete => doneIfOver(q).announced > 0
<1>1. CASE isDone(q)
  BY <1>1, Done DEF doneIfOver
<1>2. CASE ~isDone(q)
  BY <1>2, KeepsSame DEF doneIfOver, isDone
<1> QED BY <1>1, <1>2

LEMMA CheckLocal ==
    ASSUME InboundAssumption, NEW q, Sound(q)
    PROVE  Sound(checkLocal(q)) /\ Keeps(q, checkLocal(q)) /\ HandsOn(q, checkLocal(q))
<1>1. CASE isDone(q)
  BY <1>1, KeepsSame DEF checkLocal
<1>2. CASE ~isDone(q)
  <2> DEFINE d == tryDB(q)
  <2>1. Sound(d) /\ Keeps(q, d)
    BY TryDB
  <2> HIDE DEF d
  <2>2. /\ Sound(doneIfOver(d)) /\ Keeps(d, doneIfOver(d))
        /\ doneIfOver(d).complete => doneIfOver(d).announced > 0
    BY <2>1, DoneIfOver
  <2>3. Keeps(q, doneIfOver(d))
    BY <2>1, <2>2, KeepsOn
  <2> QED BY <1>2, <2>2, <2>3 DEF checkLocal, d, HandsOn
<1> QED BY <1>1, <1>2

-----------------------------------------------------------------------------
(* trigger(), part by part.                                                *)

\* A part that started with q gets as far as g.  A ledger that it found complete is
\* handed on at the end of trigger: a part does not stop before that.
Onward(q, g) ==
    /\ g.next \in {"nodes", "tx", "end", "no further"}
    /\ Sound(g.acq) /\ Keeps(q, g.acq)
    /\ g.next \in {"nodes", "tx"} => g.acq.header
    /\ g.next \in {"nodes", "no further"} => HandsOn(q, g.acq)

LEMMA NeededState ==
    ASSUME NEW q, Sound(q)
    PROVE  Sound(neededState(q)) /\ Keeps(q, neededState(q)) /\ HandsOn(q, neededState(q))
BY MissingState, KeepsSame DEF neededState

LEMMA NeededTx ==
    ASSUME NEW q, Sound(q)
    PROVE  Sound(neededTx(q)) /\ Keeps(q, neededTx(q)) /\ HandsOn(q, neededTx(q))
BY MissingTx, KeepsSame DEF neededTx

LEMMA AskNeeded ==
    ASSUME NEW q, Sound(q), q.header
    PROVE  Sound(askNeeded(q)) /\ Keeps(q, askNeeded(q))
<1>1. CASE (q.haveState \/ q.state = StateNodes) /\ (q.haveTx \/ q.tx = TxNodes)
  <2> DEFINE d == [q EXCEPT !.haveState = TRUE, !.haveTx = TRUE, !.complete = TRUE]
  <2>1. d \in Acquisitions
    BY Zenon DEF Sound, Acquisitions
  <2>2. Truthful(d)
    BY <1>1 DEF Sound, Acquisitions, Truthful
  <2>3. Keeps(q, d)
    BY DEF Sound, Acquisitions, Keeps
  <2> QED BY <1>1, <2>1, <2>2, <2>3 DEF Sound, askNeeded
<1>2. CASE ~((q.haveState \/ q.state = StateNodes) /\ (q.haveTx \/ q.tx = TxNodes))
  <2> DEFINE d == [q EXCEPT !.byHash = ~q.peers]
  <2>1. d \in Acquisitions
    BY Zenon DEF Sound, Acquisitions
  <2>2. Truthful(d)
    BY DEF Sound, Acquisitions, Truthful
  <2>3. Keeps(q, d)
    BY DEF Sound, Acquisitions, Keeps
  <2> QED BY <1>2, <2>1, <2>2, <2>3 DEF Sound, askNeeded
<1> QED BY <1>1, <1>2

LEMMA AskByHash ==
    ASSUME NEW q, Sound(q)
    PROVE  Sound(askByHash(q)) /\ Keeps(q, askByHash(q))
<1>1. CASE askByHash(q) = q
  BY <1>1, KeepsSame
<1>2. CASE askByHash(q) = [q EXCEPT !.byHash = ~q.peers]
  <2> DEFINE d == [q EXCEPT !.byHash = ~q.peers]
  <2>1. d \in Acquisitions
    BY Zenon DEF Sound, Acquisitions
  <2>2. Truthful(d)
    BY DEF Sound, Acquisitions, Truthful
  <2>3. Keeps(q, d)
    BY DEF Sound, Acquisitions, Keeps
  <2> QED BY <1>2, <2>1, <2>2, <2>3 DEF Sound
<1>3. CASE q.header /\ askByHash(q) = askNeeded(neededTx(neededState(q)))
  <2> DEFINE s == neededState(q)
  <2>1. Sound(s) /\ Keeps(q, s) /\ s.header
    BY <1>3, NeededState DEF Keeps
  <2> HIDE DEF s
  <2> DEFINE t == neededTx(s)
  <2>2. Sound(t) /\ Keeps(s, t) /\ t.header
    BY <2>1, NeededTx DEF Keeps
  <2> HIDE DEF t
  <2>3. Sound(askNeeded(t)) /\ Keeps(t, askNeeded(t))
    BY <2>2, AskNeeded
  <2>4. Keeps(q, t)
    BY <2>1, <2>2, KeepsOn
  <2>5. Keeps(q, askNeeded(t))
    BY <2>2, <2>3, <2>4, KeepsOn
  <2> QED BY <1>3, <2>3, <2>5 DEF s, t
<1> QED BY <1>1, <1>2, <1>3 DEF askByHash

\* Where trigger goes with what it has: not on without the header, nor to the search
\* when the state map is said to be there.
LEMMA Begin ==
    ASSUME InboundAssumption, NEW q, Sound(q)
    PROVE  /\ Onward(q, triggerBegin(q))
           /\ triggerBegin(q).next \in {"nodes", "tx", "no further"}
<1>1. CASE isDone(q)
  <2>1. triggerBegin(q).acq = q /\ triggerBegin(q).next = "no further"
    BY <1>1 DEF triggerBegin, Goes
  <2> QED BY <2>1, KeepsSame, Zenon DEF Onward
<1>2. CASE ~isDone(q)
  <2> DEFINE h == IF q.header THEN q ELSE tryDB(q)
  <2>1. Sound(h) /\ Keeps(q, h)
    BY TryDB, KeepsSame
  <2> HIDE DEF h
  <2> DEFINE d == askByHash(h)
  <2>2. Sound(d) /\ Keeps(h, d)
    BY <2>1, AskByHash
  <2> HIDE DEF d
  <2>3. Keeps(q, d)
    BY <2>1, <2>2, KeepsOn
  <2>4. triggerBegin(q) = whichMap(d)
    BY <1>2 DEF triggerBegin, d, h
  <2>5. /\ whichMap(d).acq = d /\ whichMap(d).next \in {"nodes", "tx", "no further"}
        /\ whichMap(d).next \in {"nodes", "tx"} => d.header
        /\ whichMap(d).next \in {"nodes", "no further"} => ~d.header \/ ~d.haveState
    BY DEF whichMap, Goes
  <2>6. ~d.header \/ ~d.haveState => ~d.complete
    BY <2>2 DEF Sound, Truthful
  <2> QED BY <2>2, <2>3, <2>4, <2>5, <2>6, Zenon DEF Onward, HandsOn
<1> QED BY <1>1, <1>2, Zenon

\* What is asked for does not touch what is there.
LEMMA Ask ==
    ASSUME NEW q, Sound(q), NEW missing \in SUBSET (StateNodes \cup TxNodes), NEW why,
           NEW otherwise \in {"tx", "end"}
    PROVE  /\ Sound(ask(q, missing, why, otherwise).acq)
           /\ Keeps(q, ask(q, missing, why, otherwise).acq)
           /\ ask(q, missing, why, otherwise).acq.complete = q.complete
           /\ ask(q, missing, why, otherwise).acq.header = q.header
           /\ ask(q, missing, why, otherwise).next \in {otherwise, "no further"}
<1>1. CASE filtered(q, missing, why) = {}
  <2>1. ask(q, missing, why, otherwise) = [acq |-> q, next |-> otherwise]
    BY <1>1 DEF ask, Goes
  <2> QED BY <2>1, KeepsSame
<1>2. CASE filtered(q, missing, why) # {}
  <2>1. PICK F \in SUBSET (StateNodes \cup TxNodes) : F = filtered(q, missing, why)
    BY Zenon DEF filtered
  <2> DEFINE d == [q EXCEPT !.recent = @ \cup F]
  <2>2. /\ ask(q, missing, why, otherwise).acq = d
        /\ ask(q, missing, why, otherwise).next = "no further"
    BY <1>2, <2>1, Zenon DEF ask, Goes
  <2>3. d \in Acquisitions
    BY DEF Sound, Acquisitions
  <2>4. Truthful(d)
    BY DEF Sound, Acquisitions, Truthful
  <2>5. Keeps(q, d) /\ d.complete = q.complete /\ d.header = q.header
    BY DEF Sound, Acquisitions, Keeps
  <2> HIDE DEF d
  <2> QED BY <2>2, <2>3, <2>4, <2>5, Zenon DEF Sound
<1> QED BY <1>1, <1>2, Zenon

\* The state map is said to be there when the search, which may have been a while ago,
\* found nothing missing.
LEMMA State ==
    ASSUME NEW q, Sound(q), q.header, NEW missing \in SUBSET StateNodes, NEW why,
           StateNodes \ q.state \subseteq missing
    PROVE  /\ Onward(q, triggerState(q, missing, why))
           /\ triggerState(q, missing, why).next \in {"tx", "no further"}
<1>1. CASE isDone(q) \/ q.haveState
  <2>1. triggerState(q, missing, why).acq = q /\ triggerState(q, missing, why).next = "tx"
    BY <1>1 DEF triggerState, Goes
  <2> QED BY <2>1, KeepsSame DEF Onward
<1>2. CASE ~(isDone(q) \/ q.haveState) /\ missing = {}
  <2> DEFINE d == [q EXCEPT !.haveState = TRUE, !.complete = @ \/ q.haveTx]
  <2>1. triggerState(q, missing, why).acq = d /\ triggerState(q, missing, why).next = "tx"
    BY <1>2 DEF triggerState, Goes
  <2>2. d \in Acquisitions /\ d.header
    BY Zenon DEF Sound, Acquisitions
  <2>3. q.state = StateNodes
    BY <1>2 DEF Sound, Acquisitions
  <2>4. Truthful(d)
    BY <2>3 DEF Sound, Acquisitions, Truthful
  <2>5. Keeps(q, d)
    BY DEF Sound, Acquisitions, Keeps
  <2> HIDE DEF d
  <2> QED BY <2>1, <2>2, <2>4, <2>5 DEF Onward, Sound
<1>3. CASE ~(isDone(q) \/ q.haveState) /\ missing # {}
  <2> DEFINE g == ask(q, missing, why, "tx")
  <2>1. triggerState(q, missing, why) = g
    BY <1>3 DEF triggerState
  <2>2. /\ Sound(g.acq) /\ Keeps(q, g.acq) /\ g.acq.complete = q.complete
        /\ g.acq.header = q.header /\ g.next \in {"tx", "no further"}
    <3>1. missing \in SUBSET (StateNodes \cup TxNodes)
      OBVIOUS
    <3> QED BY <3>1, Ask, Zenon
  <2> HIDE DEF g
  <2> QED BY <2>1, <2>2, Zenon DEF Onward, HandsOn
<1> QED BY <1>1, <1>2, <1>3, Zenon

\* So is the transaction map, in the same way, and a complete ledger gets to the end.
LEMMA SearchedTx ==
    ASSUME NEW q, Sound(q), q.header, ~q.haveTx, NEW why
    PROVE  /\ Sound(searchedTx(q, why).acq) /\ Keeps(q, searchedTx(q, why).acq)
           /\ searchedTx(q, why).next \in {"end", "no further"}
           /\ searchedTx(q, why).acq.complete => searchedTx(q, why).next = "end"
<1>1. CASE q.tx = TxNodes
  <2> DEFINE d == [q EXCEPT !.haveTx = TRUE, !.complete = @ \/ q.haveState]
  <2>1. searchedTx(q, why).acq = d /\ searchedTx(q, why).next = "end"
    BY <1>1 DEF searchedTx, Goes
  <2>2. d \in Acquisitions
    BY Zenon DEF Sound, Acquisitions
  <2>3. Truthful(d)
    BY <1>1 DEF Sound, Acquisitions, Truthful
  <2>4. Keeps(q, d)
    BY DEF Sound, Acquisitions, Keeps
  <2> HIDE DEF d
  <2> QED BY <2>1, <2>2, <2>3, <2>4 DEF Sound
<1>2. CASE q.tx # TxNodes
  <2> DEFINE M == TxNodes \ q.tx
             g == ask(q, M, why, "end")
  <2>1. searchedTx(q, why) = g
    BY <1>2 DEF searchedTx
  <2>2. /\ Sound(g.acq) /\ Keeps(q, g.acq) /\ g.acq.complete = q.complete
        /\ g.next \in {"end", "no further"}
    <3>1. M \in SUBSET (StateNodes \cup TxNodes)
      OBVIOUS
    <3> HIDE DEF M
    <3> QED BY <3>1, Ask, Zenon
  <2>3. ~q.complete
    BY DEF Sound, Truthful
  <2> HIDE DEF g
  <2> QED BY <2>1, <2>2, <2>3, Zenon
<1> QED BY <1>1, <1>2, Zenon

LEMMA Transactions ==
    ASSUME NEW q, Sound(q), q.header, NEW why
    PROVE  /\ Sound(triggerTx(q, why).acq) /\ Keeps(q, triggerTx(q, why).acq)
           /\ triggerTx(q, why).next \in {"end", "no further"}
           /\ triggerTx(q, why).acq.complete => triggerTx(q, why).next = "end"
<1>1. CASE q.haveTx \/ q.failed
  <2>1. triggerTx(q, why).acq = q /\ triggerTx(q, why).next = "end"
    BY <1>1 DEF triggerTx, Goes
  <2> QED BY <2>1, KeepsSame
<1>2. CASE ~(q.haveTx \/ q.failed) /\ TxRoot \notin q.tx
  <2>1. triggerTx(q, why).acq = q /\ triggerTx(q, why).next = "no further"
    BY <1>2 DEF triggerTx, Goes
  <2>2. ~q.complete
    BY <1>2 DEF Sound, Truthful
  <2> QED BY <2>1, <2>2, KeepsSame, Zenon
<1>3. CASE ~(q.haveTx \/ q.failed) /\ TxRoot \in q.tx
  <2> DEFINE d == getMissingTx(q)
  <2>1. triggerTx(q, why) = searchedTx(d, why)
    BY <1>3, Zenon DEF triggerTx
  <2>2. Sound(d) /\ Keeps(q, d) /\ d.header
    BY MissingTx DEF Keeps
  <2>3. ~d.haveTx
    BY <1>3 DEF getMissingTx, Sound, Acquisitions
  <2> HIDE DEF d
  <2> DEFINE g == searchedTx(d, why)
  <2>4. /\ Sound(g.acq) /\ Keeps(d, g.acq) /\ g.next \in {"end", "no further"}
        /\ g.acq.complete => g.next = "end"
    BY <2>2, <2>3, SearchedTx, Zenon
  <2> HIDE DEF g
  <2>5. Keeps(q, g.acq)
    BY <2>2, <2>4, KeepsOn, Zenon
  <2> QED BY <2>1, <2>4, <2>5, Zenon DEF g
<1> QED BY <1>1, <1>2, <1>3, Zenon

\* From where a part got to the end of trigger, or to where the lock is given up.
LEMMA ThroughTx ==
    ASSUME NEW q, Sound(q), NEW g, Onward(q, g), NEW why
    PROVE  /\ Onward(q, throughTx(g, why))
           /\ throughTx(g, why).next # "tx"
           /\ throughTx(g, why).next = "nodes" => throughTx(g, why) = g
<1>1. CASE g.next # "tx"
  BY <1>1 DEF throughTx
<1>2. CASE g.next = "tx"
  <2> DEFINE d == g.acq
             x == triggerTx(d, why)
  <2>1. throughTx(g, why) = x
    BY <1>2 DEF throughTx
  <2>2. Sound(d) /\ Keeps(q, d) /\ d.header
    BY <1>2 DEF Onward
  <2> HIDE DEF d
  <2>3. /\ Sound(x.acq) /\ Keeps(d, x.acq) /\ x.next \in {"end", "no further"}
        /\ x.acq.complete => x.next = "end"
    BY <2>2, Transactions, Zenon
  <2> HIDE DEF x
  <2>4. Keeps(q, x.acq)
    BY <2>2, <2>3, KeepsOn, Zenon
  <2> QED BY <2>1, <2>3, <2>4, Zenon DEF Onward, HandsOn
<1> QED BY <1>1, <1>2

\* trigger, by a caller that holds the lock.
LEMMA Trigger ==
    ASSUME InboundAssumption, NEW q, Sound(q), NEW why
    PROVE  Sound(trigger(q, why)) /\ Keeps(q, trigger(q, why)) /\ HandsOn(q, trigger(q, why))
<1> DEFINE b == triggerBegin(q)
<1>1. Onward(q, b) /\ b.next \in {"nodes", "tx", "no further"}
  BY Begin, Zenon
<1> HIDE DEF b
<1> DEFINE s == throughState(b, why)
<1>2. Onward(q, s) /\ s.next # "nodes"
  <2>1. CASE b.next # "nodes"
    BY <1>1, <2>1, Zenon DEF throughState
  <2>2. CASE b.next = "nodes"
    <3> DEFINE a == b.acq
    <3>1. Sound(a) /\ Keeps(q, a) /\ HandsOn(q, a) /\ a.header
      BY <1>1, <2>2 DEF Onward
    <3> DEFINE d == getMissingState(a)
    <3>2. s = searchedState(d, why)
      BY <2>2 DEF throughState
    <3> HIDE DEF s, a
    <3>3. Sound(d) /\ Keeps(a, d) /\ HandsOn(a, d) /\ d.header
      BY <3>1, MissingState DEF Keeps
    <3> HIDE DEF d
    <3>4. Keeps(q, d) /\ HandsOn(q, d)
      BY <3>1, <3>3, KeepsOn
    <3> DEFINE g == triggerState(d, StateNodes \ d.state, why)
    <3>5. Onward(d, g) /\ g.next \in {"tx", "no further"}
      BY <3>3, State, Zenon
    <3>6. s = g
      BY <3>2 DEF searchedState
    <3> HIDE DEF g
    <3>7. Sound(g.acq) /\ Keeps(d, g.acq)
      BY <3>5, Zenon DEF Onward
    <3>8. Keeps(q, g.acq) /\ (HandsOn(d, g.acq) => HandsOn(q, g.acq))
      BY <3>3, <3>4, <3>7, KeepsOn
    <3> QED BY <3>5, <3>6, <3>8, Zenon DEF Onward
  <2> QED BY <2>1, <2>2
<1> HIDE DEF s
<1> DEFINE x == throughTx(s, why)
<1>3. Onward(q, x) /\ x.next # "tx" /\ x.next # "nodes"
  BY <1>2, ThroughTx
<1>4. trigger(q, why) = triggerEnd(x)
  BY DEF trigger, b, s
<1> HIDE DEF x
<1>5. CASE x.next = "end"
  <2>1. Sound(x.acq) /\ Keeps(q, x.acq)
    BY <1>3, Zenon DEF Onward
  <2>2. /\ Sound(doneIfOver(x.acq)) /\ Keeps(x.acq, doneIfOver(x.acq))
        /\ doneIfOver(x.acq).complete => doneIfOver(x.acq).announced > 0
    BY <2>1, DoneIfOver
  <2>3. Keeps(q, doneIfOver(x.acq))
    BY <2>1, <2>2, KeepsOn
  <2> QED BY <1>4, <1>5, <2>2, <2>3 DEF triggerEnd, HandsOn
<1>6. CASE x.next # "end"
  <2>1. x.next = "no further"
    BY <1>3, <1>6, Zenon DEF Onward
  <2> QED BY <1>3, <1>4, <1>6, <2>1, Zenon DEF triggerEnd, Onward
<1> QED BY <1>5, <1>6

-----------------------------------------------------------------------------
(* The timer.                                                              *)

\* The acquisition d is sound and nothing of q is undone; a complete ledger is handed on.
Follows(q, d) == Sound(d) /\ Keeps(q, d) /\ HandsOn(q, d)

LEMMA FollowsOn ==
    ASSUME NEW q, NEW d, NEW e, Sound(q), Follows(q, d), Follows(d, e)
    PROVE  Follows(q, e)
BY KeepsOn DEF Follows

LEMMA AddPeers ==
    ASSUME InboundAssumption, NEW q, Sound(q), NEW n \in 0 .. MaxNewPeers
    PROVE  Follows(q, addPeers(q, n))
<1> DEFINE d == [q EXCEPT !.peers = @ \/ n > 0]
<1>1. d \in Acquisitions
  BY Zenon DEF Sound, Acquisitions
<1>2. Truthful(d)
  BY DEF Sound, Acquisitions, Truthful
<1>3. Keeps(q, d) /\ HandsOn(q, d)
  BY DEF Sound, Acquisitions, Keeps, HandsOn
<1>4. addPeers(q, n) = newPeers(d, n)
  BY DEF addPeers
<1> HIDE DEF d
<1>5. Follows(q, d) /\ Sound(d)
  BY <1>1, <1>2, <1>3 DEF Follows, Sound
<1> DEFINE e == trigger(d, "added")
<1>6. Follows(d, e) /\ Sound(e)
  BY <1>5, Trigger DEF Follows
<1> HIDE DEF e
<1> DEFINE f == trigger(e, "added")
<1>7. Follows(e, f)
  BY <1>6, Trigger DEF Follows
<1> HIDE DEF f
<1>8. newPeers(d, n) \in {d, e, f}
  BY DEF newPeers, e, f
<1>9. Follows(q, e)
  BY <1>5, <1>6, FollowsOn
<1>10. Follows(q, f)
  BY <1>7, <1>9, FollowsOn
<1> QED BY <1>4, <1>5, <1>8, <1>9, <1>10

LEMMA AsksAgain ==
    ASSUME InboundAssumption, NEW q, Sound(q), NEW n \in 0 .. MaxNewPeers
    PROVE  Follows(q, asksAgain(q, n))
<1>1. CASE reason = "history"
  <2> DEFINE d == addPeers(q, n)
  <2>1. Follows(q, d) /\ Sound(d)
    BY AddPeers DEF Follows
  <2> HIDE DEF d
  <2>2. Follows(d, trigger(d, "timeout"))
    BY <2>1, Trigger DEF Follows
  <2>3. Follows(q, trigger(d, "timeout"))
    BY <2>1, <2>2, FollowsOn
  <2> QED BY <1>1, <2>3 DEF asksAgain, d
<1>2. CASE reason # "history"
  <2> DEFINE d == trigger(q, "timeout")
  <2>1. Follows(q, d) /\ Sound(d)
    BY Trigger DEF Follows
  <2> HIDE DEF d
  <2>2. Follows(d, addPeers(d, n))
    BY <2>1, AddPeers
  <2>3. Follows(q, addPeers(d, n))
    BY <2>1, <2>2, FollowsOn
  <2> QED BY <1>2, <2>3 DEF asksAgain, d
<1> QED BY <1>1, <1>2

\* onTimer: the acquisition fails, goes on, or asks again.
LEMMA TimedOut ==
    ASSUME InboundAssumption, NEW q, Sound(q), NEW wasProgress, NEW n \in 0 .. MaxNewPeers
    PROVE  Follows(q, timedOut(q, wasProgress, n))
<1>1. Follows(q, q)
  BY KeepsSame DEF Follows
<1>2. Follows(q, done([q EXCEPT !.failed = TRUE]))
  <2> DEFINE d == [q EXCEPT !.failed = TRUE]
  <2>1. d \in Acquisitions
    BY Zenon DEF Sound, Acquisitions
  <2>2. Truthful(d)
    BY DEF Sound, Acquisitions, Truthful
  <2>3. Keeps(q, d)
    BY DEF Sound, Acquisitions, Keeps
  <2> HIDE DEF d
  <2>4. Sound(d) /\ Sound(done(d)) /\ Keeps(d, done(d)) /\ done(d).announced > 0
    BY <2>1, <2>2, Done DEF Sound
  <2>5. Keeps(q, done(d))
    BY <2>3, <2>4, KeepsOn
  <2> QED BY <2>4, <2>5 DEF Follows, HandsOn, d
<1>3. Follows(q, asksAgain([checkLocal(q) EXCEPT !.byHash = TRUE], n))
  <2> DEFINE c == checkLocal(q)
  <2>1. Follows(q, c) /\ Sound(c)
    BY CheckLocal DEF Follows
  <2> HIDE DEF c
  <2> DEFINE d == [c EXCEPT !.byHash = TRUE]
  <2>2. d \in Acquisitions
    BY <2>1, Zenon DEF Sound, Acquisitions
  <2>3. Truthful(d)
    BY <2>1 DEF Sound, Acquisitions, Truthful
  <2>4. Keeps(c, d) /\ HandsOn(c, d)
    BY <2>1 DEF Sound, Acquisitions, Keeps, HandsOn
  <2> HIDE DEF d
  <2>5. Follows(c, d) /\ Sound(d)
    BY <2>2, <2>3, <2>4 DEF Follows, Sound
  <2>6. Follows(d, asksAgain(d, n))
    BY <2>5, AsksAgain
  <2>7. Follows(q, d)
    BY <2>1, <2>5, FollowsOn
  <2>8. Follows(q, asksAgain(d, n))
    BY <2>6, <2>7, FollowsOn
  <2> QED BY <2>8 DEF c, d
<1> QED BY <1>1, <1>2, <1>3 DEF timedOut

LEMMA InvokeOnTimer ==
    ASSUME InboundAssumption, Sound(acq), NEW n \in 0 .. MaxNewPeers
    PROVE  Follows(acq, invokeOnTimer(n))
<1>1. CASE isDone(acq)
  BY <1>1, KeepsSame DEF invokeOnTimer, Follows
<1>2. CASE ~isDone(acq)
  <2>0. PICK t \in Nat : t = IF acq.progress THEN acq.timeouts ELSE acq.timeouts + 1
    BY DEF Sound, Acquisitions
  <2> DEFINE p == [acq EXCEPT !.progress = FALSE, !.timeouts = t]
             d == [p EXCEPT !.recent = {}]
  <2>1. p \in Acquisitions
    BY <2>0, Zenon DEF Sound, Acquisitions
  <2>2. Truthful(p)
    BY DEF Sound, Acquisitions, Truthful
  <2>3. Keeps(acq, p) /\ HandsOn(acq, p)
    BY DEF Sound, Acquisitions, Keeps, HandsOn
  <2>4. invokeOnTimer(n) = timedOut(d, acq.progress, n)
    BY <1>2, <2>0 DEF invokeOnTimer, onAcquireTimer
  <2> HIDE DEF p
  <2>5. d \in Acquisitions
    BY <2>1 DEF Acquisitions
  <2>6. Truthful(d)
    BY <2>1, <2>2 DEF Acquisitions, Truthful
  <2>7. Keeps(p, d) /\ HandsOn(p, d)
    BY <2>1 DEF Acquisitions, Keeps, HandsOn
  <2> HIDE DEF d
  <2>8. Follows(acq, p) /\ Follows(p, d) /\ Sound(d)
    BY <2>1, <2>2, <2>3, <2>5, <2>6, <2>7 DEF Follows, Sound
  <2>9. Follows(d, timedOut(d, acq.progress, n))
    BY <2>8, TimedOut
  <2>10. Follows(acq, d)
    BY <2>8, FollowsOn
  <2>11. Follows(acq, timedOut(d, acq.progress, n))
    BY <2>9, <2>10, FollowsOn
  <2> QED BY <2>4, <2>11
<1> QED BY <1>1, <1>2

-----------------------------------------------------------------------------
(* Data from peers.                                                        *)

\* A packet that was useful is progress.
LEMMA TookIt ==
    ASSUME NEW q, Sound(q), NEW useful
    PROVE  Follows(q, Took(q, useful).acq)
<1>1. CASE useful
  <2> DEFINE d == [q EXCEPT !.progress = TRUE]
  <2>1. d \in Acquisitions
    BY Zenon DEF Sound, Acquisitions
  <2>2. Truthful(d)
    BY DEF Sound, Acquisitions, Truthful
  <2>3. Keeps(q, d) /\ HandsOn(q, d)
    BY DEF Sound, Acquisitions, Keeps, HandsOn
  <2>4. Took(q, useful).acq = d
    BY <1>1 DEF Took
  <2> HIDE DEF d
  <2> QED BY <2>1, <2>2, <2>3, <2>4 DEF Follows, Sound
<1>2. CASE ~useful
  <2>1. Took(q, useful).acq = q
    BY <1>2 DEF Took
  <2> QED BY <2>1, KeepsSame DEF Follows
<1> QED BY <1>1, <1>2

LEMMA TakeBase ==
    ASSUME InboundAssumption, NEW q, Sound(q), NEW p \in Packets
    PROVE  Follows(q, takeBase(q, p).acq)
<1>1. CASE takeBase(q, p) = Worthless(q)
  <2>1. takeBase(q, p).acq = q
    BY <1>1 DEF Worthless
  <2> QED BY <2>1, KeepsSame DEF Follows
<1>2. CASE takeBase(q, p) = tookBase(q, takeRoots(takeHeader(q), p.nodes))
  <2> DEFINE h == takeHeader(q)
  <2>1. h \in Acquisitions
    BY Zenon DEF takeHeader, Sound, Acquisitions
  <2>2. Truthful(h)
    BY DEF takeHeader, Sound, Acquisitions, Truthful
  <2>3. Keeps(q, h) /\ HandsOn(q, h)
    BY DEF takeHeader, Sound, Acquisitions, Keeps, HandsOn, Truthful
  <2> HIDE DEF h
  <2>4. Follows(q, h)
    BY <2>1, <2>2, <2>3 DEF Follows, Sound
  <2> DEFINE d == takeRoots(h, p.nodes)
  <2>5. d \in Acquisitions
    <3>1. PICK S \in SUBSET StateNodes :
             S = IF h.failed \/ h.haveState THEN h.state ELSE h.state \cup (p.nodes \cap StateNodes)
      BY <2>1, Zenon DEF Acquisitions
    <3>2. PICK T \in SUBSET TxNodes :
             T = IF h.failed \/ h.haveTx THEN h.tx ELSE h.tx \cup (p.nodes \cap TxNodes)
      BY <2>1, Zenon DEF Acquisitions
    <3>3. PICK x \in BOOLEAN, y \in BOOLEAN :
             /\ x = (h.stateSynching /\ StateNodes \ p.nodes # {})
             /\ y = (h.txSynching /\ TxNodes \ p.nodes # {})
      BY <2>1, Zenon DEF Acquisitions
    <3>4. d = [h EXCEPT !.state = S, !.tx = T, !.stateSynching = x, !.txSynching = y]
      BY <3>1, <3>2, <3>3 DEF takeRoots
    <3> HIDE DEF d
    <3> QED BY <2>1, <3>4, Zenon DEF Acquisitions
  <2>6. Truthful(d)
    BY <2>1, <2>2 DEF takeRoots, Acquisitions, Truthful
  <2>7. Keeps(h, d) /\ HandsOn(h, d)
    BY <2>1 DEF takeRoots, Acquisitions, Keeps, HandsOn
  <2> HIDE DEF d
  <2>8. Follows(h, d) /\ Sound(d)
    BY <2>5, <2>6, <2>7 DEF Follows, Sound
  <2>9. Follows(q, d)
    BY <2>4, <2>8, FollowsOn
  <2> DEFINE u == ~q.header \/ d.state # q.state \/ d.tx # q.tx
  <2>10. takeBase(q, p) = Took(d, u)
    BY <1>2 DEF tookBase, d, h
  <2> HIDE DEF u
  <2>11. Follows(d, Took(d, u).acq)
    BY <2>8, TookIt
  <2>12. Follows(q, Took(d, u).acq)
    BY <2>9, <2>11, FollowsOn
  <2> QED BY <2>10, <2>12
<1> QED BY <1>1, <1>2 DEF takeBase

\* A map that is no longer synching is there, and when both are the ledger is complete.
LEMMA CompletedIt ==
    ASSUME NEW q, Sound(q), q.header
    PROVE  Follows(q, Completed(q))
<1>1. CASE q.haveState /\ q.haveTx
  <2> DEFINE d == [q EXCEPT !.complete = TRUE]
  <2>1. d \in Acquisitions
    BY Zenon DEF Sound, Acquisitions
  <2>2. Truthful(d)
    BY <1>1 DEF Sound, Acquisitions, Truthful
  <2>3. Keeps(q, d)
    BY DEF Sound, Acquisitions, Keeps
  <2>4. Completed(q) = done(d)
    BY <1>1 DEF Completed
  <2> HIDE DEF d
  <2>5. Sound(d) /\ Sound(done(d)) /\ Keeps(d, done(d)) /\ done(d).announced > 0
    BY <2>1, <2>2, Done DEF Sound
  <2>6. Keeps(q, done(d))
    BY <2>3, <2>5, KeepsOn
  <2> QED BY <2>4, <2>5, <2>6 DEF Follows, HandsOn
<1>2. CASE ~(q.haveState /\ q.haveTx)
  BY <1>2, KeepsSame DEF Completed, Follows
<1> QED BY <1>1, <1>2

\* A map with other nodes is still an acquisition's.
LEMMA OtherMap ==
    ASSUME NEW q \in Acquisitions, NEW b \in BOOLEAN
    PROVE  /\ \A m \in SUBSET StateNodes : [q EXCEPT !.state = m, !.stateSynching = b] \in Acquisitions
           /\ \A m \in SUBSET TxNodes : [q EXCEPT !.tx = m, !.txSynching = b] \in Acquisitions
<1>1. ASSUME NEW m \in SUBSET StateNodes
      PROVE  [q EXCEPT !.state = m, !.stateSynching = b] \in Acquisitions
  BY Zenon DEF Acquisitions
<1>2. ASSUME NEW m \in SUBSET TxNodes
      PROVE  [q EXCEPT !.tx = m, !.txSynching = b] \in Acquisitions
  BY Zenon DEF Acquisitions
<1> QED BY <1>1, <1>2, Zenon

LEMMA TakeAsNode ==
    ASSUME InboundAssumption, NEW q, Sound(q), NEW new \in SUBSET StateNodes
    PROVE  Follows(q, takeAsNode(q, new).acq)
<1>1. CASE ~q.header \/ q.haveState \/ q.failed \/ StateRoot \notin q.state \cup new
  <2>1. takeAsNode(q, new) = Took(q, FALSE)
    BY <1>1, Zenon DEF takeAsNode
  <2> QED BY <2>1, TookIt, Zenon
<1>2. CASE ~(~q.header \/ q.haveState \/ q.failed \/ StateRoot \notin q.state \cup new)
  <2> DEFINE s == [q EXCEPT !.state = @ \cup (new \cap {StateRoot})
                                        \cup IF q.stateSynching THEN new ELSE {},
                            !.stateSynching = @ /\ StateNodes # {StateRoot}]
  <2>0. /\ q \in Acquisitions /\ (q.stateSynching /\ StateNodes # {StateRoot}) \in BOOLEAN
        /\ (q.state \cup (new \cap {StateRoot}) \cup IF q.stateSynching THEN new ELSE {}) \in SUBSET StateNodes
    BY DEF Sound, Acquisitions
  <2>1. s \in Acquisitions
    BY <2>0, OtherMap, Zenon
  <2>2. Truthful(s) /\ s.header /\ ~s.failed
    BY <1>2 DEF Sound, Acquisitions, Truthful, InboundAssumption
  <2>3. Keeps(q, s) /\ HandsOn(q, s)
    BY DEF Sound, Acquisitions, Keeps, HandsOn
  <2>4. takeAsNode(q, new) = tookState(q, s)
    BY <1>2 DEF takeAsNode
  <2> HIDE DEF s
  <2>5. Follows(q, s) /\ Sound(s)
    BY <2>1, <2>2, <2>3 DEF Follows, Sound
  <2> DEFINE d == [s EXCEPT !.haveState = TRUE]
             e == IF s.stateSynching THEN s ELSE Completed(d)
  <2>6. Follows(s, e)
    <3>1. CASE s.stateSynching
      BY <2>5, <3>1, KeepsSame DEF Follows
    <3>2. CASE ~s.stateSynching
      <4>1. d \in Acquisitions /\ d.header
        BY <2>1, <2>2, Zenon DEF Acquisitions
      <4>2. Truthful(d)
        BY <2>1, <2>2, <3>2 DEF Acquisitions, Truthful
      <4>3. Keeps(s, d) /\ HandsOn(s, d)
        BY <2>1 DEF Acquisitions, Keeps, HandsOn
      <4> HIDE DEF d
      <4>4. Follows(s, d) /\ Sound(d) /\ d.header
        BY <4>1, <4>2, <4>3 DEF Follows, Sound
      <4>5. Follows(d, Completed(d))
        BY <4>4, CompletedIt
      <4>6. Follows(s, Completed(d))
        BY <2>5, <4>4, <4>5, FollowsOn
      <4> QED BY <3>2, <4>6
    <3> QED BY <3>1, <3>2
  <2> DEFINE u == s.state # q.state
  <2>7. tookState(q, s) = Took(e, u)
    BY DEF tookState
  <2> HIDE DEF e, u
  <2>8. Follows(q, e) /\ Sound(e)
    BY <2>5, <2>6, FollowsOn DEF Follows
  <2>9. Follows(e, Took(e, u).acq)
    BY <2>8, TookIt
  <2>10. Follows(q, Took(e, u).acq)
    BY <2>8, <2>9, FollowsOn
  <2> QED BY <2>4, <2>7, <2>10
<1> QED BY <1>1, <1>2

LEMMA TakeTxNode ==
    ASSUME InboundAssumption, NEW q, Sound(q), NEW new \in SUBSET TxNodes
    PROVE  Follows(q, takeTxNode(q, new).acq)
<1>1. CASE ~q.header \/ q.haveTx \/ q.failed \/ TxRoot \notin q.tx \cup new
  <2>1. takeTxNode(q, new) = Took(q, FALSE)
    BY <1>1, Zenon DEF takeTxNode
  <2> QED BY <2>1, TookIt, Zenon
<1>2. CASE ~(~q.header \/ q.haveTx \/ q.failed \/ TxRoot \notin q.tx \cup new)
  <2> DEFINE s == [q EXCEPT !.tx = @ \cup (new \cap {TxRoot})
                                     \cup IF q.txSynching THEN new ELSE {},
                            !.txSynching = @ /\ TxNodes # {TxRoot}]
  <2>0. /\ q \in Acquisitions /\ (q.txSynching /\ TxNodes # {TxRoot}) \in BOOLEAN
        /\ (q.tx \cup (new \cap {TxRoot}) \cup IF q.txSynching THEN new ELSE {}) \in SUBSET TxNodes
    BY DEF Sound, Acquisitions
  <2>1. s \in Acquisitions
    BY <2>0, OtherMap, Zenon
  <2>2. Truthful(s) /\ s.header /\ ~s.failed
    BY <1>2 DEF Sound, Acquisitions, Truthful, InboundAssumption
  <2>3. Keeps(q, s) /\ HandsOn(q, s)
    BY DEF Sound, Acquisitions, Keeps, HandsOn
  <2>4. takeTxNode(q, new) = tookTx(q, s)
    BY <1>2 DEF takeTxNode
  <2> HIDE DEF s
  <2>5. Follows(q, s) /\ Sound(s)
    BY <2>1, <2>2, <2>3 DEF Follows, Sound
  <2> DEFINE d == [s EXCEPT !.haveTx = TRUE]
             e == IF s.txSynching THEN s ELSE Completed(d)
  <2>6. Follows(s, e)
    <3>1. CASE s.txSynching
      BY <2>5, <3>1, KeepsSame DEF Follows
    <3>2. CASE ~s.txSynching
      <4>1. d \in Acquisitions /\ d.header
        BY <2>1, <2>2, Zenon DEF Acquisitions
      <4>2. Truthful(d)
        BY <2>1, <2>2, <3>2 DEF Acquisitions, Truthful
      <4>3. Keeps(s, d) /\ HandsOn(s, d)
        BY <2>1 DEF Acquisitions, Keeps, HandsOn
      <4> HIDE DEF d
      <4>4. Follows(s, d) /\ Sound(d) /\ d.header
        BY <4>1, <4>2, <4>3 DEF Follows, Sound
      <4>5. Follows(d, Completed(d))
        BY <4>4, CompletedIt
      <4>6. Follows(s, Completed(d))
        BY <2>5, <4>4, <4>5, FollowsOn
      <4> QED BY <3>2, <4>6
    <3> QED BY <3>1, <3>2
  <2> DEFINE u == s.tx # q.tx
  <2>7. tookTx(q, s) = Took(e, u)
    BY DEF tookTx
  <2> HIDE DEF e, u
  <2>8. Follows(q, e) /\ Sound(e)
    BY <2>5, <2>6, FollowsOn DEF Follows
  <2>9. Follows(e, Took(e, u).acq)
    BY <2>8, TookIt
  <2>10. Follows(q, Took(e, u).acq)
    BY <2>8, <2>9, FollowsOn
  <2> QED BY <2>4, <2>7, <2>10
<1> QED BY <1>1, <1>2

LEMMA ProcessData ==
    ASSUME InboundAssumption, NEW q, Sound(q), NEW p \in Packets
    PROVE  Follows(q, processData(q, p).acq)
<1>1. CASE p.type = "base"
  BY <1>1, TakeBase DEF processData
<1>2. CASE p.type # "base" /\ p.nodes = {}
  <2>1. processData(q, p).acq = q
    BY <1>2 DEF processData, Worthless
  <2> QED BY <2>1, KeepsSame DEF Follows
<1>3. CASE p.type = "as" /\ p.nodes # {}
  <2>1. p.nodes \in SUBSET StateNodes
    BY <1>3, Zenon DEF Packets
  <2> QED BY <1>3, <2>1, TakeAsNode DEF processData
<1>4. CASE p.type = "tx" /\ p.nodes # {}
  <2>1. p.nodes \in SUBSET TxNodes
    BY <1>4, Zenon DEF Packets
  <2> QED BY <1>4, <2>1, TakeTxNode DEF processData
<1>5. p.type \in {"base", "as", "tx"}
  BY Zenon DEF Packets
<1> QED BY <1>1, <1>2, <1>3, <1>4, <1>5

-----------------------------------------------------------------------------
(* The invariant.                                                          *)

Places == {"idle", "take", "process", "trigger", "search", "searched", "done", "signal"}

Typed ==
    /\ Sound(acq)
    /\ mTimer \in {"new", "none", "set", "job"}
    /\ dataJobs \in Nat /\ mReceivedData \in Seq(Packets)
    /\ runnerAt \in [Runners -> Places] /\ nodes \in [Runners -> SUBSET StateNodes]
    /\ batch \in [Runners -> Seq(Packets)] /\ chosen \in [Runners -> BOOLEAN]

\* init is the first to touch the acquisition; a job posted earlier finds no data.
Fresh ==
    mTimer = "new" => /\ ~acq.failed /\ mReceivedData = <<>>
                      /\ \A r \in Runners : runnerAt[r] \in {"idle", "take"} /\ ~chosen[r]

\* A thread that processes has a packet.  One that searches, or has searched, does it for
\* a header; what was missing then includes what is missing now.
Searching ==
    \A r \in Runners :
        /\ runnerAt[r] = "process" => batch[r] # <<>>
        /\ runnerAt[r] \in {"search", "searched"} => acq.header
        /\ runnerAt[r] = "searched" => StateNodes \ acq.state \subseteq nodes[r]

\* mReceiveDispatched is set while there is data, and while it is set there is a job.
Taken == dataJobs > 0 \/ \E r \in Runners : runnerAt[r] \in {"take", "process"}
Dispatched ==
    /\ mReceivedData # <<>> => mReceiveDispatched
    /\ found /\ mReceiveDispatched => Taken

InboundInv ==
    /\ Typed /\ Fresh /\ Searching /\ Dispatched
    /\ TimerKeepsOn /\ CompleteIsHandedOn

\* What trigger does of runData: a complete ledger leads to done.
LEMMA GoesOn ==
    ASSUME Sound(acq), runnerAt \in [Runners -> Places], NEW r \in Runners, NEW g, Onward(acq, g),
           goesOn(r, g)
    PROVE  /\ Sound(acq') /\ Keeps(acq, acq')
           /\ runnerAt' \in [Runners -> Places] /\ \A v \in Runners : v # r => runnerAt'[v] = runnerAt[v]
           /\ runnerAt'[r] \in {"search", "done", "idle"}
           /\ runnerAt'[r] = "search" => acq'.header
           /\ HandsOn(acq, acq') \/ runnerAt'[r] = "done"
<1>1. PICK x \in {throughTx(g, "reply")} :
         /\ acq' = x.acq
         /\ runnerAt' = [runnerAt EXCEPT ![r] = IF x.next = "nodes" THEN "search"
                                    ELSE IF x.next = "end" /\ isDone(x.acq) THEN "done" ELSE "idle"]
  BY DEF goesOn
<1>2. Onward(acq, x) /\ x.next # "tx"
  BY <1>1, ThroughTx
<1>3. Sound(acq') /\ Keeps(acq, acq')
  BY <1>1, <1>2, Zenon DEF Onward
<1>4. /\ runnerAt' \in [Runners -> Places] /\ \A v \in Runners : v # r => runnerAt'[v] = runnerAt[v]
      /\ runnerAt'[r] = IF x.next = "nodes" THEN "search"
                  ELSE IF x.next = "end" /\ isDone(x.acq) THEN "done" ELSE "idle"
  BY <1>1 DEF Places
<1>5. runnerAt'[r] = "search" => acq'.header
  BY <1>1, <1>2, <1>4, Zenon DEF Onward
<1>6. HandsOn(acq, acq') \/ runnerAt'[r] = "done"
  <2>1. CASE x.next \in {"nodes", "no further"}
    BY <1>1, <1>2, <2>1, Zenon DEF Onward
  <2>2. CASE x.next = "end" /\ ~x.acq.complete
    BY <1>1, <2>2 DEF HandsOn
  <2>3. CASE x.next = "end" /\ x.acq.complete
    BY <1>4, <2>3 DEF isDone
  <2> QED BY <1>2, <2>1, <2>2, <2>3, Zenon DEF Onward
<1> QED BY <1>3, <1>4, <1>5, <1>6

\* One step changes the acquisition as the operators do.
Advances ==
    /\ Sound(acq') /\ Keeps(acq, acq')
    /\ HandsOn(acq, acq') \/ \E r \in Runners : runnerAt'[r] = "done"

LEMMA SameAdvances == ASSUME Sound(acq), acq' = acq PROVE Advances
BY KeepsSame DEF Advances

LEMMA FollowsAdvances == ASSUME Follows(acq, acq') PROVE Advances
BY DEF Follows, Advances

LEMMA InitAdvances == ASSUME InboundAssumption, InboundInv, init PROVE Advances
<1>0. Sound(acq)
  BY DEF InboundInv, Typed
<1>1. PICK d \in {tryDB(acq)} :
          IF d.failed THEN acq' = d /\ mTimer' = "none"
          ELSE IF d.complete THEN acq' = [d EXCEPT !.announced = @ + 1] /\ mTimer' = "none"
          ELSE execute /\ \E n \in 0 .. MaxNewPeers : acq' = addPeers(d, n)
  BY DEF init
<1>2. Sound(d) /\ Keeps(acq, d)
  BY <1>0, <1>1, TryDB
<1>3. CASE d.failed
  <2>1. acq' = d /\ HandsOn(acq, d)
    <3>1. ~acq.failed
      BY DEF init, InboundInv, Fresh
    <3> QED BY <1>0, <1>1, <1>3, <3>1, TryDB
  <2> QED BY <1>2, <2>1 DEF Advances
<1>4. CASE ~d.failed /\ d.complete
  <2> DEFINE e == [d EXCEPT !.announced = @ + 1]
  <2>0. d \in Acquisitions /\ d.announced + 1 \in Nat /\ d.announced + 1 > 0
    BY <1>2 DEF Sound, Acquisitions
  <2>1. e \in Acquisitions /\ e.announced > 0
    BY <2>0 DEF Acquisitions
  <2>2. Truthful(e)
    BY <1>2, <2>0 DEF Sound, Acquisitions, Truthful
  <2>3. Keeps(d, e)
    BY <2>0 DEF Acquisitions, Keeps
  <2>4. acq' = e
    BY <1>1, <1>4
  <2> HIDE DEF e
  <2>5. Keeps(acq, e)
    BY <1>0, <1>2, <2>1, <2>2, <2>3, KeepsOn DEF Sound
  <2> QED BY <2>1, <2>2, <2>4, <2>5 DEF Advances, Sound, HandsOn
<1>5. CASE ~d.failed /\ ~d.complete
  <2>1. PICK n \in 0 .. MaxNewPeers : acq' = addPeers(d, n)
    BY <1>1, <1>5
  <2>2. Follows(d, acq')
    BY <1>2, <2>1, AddPeers
  <2>3. HandsOn(acq, d)
    BY <1>5 DEF HandsOn
  <2>4. Keeps(acq, acq') /\ HandsOn(acq, acq')
    BY <1>0, <1>2, <2>2, <2>3, KeepsOn DEF Follows
  <2> QED BY <2>2, <2>4 DEF Advances, Follows
<1> QED BY <1>3, <1>4, <1>5

LEMMA RunDataAdvances ==
    ASSUME InboundAssumption, InboundInv, NEW r \in Runners, runData(r)
    PROVE  Advances
<1> USE DEF InboundInv, Typed
<1>1. CASE take(r) \/ testSignaled(r)
  <2>1. acq' = acq
    BY <1>1 DEF take, testSignaled
  <2> QED BY <2>1, SameAdvances
<1>2. CASE process(r)
  <2>1. CASE acq' = acq
    BY <2>1, SameAdvances
  <2>2. CASE acq' = processData(acq, Head(batch[r])).acq
    <3>1. batch[r] \in Seq(Packets) /\ batch[r] # <<>>
      BY <1>2 DEF process, Searching
    <3>2. PICK p \in Packets : p = Head(batch[r])
      BY <3>1
    <3>3. Follows(acq, acq')
      BY <2>2, <3>2, ProcessData
    <3> QED BY <3>3, FollowsAdvances
  <2> QED BY <1>2, <2>1, <2>2 DEF process
<1>3. CASE beginTrigger(r)
  <2> DEFINE g == triggerBegin(acq)
  <2>1. Onward(acq, g) /\ goesOn(r, g)
    BY <1>3, Begin, Zenon DEF beginTrigger
  <2> HIDE DEF g
  <2> QED BY <2>1, GoesOn DEF Advances
<1>4. CASE search(r)
  <2>1. acq' = getMissingState(acq)
    BY <1>4 DEF search
  <2>2. Follows(acq, acq')
    BY <2>1, MissingState DEF Follows
  <2> QED BY <2>2, FollowsAdvances
<1>5. CASE resume(r)
  <2>1. PICK m \in SUBSET StateNodes : m = nodes[r]
    OBVIOUS
  <2> DEFINE g == triggerState(acq, m, "reply")
  <2>2. goesOn(r, g)
    BY <1>5, <2>1 DEF resume
  <2>3. acq.header /\ StateNodes \ acq.state \subseteq m
    BY <1>5, <2>1 DEF resume, Searching
  <2>4. Onward(acq, g)
    BY <2>3, State, Zenon
  <2> HIDE DEF g
  <2> QED BY <2>2, <2>4, GoesOn DEF Advances
<1>6. CASE signal(r)
  <2>1. acq' = doneNow(acq)
    BY <1>6 DEF signal
  <2> QED BY <2>1, DoneNow DEF Advances, HandsOn
<1> QED BY <1>1, <1>2, <1>3, <1>4, <1>5, <1>6 DEF runData

\* Whatever step is taken, the acquisition stays sound and nothing of it is undone.
LEMMA StepAdvances ==
    ASSUME InboundAssumption, InboundInv, [InboundNext]_inboundVars
    PROVE  Advances
<1>0. Sound(acq)
  BY DEF InboundInv, Typed
<1>1. CASE init
  BY <1>1, InitAdvances
<1>2. CASE runTimer
  <2>1. PICK n \in 0 .. MaxNewPeers : acq' = invokeOnTimer(n)
    BY <1>2 DEF runTimer
  <2>2. Follows(acq, acq')
    BY <1>0, <2>1, InvokeOnTimer
  <2> QED BY <2>2, FollowsAdvances
<1>3. CASE gotFetchPack
  <2>1. acq' = checkLocal(acq)
    BY <1>3 DEF gotFetchPack
  <2>2. Follows(acq, acq')
    BY <1>0, <2>1, CheckLocal DEF Follows
  <2> QED BY <2>2, FollowsAdvances
<1>4. CASE \E r \in Runners : runData(r)
  BY <1>4, RunDataAdvances
<1>5. CASE \/ fire \/ sweep \/ staleJob \/ UNCHANGED inboundVars
           \/ \E n \in {Header} \cup StateNodes \cup TxNodes : addFetchPack(n)
           \/ \E p \in Packets : gotLedgerData(p)
           \/ \E r \in Runners : doLedgerData(r)
  <2>1. acq' = acq
    BY <1>5 DEF fire, sweep, staleJob, inboundVars, addFetchPack, gotLedgerData, doLedgerData
  <2> QED BY <1>0, <2>1, SameAdvances
<1> QED BY <1>1, <1>2, <1>3, <1>4, <1>5 DEF InboundNext

\* The threads, one place at a time.
LEMMA TypedStep ==
    ASSUME InboundAssumption, InboundInv, [InboundNext]_inboundVars
    PROVE  Typed'
<1> USE DEF InboundInv, Typed
<1>0. Sound(acq')
  BY StepAdvances DEF Advances
<1>1. CASE init \/ fire \/ runTimer \/ sweep \/ gotFetchPack \/ UNCHANGED inboundVars
           \/ \E n \in {Header} \cup StateNodes \cup TxNodes : addFetchPack(n)
  <2>1. /\ dataJobs' = dataJobs /\ mReceivedData' = mReceivedData /\ runnerAt' = runnerAt
        /\ nodes' = nodes /\ batch' = batch /\ chosen' = chosen
    BY <1>1 DEF init, fire, runTimer, sweep, gotFetchPack, addFetchPack, inboundVars, jobVars
  <2>2. mTimer' \in {"new", "none", "set", "job"}
    BY <1>1 DEF init, fire, runTimer, sweep, gotFetchPack, addFetchPack, inboundVars, execute
  <2> QED BY <1>0, <2>1, <2>2
<1>2. CASE staleJob
  BY <1>0, <1>2 DEF staleJob
<1>3. ASSUME NEW p \in Packets, gotLedgerData(p) PROVE Typed'
  <2>1. mReceivedData' \in Seq(Packets) /\ dataJobs' \in Nat
    BY <1>3 DEF gotLedgerData
  <2> QED BY <1>0, <1>3, <2>1 DEF gotLedgerData
<1>4. ASSUME NEW r \in Runners, doLedgerData(r) PROVE Typed'
  <2>1. dataJobs' \in Nat
    BY <1>4 DEF doLedgerData
  <2>2. runnerAt' \in [Runners -> Places] /\ chosen' \in [Runners -> BOOLEAN]
    BY <1>4 DEF doLedgerData, Places
  <2> QED BY <1>0, <1>4, <2>1, <2>2 DEF doLedgerData, runVars
<1>5. ASSUME NEW r \in Runners, take(r) PROVE Typed'
  <2>1. runnerAt' \in [Runners -> Places]
    BY <1>5 DEF take, Places
  <2>2. batch' \in [Runners -> Seq(Packets)] /\ mReceivedData' \in Seq(Packets)
    BY <1>5 DEF take
  <2> QED BY <1>0, <1>5, <2>1, <2>2 DEF take, runVars
<1>6. ASSUME NEW r \in Runners, process(r) PROVE Typed'
  <2>1. batch[r] \in Seq(Packets) /\ batch[r] # <<>>
    BY <1>6 DEF process, Searching
  <2>2. Tail(batch[r]) \in Seq(Packets)
    BY <2>1
  <2>3. batch' \in [Runners -> Seq(Packets)]
    BY <1>6, <2>2 DEF process
  <2>4. runnerAt' \in [Runners -> Places]
    BY <1>6 DEF process, Places
  <2>5. chosen' \in [Runners -> BOOLEAN]
    BY <1>6, Zenon DEF process
  <2> QED BY <1>0, <1>6, <2>3, <2>4, <2>5 DEF process, runVars, receivedVars
<1>7. ASSUME NEW r \in Runners, beginTrigger(r) \/ resume(r) PROVE Typed'
  <2>1. runnerAt' \in [Runners -> Places]
    BY <1>7, Zenon DEF beginTrigger, resume, goesOn, Places
  <2>2. nodes' \in [Runners -> SUBSET StateNodes]
    BY <1>7, Zenon DEF beginTrigger, resume
  <2> QED BY <1>0, <1>7, <2>1, <2>2 DEF beginTrigger, resume, runVars, receivedVars
<1>8. ASSUME NEW r \in Runners, search(r) PROVE Typed'
  <2>1. runnerAt' \in [Runners -> Places]
    BY <1>8 DEF search, Places
  <2>2. nodes' \in [Runners -> SUBSET StateNodes]
    BY <1>8 DEF search
  <2> QED BY <1>0, <1>8, <2>1, <2>2, Zenon DEF search, runVars, receivedVars
<1>9. ASSUME NEW r \in Runners, testSignaled(r) \/ signal(r) PROVE Typed'
  <2>1. runnerAt' \in [Runners -> Places]
    BY <1>9 DEF testSignaled, signal, Places
  <2> QED BY <1>0, <1>9, <2>1 DEF testSignaled, signal, runVars, receivedVars
<1> QED BY <1>1, <1>2, <1>3, <1>4, <1>5, <1>6, <1>7, <1>8, <1>9 DEF InboundNext, runData

LEMMA TimerAlone ==
    ASSUME [InboundNext]_inboundVars, ~init, ~fire, ~runTimer
    PROVE  mTimer' = mTimer /\ (found' => found)
<1>1. ASSUME NEW r \in Runners, doLedgerData(r) \/ runData(r)
      PROVE  mTimer' = mTimer /\ found' = found
  <2>1. UNCHANGED runVars
    BY <1>1 DEF doLedgerData, runData, take, process, beginTrigger, search, resume,
                testSignaled, signal
  <2> QED BY <2>1 DEF runVars
<1>2. ASSUME NEW p \in Packets, gotLedgerData(p) PROVE mTimer' = mTimer /\ found' = found
  BY <1>2 DEF gotLedgerData
<1>3. ASSUME NEW n, addFetchPack(n) PROVE mTimer' = mTimer /\ found' = found
  BY <1>3 DEF addFetchPack
<1>4. CASE sweep
  BY <1>4 DEF sweep
<1>5. CASE gotFetchPack \/ staleJob \/ UNCHANGED inboundVars
  BY <1>5 DEF gotFetchPack, staleJob, inboundVars
<1> QED BY <1>1, <1>2, <1>3, <1>4, <1>5 DEF InboundNext

LEMMA FreshStep ==
    ASSUME InboundAssumption, InboundInv, [InboundNext]_inboundVars
    PROVE  Fresh'
<1> USE DEF InboundInv, Typed
<1> SUFFICES ASSUME mTimer' = "new"
             PROVE  /\ ~acq'.failed /\ mReceivedData' = <<>>
                    /\ \A v \in Runners : runnerAt'[v] \in {"idle", "take"} /\ ~chosen'[v]
  BY DEF Fresh
<1>1. mTimer = "new"
  <2>1. CASE init
    BY <2>1 DEF init
  <2>2. CASE fire
    BY <2>2 DEF fire, execute
  <2>3. CASE runTimer
    BY <2>3 DEF runTimer
  <2>4. CASE ~(init \/ fire \/ runTimer)
    BY <2>4, TimerAlone
  <2> QED BY <2>1, <2>2, <2>3, <2>4
<1>2. /\ ~acq.failed /\ mReceivedData = <<>>
      /\ \A v \in Runners : runnerAt[v] \in {"idle", "take"} /\ ~chosen[v]
  BY <1>1 DEF Fresh
<1>3. ~init /\ ~fire /\ ~runTimer /\ ~gotFetchPack /\ \A p \in Packets : ~gotLedgerData(p)
  <2>1. ~init
    <3> SUFFICES ASSUME init PROVE FALSE
      OBVIOUS
    <3> QED BY DEF init, execute
  <2> QED BY <1>1, <2>1 DEF fire, runTimer, gotFetchPack, gotLedgerData
<1>4. CASE \/ sweep \/ staleJob \/ UNCHANGED inboundVars
           \/ \E n \in {Header} \cup StateNodes \cup TxNodes : addFetchPack(n)
  <2>1. acq' = acq /\ mReceivedData' = mReceivedData /\ runnerAt' = runnerAt /\ chosen' = chosen
    BY <1>4 DEF sweep, staleJob, addFetchPack, inboundVars, jobVars
  <2> QED BY <1>2, <2>1
<1>5. ASSUME NEW r \in Runners, doLedgerData(r)
      PROVE  /\ ~acq'.failed /\ mReceivedData' = <<>>
             /\ \A v \in Runners : runnerAt'[v] \in {"idle", "take"} /\ ~chosen'[v]
  <2>1. /\ acq' = acq /\ mReceivedData' = mReceivedData
        /\ runnerAt' = [runnerAt EXCEPT ![r] = IF found THEN "take" ELSE "idle"]
        /\ chosen' = [chosen EXCEPT ![r] = FALSE]
    BY <1>5 DEF doLedgerData
  <2> QED BY <1>2, <2>1
<1>6. ASSUME NEW r \in Runners, runData(r)
      PROVE  /\ ~acq'.failed /\ mReceivedData' = <<>>
             /\ \A v \in Runners : runnerAt'[v] \in {"idle", "take"} /\ ~chosen'[v]
  <2>1. take(r)
    BY <1>2, <1>6, Zenon DEF runData, process, beginTrigger, search, resume, testSignaled, signal
  <2>2. /\ acq' = acq /\ mReceivedData' = <<>> /\ chosen' = chosen
        /\ runnerAt' = [runnerAt EXCEPT ![r] = "idle"]
    BY <1>2, <2>1, Zenon DEF take
  <2> QED BY <1>2, <2>2
<1> QED BY <1>3, <1>4, <1>5, <1>6 DEF InboundNext

\* What was missing when a thread searched includes what is missing now.
LEMMA SearchingStep ==
    ASSUME InboundAssumption, InboundInv, [InboundNext]_inboundVars
    PROVE  Searching'
<1> USE DEF InboundInv, Typed
<1>0. Keeps(acq, acq') /\ Sound(acq')
  BY StepAdvances DEF Advances
<1>k. (acq.header => acq'.header) /\ acq.state \subseteq acq'.state
  BY <1>0 DEF Keeps
<1>a. ASSUME runnerAt' = runnerAt, nodes' = nodes, batch' = batch PROVE Searching'
  BY <1>k, <1>a DEF Searching
<1>1. CASE \/ init \/ fire \/ runTimer \/ sweep \/ gotFetchPack \/ staleJob \/ UNCHANGED inboundVars
           \/ \E n \in {Header} \cup StateNodes \cup TxNodes : addFetchPack(n)
           \/ \E p \in Packets : gotLedgerData(p)
  <2>1. runnerAt' = runnerAt /\ nodes' = nodes /\ batch' = batch
    BY <1>1 DEF init, fire, runTimer, sweep, gotFetchPack, staleJob, addFetchPack,
                gotLedgerData, inboundVars, jobVars
  <2> QED BY <1>a, <2>1
\* The others stay where they are.
<1>b. ASSUME NEW r \in Runners, \A v \in Runners : v # r => runnerAt'[v] = runnerAt[v],
             \A v \in Runners : v # r => nodes'[v] = nodes[v] /\ batch'[v] = batch[v],
             runnerAt'[r] = "process" => batch'[r] # <<>>,
             runnerAt'[r] \in {"search", "searched"} => acq'.header,
             runnerAt'[r] = "searched" => StateNodes \ acq'.state \subseteq nodes'[r]
      PROVE  Searching'
  BY <1>k, <1>b, Zenon DEF Searching
<1>2. ASSUME NEW r \in Runners, doLedgerData(r) PROVE Searching'
  <2>1. /\ nodes' = nodes /\ batch' = batch /\ runnerAt'[r] \in {"take", "idle"}
        /\ \A v \in Runners : v # r => runnerAt'[v] = runnerAt[v]
    BY <1>2 DEF doLedgerData
  <2> QED BY <1>b, <2>1, Zenon
<1>3. ASSUME NEW r \in Runners, take(r) PROVE Searching'
  <2>1. /\ nodes' = nodes /\ batch'[r] = mReceivedData
        /\ runnerAt'[r] = IF mReceivedData # <<>> THEN "process" ELSE IF chosen[r] THEN "trigger" ELSE "idle"
        /\ \A v \in Runners : v # r => runnerAt'[v] = runnerAt[v] /\ batch'[v] = batch[v]
    BY <1>3 DEF take
  <2> QED BY <1>b, <2>1
<1>4. ASSUME NEW r \in Runners, process(r) PROVE Searching'
  <2>1. batch[r] \in Seq(Packets) /\ batch[r] # <<>>
    BY <1>4 DEF process, Searching
  <2>2. Len(batch[r]) # 1 => Tail(batch[r]) # <<>>
    <3>1. Len(Tail(batch[r])) = Len(batch[r]) - 1 /\ Tail(batch[r]) \in Seq(Packets)
      BY <2>1, HeadTailProperties
    <3>2. Len(batch[r]) \in Nat
      BY <2>1
    <3>3. Len(<<>>) = 0
      OBVIOUS
    <3>4. Tail(batch[r]) = <<>> => Len(batch[r]) - 1 = 0
      BY <3>1, <3>3, Zenon
    <3>5. Len(batch[r]) - 1 = 0 => Len(batch[r]) = 1
      BY <3>2
    <3> QED BY <3>4, <3>5, Zenon
  <2>3. /\ nodes' = nodes /\ batch'[r] = Tail(batch[r])
        /\ runnerAt'[r] = IF Len(batch[r]) = 1 THEN "take" ELSE "process"
        /\ \A v \in Runners : v # r => runnerAt'[v] = runnerAt[v] /\ batch'[v] = batch[v]
    BY <1>4 DEF process
  <2> QED BY <1>b, <2>2, <2>3, Zenon
<1>5. ASSUME NEW r \in Runners, beginTrigger(r) PROVE Searching'
  <2> DEFINE g == triggerBegin(acq)
  <2>1. Onward(acq, g) /\ goesOn(r, g) /\ nodes' = nodes /\ batch' = batch
    BY <1>5, Begin, Zenon DEF beginTrigger
  <2> HIDE DEF g
  <2>2. /\ \A v \in Runners : v # r => runnerAt'[v] = runnerAt[v]
        /\ runnerAt'[r] \in {"search", "done", "idle"} /\ (runnerAt'[r] = "search" => acq'.header)
    BY <2>1, GoesOn
  <2> QED BY <1>b, <2>1, <2>2
<1>6. ASSUME NEW r \in Runners, search(r) PROVE Searching'
  <2>1. /\ batch' = batch /\ nodes'[r] = StateNodes \ acq'.state /\ runnerAt'[r] = "searched"
        /\ \A v \in Runners : v # r => runnerAt'[v] = runnerAt[v] /\ nodes'[v] = nodes[v]
    BY <1>6 DEF search
  <2>2. acq'.header
    BY <1>6, <1>k DEF search, Searching
  <2> QED BY <1>b, <2>1, <2>2
<1>7. ASSUME NEW r \in Runners, resume(r) PROVE Searching'
  <2>1. PICK m \in SUBSET StateNodes : m = nodes[r]
    OBVIOUS
  <2> DEFINE g == triggerState(acq, m, "reply")
  <2>2. goesOn(r, g) /\ batch' = batch /\ \A v \in Runners : v # r => nodes'[v] = nodes[v]
    BY <1>7, <2>1 DEF resume
  <2>3. acq.header /\ StateNodes \ acq.state \subseteq m
    BY <1>7, <2>1 DEF resume, Searching
  <2>4. Onward(acq, g)
    BY <2>3, State, Zenon
  <2> HIDE DEF g
  <2>5. /\ \A v \in Runners : v # r => runnerAt'[v] = runnerAt[v]
        /\ runnerAt'[r] \in {"search", "done", "idle"} /\ (runnerAt'[r] = "search" => acq'.header)
    BY <2>2, <2>4, GoesOn
  <2> QED BY <1>b, <2>2, <2>5
<1>8. ASSUME NEW r \in Runners, testSignaled(r) \/ signal(r) PROVE Searching'
  <2>1. /\ nodes' = nodes /\ batch' = batch /\ runnerAt'[r] \in {"idle", "signal"}
        /\ \A v \in Runners : v # r => runnerAt'[v] = runnerAt[v]
    BY <1>8 DEF testSignaled, signal
  <2> QED BY <1>b, <2>1, Zenon
<1> QED BY <1>1, <1>2, <1>3, <1>4, <1>5, <1>6, <1>7, <1>8 DEF InboundNext, runData

\* Data that was put aside has a thread that takes it: the flag is cleared only where
\* nothing is left, and a job that is taken back to take leaves none behind.
LEMMA DispatchedStep ==
    ASSUME InboundAssumption, InboundInv, [InboundNext]_inboundVars
    PROVE  Dispatched'
<1> USE DEF InboundInv, Typed
<1>1. CASE \/ init \/ fire \/ runTimer \/ gotFetchPack \/ sweep \/ UNCHANGED inboundVars
           \/ \E n \in {Header} \cup StateNodes \cup TxNodes : addFetchPack(n)
  <2>1. /\ mReceivedData' = mReceivedData /\ mReceiveDispatched' = mReceiveDispatched
        /\ dataJobs' = dataJobs /\ runnerAt' = runnerAt /\ (found' => found)
    BY <1>1 DEF init, fire, runTimer, gotFetchPack, sweep, addFetchPack, inboundVars, jobVars
  <2> QED BY <2>1 DEF Dispatched, Taken
<1>2. CASE staleJob
  <2>1. /\ mReceivedData' = mReceivedData /\ mReceiveDispatched' = mReceiveDispatched
        /\ dataJobs' = dataJobs + 1
    BY <1>2 DEF staleJob
  <2> QED BY <2>1 DEF Dispatched, Taken
<1>3. ASSUME NEW p \in Packets, gotLedgerData(p) PROVE Dispatched'
  <2>1. /\ mReceiveDispatched' = TRUE /\ runnerAt' = runnerAt /\ found' = found
        /\ dataJobs' = IF mReceiveDispatched THEN dataJobs ELSE dataJobs + 1
    BY <1>3 DEF gotLedgerData
  <2> QED BY <2>1 DEF Dispatched, Taken
<1>4. ASSUME NEW r \in Runners, doLedgerData(r) PROVE Dispatched'
  <2>1. /\ mReceivedData' = mReceivedData /\ mReceiveDispatched' = mReceiveDispatched
        /\ found' = found
    BY <1>4 DEF doLedgerData, runVars
  <2>2. found' => runnerAt'[r] = "take"
    BY <1>4, <2>1 DEF doLedgerData
  <2> QED BY <2>1, <2>2 DEF Dispatched, Taken
\* What a thread leaves behind when it moves from take and process.
<1>a. ASSUME NEW r \in Runners, found' = found, dataJobs' = dataJobs,
             mReceivedData' = mReceivedData, mReceiveDispatched' = mReceiveDispatched,
             \A v \in Runners : v # r => runnerAt'[v] = runnerAt[v],
             runnerAt[r] \in {"take", "process"} => runnerAt'[r] \in {"take", "process"}
      PROVE  Dispatched'
  BY <1>a, Zenon DEF Dispatched, Taken
<1>5. ASSUME NEW r \in Runners, take(r) PROVE Dispatched'
  <2>1. mReceivedData' = <<>>
    BY <1>5 DEF take
  <2>2. mReceiveDispatched' => runnerAt'[r] = "process"
    BY <1>5, Zenon DEF take
  <2> QED BY <2>1, <2>2 DEF Dispatched, Taken
<1>6. ASSUME NEW r \in Runners, process(r) PROVE Dispatched'
  <2>1. /\ \A v \in Runners : v # r => runnerAt'[v] = runnerAt[v]
        /\ runnerAt'[r] \in {"take", "process"}
    BY <1>6 DEF process
  <2> QED BY <1>6, <1>a, <2>1 DEF process, runVars, receivedVars
<1>7. ASSUME NEW r \in Runners,
             beginTrigger(r) \/ search(r) \/ resume(r) \/ testSignaled(r) \/ signal(r)
      PROVE  Dispatched'
  <2>1. /\ \A v \in Runners : v # r => runnerAt'[v] = runnerAt[v]
        /\ runnerAt[r] \notin {"take", "process"}
    BY <1>7, Zenon DEF beginTrigger, goesOn, search, resume, testSignaled, signal
  <2>2. /\ found' = found /\ dataJobs' = dataJobs
        /\ mReceivedData' = mReceivedData /\ mReceiveDispatched' = mReceiveDispatched
    BY <1>7, Zenon DEF beginTrigger, search, resume, testSignaled, signal, runVars, receivedVars
  <2> QED BY <1>a, <2>1, <2>2
<1> QED BY <1>1, <1>2, <1>3, <1>4, <1>5, <1>6, <1>7 DEF InboundNext, runData

\* The timer ends with the acquisition, or with what the collection forgot.
LEMMA TimerStep ==
    ASSUME InboundAssumption, InboundInv, [InboundNext]_inboundVars
    PROVE  TimerKeepsOn'
<1> USE DEF InboundInv, Typed
<1>0. Sound(acq') /\ (isDone(acq) => isDone(acq'))
  BY StepAdvances, Zenon DEF Advances, Keeps, isDone
<1>1. CASE init
  <2>1. PICK d \in {tryDB(acq)} :
          IF d.failed THEN acq' = d /\ mTimer' = "none"
          ELSE IF d.complete THEN acq' = [d EXCEPT !.announced = @ + 1] /\ mTimer' = "none"
          ELSE execute /\ \E n \in 0 .. MaxNewPeers : acq' = addPeers(d, n)
    BY <1>1 DEF init
  <2>2. d \in Acquisitions
    BY <2>1, TryDB DEF Sound
  <2>3. CASE d.failed
    BY <2>1, <2>3 DEF TimerKeepsOn, isDone
  <2>4. CASE ~d.failed /\ d.complete
    <3>1. acq'.complete
      BY <2>1, <2>2, <2>4, Zenon DEF Acquisitions
    <3> QED BY <3>1 DEF TimerKeepsOn, isDone
  <2>5. CASE ~d.failed /\ ~d.complete
    BY <2>1, <2>5 DEF TimerKeepsOn, execute
  <2> QED BY <2>3, <2>4, <2>5
<1>2. CASE fire
  BY <1>2 DEF fire, execute, TimerKeepsOn
<1>3. CASE runTimer
  BY <1>3 DEF runTimer, TimerKeepsOn
<1>4. CASE ~init /\ ~fire /\ ~runTimer
  <2>1. mTimer' = mTimer /\ (found' => found)
    BY <1>4, TimerAlone
  <2> QED BY <1>0, <2>1 DEF TimerKeepsOn
<1> QED BY <1>1, <1>2, <1>3, <1>4

\* A thread on its way to hand a complete ledger on is not stopped by another that did.
LEMMA HandedOnStep ==
    ASSUME InboundAssumption, InboundInv, [InboundNext]_inboundVars
    PROVE  CompleteIsHandedOn'
<1> USE DEF InboundInv, Typed
<1> SUFFICES ASSUME acq'.complete
             PROVE  acq'.announced > 0 \/ \E v \in Runners : runnerAt'[v] \in {"done", "signal"}
  BY DEF CompleteIsHandedOn
<1>0. /\ Sound(acq') /\ Keeps(acq, acq')
      /\ HandsOn(acq, acq') \/ \E r \in Runners : runnerAt'[r] = "done"
  BY StepAdvances DEF Advances
<1>1. CASE acq'.announced > 0 \/ \E r \in Runners : runnerAt'[r] = "done"
  BY <1>1
<1>2. CASE acq.complete
  <2>1. acq.announced > 0 \/ \E v \in Runners : runnerAt[v] \in {"done", "signal"}
    BY <1>2 DEF CompleteIsHandedOn
  <2>2. CASE acq.announced > 0
    BY <1>0, <2>2 DEF Sound, Acquisitions, Keeps
  <2>3. ASSUME NEW v \in Runners, runnerAt[v] \in {"done", "signal"}
        PROVE  acq'.announced > 0 \/ runnerAt'[v] \in {"done", "signal"}
    <3>1. CASE testSignaled(v)
      <4>1. CASE acq.signaled
        <5>1. acq.announced > 0 /\ acq' = acq
          BY <3>1, <4>1 DEF testSignaled, Sound, Truthful
        <5> QED BY <5>1
      <4>2. CASE ~acq.signaled
        BY <3>1, <4>2 DEF testSignaled
      <4> QED BY <4>1, <4>2
    <3>2. CASE signal(v)
      BY <3>2, DoneNow DEF signal
    <3>3. CASE ~testSignaled(v) /\ ~signal(v)
      <4>1. runnerAt'[v] = runnerAt[v]
        <5>1. CASE \E r \in Runners : doLedgerData(r) \/ runData(r)
          <6>1. PICK r \in Runners : doLedgerData(r) \/ runData(r)
            BY <5>1
          <6>2. r # v
            BY <2>3, <3>3, <6>1, Zenon DEF doLedgerData, runData, take, process, beginTrigger,
                                    search, resume
          <6> QED BY <6>1, <6>2, Zenon DEF doLedgerData, runData, take, process, beginTrigger, goesOn,
                                    search, resume, testSignaled, signal
        <5>2. CASE ~(\E r \in Runners : doLedgerData(r) \/ runData(r))
          BY <5>2 DEF InboundNext, inboundVars, init, fire, runTimer, sweep, gotFetchPack, staleJob,
                      addFetchPack, gotLedgerData, jobVars
        <5> QED BY <5>1, <5>2
      <4> QED BY <2>3, <4>1
    <3> QED BY <3>1, <3>2, <3>3
  <2> QED BY <2>1, <2>2, <2>3
<1> QED BY <1>0, <1>1, <1>2 DEF HandsOn

LEMMA InboundInitially == ASSUME InboundAssumption, InboundInit PROVE InboundInv
<1> USE DEF InboundInit
<1>1. acq \in Acquisitions
  BY DEF Acquisitions
<1>2. Truthful(acq)
  BY DEF Truthful
<1>3. Typed
  <2>1. mReceivedData \in Seq(Packets) /\ <<>> \in Seq(Packets)
    BY EmptySeq
  <2>2. /\ runnerAt \in [Runners -> Places] /\ nodes \in [Runners -> SUBSET StateNodes]
        /\ chosen \in [Runners -> BOOLEAN]
    BY DEF Places
  <2>3. batch \in [Runners -> Seq(Packets)]
    BY <2>1
  <2> QED BY <1>1, <1>2, <2>1, <2>2, <2>3 DEF Typed, Sound
<1>4. Fresh /\ Searching /\ TimerKeepsOn /\ CompleteIsHandedOn
  BY DEF Fresh, Searching, TimerKeepsOn, CompleteIsHandedOn
<1>5. Dispatched
  BY DEF Dispatched
<1> QED BY <1>3, <1>4, <1>5 DEF InboundInv

LEMMA InboundInductive ==
    ASSUME InboundAssumption, InboundInv, [InboundNext]_inboundVars
    PROVE  InboundInv'
BY TypedStep, FreshStep, SearchingStep, DispatchedStep, TimerStep, HandedOnStep DEF InboundInv

LEMMA InboundInvariant == ASSUME InboundAssumption PROVE InboundSpec => []InboundInv
<1>1. InboundInit => InboundInv
  BY InboundInitially
<1>2. InboundInv /\ [InboundNext]_inboundVars => InboundInv'
  BY InboundInductive
<1> QED BY <1>1, <1>2, PTL DEF InboundSpec

-----------------------------------------------------------------------------
(* The theorems.                                                           *)

\* A ledger that mComplete calls complete has its header and every node of both maps:
\* for maps of any size, whichever path set the flag and whatever others did while
\* trigger searched the state map without the lock.
THEOREM CompleteLedgersAreWhole ==
    ASSUME InboundAssumption PROVE InboundSpec => []CompleteIsWhole
<1>1. InboundInv => CompleteIsWhole
  BY DEF InboundInv, Typed, Sound, Truthful, CompleteIsWhole
<1> QED BY <1>1, InboundInvariant, PTL

\* What peers sent is taken by a job, an acquisition that is not over keeps its timer,
\* and a complete ledger was handed on or a thread is about to do it: for any number of
\* threads and packets.
THEOREM NothingIsForgotten ==
    ASSUME InboundAssumption
    PROVE  InboundSpec => []DataHasTaker
<1>1. InboundInv => DataHasTaker
  BY DEF InboundInv, Dispatched, Taken, DataIsTaken, DataHasTaker
<1> QED BY <1>1, InboundInvariant, PTL

\* A step never undoes what was acquired: the header and the nodes of both maps stay, a
\* ledger that is complete or failed stays so, and what was handed on stays handed on.
AcquiredStays == [][Keeps(acq, acq')]_inboundVars

\* Nothing that any step does, of the timer, the threads or the fetch packs, undoes what
\* was acquired.
THEOREM AcquiredIsKept == ASSUME InboundAssumption PROVE InboundSpec => AcquiredStays
<1>1. InboundInv /\ [InboundNext]_inboundVars => [Keeps(acq, acq')]_inboundVars
  BY StepAdvances DEF Advances
<1> QED BY <1>1, InboundInvariant, PTL DEF InboundSpec, AcquiredStays
=============================================================================
