------------------------------ MODULE HeldFunds ------------------------------
(***************************************************************************)
(* Escrows and payment channels (Escrow.cpp, PayChan.cpp), which set SFC   *)
(* aside in entries of their own, under the transactor that charges fees,  *)
(* drops what a failed transaction did and checks invariants               *)
(* (Transactor.cpp, InvariantCheck.cpp).  A transaction is a function from *)
(* the ledger, its fee paid, to a result and a new ledger.                 *)
(*                                                                         *)
(* Claims against a channel are signed off the ledger; authorised is the   *)
(* most an owner has signed for.  announced is when a channel that had no  *)
(* expiration was given one.  Crypto-conditions are their presence and     *)
(* whether a fulfillment is good.                                          *)
(***************************************************************************)
EXTENDS Integers, FiniteSets, FiniteSetsExt

CONSTANTS Accounts,         \* accounts, all in the ledger
          Owners,           \* those who open escrows and channels
          Balance,          \* what each has in the beginning
          Amounts, Claims,  \* what transactions set aside, and ask for
          Fees,             \* the fees each account pays
          Delays,           \* the settle delays of channels
          Times,            \* what expirations may be
          reserveBase, reserveIncrement,
          RequiresAuth, Preauthorised,  \* lsfDepositAuth, <<dst, by>> preauthorised
          fix1571,          \* is the amendment enabled?
          MaxEntries, MaxTime, TimeLimit, None

HeldAssumption ==
    /\ Owners \subseteq Accounts /\ Balance \in Nat
    /\ Amounts \subseteq Nat \ {0} /\ Claims \subseteq Nat \ {0}
    /\ Fees \in [Accounts -> SUBSET Nat] /\ Delays \subseteq Nat
    /\ Times \subseteq Nat /\ {reserveBase, reserveIncrement, MaxEntries, MaxTime} \subseteq Nat
    /\ RequiresAuth \subseteq Accounts /\ Preauthorised \subseteq Accounts \X Accounts
    /\ fix1571 \in BOOLEAN /\ None \notin Nat
    /\ TimeLimit \in Nat \ {0}          \* 2^32 in the code
    /\ \A d \in Delays : MaxTime + d < TimeLimit

VARIABLES ledger, destroyed, now, made, authorised, announced, enforce

vars == <<ledger, destroyed, now, made, authorised, announced, enforce>>

Ids == 1 .. MaxEntries
Without(f, id) == [i \in DOMAIN f \ {id} |-> f[i]]
With(f, id, e) == [i \in DOMAIN f \cup {id} |-> IF i = id THEN e ELSE f[i]]

Init ==
    /\ ledger = [balance |-> [a \in Accounts |-> Balance],
                 ownerCount |-> [a \in Accounts |-> 0],
                 escrows |-> [i \in {} |-> 0], channels |-> [i \in {} |-> 0]]
    /\ destroyed = 0 /\ now = 0 /\ made = 0
    /\ authorised = [i \in Ids |-> 0] /\ announced = [i \in Ids |-> None]
    /\ enforce \in BOOLEAN              \* featureEnforceInvariants

-----------------------------------------------------------------------------
(* What transactors share.                                                 *)

accountReserve(ownerCount) == reserveBase + ownerCount * reserveIncrement
Credit(l, a, amount) == [l EXCEPT !.balance[a] = @ + amount]
adjustOwnerCount(l, a, n) ==
    [l EXCEPT !.ownerCount[a] = IF @ + n < 0 THEN 0 ELSE @ + n]
payFee(l, a, fee) == Credit(l, a, -fee)

Success(l) == [ter |-> "tes", ledger |-> l]
Claimed == [ter |-> "tec", ledger |-> ledger]   \* only the fee is taken
Refused == [ter |-> "tem", ledger |-> ledger]   \* nothing is

\* Does an account take what another sends (lsfDepositAuth)?
Deposits(dst, by) == dst \in RequiresAuth => by = dst \/ <<dst, by>> \in Preauthorised

\* The reserve and the funds an owner needs; n entries more than now.
Funded(l, a, n, amount) == l.balance[a] >= accountReserve(l.ownerCount[a] + n) + amount

Sum(f) == MapThenSumSet(LAMBDA i : f[i], DOMAIN f)
Held(l) == Sum([i \in DOMAIN l.escrows |-> l.escrows[i].amount])
           + Sum([i \in DOMAIN l.channels |-> l.channels[i].amount - l.channels[i].balance])
Total(l) == Sum(l.balance) + Held(l)

\* checkInvariants(): SFCNotCreated and SFCBalanceChecks.
checkInvariants(l, fee) ==
    /\ Total(l) = Total(ledger) - fee
    /\ \A a \in Accounts : l.balance[a] >= 0

\* reset(): what a transaction did is dropped and its fee is charged, as far as
\* the account can pay it.  A negative charge throws, and nothing happens.
reset(a, fee) ==
    LET charge == Min({fee, ledger.balance[a]})
    IN  /\ charge >= 0 /\ ledger' = payFee(ledger, a, charge)
        /\ destroyed' = destroyed + charge

\* operator()(): a transaction that succeeds takes effect, one that fails or
\* breaks an invariant is reset, one that is refused does nothing.
Transact(a, fee, r) ==
    /\ r.ter # "tem"
    /\ fee = 0 \/ ledger.balance[a] >= fee                \* checkFee()
    /\ IF r.ter = "tes" /\ (enforce => checkInvariants(r.ledger, fee))
       THEN ledger' = r.ledger /\ destroyed' = destroyed + fee
       ELSE reset(a, fee)
    /\ announced' = [i \in Ids |->
           IF i \notin DOMAIN ledger'.channels \/ ledger'.channels[i].expiration = None THEN None
           ELSE IF announced[i] = None THEN now ELSE announced[i]]
    /\ UNCHANGED <<now, enforce>>

-----------------------------------------------------------------------------
(* Escrows.                                                                *)

after(t, mark) == t > mark

\* EscrowCreate: preflight() and doApply().
EscrowMalformed(finish, cancel, condition) ==
    \/ finish = None /\ cancel = None
    \/ finish # None /\ cancel # None /\ cancel <= finish
    \/ fix1571 /\ finish = None /\ ~condition
Past(mark) == mark # None /\ IF fix1571 THEN after(now, mark) ELSE now >= mark
EscrowCreate(l, src, dst, amount, finish, cancel, condition) ==
    IF EscrowMalformed(finish, cancel, condition) THEN Refused
    ELSE IF Past(cancel) \/ Past(finish) \/ ~Funded(l, src, 1, amount) THEN Claimed
    ELSE Success(adjustOwnerCount(
            Credit([l EXCEPT !.escrows = With(@, made + 1,
                       [src |-> src, dst |-> dst, amount |-> amount, finishAfter |-> finish,
                        cancelAfter |-> cancel, condition |-> condition])],
                   src, -amount), src, 1))

\* EscrowFinish.  Before fix1571 a finish came strictly after the cancel time.
TooSoon(e) == e.finishAfter # None /\ ~after(now, e.finishAfter)
TooLateBefore1571(e) == e.cancelAfter # None /\ ~after(now, e.cancelAfter)
TooLate(e) ==
    IF fix1571 THEN e.cancelAfter # None /\ after(now, e.cancelAfter)
    ELSE TooLateBefore1571(e)
endEscrow(l, id, to) ==
    adjustOwnerCount(Credit([l EXCEPT !.escrows = Without(@, id)], to, l.escrows[id].amount),
                     l.escrows[id].src, -1)
EscrowFinish(l, by, id, fulfillment) ==
    IF id \notin DOMAIN l.escrows THEN Claimed
    ELSE LET e == l.escrows[id]
         IN  IF \/ TooSoon(e) \/ TooLate(e)
                \/ fulfillment = "bad" \/ e.condition # (fulfillment = "good")
                \/ ~Deposits(e.dst, by)
             THEN Claimed
             ELSE Success(endEscrow(l, id, e.dst))

EscrowCancel(l, id) ==
    IF id \notin DOMAIN l.escrows THEN Claimed
    ELSE LET e == l.escrows[id]
         IN  IF e.cancelAfter = None \/ ~after(now, e.cancelAfter) THEN Claimed
             ELSE Success(endEscrow(l, id, e.src))

-----------------------------------------------------------------------------
(* Payment channels.                                                       *)

closeChannelPaysAll(l, id) ==
    LET c == l.channels[id]
    IN  Success(adjustOwnerCount(
            Credit([l EXCEPT !.channels = Without(@, id)], c.src, c.amount), c.src, -1))
closeChannel(l, id) ==
    LET c == l.channels[id]
    IN  Success(adjustOwnerCount(
            Credit([l EXCEPT !.channels = Without(@, id)], c.src, c.amount - c.balance), c.src, -1))

\* PayChanCreate: preclaim() looks at the ledger before the fee is paid.
PayChanCreate(l, src, dst, amount, delay, cancel) ==
    IF src = dst THEN Refused
    ELSE IF ~Funded(ledger, src, 1, amount) THEN Claimed
    ELSE Success(adjustOwnerCount(
            Credit([l EXCEPT !.channels = With(@, made + 1,
                       [src |-> src, dst |-> dst, amount |-> amount, balance |-> 0,
                        settleDelay |-> delay, cancelAfter |-> cancel, expiration |-> None])],
                   src, -amount), src, 1))

Expired(c) ==
    \/ c.cancelAfter # None /\ now >= c.cancelAfter
    \/ c.expiration # None /\ now >= c.expiration

\* Close times and delays are 32-bit numbers.
SettleExpiration(c) == (now + c.settleDelay) % TimeLimit

minExpiration(c) == Min({SettleExpiration(c)} \cup ({c.expiration} \ {None}))

PayChanFund(l, by, id, amount, extend) ==
    IF id \notin DOMAIN l.channels THEN Claimed
    ELSE LET c == l.channels[id]
         IN  IF Expired(c) THEN closeChannel(l, id)
             ELSE IF c.src # by THEN Claimed
             ELSE IF extend # None /\ extend < minExpiration(c) THEN Refused
             ELSE IF ~Funded(l, by, 0, amount) THEN Claimed
             ELSE Success(Credit([l EXCEPT !.channels[id].amount = @ + amount,
                                           !.channels[id].expiration = IF extend = None THEN @ ELSE extend],
                                 by, -amount))

\* PayChanClaim.  A claim asks for a balance or for none; its signature is
\* missing, good, or that of another key.
ClaimMalformed(id, balance, signature) ==
    /\ signature # "none"
    /\ balance = None \/ (signature = "good" /\ balance > authorised[id])
ClaimRefused(by, c, signature) == (by = c.dst /\ signature = "none") \/ signature = "other"
ClaimFails(by, c, balance) ==
    balance > c.amount \/ balance <= c.balance \/ ~Deposits(c.dst, by)
PaidOut(l, id, balance) ==
    IF balance = None THEN l
    ELSE Credit([l EXCEPT !.channels[id].balance = balance],
                l.channels[id].dst, balance - l.channels[id].balance)
closed(l, by, id, expiration) ==
    LET c == l.channels[id]
    IN  IF by = c.dst \/ c.balance = c.amount THEN closeChannel(l, id)
        ELSE Success([l EXCEPT !.channels[id].expiration =
                        Min({SettleExpiration(c)} \cup ({expiration} \ {None}))])
PayChanClaim(l, by, id, balance, signature, flag) ==
    IF ClaimMalformed(id, balance, signature) THEN Refused
    ELSE IF id \notin DOMAIN l.channels THEN Claimed
    ELSE LET c == l.channels[id]
             paid == PaidOut(l, id, balance)
         IN  IF Expired(c) THEN closeChannel(l, id)
             ELSE IF by \notin {c.src, c.dst} THEN Claimed
             ELSE IF balance # None /\ ClaimRefused(by, c, signature) THEN Refused
             ELSE IF balance # None /\ ClaimFails(by, c, balance) THEN Claimed
             ELSE IF flag = "renew" /\ by # c.src THEN Claimed
             ELSE CASE flag = "renew" -> Success([paid EXCEPT !.channels[id].expiration = None])
                    [] flag = "close" -> closed(paid, by, id, c.expiration)
                    [] OTHER -> Success(paid)

-----------------------------------------------------------------------------
(* The behaviours.                                                         *)

Optional(S) == S \cup {None}

\* tecINSUFF_FEE: any transaction of an account that cannot pay its fee.
insufficientFee(a, fee) ==
    /\ ledger.balance[a] \in 1 .. fee - 1
    /\ reset(a, fee)
    /\ UNCHANGED <<now, made, authorised, announced, enforce>>

createEscrow(src, dst, fee) ==
    /\ made < MaxEntries /\ made' = made + 1 /\ UNCHANGED authorised
    /\ \E amount \in Amounts, finish, cancel \in Optional(Times), condition \in BOOLEAN :
          Transact(src, fee, EscrowCreate(payFee(ledger, src, fee), src, dst, amount,
                                          finish, cancel, condition))
finishEscrow(by, id, fee) ==
    /\ UNCHANGED <<made, authorised>>
    /\ \E fulfillment \in {"none", "good", "bad"} :
          Transact(by, fee, EscrowFinish(payFee(ledger, by, fee), by, id, fulfillment))
cancelEscrow(by, id, fee) ==
    /\ UNCHANGED <<made, authorised>>
    /\ Transact(by, fee, EscrowCancel(payFee(ledger, by, fee), id))
createChannel(src, dst, fee) ==
    /\ made < MaxEntries /\ made' = made + 1 /\ UNCHANGED authorised
    /\ \E amount \in Amounts, delay \in Delays, cancel \in Optional(Times) :
          Transact(src, fee, PayChanCreate(payFee(ledger, src, fee), src, dst, amount, delay, cancel))
fundChannel(by, id, fee) ==
    /\ UNCHANGED <<made, authorised>>
    /\ \E amount \in Amounts, extend \in Optional(Times) :
          Transact(by, fee, PayChanFund(payFee(ledger, by, fee), by, id, amount, extend))
claim(by, id, fee) ==
    /\ UNCHANGED made
    /\ \E balance \in Optional(Claims), signature \in {"none", "good", "other"},
          flag \in {"none", "renew", "close"} :
          /\ Transact(by, fee, PayChanClaim(payFee(ledger, by, fee), by, id, balance, signature, flag))
          /\ authorised' = [authorised EXCEPT ![id] =
                IF /\ id \in DOMAIN ledger.channels /\ by = ledger.channels[id].src
                   /\ balance # None /\ balance > @
                THEN balance ELSE @]

\* The owner of a channel signs for an amount.
sign(id) ==
    /\ id \in DOMAIN ledger.channels
    /\ \E amount \in Claims :
          amount > authorised[id] /\ authorised' = [authorised EXCEPT ![id] = amount]
    /\ UNCHANGED <<ledger, destroyed, now, made, announced, enforce>>

\* The next ledger, with a later parentCloseTime.
Tick ==
    /\ now < MaxTime /\ now' = now + 1
    /\ UNCHANGED <<ledger, destroyed, made, authorised, announced, enforce>>

Next ==
    \/ Tick
    \/ \E id \in Ids : sign(id)
    \/ \E a \in Accounts : \E fee \in Fees[a] :
          \/ insufficientFee(a, fee)
          \/ a \in Owners /\ \E dst \in Accounts : createEscrow(a, dst, fee)
          \/ a \in Owners /\ \E dst \in Accounts : createChannel(a, dst, fee)
          \/ \E id \in 1 .. made :
                finishEscrow(a, id, fee) \/ cancelEscrow(a, id, fee)
                \/ fundChannel(a, id, fee) \/ claim(a, id, fee)

Spec == Init /\ [][Next]_vars

-----------------------------------------------------------------------------
(* What is required of them.                                               *)

Escrows == [src : Owners, dst : Accounts, amount : Nat, finishAfter : Optional(Nat),
            cancelAfter : Optional(Nat), condition : BOOLEAN]
Channels == [src : Owners, dst : Accounts, amount : Nat, balance : Nat, settleDelay : Nat,
             cancelAfter : Optional(Nat), expiration : Optional(Nat)]

\* The state has the shape the actions expect.
TypeOK ==
    /\ ledger.balance \in [Accounts -> Int] /\ ledger.ownerCount \in [Accounts -> Nat]
    /\ \A i \in DOMAIN ledger.escrows : ledger.escrows[i] \in Escrows
    /\ \A i \in DOMAIN ledger.channels : ledger.channels[i] \in Channels
    /\ DOMAIN ledger.escrows \cup DOMAIN ledger.channels \subseteq 1 .. made
    /\ {destroyed, now, made} \subseteq Nat /\ enforce \in BOOLEAN
    /\ authorised \in [Ids -> Nat] /\ announced \in [Ids -> Optional(Nat)]

\* SFC is neither made nor lost: what accounts, escrows and channels hold and
\* what fees destroyed is what there was, also when no invariant is checked.
Conserved == Total(ledger) + destroyed = Balance * Cardinality(Accounts)

\* Once invariants are enforced no transaction overdraws an account, although
\* PayChanCreate weighs its funds before the fee and takes them after it.
NoOverdraft == enforce => \A a \in Accounts : ledger.balance[a] >= 0

\* The owner count, which sets the reserve, is the number of entries owned,
\* whoever removed the others.
OwnerCountExact ==
    \A a \in Accounts :
        ledger.ownerCount[a] = Cardinality({i \in DOMAIN ledger.escrows : ledger.escrows[i].src = a})
                               + Cardinality({i \in DOMAIN ledger.channels : ledger.channels[i].src = a})

\* A channel never pays more than its owner signed for or put into it.
ClaimsAuthorised ==
    \A i \in DOMAIN ledger.channels :
        ledger.channels[i].balance <= authorised[i] /\ ledger.channels[i].balance <= ledger.channels[i].amount

\* "The owner must wait out a delay to close the channel to give the receiver a
\* chance to supply claims": until then nobody else closes a channel that has
\* funds, and the receiver can collect what was signed for.
OwnerWaits ==
    \A i \in DOMAIN ledger.channels :
        LET c == ledger.channels[i]
            signed == Min({authorised[i], c.amount})
        IN  /\ c.balance < c.amount
            /\ c.cancelAfter # None => now < c.cancelAfter
            /\ announced[i] # None => now < announced[i] + c.settleDelay
            => /\ \A by \in Accounts \ {c.dst} :
                    /\ i \in DOMAIN PayChanClaim(ledger, by, i, None, "none", "close").ledger.channels
                    /\ i \in DOMAIN PayChanFund(ledger, by, i, 1, None).ledger.channels
               /\ c.balance < signed =>
                    LET r == PayChanClaim(ledger, c.dst, i, signed, "good", "close")
                    IN  r.ter = "tes" /\ r.ledger.balance[c.dst] = ledger.balance[c.dst] + signed - c.balance

\* "Before the expiration time, only the intended receiver can get the SFC.
\* After the expiration time, the SFC can only be returned to the sender": with
\* fix1571 an escrow past its finish time can be finished or cancelled, one of
\* them and never both, and its condition is all that may stand in the way.
EscrowEitherWay ==
    \A i \in DOMAIN ledger.escrows :
        LET e == ledger.escrows[i]
            finishes == EscrowFinish(ledger, e.dst, i, IF e.condition THEN "good" ELSE "none").ter = "tes"
            cancels == EscrowCancel(ledger, i).ter = "tes"
        IN  fix1571 => /\ ~(finishes /\ cancels)
                       /\ (e.finishAfter # None => now > e.finishAfter) => finishes \/ cancels

=============================================================================
