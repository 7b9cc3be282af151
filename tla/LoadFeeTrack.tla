--------------------------- MODULE LoadFeeTrack -----------------------------
(***************************************************************************)
(* The load fee (LoadFeeTrack.cpp), moved once a second by the load        *)
(* manager's thread (LoadManager.cpp run) and compared with the fees the   *)
(* network and the cluster ask for.                                        *)
(***************************************************************************)
EXTENDS Integers, FiniteSetsExt

CONSTANTS lftNormalFee, lftFeeIncFraction, lftFeeDecFraction,
          lftFeeMax,
          RemoteFees,    \* what validations and the cluster may ask for
          Amounts,       \* the fees and base fees that are scaled
          units,         \* fees.units
          UInt64Max      \* stands for the largest of the wide integers

FeeAssumption ==
    /\ lftNormalFee \in Nat \ {0} /\ lftFeeMax \in Nat /\ lftNormalFee <= lftFeeMax
    /\ lftFeeIncFraction \in 1 .. lftNormalFee /\ lftFeeDecFraction \in 1 .. lftNormalFee
    /\ RemoteFees \subseteq lftNormalFee .. lftFeeMax
    /\ units \in Nat \ {0} /\ Amounts \subseteq 1 .. UInt64Max

VARIABLES localTxnLoadFee_, remoteTxnLoadFee_, clusterTxnLoadFee_,
          raiseCount_,   \* counted up to 2
          overloaded,    \* isOverloaded of the job queue
          stopped        \* the manager's loop has ended

vars == <<localTxnLoadFee_, remoteTxnLoadFee_, clusterTxnLoadFee_, raiseCount_,
          overloaded, stopped>>

Init ==
    /\ localTxnLoadFee_ = lftNormalFee /\ remoteTxnLoadFee_ = lftNormalFee
    /\ clusterTxnLoadFee_ = lftNormalFee /\ raiseCount_ = 0
    /\ overloaded = FALSE /\ stopped = FALSE

-----------------------------------------------------------------------------
(* The fee.                                                                *)

setRemoteFee(f) ==
    /\ remoteTxnLoadFee_' = f
    /\ UNCHANGED <<localTxnLoadFee_, clusterTxnLoadFee_, raiseCount_, overloaded, stopped>>

setClusterFee(f) ==
    /\ clusterTxnLoadFee_' = f
    /\ UNCHANGED <<localTxnLoadFee_, remoteTxnLoadFee_, raiseCount_, overloaded, stopped>>

raise(local, remote) ==
    LET orig == Max({local, remote})
    IN  Min({orig + (orig \div lftFeeIncFraction), lftFeeMax})

raiseLocalFee ==
    /\ raiseCount_' = Min({raiseCount_ + 1, 2})
    /\ localTxnLoadFee_' = IF raiseCount_ + 1 < 2 THEN localTxnLoadFee_
                           ELSE raise(localTxnLoadFee_, remoteTxnLoadFee_)

lowerLocalFee ==
    /\ raiseCount_' = 0
    /\ localTxnLoadFee_' =
         Max({localTxnLoadFee_ - (localTxnLoadFee_ \div lftFeeDecFraction), lftNormalFee})

isLoadedLocal == raiseCount_ # 0 \/ localTxnLoadFee_ # lftNormalFee

-----------------------------------------------------------------------------
(* The manager's loop, once a second, and the load it looks at.            *)

run ==
    /\ ~stopped
    /\ IF overloaded THEN raiseLocalFee ELSE lowerLocalFee
    /\ UNCHANGED <<remoteTxnLoadFee_, clusterTxnLoadFee_, overloaded, stopped>>

onStop ==
    /\ ~stopped /\ stopped' = TRUE
    /\ UNCHANGED <<localTxnLoadFee_, remoteTxnLoadFee_, clusterTxnLoadFee_, raiseCount_, overloaded>>

isOverloaded ==
    /\ overloaded' = ~overloaded
    /\ UNCHANGED <<localTxnLoadFee_, remoteTxnLoadFee_, clusterTxnLoadFee_, raiseCount_, stopped>>

Next ==
    \/ \E f \in RemoteFees : setRemoteFee(f) \/ setClusterFee(f)
    \/ run
    \/ onStop
    \/ isOverloaded

\* The thread runs until it is stopped.
Spec == Init /\ [][Next]_vars /\ WF_vars(run)

-----------------------------------------------------------------------------
(* What a transaction pays under load: scaleFeeLoad.                       *)

Overflow == UInt64Max + 1

Divides(d, a) == a % d = 0

gcd(a, b) == Max({d \in 1 .. Max({a, b}) : Divides(d, a) /\ Divides(d, b)})

getScalingFactors ==
    [feeFactor |-> Max({localTxnLoadFee_, remoteTxnLoadFee_}),
     uRemFee |-> Max({remoteTxnLoadFee_, clusterTxnLoadFee_})]

scalingFactor(bUnlimited) ==
    LET f == getScalingFactors
    IN  IF bUnlimited /\ f.feeFactor > f.uRemFee /\ f.feeFactor < 4 * f.uRemFee
          THEN f.uRemFee ELSE f.feeFactor

\* Multiply the smaller two first, and divide first when the rest overflows.
product(fee, base, factor, den) ==
    LET low == Min({fee, base}) * factor
        large == Max({Max({fee, base}), low})
        small == Min({Max({fee, base}), low})
    IN  CASE Min({fee, base}) > UInt64Max \div factor -> Overflow
          [] large <= UInt64Max \div small            -> (large * small) \div den
          [] (large \div den) > UInt64Max \div small  -> Overflow
          [] OTHER                                    -> (large \div den) * small

lowestTerms(fee, base, factor, den) ==
    LET g1 == gcd(fee, den)
        g2 == gcd(base, den \div g1)
        g3 == gcd(factor, (den \div g1) \div g2)
    IN  product(fee \div g1, base \div g2, factor \div g3, ((den \div g1) \div g2) \div g3)

scaleFeeLoad(fee, base, bUnlimited) ==
    lowestTerms(fee, base, scalingFactor(bUnlimited), units * lftNormalFee)

-----------------------------------------------------------------------------
(* Properties.                                                             *)

TypeOK ==
    /\ localTxnLoadFee_ \in lftNormalFee .. lftFeeMax
    /\ remoteTxnLoadFee_ \in Nat /\ clusterTxnLoadFee_ \in Nat
    /\ raiseCount_ \in 0 .. 2 /\ overloaded \in BOOLEAN /\ stopped \in BOOLEAN

\* One overloaded second between two quiet ones never raises the fee.
NoRaiseOnBlipStep ==
    localTxnLoadFee_' > localTxnLoadFee_ => raiseCount_ # 0 /\ overloaded

NoRaiseOnBlip == [][NoRaiseOnBlipStep]_vars

\* A raise takes effect: it leaves the local fee above the network's, unless
\* the fee is at its limit ("make sure this fee takes effect").
RaiseTakesEffectStep ==
    localTxnLoadFee_' > localTxnLoadFee_ =>
      localTxnLoadFee_' > remoteTxnLoadFee_ \/ localTxnLoadFee_' = lftFeeMax

RaiseTakesEffect == [][RaiseTakesEffectStep]_vars

\* Once the load is gone for good the fee comes back to normal, and the server
\* no longer says that it is loaded, unless the manager is stopped.
FeeSettles == <>[](~overloaded \/ stopped) => <>[](stopped \/ ~isLoadedLocal)

\* Under lasting load the fee climbs to its limit.
FeeClimbs == <>[]overloaded => <>[](stopped \/ localTxnLoadFee_ = lftFeeMax)

\* The scaled fee is never above the exact quotient, loses less than one unit
\* of it unless a product overflows, and is refused only when the exact fee
\* does not fit.
ScaledFeeExact ==
    \A fee, base \in Amounts, bUnlimited \in BOOLEAN :
       LET exact == fee * base * scalingFactor(bUnlimited)
           den == units * lftNormalFee
           got == scaleFeeLoad(fee, base, bUnlimited)
       IN  IF got = Overflow THEN exact \div den > UInt64Max
           ELSE /\ got <= exact \div den
                /\ exact <= UInt64Max => got = exact \div den

\* A privileged user pays no more than anyone else, and at least the network's
\* fee; above four times the network's fee everyone pays the local fee.
UnlimitedPaysFair ==
    /\ scalingFactor(TRUE) <= scalingFactor(FALSE)
    /\ scalingFactor(TRUE) >= remoteTxnLoadFee_
    /\ getScalingFactors.feeFactor >= 4 * getScalingFactors.uRemFee
          => scalingFactor(TRUE) = scalingFactor(FALSE)
=============================================================================
