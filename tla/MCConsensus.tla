---------------------------- MODULE MCConsensus ----------------------------
(* Instances of Consensus for TLC. *)
EXTENDS Consensus, TLC

CONSTANTS p1, p2, p3, t1, t2, L1, L2

OneSet == {{t1}}
TwoSets == {{}, {t1}}
ThreeSets == {{t1}, {t2}, {t1, t2}}

(* Ledger L1 was closed by agreement on a time; L2, its sibling, was not.  *)
MCLedgerInfo ==
    [l \in Ledgers |->
        IF l = L1
          THEN [seq |-> 7, closeTime |-> 10, parentCloseTime |-> 0,
                closeTimeResolution |-> 10, closeAgree |-> TRUE]
          ELSE [seq |-> 8, closeTime |-> 11, parentCloseTime |-> 10,
                closeTimeResolution |-> 10, closeAgree |-> FALSE]]

Symmetry == Permutations(Peers) \cup Permutations(Txs)

-----------------------------------------------------------------------------
(* The server is on the network or stands alone.  No peer speaks to a      *)
(* standalone server.                                                      *)
CONSTANT Servers   (* the values of alone a run begins with *)

VARIABLE alone

StandAlone == INSTANCE Consensus WITH standalone <- TRUE

ServerInit == alone \in Servers /\ Init

ServerNext ==
    /\ alone' = alone
    /\ \/ ~alone /\ Next
       \/ alone /\ StandAlone!Next /\ UNCHANGED recentPeerPositions

ServerSpec == ServerInit /\ [][ServerNext]_<<vars, alone>>

FairServerSpec ==
    /\ ServerSpec
    /\ WF_vars(Run)
    /\ WF_vars(TimerEntry)
    /\ WF_vars(Tick)

=============================================================================
