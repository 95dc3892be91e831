------------------------------- MODULE LogSet -------------------------------
(***************************************************************************)
(* The two stateful concerns of LogSet passes that this repository holds:  *)
(* the bucket claim of the shared storage (BucketClaim) and the failed-    *)
(* store record queried for failover (Failover).  They share no state: a   *)
(* behaviour is any interleaving of the steps of the two, each kept under  *)
(* its own fairness, and each module's properties are checked over it.     *)
(***************************************************************************)
CONSTANTS LogSets, Provider, NoType, Stores, Threshold, ClockSteps, MaxClockSteps

VARIABLES claims, pc, bound, healthy, failedStores, escalated, clockSteps

B == INSTANCE BucketClaim
F == INSTANCE Failover

claimVars == <<claims, pc, bound>>
storeVars == <<healthy, failedStores, escalated, clockSteps>>
vars == <<claimVars, storeVars>>

Init == B!Init /\ F!Init

Next == \/ B!Next /\ UNCHANGED storeVars
        \/ F!Next /\ UNCHANGED claimVars

Spec == Init /\ [][Next]_vars
        /\ \A l \in LogSets : WF_claimVars(B!ClaimedBucket(l)) /\ WF_claimVars(B!CreateClaim(l))
        /\ WF_storeVars(F!Tick) /\ WF_storeVars(F!ObserveStores) /\ WF_storeVars(F!Failover)

-----------------------------------------------------------------------------
TypeOK == B!TypeOK /\ F!TypeOK

(***************************************************************************)
(* A duplicate claim is eventually reported by every LogSet referencing   *)
(* the bucket (ClaimedBucket's "more than one" error).                     *)
(***************************************************************************)
ConflictEventuallySurfaced == B!ConflictEventuallySurfaced

(***************************************************************************)
(* A store recorded failed is eventually replaced or seen healthy.        *)
(***************************************************************************)
FailedStoreEventuallyHandled == F!FailedStoreEventuallyHandled

=============================================================================
