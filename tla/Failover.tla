------------------------------ MODULE Failover ------------------------------
(***************************************************************************)
(* The failover tracker: FailoverStatus.FailedStores, filled by the LogSet *)
(* reconciler from the store-health list HAKeeper reports, and queried by  *)
(* StoresFailedFor(d) of api/core/v1alpha1/common_helpers.go to decide     *)
(* which stores have been down long enough to be replaced.                 *)
(*                                                                         *)
(* Time.  A record keeps its LastTransitionTime; the query compares it     *)
(* with time.Now().  What matters is the difference, so a record holds its *)
(* age on the wall clock ("wall", now - LastTransitionTime) and, as a      *)
(* ghost for the properties, the real time it has been held ("real").      *)
(* Both are capped at Threshold, which is exact for the query's >= test.   *)
(* The LastTransitionTime is a metav1.Time read back from the API server,  *)
(* so it carries no monotonic reading and a step of the wall clock moves   *)
(* every age at once.                                                      *)
(***************************************************************************)
EXTENDS Integers, FiniteSets

CONSTANTS
    Stores,         \* store identities
    Threshold,      \* the failover timeout d, in ticks
    ClockSteps,     \* the sizes a wall-clock step (NTP) may have
    MaxClockSteps   \* how many wall-clock steps a behaviour may take

ASSUME Threshold \in Nat \ {0} /\ ClockSteps \subseteq Int \ {0}

VARIABLES
    healthy,        \* healthy[s]: the store's health as HAKeeper reports it
    failedStores,   \* FailoverStatus.FailedStores: store -> [wall, real]
    escalated,      \* stores the caller has decided to replace
    clockSteps      \* wall-clock steps taken so far

vars == <<healthy, failedStores, escalated, clockSteps>>

Cap(n) == IF n > Threshold THEN Threshold ELSE n

\* Mutant: the operands of Sub swapped, LastTransitionTime minus now.
StoresFailedForSwapped(d) ==
    {s \in DOMAIN failedStores : -failedStores[s].wall >= d}

(***************************************************************************)
(* FailoverStatus.StoresFailedFor: the recorded stores whose               *)
(* time.Now().Sub(LastTransitionTime) is at least d.                       *)
(***************************************************************************)
StoresFailedFor(d) ==
    {s \in DOMAIN failedStores : failedStores[s].wall >= d}

Init ==
    /\ healthy = [s \in Stores |-> TRUE]
    /\ failedStores = [s \in {} |-> [wall |-> 0, real |-> 0]]
    /\ escalated = {}
    /\ clockSteps = 0

\* A store stops heartbeating, or comes back (a replacement included).
StoreFails(s) ==
    /\ healthy[s]
    /\ healthy' = [healthy EXCEPT ![s] = FALSE]
    /\ UNCHANGED <<failedStores, escalated, clockSteps>>

StoreRecovers(s) ==
    /\ ~healthy[s]
    /\ healthy' = [healthy EXCEPT ![s] = TRUE]
    /\ UNCHANGED <<failedStores, escalated, clockSteps>>

\* Mutant: a recovered store stays marked for replacement.
ObserveStoresKeepEscalated ==
    LET down == {s \in Stores : ~healthy[s]}
    IN  /\ failedStores' =
              [s \in down |-> IF s \in DOMAIN failedStores THEN failedStores[s]
                                                          ELSE [wall |-> 0, real |-> 0]]
        /\ escalated' = escalated
        /\ failedStores' # failedStores
        /\ UNCHANGED <<healthy, clockSteps>>

(***************************************************************************)
(* A LogSet pass records the stores it sees failed (RecordFailure: the     *)
(* first-failure time is kept while the store stays failed) and drops the  *)
(* ones it sees healthy (RecordRecovery); a recovered store is no longer   *)
(* up for replacement.                                                     *)
(***************************************************************************)
ObserveStores ==
    LET down == {s \in Stores : ~healthy[s]}
    IN  /\ failedStores' =
              [s \in down |-> IF s \in DOMAIN failedStores THEN failedStores[s]
                                                          ELSE [wall |-> 0, real |-> 0]]
        /\ escalated' = escalated \cap down
        /\ failedStores' # failedStores
        /\ UNCHANGED <<healthy, clockSteps>>

\* The caller replaces the stores StoresFailedFor(Threshold) returns.
Failover ==
    /\ ~(StoresFailedFor(Threshold) \subseteq escalated)
    /\ escalated' = escalated \cup StoresFailedFor(Threshold)
    /\ UNCHANGED <<healthy, failedStores, clockSteps>>

\* Real time passes: every record ages on both clocks.
Tick ==
    /\ \E s \in DOMAIN failedStores :
          failedStores[s].wall < Threshold \/ failedStores[s].real < Threshold
    /\ failedStores' = [s \in DOMAIN failedStores |->
                          [wall |-> Cap(failedStores[s].wall + 1),
                           real |-> Cap(failedStores[s].real + 1)]]
    /\ UNCHANGED <<healthy, escalated, clockSteps>>

\* The wall clock is stepped (NTP): wall ages move, real ones do not.
ClockStep ==
    /\ clockSteps < MaxClockSteps
    /\ DOMAIN failedStores # {}
    /\ \E k \in ClockSteps :
          failedStores' = [s \in DOMAIN failedStores |->
                             [failedStores[s] EXCEPT !.wall = Cap(@ + k)]]
    /\ clockSteps' = clockSteps + 1
    /\ UNCHANGED <<healthy, escalated>>

Next ==
    \/ \E s \in Stores : StoreFails(s) \/ StoreRecovers(s)
    \/ ObserveStores \/ Failover \/ Tick \/ ClockStep

\* Time passes, the LogSet is reconciled again and again and the caller
\* acts on every pass; stores fail and recover as they please.
Spec == Init /\ [][Next]_vars
        /\ WF_vars(Tick) /\ WF_vars(ObserveStores) /\ WF_vars(Failover)

-----------------------------------------------------------------------------
Ages == (-Threshold - MaxClockSteps * Threshold)..Threshold

TypeOK ==
    /\ healthy \in [Stores -> BOOLEAN]
    /\ DOMAIN failedStores \subseteq Stores
    /\ \A s \in DOMAIN failedStores :
          failedStores[s] \in [wall : Ages, real : 0..Threshold]
    /\ escalated \subseteq DOMAIN failedStores
    /\ clockSteps \in 0..MaxClockSteps

(***************************************************************************)
(* StoresFailedFor never hands the caller a store that has been recorded   *)
(* failed for less than the timeout: every store a Failover step adds has  *)
(* been held in FailedStores for Threshold ticks of real time.  A forward  *)
(* step of the wall clock is what the >= on Now().Sub(...) cannot tell     *)
(* from elapsed time.                                                      *)
(***************************************************************************)
NoPrematureFailover ==
    [][\A s \in escalated' \ escalated : failedStores[s].real >= Threshold]_vars

(***************************************************************************)
(* A store recorded as failed is eventually either replaced or seen        *)
(* healthy again: StoresFailedFor returns it once its first-failure time   *)
(* is old enough, even across backward steps of the wall clock.            *)
(***************************************************************************)
FailedStoreEventuallyHandled ==
    \A s \in Stores : (s \in DOMAIN failedStores) ~> (s \in escalated \/ healthy[s])

=============================================================================
