--------------------------- MODULE ClusterStatus ---------------------------
(***************************************************************************)
(* The conditions of a MatrixOneCluster and the CN group counters they are *)
(* computed from: ConditionalStatus.SetCondition / GetConditions and       *)
(* CNGroupStatus.Synced / Ready of api/core/v1alpha1/common_helpers.go,    *)
(* with meta.SetStatusCondition of k8s.io/apimachinery and the cluster     *)
(* orchestrator's status pass, which are not in this repository and are    *)
(* modelled from the spec.                                                 *)
(***************************************************************************)
EXTENDS Naturals, FiniteSets, Sequences

CONSTANTS
    Groups,         \* names of the CN groups a cluster spec may list
    Reasons,        \* the reasons the orchestrator passes, "" (unset) included
    MaxTime,        \* bound on the wall clock
    NoConditions    \* a nil Conditions slice

VARIABLES
    desired,        \* the CN groups of the cluster spec
    group,          \* group[g]: "pending", "synced" or "ready", its CNSet's state
    cnGroupStatus,  \* Status.CNGroupStatus as the last status pass wrote it
    conditions,     \* Status.Conditions
    now             \* the wall clock

vars == <<desired, group, cnGroupStatus, conditions, now>>

reasonEmpty == "empty"

(***************************************************************************)
(* meta.SetStatusCondition: a new type is appended with the transition     *)
(* time now; an existing one changes its transition time only when its     *)
(* status changes, and always takes the new reason.  Callers leave         *)
(* LastTransitionTime zero, so "now" is the one used.                      *)
(***************************************************************************)
\* Mutant: every call appends, the existing entry of the type is not looked up.
SetStatusConditionAppend(cs, c) == Append(cs, [c EXCEPT !.ltt = now])

\* Mutant: a new condition appended with the caller's zero transition time.
SetStatusConditionUnstamped(cs, c) ==
    LET idx == {i \in DOMAIN cs : cs[i].type = c.type}
    IN  IF idx = {} THEN Append(cs, c)
        ELSE LET i == CHOOSE i \in idx : TRUE
                 old == cs[i]
             IN  [cs EXCEPT ![i] =
                    [old EXCEPT !.status = c.status,
                                !.ltt = IF old.status # c.status THEN now ELSE old.ltt,
                                !.reason = c.reason]]

SetStatusCondition(cs, c) ==
    LET idx == {i \in DOMAIN cs : cs[i].type = c.type}
    IN  IF idx = {} THEN Append(cs, [c EXCEPT !.ltt = now])
        ELSE LET i == CHOOSE i \in idx : TRUE
                 old == cs[i]
             IN  [cs EXCEPT ![i] =
                    [old EXCEPT !.status = c.status,
                                !.ltt = IF old.status # c.status THEN now ELSE old.ltt,
                                !.reason = c.reason]]

\* Mutant: the empty reason passed through unchanged.
SetConditionKeepEmpty(cs, c) ==
    SetStatusCondition(IF cs = NoConditions THEN <<>> ELSE cs, c)

(***************************************************************************)
(* ConditionalStatus.SetCondition: a nil list becomes empty, an empty      *)
(* reason becomes "empty", then meta.SetStatusCondition.                   *)
(***************************************************************************)
SetCondition(cs, c) ==
    SetStatusCondition(IF cs = NoConditions THEN <<>> ELSE cs,
                       IF c.reason = "" THEN [c EXCEPT !.reason = reasonEmpty] ELSE c)

\* MatrixOneCluster.SetCondition: the condition goes to the cluster's status.
MOSetCondition(cs, c) == SetCondition(cs, c)

\* ConditionalStatus.GetConditions on the non-nil status of a cluster.
GetConditions(cs) == IF cs = NoConditions THEN <<>> ELSE cs

\* MatrixOneCluster.GetConditions: the conditions of the cluster's status.
MOGetConditions(cs) == GetConditions(cs)

\* The CNGroupStatus counters of a MatrixOneClusterStatus.
CNGroupStatusType == [desiredGroups : Nat, readyGroups : Nat, syncedGroups : Nat]

\* Mutant: Ready copy-pasted from Synced.
CNReadyFromSynced(s) == s.syncedGroups >= s.desiredGroups

\* CNGroupStatus.Synced and CNGroupStatus.Ready
CNSynced(s) == s.syncedGroups >= s.desiredGroups
CNReady(s) == s.readyGroups >= s.desiredGroups

Init ==
    /\ desired \in SUBSET Groups
    /\ group = [g \in Groups |-> "pending"]
    /\ cnGroupStatus = [desiredGroups |-> 0, readyGroups |-> 0, syncedGroups |-> 0]
    /\ conditions = NoConditions
    /\ now = 0

\* The user edits the CN groups of the cluster spec.
EditGroups ==
    /\ \E gs \in SUBSET Groups : gs # desired /\ desired' = gs
    /\ UNCHANGED <<group, cnGroupStatus, conditions, now>>

\* A CNSet reconciler brings its set forward, or a ready set degrades.
GroupProgress(g) ==
    /\ group' = [group EXCEPT ![g] = CASE @ = "pending" -> "synced"
                                      [] @ = "synced"  -> "ready"
                                      [] @ = "ready"   -> "pending"]
    /\ UNCHANGED <<desired, cnGroupStatus, conditions, now>>

Tick ==
    /\ now < MaxTime
    /\ now' = now + 1
    /\ UNCHANGED <<desired, group, cnGroupStatus, conditions>>

CountIn(states) == Cardinality({g \in desired : group[g] \in states})

Condition(type, ok, reason) ==
    [type |-> type, status |-> ok, reason |-> reason, ltt |-> 0]

(***************************************************************************)
(* A status pass of the orchestrator: it counts the desired groups and the *)
(* synced and ready ones, then sets the Synced and Ready conditions from   *)
(* CNGroupStatus.Synced() and Ready() through MatrixOneCluster.SetCondition.*)
(***************************************************************************)
SyncClusterStatus ==
    LET st == [desiredGroups |-> Cardinality(desired),
               readyGroups   |-> CountIn({"ready"}),
               syncedGroups  |-> CountIn({"synced", "ready"})]
    IN  /\ cnGroupStatus' = st
        /\ \E r1, r2 \in Reasons :
              conditions' = MOSetCondition(MOSetCondition(conditions, Condition("Synced", CNSynced(st), r1)),
                                           Condition("Ready", CNReady(st), r2))
        /\ UNCHANGED <<desired, group, now>>

Next ==
    \/ EditGroups \/ \E g \in Groups : GroupProgress(g)
    \/ Tick \/ SyncClusterStatus

\* The orchestrator is invoked on every change of the spec or of an owned
\* CNSet; users, CNSets and the clock get no fairness.
Spec == Init /\ [][Next]_vars /\ WF_vars(SyncClusterStatus)

-----------------------------------------------------------------------------
\* The conditions of the cluster as a set, and the one of a type.
Conds(cs) == {MOGetConditions(cs)[i] : i \in DOMAIN MOGetConditions(cs)}
CondOf(cs, type) == CHOOSE c \in Conds(cs) : c.type = type
Types(cs) == {c.type : c \in Conds(cs)}

\* The reasons a stored condition may have.
StoredReasons == (Reasons \ {""}) \cup {reasonEmpty}

TypeOK ==
    /\ desired \subseteq Groups
    /\ group \in [Groups -> {"pending", "synced", "ready"}]
    /\ cnGroupStatus \in CNGroupStatusType
    /\ conditions = NoConditions \/ conditions \in Seq([type : {"Synced", "Ready"},
            status : BOOLEAN, reason : StoredReasons, ltt : 0..MaxTime])
    /\ now \in 0..MaxTime

(***************************************************************************)
(* The conditions stay a map from type to condition across any sequence of *)
(* passes, however often each type is set again: one entry per type        *)
(* (spec 3, ConditionalStatus).                                            *)
(***************************************************************************)
ConditionsWellFormed ==
    Cardinality(Types(conditions)) = Len(GetConditions(conditions))

(***************************************************************************)
(* A status pass reports the cluster's CN groups Synced (Ready) exactly    *)
(* when every desired group is synced (ready), including when the spec     *)
(* lists no group at all: CNGroupStatus compares the counters with >=.     *)
(***************************************************************************)
GroupConditionsExact ==
    [][SyncClusterStatus =>
         /\ CondOf(conditions', "Ready").status
              = \A g \in desired : group[g] = "ready"
         /\ CondOf(conditions', "Synced").status
              = \A g \in desired : group[g] \in {"synced", "ready"}]_vars

(***************************************************************************)
(* The conditions list, read as a map from type to status, reason and      *)
(* transition time, implements the ConditionalStatus abstraction: every    *)
(* status pass is one step of ConditionsMap and every other step leaves    *)
(* the map and the clock as they are or only advances the clock.           *)
(***************************************************************************)
AsMap(cs) == [t \in Types(cs) |-> [status |-> CondOf(cs, t).status,
                                    reason |-> CondOf(cs, t).reason,
                                    since  |-> CondOf(cs, t).ltt]]

Abstract == INSTANCE ConditionsMap
    WITH CondTypes <- {"Synced", "Ready"}, Reasons <- StoredReasons,
         condMap <- AsMap(conditions)

ImplementsConditionsMap == Abstract!Spec

=============================================================================
