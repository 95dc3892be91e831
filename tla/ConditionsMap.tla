---------------------------- MODULE ConditionsMap ----------------------------
(***************************************************************************)
(* What a ConditionalStatus promises (spec 3): a map from condition type   *)
(* to its status, a non-empty reason and the time the status last changed. *)
(* A step sets any number of types at once; no type is removed, and the    *)
(* time of a type moves to now exactly when its status changes or the type *)
(* is new.                                                                 *)
(***************************************************************************)
EXTENDS Naturals

CONSTANTS
    CondTypes,      \* condition types
    Reasons,        \* the reasons a condition may carry (none of them empty)
    MaxTime         \* bound on the clock

VARIABLES
    condMap,        \* type -> [status, reason, since]
    now

\* The entry of type t after a step that may set it: a new type, or a
\* status change, takes the time now; otherwise the time is kept.
SinceRespected(t) ==
    IF t \in DOMAIN condMap /\ condMap'[t].status = condMap[t].status
    THEN condMap'[t].since = condMap[t].since
    ELSE condMap'[t].since = now

Set ==
    /\ DOMAIN condMap \subseteq DOMAIN condMap'
    /\ DOMAIN condMap' \subseteq CondTypes
    /\ \A t \in DOMAIN condMap' :
          /\ condMap'[t].status \in BOOLEAN
          /\ condMap'[t].reason \in Reasons
          /\ SinceRespected(t)
    /\ UNCHANGED now

Tick == now < MaxTime /\ now' = now + 1 /\ UNCHANGED condMap

Init == condMap = [t \in {} |-> 0] /\ now = 0

Spec == Init /\ [][Set \/ Tick]_<<condMap, now>>

=============================================================================
