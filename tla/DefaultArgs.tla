---------------------------- MODULE DefaultArgs ----------------------------
(***************************************************************************)
(* Default service arguments: the process-wide ServiceDefaultArgs cache of *)
(* api/core/v1alpha1/common_helpers.go, loaded from the defaultArgs entry  *)
(* of the operator's ConfigMap when the operator starts, and               *)
(* setDefaultServiceArgs, which the defaulting webhooks apply to every     *)
(* LogSet, DNSet and CNSet spec they admit.                                *)
(*                                                                         *)
(* An argument list is abstracted to a model value: Empty for a nil or     *)
(* empty slice, anything else for a non-empty one.                         *)
(***************************************************************************)
EXTENDS Naturals, Webhooks

CONSTANTS
    Objects,        \* the component specs admitted through the webhooks
    Kind,           \* Kind[o]: "LogSetBasic", "DNSetBasic", "CNSetBasic" or another type
    Resource,       \* Resource[o]: the API resource o is stored as ("dnsets", ...)
    Versions,       \* the contents the defaultArgs ConfigMap entry can have
    NoDefaults,     \* ServiceDefaultArgs == nil (entry absent)
    Empty,          \* a nil or empty []string
    UserArgs,       \* non-empty argument lists a user may write
    MaxRestarts     \* bound on operator restarts

VARIABLES
    configMap,      \* the defaultArgs entry: a DefaultArgs record or NoDefaults
    serviceDefaultArgs, \* the cache ServiceDefaultArgs of the running operator
    args,           \* args[o]: ServiceArgs stored in the spec of o
    userArgs,       \* userArgs[o]: what the user last wrote (a ghost)
    restarts,
    serving         \* the operator process, and with it its webhook server, is up

vars == <<configMap, serviceDefaultArgs, args, userArgs, restarts, serving>>

\* Mutant: the CNSet case copy-pasted from the DNSet one.
KindFieldCopyPaste == [LogSetBasic |-> "logService", DNSetBasic |-> "dn",
                       CNSetBasic |-> "dn"]

\* DefaultArgs: the default list of each kind (logService, dn, cn).
KindField == [LogSetBasic |-> "logService", DNSetBasic |-> "dn", CNSetBasic |-> "cn"]

(***************************************************************************)
(* setDefaultServiceArgs: nothing while the cache is nil; for a LogSet,    *)
(* DNSet or CNSet basic spec with no arguments, the defaults of its kind;  *)
(* any other type is logged as an error and left alone.                   *)
(***************************************************************************)
SetDefaultServiceArgs(o, a) ==
    IF serviceDefaultArgs = NoDefaults \/ Kind[o] \notin DOMAIN KindField THEN a
    ELSE IF a = Empty THEN serviceDefaultArgs[KindField[Kind[o]]] ELSE a

\* A create or update of o passes through the defaulting webhook.
Hooked(o) == Resource[o] \in MutatingWebhook.resources

\* What the API server stores for a write of a with ServiceArgs a, if it
\* accepts the write: defaulted when the webhook is called.
Stored(o, a) == IF Hooked(o) /\ serving THEN SetDefaultServiceArgs(o, a) ELSE a

Accepted(o) == \A wh \in WebhooksFor(Resource[o]) : wh.failurePolicy = "Fail" => serving

Init ==
    /\ configMap \in Versions \cup {NoDefaults}
    /\ serviceDefaultArgs = configMap
    /\ args = [o \in Objects |-> Empty]
    /\ userArgs = [o \in Objects |-> Empty]
    /\ restarts = 0
    /\ serving = TRUE

\* A user creates or updates o; the mutating webhook defaults the spec
\* before it is stored.
Admit(o) ==
    /\ Accepted(o)
    /\ \E a \in UserArgs \cup {Empty} :
          /\ userArgs' = [userArgs EXCEPT ![o] = a]
          /\ args' = [args EXCEPT ![o] = Stored(o, a)]
    /\ UNCHANGED <<configMap, serviceDefaultArgs, restarts, serving>>

\* An update that leaves ServiceArgs as stored is defaulted again.
Readmit(o) ==
    /\ Accepted(o)
    /\ args' = [args EXCEPT ![o] = Stored(o, args[o])]
    /\ UNCHANGED <<configMap, serviceDefaultArgs, userArgs, restarts, serving>>

\* An administrator edits the ConfigMap; the running operator does not see it.
EditConfigMap ==
    /\ \E v \in Versions \cup {NoDefaults} : v # configMap /\ configMap' = v
    /\ UNCHANGED <<serviceDefaultArgs, args, userArgs, restarts, serving>>

\* The operator process stops (crash, eviction, upgrade); at most
\* MaxRestarts times.
OperatorStops ==
    /\ serving
    /\ restarts < MaxRestarts
    /\ serving' = FALSE
    /\ UNCHANGED <<configMap, serviceDefaultArgs, args, userArgs, restarts>>

\* The operator starts again and loads the cache once.
RestartOperator ==
    /\ ~serving
    /\ serviceDefaultArgs' = configMap
    /\ restarts' = restarts + 1
    /\ serving' = TRUE
    /\ UNCHANGED <<configMap, args, userArgs>>

Next ==
    \/ \E o \in Objects : Admit(o) \/ Readmit(o)
    \/ EditConfigMap \/ OperatorStops \/ RestartOperator

Spec == Init /\ [][Next]_vars

-----------------------------------------------------------------------------
\* The defaults of a kind's own field in some version of the ConfigMap.
OwnDefaults(kind) ==
    CASE kind = "LogSetBasic" -> {v.logService : v \in Versions}
      [] kind = "DNSetBasic"  -> {v.dn : v \in Versions}
      [] kind = "CNSetBasic"  -> {v.cn : v \in Versions}
      [] OTHER                -> {}

(***************************************************************************)
(* Whatever the sequence of admissions, ConfigMap edits and restarts, a    *)
(* stored spec holds either the arguments its user wrote or, when the user *)
(* wrote none, nothing or the defaults of its own kind from some version   *)
(* of the ConfigMap: defaulting never overrides a user's arguments and     *)
(* never crosses kinds.                                                    *)
(***************************************************************************)
ArgsFromUserOrOwnDefaults ==
    \A o \in Objects :
        IF userArgs[o] # Empty THEN args[o] = userArgs[o]
        ELSE args[o] \in {Empty} \cup OwnDefaults(Kind[o])

=============================================================================
