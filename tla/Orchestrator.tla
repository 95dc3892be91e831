--------------------------- MODULE Orchestrator ---------------------------
(***************************************************************************)
(* The cluster orchestrator composed with the defaulting webhook.          *)
(*                                                                         *)
(* A MatrixOneCluster names one child set per component (LogSetKey,        *)
(* DNSetKey, TPSetKey, APSetKey, WebUIKey of common_helpers.go).  Passes   *)
(* of the orchestrator (spec 4.6, 5, 7, 9) are run by a pool of workers    *)
(* fed by a work queue keyed by cluster with deduplication (client-go's    *)
(* queue, dirty and processing sets): a pass reads the cluster spec, then  *)
(* writes the child sets one by one, LogSet first.  Every write goes       *)
(* through the API server and so through the mutating webhook of           *)
(* DefaultArgs.  The operator process may stop between any two steps: the  *)
(* queue and the passes in flight are lost, the webhook is down until it   *)
(* restarts, and the restart lists every cluster again.                    *)
(*                                                                         *)
(* The components of one cluster are DefaultArgs' Objects; a child's       *)
(* userArgs are what its last writer asked for.                            *)
(***************************************************************************)
EXTENDS DefaultArgs, Integers, Sequences, FiniteSets

CONSTANTS
    Cluster,        \* the key of the cluster in the work queue
    Workers,        \* the reconcile workers of the controller
    Order,          \* the components in the order a pass writes them
    Dependents,     \* components that need the LogSet's discovery address
    Invalid,        \* components whose spec fails validation (terminal)
    MaxEdits,       \* bound on edits of the cluster spec
    MaxFaults,      \* bound on transient store errors
    ClusterNames    \* cluster names for the child-key check

ASSUME /\ {Order[i] : i \in DOMAIN Order} = Objects
       /\ Dependents \cup Invalid \subseteq Objects

VARIABLES
    moArgs,         \* the cluster spec: the ServiceArgs of each component
    gen,            \* the cluster spec's generation
    queue,          \* the work queue: keys waiting for a worker
    dirty,          \* keys added since a worker last took them
    processing,     \* keys a worker holds
    wpc,            \* wpc[w]: 0 idle, else the index in Order of its next write
    wspec,          \* wspec[w]: the cluster spec the pass read, and its generation
    retry,          \* retry[w]: the pass met a transient error
    faults,         \* transient errors so far
    childGen,       \* childGen[o]: generation of the spec last written into o, -1 absent
    discovery       \* the LogSet has published its discovery address

oVars == <<moArgs, gen, queue, dirty, processing, wpc, wspec, retry, faults,
           childGen, discovery>>
allVars == <<vars, oVars>>

PassEnd == Len(Order) + 1

(***************************************************************************)
(* The names of the child sets of cluster mo: ObjectMeta{Name, Namespace}  *)
(* with the cluster's namespace, so the name alone.                        *)
(***************************************************************************)
LogSetKey(mo) == mo

DNSetKey(mo) == mo

\* Mutant: the TP key copy-pasted from the AP one.
TPSetKeyCopyPaste(mo) == mo \o "-ap"

TPSetKey(mo) == mo \o "-tp"

APSetKey(mo) == mo \o "-ap"

WebUIKey(mo) == mo

\* The object (kind, name) the orchestrator keeps for a role of cluster mo.
ChildOf(mo, role) ==
    CASE role = "log"   -> <<"LogSet", LogSetKey(mo)>>
      [] role = "dn"    -> <<"DNSet", DNSetKey(mo)>>
      [] role = "tp"    -> <<"CNSet", TPSetKey(mo)>>
      [] role = "ap"    -> <<"CNSet", APSetKey(mo)>>
      [] role = "webui" -> <<"WebUI", WebUIKey(mo)>>

\* MatrixOneClusterSpec, as far as the children's arguments go.
ClusterSpecs == [Objects -> UserArgs \cup {Empty}]

\* What an idle worker holds.
NoPass == [args |-> [o \in Objects |-> Empty], gen |-> 0]

(***************************************************************************)
(* The work queue.  Add: nothing if the key is dirty; else mark it dirty   *)
(* and queue it unless a worker holds it.                                  *)
(***************************************************************************)
WQAdd ==
    IF Cluster \in dirty THEN UNCHANGED <<queue, dirty>>
    ELSE /\ dirty' = dirty \cup {Cluster}
         /\ queue' = IF Cluster \in processing THEN queue ELSE Append(queue, Cluster)

\* Get: a worker takes the head of the queue and reads the cluster spec.
WQGet(w) ==
    /\ serving
    /\ wpc[w] = 0
    /\ queue # <<>>
    /\ queue' = Tail(queue)
    /\ processing' = processing \cup {Head(queue)}
    /\ dirty' = dirty \ {Head(queue)}
    /\ wpc' = [wpc EXCEPT ![w] = 1]
    /\ wspec' = [wspec EXCEPT ![w] = [args |-> moArgs, gen |-> gen]]
    /\ retry' = [retry EXCEPT ![w] = FALSE]
    /\ UNCHANGED <<vars, moArgs, gen, faults, childGen, discovery>>

\* The write of the next child of a pass.
Writing(w) == Order[wpc[w]]

\* The next child waits for discovery (NotReady, not an error), or is invalid.
Skipped(w) ==
    \/ Writing(w) \in Dependents /\ ~discovery
    \/ Writing(w) \in Invalid

\* Mutant: the pass returns at its first error instead of going on.
SyncComponentAbortOnError(w) ==
    /\ serving
    /\ wpc[w] \in 1..Len(Order)
    /\ \/ Writing(w) \in Invalid /\ wpc' = [wpc EXCEPT ![w] = PassEnd]
          /\ UNCHANGED <<args, userArgs, childGen>>
       \/ Skipped(w) /\ Writing(w) \notin Invalid /\ wpc' = [wpc EXCEPT ![w] = @ + 1]
          /\ UNCHANGED <<args, userArgs, childGen>>
       \/ ~Skipped(w) /\ wpc' = [wpc EXCEPT ![w] = @ + 1]
          /\ LET o == Writing(w) IN
             /\ userArgs' = [userArgs EXCEPT ![o] = wspec[w].args[o]]
             /\ args' = [args EXCEPT ![o] = Stored(o, wspec[w].args[o])]
             /\ childGen' = [childGen EXCEPT ![o] = wspec[w].gen]
    /\ UNCHANGED <<configMap, serviceDefaultArgs, restarts, serving, moArgs, gen,
                   queue, dirty, processing, wspec, retry, faults, discovery>>

(***************************************************************************)
(* One child of a pass: a child that cannot be written yet or is invalid   *)
(* is skipped, the pass goes on with its siblings (spec 4.6: one failure   *)
(* does not block the others); else the child is created or updated with  *)
(* the arguments the pass read, through the webhook.                       *)
(***************************************************************************)
SyncComponent(w) ==
    /\ serving
    /\ wpc[w] \in 1..Len(Order)
    /\ wpc' = [wpc EXCEPT ![w] = @ + 1]
    /\ IF Skipped(w) THEN UNCHANGED <<args, userArgs, childGen>>
       ELSE LET o == Writing(w) IN
            /\ userArgs' = [userArgs EXCEPT ![o] = wspec[w].args[o]]
            /\ args' = [args EXCEPT ![o] = Stored(o, wspec[w].args[o])]
            /\ childGen' = [childGen EXCEPT ![o] = wspec[w].gen]
    /\ UNCHANGED <<configMap, serviceDefaultArgs, restarts, serving, moArgs, gen,
                   queue, dirty, processing, wspec, retry, faults, discovery>>

\* The write of the next child fails with a transient store error; the
\* pass goes on and asks for a retry.
SyncComponentFails(w) ==
    /\ serving
    /\ wpc[w] \in 1..Len(Order)
    /\ ~Skipped(w)
    /\ faults < MaxFaults
    /\ faults' = faults + 1
    /\ wpc' = [wpc EXCEPT ![w] = @ + 1]
    /\ retry' = [retry EXCEPT ![w] = TRUE]
    /\ UNCHANGED <<vars, moArgs, gen, queue, dirty, processing, wspec, childGen, discovery>>

(***************************************************************************)
(* The end of a pass: Done releases the key and queues it again if it was  *)
(* added meanwhile; a transient error re-adds it (AddRateLimited).         *)
(***************************************************************************)
WQDone(w) ==
    /\ serving
    /\ wpc[w] = PassEnd
    /\ processing' = processing \ {Cluster}
    /\ IF Cluster \in dirty \/ retry[w]
       THEN /\ queue' = Append(queue, Cluster)
            /\ dirty' = dirty \cup {Cluster}
       ELSE UNCHANGED <<queue, dirty>>
    /\ wpc' = [wpc EXCEPT ![w] = 0]
    /\ wspec' = [wspec EXCEPT ![w] = NoPass]
    /\ retry' = [retry EXCEPT ![w] = FALSE]
    /\ UNCHANGED <<vars, moArgs, gen, faults, childGen, discovery>>

\* The user edits the cluster spec; the watch adds the cluster.
EditClusterSpec ==
    /\ gen < MaxEdits
    /\ \E s \in ClusterSpecs : s # moArgs /\ moArgs' = s
    /\ gen' = gen + 1
    /\ IF serving THEN WQAdd ELSE UNCHANGED <<queue, dirty>>
    /\ UNCHANGED <<vars, processing, wpc, wspec, retry, faults, childGen, discovery>>

\* The LogSet child publishes its discovery address; the watch adds the cluster.
PublishDiscovery ==
    /\ ~discovery
    /\ childGen["log"] >= 0
    /\ discovery' = TRUE
    /\ IF serving THEN WQAdd ELSE UNCHANGED <<queue, dirty>>
    /\ UNCHANGED <<vars, moArgs, gen, processing, wpc, wspec, retry, faults, childGen>>

\* A user writes a child set directly; the watch on children adds the cluster.
UserWritesChild(o) ==
    /\ Admit(o)
    /\ IF serving THEN WQAdd ELSE UNCHANGED <<queue, dirty>>
    /\ UNCHANGED <<moArgs, gen, processing, wpc, wspec, retry, faults, childGen, discovery>>

\* The operator stops: the work queue and the passes in flight are lost.
Crash ==
    /\ OperatorStops
    /\ queue' = <<>> /\ dirty' = {} /\ processing' = {}
    /\ wpc' = [w \in Workers |-> 0]
    /\ wspec' = [w \in Workers |-> NoPass]
    /\ retry' = [w \in Workers |-> FALSE]
    /\ UNCHANGED <<moArgs, gen, faults, childGen, discovery>>

\* It starts again: the informers list every cluster into the queue.
Restart ==
    /\ RestartOperator
    /\ queue' = <<Cluster>> /\ dirty' = {Cluster}
    /\ UNCHANGED <<moArgs, gen, processing, wpc, wspec, retry, faults, childGen, discovery>>

ConfigMapEdited ==
    /\ EditConfigMap
    /\ UNCHANGED oVars

OInit ==
    /\ Init
    /\ moArgs \in ClusterSpecs
    /\ gen = 0
    /\ queue = <<Cluster>> /\ dirty = {Cluster} /\ processing = {}
    /\ wpc = [w \in Workers |-> 0]
    /\ wspec = [w \in Workers |-> NoPass]
    /\ retry = [w \in Workers |-> FALSE]
    /\ faults = 0
    /\ childGen = [o \in Objects |-> -1]
    /\ discovery = FALSE

ONext ==
    \/ \E w \in Workers :
          WQGet(w) \/ SyncComponent(w) \/ SyncComponentFails(w) \/ WQDone(w)
    \/ EditClusterSpec \/ PublishDiscovery
    \/ \E o \in Objects : UserWritesChild(o)
    \/ ConfigMapEdited \/ Crash \/ Restart

(***************************************************************************)
(* Workers run while the operator is up, the kubelet restarts a stopped    *)
(* operator, and the LogSet controller eventually publishes discovery.     *)
(* Users, the ConfigMap, crashes and store errors get no fairness.         *)
(***************************************************************************)
OSpec == OInit /\ [][ONext]_allVars
         /\ \A w \in Workers :
               WF_allVars(WQGet(w)) /\ WF_allVars(SyncComponent(w)) /\ WF_allVars(WQDone(w))
         /\ WF_allVars(Restart) /\ WF_allVars(PublishDiscovery)

-----------------------------------------------------------------------------
(***************************************************************************)
(* Every child set the orchestrator has written for the cluster is its     *)
(* alone: no other role of the cluster and no role of another cluster of   *)
(* the namespace, whatever dashes the cluster names hold, names the same   *)
(* object, so no two passes fight over one object.                         *)
(***************************************************************************)
Roles == {"log", "dn", "tp", "ap", "webui"}

ChildKeysDistinct ==
    \A o \in Objects : childGen[o] >= 0 =>
        \A m \in ClusterNames, r \in Roles :
            <<m, r>> # <<Cluster, o>> => ChildOf(m, r) # ChildOf(Cluster, o)

SpecEventuallyApplied ==
    \A o \in Objects \ Invalid : <>[](childGen[o] = gen)

=============================================================================
