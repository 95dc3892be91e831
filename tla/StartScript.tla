----------------------------- MODULE StartScript -----------------------------
(***************************************************************************)
(* The DN entrypoint (startScriptTpl of src/unnamed/part_000) run by every *)
(* pod of the DN StatefulSet, against the ConfigMap buildDNSetConfigMap    *)
(* renders, the cluster DNS and the kubelet that restarts a container      *)
(* which exits.                                                            *)
(*                                                                         *)
(* The script copies the mounted config, inserts uuid and service-address  *)
(* after the "[dn]" header and a lock-service service-address after the    *)
(* "[dn.lockservice]" header with sed, waits for its own DNS name, and     *)
(* execs mo-service, which refuses a config that defines a key twice.      *)
(* A rendered config is a bag of dotted paths: the copies of each key the  *)
(* file holds.                                                             *)
(***************************************************************************)
EXTENDS DNConfig, Naturals, Bags

CONSTANTS
    Ordinals,       \* pod ordinals of the StatefulSet
    Threshold,      \* threshold of the DNS wait loop (seconds, one per iteration)
    Configs         \* the documents the DN ConfigMap may hold

VARIABLES
    cm,             \* the ConfigMap content mounted into the pods
    resolvable,     \* resolvable[o]: the pod's DNS record has been published
    pods            \* pods[o]: [pc, elapsed, conf] of the script in pod o

vars == <<cm, resolvable, pods>>

(***************************************************************************)
(* The tables of the rendered TOML a path lies in, for the paths the       *)
(* documents here use: a header "[t]" is written when t holds a key.       *)
(***************************************************************************)
TableOf == [p \in {"dn.listen-address", "dn.uuid", "dn.service-address"} |-> "dn"]
           @@ [p \in {"dn.lockservice.listen-address", "dn.lockservice.service-address"}
                 |-> "dn.lockservice"]

Tables(conf) == {TableOf[p] : p \in DOMAIN conf \cap DOMAIN TableOf}

\* Mutant: the sed address /\[dn/ without the closing bracket, which also
\* matches the [dn.lockservice] header.
InsertedUnanchored(conf) ==
    (IF "dn" \in Tables(conf) THEN SetToBag({"dn.uuid", "dn.service-address"})
                                   (+) SetToBag({"dn.lockservice.uuid", "dn.lockservice.service-address"})
     ELSE EmptyBag)
    (+) (IF "dn.lockservice" \in Tables(conf)
         THEN SetToBag({"dn.lockservice.service-address"}) ELSE EmptyBag)

(***************************************************************************)
(* The keys the two sed commands insert: uuid and service-address after    *)
(* "[dn]", service-address after "[dn.lockservice]", each only when the    *)
(* header is there.                                                        *)
(***************************************************************************)
Inserted(conf) ==
    (IF "dn" \in Tables(conf) THEN SetToBag({"dn.uuid", "dn.service-address"})
     ELSE EmptyBag)
    (+) (IF "dn.lockservice" \in Tables(conf)
         THEN SetToBag({"dn.lockservice.service-address"}) ELSE EmptyBag)

\* The instance config the script hands to mo-service.
InstanceConfig(conf) == SetToBag(DOMAIN conf) (+) Inserted(conf)

\* mo-service parses the file: TOML forbids defining a key twice.
Parses(bag) == \A p \in BagToSet(bag) : CopiesIn(p, bag) = 1

Init ==
    /\ cm \in Configs
    /\ resolvable = [o \in Ordinals |-> FALSE]
    /\ pods = [o \in Ordinals |-> [pc |-> "init", elapsed |-> 0, conf |-> EmptyBag]]

\* The script starts: identity, then the config built from the mounted file.
BuildConfig(o) ==
    /\ pods[o].pc = "init"
    /\ pods' = [pods EXCEPT ![o] = [pc |-> "wait", elapsed |-> 0, conf |-> InstanceConfig(cm)]]
    /\ UNCHANGED <<cm, resolvable>>

\* Mutant: the timeout test written -gt instead of -ge.
WaitForDNSGt(o) ==
    LET e == pods[o].elapsed + 1
    IN  /\ pods[o].pc = "wait"
        /\ pods' = [pods EXCEPT ![o] =
                      [@ EXCEPT !.elapsed = e,
                                !.pc = IF e > Threshold THEN "exited"
                                       ELSE IF resolvable[o] THEN "exec" ELSE "wait"]]
        /\ UNCHANGED <<cm, resolvable>>

(***************************************************************************)
(* One iteration of the wait loop: sleep, count the second, give up with   *)
(* exit 1 once the count reaches the threshold, else look the name up and  *)
(* leave the loop when it resolves.                                        *)
(***************************************************************************)
WaitForDNS(o) ==
    LET e == pods[o].elapsed + 1
    IN  /\ pods[o].pc = "wait"
        /\ pods' = [pods EXCEPT ![o] =
                      [@ EXCEPT !.elapsed = e,
                                !.pc = IF e >= Threshold THEN "exited"
                                       ELSE IF resolvable[o] THEN "exec" ELSE "wait"]]
        /\ UNCHANGED <<cm, resolvable>>

\* exec mo-service: it runs, or exits on a config it cannot parse.
Exec(o) ==
    /\ pods[o].pc = "exec"
    /\ pods' = [pods EXCEPT ![o].pc = IF Parses(pods[o].conf) THEN "running" ELSE "exited"]
    /\ UNCHANGED <<cm, resolvable>>

\* The kubelet restarts the exited container (restartPolicy Always).
Restart(o) ==
    /\ pods[o].pc = "exited"
    /\ pods' = [pods EXCEPT ![o] = [pc |-> "init", elapsed |-> 0, conf |-> EmptyBag]]
    /\ UNCHANGED <<cm, resolvable>>

\* The pod's record appears in the headless service's DNS.
PublishRecord(o) ==
    /\ ~resolvable[o]
    /\ resolvable' = [resolvable EXCEPT ![o] = TRUE]
    /\ UNCHANGED <<cm, pods>>

\* The DNSet reconciler writes another ConfigMap; restarted scripts read it.
UpdateConfigMap ==
    /\ \E c \in Configs : c # cm /\ cm' = c
    /\ UNCHANGED <<resolvable, pods>>

Next ==
    \/ \E o \in Ordinals :
          BuildConfig(o) \/ WaitForDNS(o) \/ Exec(o) \/ Restart(o) \/ PublishRecord(o)
    \/ UpdateConfigMap

(***************************************************************************)
(* Each container's process makes progress, the kubelet keeps restarting   *)
(* an exited container, and the DNS eventually publishes every pod (the    *)
(* headless service publishes not-ready addresses).  ConfigMap edits are   *)
(* the user's and get no fairness.                                         *)
(***************************************************************************)
Spec == Init /\ [][Next]_vars
        /\ \A o \in Ordinals :
              /\ WF_vars(BuildConfig(o)) /\ WF_vars(WaitForDNS(o)) /\ WF_vars(Exec(o))
              /\ WF_vars(Restart(o)) /\ WF_vars(PublishRecord(o))

-----------------------------------------------------------------------------
TypeOK ==
    /\ cm \in Configs
    /\ resolvable \in [Ordinals -> BOOLEAN]
    /\ \A o \in Ordinals :
          /\ pods[o].pc \in {"init", "wait", "exec", "running", "exited"}
          /\ pods[o].elapsed \in 0..Threshold
          /\ IsABag(pods[o].conf)

(***************************************************************************)
(* Every DN pod eventually runs mo-service, whatever the DNS delay and     *)
(* however often the ConfigMap changes: a timed-out wait ends in a restart *)
(* that tries again, and the instance config the script builds parses.     *)
(***************************************************************************)
EveryPodEventuallyRuns ==
    \A o \in Ordinals : <>(pods[o].pc = "running")

=============================================================================
