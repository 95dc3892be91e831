----------------------------- MODULE DNSetSync -----------------------------
(***************************************************************************)
(* The DNSet reconciler of pkg/controllers/dnset (src/unnamed/part_000)    *)
(* driving a live StatefulSet and ConfigMap towards a DNSet spec, while    *)
(* the user edits the spec and the LogSet it depends on publishes its      *)
(* discovery address and changes its HAKeeper addresses.                   *)
(*                                                                         *)
(* One Reconcile step is one whole reconciliation pass: the pass runs      *)
(* sequentially and only writes at its end (the StatefulSet is mutated in  *)
(* memory by the sync* functions and written by the framework), so its     *)
(* steps cannot interleave with anything that changes its result.          *)
(***************************************************************************)
EXTENDS Overlay, DNConfig

CONSTANTS
    DNSpecs,        \* the DNSet specs the user may submit
    Addrs,          \* values of logset.HaKeeperAdds(ls)
    NoSts,          \* the StatefulSet does not exist yet
    NoConfigMap,    \* the ConfigMap does not exist yet
    GenVal,         \* a value generated by the controller (entrypoint command, topology)
    ConfigVolume,   \* common.ConfigVolume
    DataVolume,     \* common.DataVolume
    BaseLabels,     \* labels put on the pod template by common.StatefulSetTemplate
    PodFields,      \* overlayable pod fields (Affinity, Tolerations, TopologySpreadConstraints, ...)
    MainFields      \* overlayable main container fields (Command, Args, ImagePullPolicy, ...)

ASSUME "topology" \in PodFields /\ "command" \in MainFields

VARIABLES
    dn,     \* the DNSet object: its spec as last written by the user
    ls,     \* the LogSet dependency: [discovery: BOOLEAN, addrs: Addrs]
    sts,    \* the live StatefulSet (its managed part), or NoSts
    cm      \* the live DN ConfigMap content (config document), or NoConfigMap

vars == <<dn, ls, sts, cm>>

-----------------------------------------------------------------------------
(* The StatefulSet and its pod template.                                   *)

NewMainContainer ==
    [name |-> ContainerMain, image |-> Unset, fields |-> [f \in MainFields |-> Unset],
     env |-> <<>>, mounts |-> <<>>]

\* buildDNSet / common.StatefulSetTemplate: a fresh StatefulSet whose pod
\* template carries the selector labels and the config volume.
BuildDNSet ==
    [replicas |-> 0,
     meta     |-> [labels |-> BaseLabels, annotations |-> <<>>],
     pod      |-> [volumes    |-> <<[name |-> ConfigVolume, src |-> Unset]>>,
                   fields     |-> [f \in PodFields |-> Unset],
                   containers |-> <<>>],
     claims   |-> <<>>]

\* syncReplicas
SyncReplicas(d, s) == [s EXCEPT !.replicas = d.replicas]

\* syncPodMeta
SyncPodMeta(d, s) == [s EXCEPT !.meta = OverlayPodMeta(d.overlay, @)]

\* The env vars of the main container: pod name, namespace, headless
\* service name, and HOSTNAME_UUID when the identity is DNS based.
MainEnv(d) ==
    <<[name |-> "POD_NAME", value |-> "metadata.name"],
      [name |-> "NAMESPACE", value |-> "metadata.namespace"],
      [name |-> "HEADLESS_SERVICE_NAME", value |-> "headless-svc"]>>
    \o (IF d.dnsIdentity THEN <<[name |-> "HOSTNAME_UUID", value |-> "y"]>> ELSE <<>>)

\* Mutant: the data mount added whether or not a cache volume is configured.
MainMountsAlwaysData(d) == <<[name |-> ConfigVolume], [name |-> DataVolume]>>

\* The config mount, and the data mount when a cache volume is configured.
MainMounts(d) ==
    <<[name |-> ConfigVolume]>> \o (IF d.cacheVolume THEN <<[name |-> DataVolume]>> ELSE <<>>)

\* Mutant: the generated env vars appended to the live ones, not reset.
SyncPodSpecAppendEnv(d, s) ==
    LET found == FindMainContainer(s.pod.containers)
        base  == IF found = NoContainer THEN NewMainContainer ELSE found
        main  == OverlayMainContainer(d.overlay,
                   [base EXCEPT !.image = d.image, !.fields["command"] = GenVal,
                                !.mounts = MainMounts(d), !.env = @ \o MainEnv(d)])
        pod   == [s.pod EXCEPT !.containers = <<main>>, !.fields["topology"] = GenVal]
    IN  [s EXCEPT !.pod = OverlayPodSpec(d.overlay, pod)]

(***************************************************************************)
(* syncPodSpec: regenerate image, command, mounts and env on the existing  *)
(* main container (or a new one), apply the main-container overlay, make   *)
(* it the only container, regenerate the topology spread (SyncTopology)    *)
(* and apply the pod-spec overlay.                                         *)
(***************************************************************************)
SyncPodSpec(d, s) ==
    LET found == FindMainContainer(s.pod.containers)
        base  == IF found = NoContainer THEN NewMainContainer ELSE found
        main  == OverlayMainContainer(d.overlay,
                   [base EXCEPT !.image = d.image, !.fields["command"] = GenVal,
                                !.mounts = MainMounts(d), !.env = MainEnv(d)])
        pod   == [s.pod EXCEPT !.containers = <<main>>, !.fields["topology"] = GenVal]
    IN  [s EXCEPT !.pod = OverlayPodSpec(d.overlay, pod)]

\* common.SyncConfigMap: point the config volume at the rendered ConfigMap.
SyncConfigMap(s, conf) ==
    [s EXCEPT !.pod.volumes = UpsertListByKey(@, <<[name |-> ConfigVolume, src |-> conf]>>)]

\* syncPods (after buildDNSetConfigMap succeeded)
SyncPods(d, l, s) ==
    SyncConfigMap(SyncPodSpec(d, SyncPodMeta(d, s)), BuildDNSetConfigMap(d, l))

\* syncPersistentVolumeClaim: the data claim and the overlay's claims, set
\* only when a cache volume is configured.
SyncPersistentVolumeClaim(d, s) ==
    IF d.cacheVolume
    THEN [s EXCEPT !.claims = AppendVolumeClaims(d.overlay, <<[name |-> DataVolume]>>)]
    ELSE s

\* One pass of the DNSet controller over an existing or new StatefulSet.
Sync(d, l, s) ==
    LET s0 == IF s = NoSts THEN BuildDNSet ELSE s
    IN  SyncPersistentVolumeClaim(d, SyncPods(d, l, SyncReplicas(d, s0)))

-----------------------------------------------------------------------------
Init ==
    /\ dn \in DNSpecs
    /\ \E a \in Addrs : ls = [discovery |-> FALSE, addrs |-> a]
    /\ sts = NoSts
    /\ cm = NoConfigMap

\* Mutant: only the create path syncs; an existing StatefulSet is left alone.
ReconcileCreateOnly ==
    /\ ls.discovery
    /\ sts = NoSts
    /\ sts' = Sync(dn, ls, sts)
    /\ cm'  = BuildDNSetConfigMap(dn, ls)
    /\ UNCHANGED <<dn, ls>>

\* A reconciliation pass.  While the discovery address is missing,
\* buildDNSetConfigMap returns an error and the pass changes nothing.
Reconcile ==
    /\ ls.discovery
    /\ sts' = Sync(dn, ls, sts)
    /\ cm'  = BuildDNSetConfigMap(dn, ls)
    /\ UNCHANGED <<dn, ls>>

\* The user submits a new DNSet spec.
UpdateSpec ==
    /\ \E d \in DNSpecs \ {dn} : dn' = d
    /\ UNCHANGED <<ls, sts, cm>>

\* The LogSet controller publishes the HAKeeper discovery address.
PublishDiscovery ==
    /\ ~ls.discovery
    /\ ls' = [ls EXCEPT !.discovery = TRUE]
    /\ UNCHANGED <<dn, sts, cm>>

\* The LogSet's HAKeeper addresses change (LogSet scaled or rescheduled).
ChangeHaKeeperAddrs ==
    /\ \E a \in Addrs \ {ls.addrs} : ls' = [ls EXCEPT !.addrs = a]
    /\ UNCHANGED <<dn, sts, cm>>

Next ==
    \/ Reconcile
    \/ UpdateSpec
    \/ PublishDiscovery
    \/ ChangeHaKeeperAddrs

\* The framework re-runs a pass on every watched change and requeues on
\* error, so a pass that stays possible is eventually run.
Spec == Init /\ [][Next]_vars /\ WF_vars(Reconcile)

-----------------------------------------------------------------------------
(* Properties                                                              *)

ComputedPaths == {"hakeeper-client.service-addresses", "service-type",
                  "dn.listen-address", "dn.lockservice.listen-address"}

Names(list) == {list[i].name : i \in DOMAIN list}

UniqueNames(list) == \A i, j \in DOMAIN list : list[i].name = list[j].name => i = j

TypeOK ==
    /\ dn \in DNSpecs
    /\ ls \in [discovery : BOOLEAN, addrs : Addrs]
    /\ cm = NoConfigMap \/ ComputedPaths \subseteq DOMAIN cm
    /\ sts = NoSts \/
         /\ sts.replicas \in Nat
         /\ DOMAIN sts.pod.fields = PodFields
         /\ \A i \in DOMAIN sts.pod.containers :
                DOMAIN sts.pod.containers[i].fields = MainFields

(***************************************************************************)
(* The pod template a pass leaves is one the API server accepts: exactly   *)
(* one container named main and it comes first (the sidecar overlay keeps  *)
(* it), and no two volumes, env vars of main, or mounts of main share a    *)
(* name, however the regenerated lists and the upserted overlay lists of   *)
(* syncPodSpec, OverlayPodSpec and SyncConfigMap were combined over passes.*)
(***************************************************************************)
PodTemplateWellFormed ==
    sts # NoSts =>
        LET cs == sts.pod.containers IN
        /\ cs # <<>> /\ cs[1].name = ContainerMain
        /\ \A i \in DOMAIN cs : i > 1 => cs[i].name # ContainerMain
        /\ UniqueNames(sts.pod.volumes)
        /\ UniqueNames(cs[1].env)
        /\ UniqueNames(cs[1].mounts)

(***************************************************************************)
(* Every volume mount of the main container is backed by a pod volume or   *)
(* by a volume claim template: the data mount (syncPodSpec) and the data   *)
(* claim (syncPersistentVolumeClaim) are decided by the same spec in the   *)
(* same pass, whatever the cache volume setting was in earlier passes.     *)
(***************************************************************************)
MountsBacked ==
    sts # NoSts =>
        Names(sts.pod.containers[1].mounts) \subseteq Names(sts.pod.volumes) \cup Names(sts.claims)

(***************************************************************************)
(* The ConfigMap a pass writes layers its sources in the promised order:   *)
(* the computed service keys and HAKeeper addresses win over everything,   *)
(* the user's config wins over the generated file-service config, and the  *)
(* generated file-service config fills the rest (buildDNSetConfigMap's     *)
(* sequence of TomlConfig.Set and receiver-wins TomlConfig.Merge).         *)
(***************************************************************************)
Computed(l) ==
    [p \in ComputedPaths |->
        CASE p = "hakeeper-client.service-addresses" -> l.addrs
          [] p = "service-type"                      -> "DN"
          [] p = "dn.listen-address"                 -> "listen-address"
          [] p = "dn.lockservice.listen-address"     -> "0.0.0.0:lock-service-port"]

ConfigLayering ==
    [][Reconcile =>
         cm' = Computed(ls) @@ dn.config @@ FileServiceConfig(dn.cacheVolume)]_vars

(***************************************************************************)
(* Reconciliation is idempotent: the StatefulSet a pass leaves is a fixed  *)
(* point of the next pass over the same spec and LogSet, so an unchanged   *)
(* spec produces no further write (spec 4.5 step 5).                       *)
(***************************************************************************)
ReconcileIdempotent ==
    [][Reconcile => Sync(dn, ls, sts') = sts']_vars

(***************************************************************************)
(* Every volume the overlay lists is in the pod template a pass writes,    *)
(* exactly as the overlay gives it (spec 4.2: the overlay is applied after *)
(* all generated values so that none of them clobbers it).                 *)
(***************************************************************************)
OverlayVolumesKept ==
    [][Reconcile /\ dn.overlay # NoOverlay /\ dn.overlay.volumes # Unset =>
         \A i \in DOMAIN dn.overlay.volumes :
            \E j \in DOMAIN sts'.pod.volumes : sts'.pod.volumes[j] = dn.overlay.volumes[i]]_vars

(***************************************************************************)
(* The pod template a pass leaves depends only on the current spec and     *)
(* LogSet: it equals the one the pass builds from scratch (spec 3:         *)
(* generated objects are recomputed on every pass and carry nothing that   *)
(* is not derivable from the spec), so removing an overlay field removes   *)
(* its effect.  Claim templates are left out: a StatefulSet's are          *)
(* immutable, and syncPersistentVolumeClaim keeps them on purpose.         *)
(***************************************************************************)
NoStaleOverlay ==
    [][Reconcile =>
         LET fresh == Sync(dn, ls, NoSts)
         IN  sts'.meta = fresh.meta /\ sts'.pod = fresh.pod]_vars

(***************************************************************************)
(* Once the LogSet publishes its discovery address, the live StatefulSet   *)
(* and ConfigMap eventually reflect the DNSet spec and LogSet of the time, *)
(* however the user keeps editing the spec.                                *)
(***************************************************************************)
EventuallySynced ==
    ls.discovery ~> (cm = BuildDNSetConfigMap(dn, ls) /\ sts # NoSts /\ sts = Sync(dn, ls, sts))

=============================================================================
