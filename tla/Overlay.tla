------------------------------ MODULE Overlay ------------------------------
(***************************************************************************)
(* The Overlay merger of api/core/v1alpha1/common_helpers.go: a sparse,    *)
(* user-authored patch applied onto controller-generated pod metadata, pod *)
(* spec, main container and volume claim templates.                        *)
(*                                                                         *)
(* Data abstraction.  A nil pointer, nil slice or empty string in the Go   *)
(* types is the model value Unset.  The many pointer/scalar fields that    *)
(* follow the identical rule "overwrite only if the overlay sets it"       *)
(* (Affinity, Tolerations, DNSConfig, ..., ReadinessProbe, Args, ...) are  *)
(* the domains PodFields and MainFields of a function, so one definition   *)
(* stands for every one of those guarded assignments.  Keyed lists         *)
(* (volumes, env vars, volume mounts) are sequences of records with a      *)
(* "name" field; containers are records with a "name" field.               *)
(***************************************************************************)
EXTENDS Naturals, Sequences, SequencesExt, TLC

CONSTANTS
    Unset,          \* a nil pointer / nil slice / "" in the overlay
    NoOverlay,      \* a nil *Overlay
    NoContainer,    \* findMainContainer returning nil
    ContainerMain   \* v1alpha1.ContainerMain, the reserved main container name

(***************************************************************************)
(* util.UpsertListByKey of matrixorigin/controller-runtime (not in this    *)
(* repository): each incoming element replaces the first element with the  *)
(* same key, or is appended; untouched elements keep their order.          *)
(***************************************************************************)
UpsertByKey(list, e) ==
    LET idx == {i \in DOMAIN list : list[i].name = e.name}
    IN  IF idx = {} THEN Append(list, e)
                    ELSE [list EXCEPT ![CHOOSE i \in idx : \A j \in idx : i <= j] = e]

UpsertListByKey(list, elems) == FoldLeft(UpsertByKey, list, elems)

\* The per-field rule: an overlay field that is set wins, an unset one is a no-op.
OverrideFields(gen, ov) ==
    [f \in DOMAIN gen |-> IF ov[f] = Unset THEN gen[f] ELSE ov[f]]

\* findMainContainer: the first container named ContainerMain, or nil.
FindMainContainer(cs) ==
    LET idx == {i \in DOMAIN cs : cs[i].name = ContainerMain}
    IN  IF idx = {} THEN NoContainer
                    ELSE cs[CHOOSE i \in idx : \A j \in idx : i <= j]

\* Overlay.OverlayPodMeta: overlay label/annotation keys win on conflict.
OverlayPodMeta(o, meta) ==
    IF o = NoOverlay THEN meta
    ELSE [meta EXCEPT !.labels      = o.podLabels @@ @,
                      !.annotations = o.podAnnotations @@ @]

\* Overlay.AppendVolumeClaims
AppendVolumeClaims(o, claims) ==
    IF o = NoOverlay THEN claims ELSE claims \o o.volumeClaims

\* Mutant: the sidecar overlay replaces every container, main included.
OverlayPodSpecDropMain(o, pod) ==
    IF o = NoOverlay THEN pod
    ELSE [pod EXCEPT
            !.volumes    = IF o.volumes = Unset THEN @ ELSE UpsertListByKey(@, o.volumes),
            !.fields     = OverrideFields(@, o.pod),
            !.containers = IF o.sidecars = Unset THEN @ ELSE o.sidecars]

(***************************************************************************)
(* Overlay.OverlayPodSpec: volumes are upserted by name; every other pod   *)
(* field is overwritten when set; sidecars replace every container but the *)
(* main one, which is located by name and put first.                       *)
(***************************************************************************)
OverlayPodSpec(o, pod) ==
    IF o = NoOverlay THEN pod
    ELSE LET main == FindMainContainer(pod.containers)
             kept == IF main = NoContainer THEN <<>> ELSE <<main>>
         IN [pod EXCEPT
               !.volumes    = IF o.volumes = Unset THEN @
                              ELSE UpsertListByKey(@, o.volumes),
               !.fields     = OverrideFields(@, o.pod),
               !.containers = IF o.sidecars = Unset THEN @ ELSE kept \o o.sidecars]

(***************************************************************************)
(* Overlay.OverlayMainContainer: scalar fields overwritten when set, env   *)
(* vars and volume mounts upserted by name.                                *)
(***************************************************************************)
OverlayMainContainer(o, c) ==
    IF o = NoOverlay THEN c
    ELSE [c EXCEPT
            !.fields = OverrideFields(@, o.main),
            !.env    = IF o.env = Unset THEN @ ELSE UpsertListByKey(@, o.env),
            !.mounts = IF o.mounts = Unset THEN @ ELSE UpsertListByKey(@, o.mounts)]

=============================================================================
