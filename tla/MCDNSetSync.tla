---------------------------- MODULE MCDNSetSync ----------------------------
(* Model-checking instance of DNSetSync: three overlays (none, one that    *)
(* sets a label, a volume and its mount, an affinity, args, an env var, a  *)
(* sidecar and a claim, and one that overrides a label, the topology      *)
(* spread and a generated env var), one image, cache volume and DNS      *)
(* identity on and off, and an empty or a conflicting user config.        *)
EXTENDS DNSetSync

MCPodFields  == {"affinity", "topology"}
MCMainFields == {"command", "args"}

NoMainFields == [f \in MCMainFields |-> Unset]

OverlayA ==
    [podLabels      |-> ("team" :> "a"),
     podAnnotations |-> <<>>,
     volumes        |-> <<[name |-> "scratch", src |-> "emptyDir"]>>,
     pod            |-> ("affinity" :> "zone-a" @@ "topology" :> Unset),
     sidecars       |-> <<[name |-> "logagent", image |-> "agent", fields |-> NoMainFields,
                           env |-> <<>>, mounts |-> <<>>]>>,
     volumeClaims   |-> <<[name |-> "extra"]>>,
     main           |-> ("command" :> Unset @@ "args" :> "debug"),
     env            |-> <<[name |-> "GOMAXPROCS", value |-> "4"]>>,
     mounts         |-> <<[name |-> "scratch"]>>]

OverlayB ==
    [podLabels      |-> ("team" :> "b"),
     podAnnotations |-> ("note" :> "b"),
     volumes        |-> Unset,
     pod            |-> ("affinity" :> Unset @@ "topology" :> "zone-spread"),
     sidecars       |-> Unset,
     volumeClaims   |-> <<>>,
     main           |-> NoMainFields,
     env            |-> <<[name |-> "POD_NAME", value |-> "override"]>>,
     mounts         |-> Unset]

UserConfig == ("log.level" :> "debug" @@ "service-type" :> "CN" @@ "fileservice.cache" :> "user-cache")

MCDNSpecs ==
    [overlay : {NoOverlay, OverlayA, OverlayB}, image : {"img-1"},
     replicas : {1}, cacheVolume : BOOLEAN, dnsIdentity : BOOLEAN,
     config : {<<>>, UserConfig}]

\* An overlay that mounts its own ConfigMap under the generated volume name.
OverlayConfigVolume ==
    [OverlayB EXCEPT !.volumes = <<[name |-> "config", src |-> ("user-file" :> "user-cm")]>>]

MCDNSpecsConfigVolume ==
    [overlay : {OverlayConfigVolume}, image : {"img-1"}, replicas : {1},
     cacheVolume : {FALSE}, dnsIdentity : {FALSE}, config : {<<>>}]

MCBaseLabels == ("app" :> "dn")
=============================================================================
