------------------------------ MODULE DNConfig ------------------------------
(***************************************************************************)
(* The DN configuration document: buildDNSetConfigMap of                   *)
(* src/unnamed/part_000 over the ConfigTree (TomlConfig) it calls.  A      *)
(* document is a function from dotted configuration paths to leaf values; *)
(* a DNSet spec d has fields config and cacheVolume, a LogSet l has addrs. *)
(***************************************************************************)
EXTENDS TLC

(* ConfigTree (api/core/v1alpha1 TomlConfig, not in this repository): a    *)
(* document is a function from configuration paths to leaf values.         *)

\* TomlConfig.Set: unconditional replace of the leaf at path.
TomlSet(conf, path, v) == (path :> v) @@ conf

\* TomlConfig.Merge: union, the receiver's leaves win over the incoming ones.
TomlMerge(recv, incoming) == recv @@ incoming

\* common.FileServiceConfig: shared-storage settings and the cache backing,
\* on disk when a cache volume is configured, in memory otherwise.
FileServiceConfig(cacheVolume) ==
    ("fileservice.shared" :> "shared-storage")
    @@ ("fileservice.cache" :> IF cacheVolume THEN "disk-cache" ELSE "memory-cache")

\* Mutant: the lock-service listen address (line 170) is never set.
BuildDNSetConfigMapNoLockAddr(d, l) ==
    LET c1 == TomlSet(d.config, "hakeeper-client.service-addresses", l.addrs)
        c2 == TomlMerge(c1, FileServiceConfig(d.cacheVolume))
        c3 == TomlSet(c2, "service-type", "DN")
    IN  TomlSet(c3, "dn.listen-address", "listen-address")

\* Mutant: the file-service config is the receiver of the merge, so it
\* shadows the user's config (merge in decreasing priority).
BuildDNSetConfigMapFsOverUser(d, l) ==
    LET c1 == TomlSet(d.config, "hakeeper-client.service-addresses", l.addrs)
        c2 == TomlMerge(FileServiceConfig(d.cacheVolume), c1)
        c3 == TomlSet(c2, "service-type", "DN")
        c4 == TomlSet(c3, "dn.listen-address", "listen-address")
    IN  TomlSet(c4, "dn.lockservice.listen-address", "0.0.0.0:lock-service-port")

(***************************************************************************)
(* buildDNSetConfigMap: fails while the LogSet has no discovery address;   *)
(* otherwise the user's config with HAKeeper addresses set, the file       *)
(* service config merged under it, and the computed service keys set last. *)
(***************************************************************************)
BuildDNSetConfigMap(d, l) ==
    LET c1 == TomlSet(d.config, "hakeeper-client.service-addresses", l.addrs)
        c2 == TomlMerge(c1, FileServiceConfig(d.cacheVolume))
        c3 == TomlSet(c2, "service-type", "DN")
        c4 == TomlSet(c3, "dn.listen-address", "listen-address")
    IN  TomlSet(c4, "dn.lockservice.listen-address", "0.0.0.0:lock-service-port")

=============================================================================
