--------------------------- MODULE MCOrchestrator ---------------------------
(* Orchestrator for TLC: one cluster with a LogSet, an invalid WebUI and a *)
(* TP CNSet that waits for discovery, two workers, one ConfigMap version   *)
(* besides the absent entry, and cluster names that end in the suffixes   *)
(* of the child keys.                                                      *)
EXTENDS Orchestrator, TLC

MCKind == ("log" :> "LogSetBasic") @@ ("tp" :> "CNSetBasic") @@ ("webui" :> "WebUISpec")
MCResource == ("log" :> "logsets") @@ ("tp" :> "cnsets") @@ ("webui" :> "webuis")
MCVersions == { [logService |-> "log-v1", dn |-> "dn-v1", cn |-> "cn-v1"] }
MCOrder == <<"log", "webui", "tp">>
MCClusterNames == {"mo", "mo-tp", "mo-ap"}
=============================================================================
