--------------------------- MODULE MCStartScript ---------------------------
(* StartScript for TLC: two DN pods, the loop threshold of the template,   *)
(* and the ConfigMaps buildDNSetConfigMap renders for a DNSet with or      *)
(* without a cache volume and with an empty or a logging user config      *)
(* (MCConfigs), or with a user config that sets the DN service address     *)
(* itself (MCUserAddressConfigs).                                          *)
EXTENDS StartScript

MCLogSet == [addrs |-> "hakeeper-1"]

MCConfigs ==
    {BuildDNSetConfigMap([config |-> c, cacheVolume |-> cv], MCLogSet) :
        c \in {<<>>, ("log.level" :> "debug")}, cv \in BOOLEAN}

MCUserAddressConfigs ==
    {BuildDNSetConfigMap([config |-> ("dn.service-address" :> "dn-0.dn-headless:41010"),
                          cacheVolume |-> FALSE], MCLogSet)}
=============================================================================
