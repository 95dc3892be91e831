CONSTANTS
    Ordinals = {0, 1}
    Threshold = 30
    Configs <- MCUserAddressConfigs
SPECIFICATION Spec
PROPERTY EveryPodEventuallyRuns
