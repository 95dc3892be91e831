CONSTANTS
    Ordinals = {0, 1}
    Threshold = 30
    Configs <- MCConfigs
SPECIFICATION Spec
INVARIANT TypeOK
PROPERTY EveryPodEventuallyRuns
