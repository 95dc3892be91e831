CONSTANTS
    Unset = Unset
    NoOverlay = NoOverlay
    NoContainer = NoContainer
    ContainerMain = "main"
    NoSts = NoSts
    NoConfigMap = NoConfigMap
    GenVal = GenVal
    ConfigVolume = "config"
    DataVolume = "data"
    Addrs = {"hakeeper-1", "hakeeper-2"}
    DNSpecs <- MCDNSpecs
    BaseLabels <- MCBaseLabels
    PodFields <- MCPodFields
    MainFields <- MCMainFields

SPECIFICATION Spec

INVARIANT TypeOK
INVARIANT PodTemplateWellFormed
INVARIANT MountsBacked
PROPERTY ConfigLayering
PROPERTY ReconcileIdempotent
PROPERTY EventuallySynced
