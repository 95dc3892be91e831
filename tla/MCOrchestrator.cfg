CONSTANTS
    Objects = {"log", "tp", "webui"}
    Kind <- MCKind
    Resource <- MCResource
    Versions <- MCVersions
    NoDefaults = NoDefaults
    Empty = Empty
    UserArgs = {"user-args"}
    MaxRestarts = 1
    Cluster = "mo"
    Workers = {w1, w2}
    Order <- MCOrder
    Dependents = {"tp"}
    Invalid = {"webui"}
    MaxEdits = 1
    MaxFaults = 1
    ClusterNames <- MCClusterNames
SPECIFICATION OSpec
INVARIANTS ArgsFromUserOrOwnDefaults ChildKeysDistinct
PROPERTIES  SpecEventuallyApplied
