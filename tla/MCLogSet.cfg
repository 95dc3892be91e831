CONSTANTS
    LogSets = {"l1", "l2", "l3"}
    NoType = NoType
    Provider <- MCSharedProvider
    Stores = {s1, s2}
    Threshold = 2
    ClockSteps <- MCClockBack
    MaxClockSteps = 1
SPECIFICATION Spec
INVARIANT TypeOK
PROPERTIES ConflictEventuallySurfaced FailedStoreEventuallyHandled
