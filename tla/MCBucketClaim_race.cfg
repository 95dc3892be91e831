CONSTANTS
    LogSets = {"l1", "l2", "l3", "l4"}
    NoType = NoType
    Provider <- SharedProvider

SPECIFICATION Spec

INVARIANT AtMostOneClaimPerBucket
