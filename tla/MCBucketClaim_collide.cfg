CONSTANTS
    LogSets = {"l1", "l2", "l3", "l4"}
    NoType = NoType
    Provider <- CollidingProvider

SPECIFICATION Spec

INVARIANT DistinctBucketsDistinctClaims
