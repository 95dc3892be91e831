CONSTANTS
    Groups = {"tp", "ap"}
    Reasons = {"", "NotReady"}
    MaxTime = 1
    NoConditions = NoConditions
SPECIFICATION Spec
INVARIANTS TypeOK ConditionsWellFormed
PROPERTIES GroupConditionsExact ImplementsConditionsMap
