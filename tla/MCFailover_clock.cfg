CONSTANTS
    Stores = {s1, s2}
    Threshold = 2
    ClockSteps <- MCClockForward
    MaxClockSteps = 1
SPECIFICATION Spec
PROPERTY NoPrematureFailover
