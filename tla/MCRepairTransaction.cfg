SPECIFICATION Spec
CONSTANTS
    c1 = c1
    c2 = c2
    Call <- MCCall
    MaxVersion = 2
    MaxEpoch = 4
    MaxPlans = 1
    MaxAttempts = 3
    MaxCrashes = 2
INVARIANTS OneExecution
PROPERTIES UnknownHolds ExecutionsEnd
CHECK_DEADLOCK FALSE
