SPECIFICATION Spec
CONSTANTS
    c1 = c1
    c2 = c2
    Call <- MCCall
    MaxVersion = 2
    MaxEpoch = 3
    MaxPlans = 1
    MaxAttempts = 2
    MaxCrashes = 0
PROPERTY FinishedRepairSucceeds
CHECK_DEADLOCK FALSE
