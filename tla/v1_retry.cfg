SPECIFICATION LcmV1Spec
CONSTANTS
    V1MaxOccs = 2
    V1MaxLevel = 1
    V1MaxTries = 1
    V1MaxCrash = 0
CHECK_DEADLOCK FALSE
INVARIANT RetriedOperational
