SPECIFICATION Spec
CONSTANTS
    Timeout = 7
    Start = 1
    Deadline = 8
    Required = 1
    Reserve = 1
    MinimumAttempt = 1
    BaseDelay = 1
    MaxDelay = 2
    MaxConflictRetries = 2
    Lateness = 1
    MaxGap = 1
    Skews <- MCSkews
INVARIANTS
    InvocationReserveIsKept
    CallReserveIsKept
    RetryIsFunded
    WaitsFitFirstReading
PROPERTIES
    NeitherClockGivesBack
CHECK_DEADLOCK FALSE
