SPECIFICATION Configuration
CONSTANTS
    MaxChars = 4
    ByteLimits <- MCByteLimits
INVARIANTS
    NoAttemptIsSpentInVain
CHECK_DEADLOCK FALSE
