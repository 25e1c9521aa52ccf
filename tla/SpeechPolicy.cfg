SPECIFICATION Configuration
CONSTANTS
    MaxChars = 4
    ByteLimits <- MCByteLimits
INVARIANTS
    RefusalsAreRight
    AcceptedIsUsable
CHECK_DEADLOCK FALSE
