SPECIFICATION FairSpec
CONSTANTS
    h1 = h1
    h2 = h2
    Handlers = {h1, h2}
    MaxAttempts = 2
    HangupDigit = "9"
    FallbackTarget = "reception"
    MinimumScore = 50
    RequireScore = FALSE
    MaxTransitions = 4
    Deadline = 1
    MinimumRemaining = 1
    Labels = {"sales", "support"}
    MenuOf <- MCMenuOf
    Removable = {"sales"}
    Digits = {"1", "2", "9"}
    Spoken <- MCSpoken
    DialResults = {"busy", "completed"}
    Observations = {"in-progress", "completed"}
    MaxCrashes = 1
INVARIANTS WorkIsPaid
PROPERTIES ImplementsCall OldLegsDecideNothing DestinationsAreChosen CallSettles
CHECK_DEADLOCK FALSE
