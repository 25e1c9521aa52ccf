\* Two overlapping deliveries of one leg whose row is removed up to twice.
SPECIFICATION FairSpec
CONSTANTS
    d1 = d1
    d2 = d2
    k1 = k1
    Deliveries = {d1, d2}
    Keys = {k1}
    Incoming = {"queued", "ringing", "in-progress", "completed", "busy"}
    MaxConflictRetries = 2
    MaxStatusRevision = 4
    MaxDeletions = 2
INVARIANTS TypeOK NoLostObservation TransitionReportedOnce ConflictsPaidByChanges
PROPERTIES FirstTerminalWins ImplementsRegister Settles
CHECK_DEADLOCK FALSE
