\* Three recordings in a store with room for two.
SPECIFICATION Spec
CONSTANTS
    Recordings = {1, 2, 3}
    Statuses = {"available", "unavailable"}
    MaxEntries = 2
    Deadlines = {1, 2}
    MaxVersion = 3
    MaxTime = 2
INVARIANTS ActiveOrExpired
PROPERTIES RecreationIsGuarded NoEarlyPurge DeadlinesOnlyMoveLater FirstFinalStatusWins
