SPECIFICATION Days
CONSTANTS
    MinutesPerDay = 4
    DaysPerWeek = 2
    Schedules <- MCSchedules
    OverrideSets <- MCOverrideSets
    Zones <- MCZones
    Horizon = 12
INVARIANTS
    TargetFollowsWallClock
CHECK_DEADLOCK FALSE
