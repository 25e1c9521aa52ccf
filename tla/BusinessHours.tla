---------------------------- MODULE BusinessHours ----------------------------
(***************************************************************************)
(* business_hours.py beside the clock on the workspace's wall.  The code   *)
(* converts an absolute instant to a local date, weekday and minute; the   *)
(* wall clock ticks, turns over at midnight and is set when the zone's     *)
(* offset changes.  Time is counted in whole minutes, as the code does.    *)
(***************************************************************************)
EXTENDS Integers

CONSTANTS
    MinutesPerDay, DaysPerWeek,   \* 1440 and 7 in the code
    Schedules,                    \* weekly hours: windows by weekday, some missing
    OverrideSets,                 \* date overrides: windows by date, most missing
    Zones,                        \* [before, after, change]: offsets and when they change
    Horizon                       \* the last instant that is looked at

Windows == [start : Int, end : Int]

\* An offset, and a change of it, is at most a day: Samoa once left out a whole one.
ASSUME CalendarAssumption ==
    /\ MinutesPerDay \in Nat \ {0} /\ DaysPerWeek \in Nat \ {0}
    /\ Horizon \in Nat
    /\ \A z \in Zones : /\ z.change \in Nat
                        /\ z.before \in Int /\ z.after \in Int
                        /\ {z.before, z.after, z.after - z.before}
                               \subseteq (-MinutesPerDay)..MinutesPerDay

ASSUME ConfigurationAssumption ==
    /\ \A h \in Schedules : /\ DOMAIN h \subseteq 0..(DaysPerWeek - 1)
                            /\ \A d \in DOMAIN h : h[d] \subseteq Windows
    /\ \A o \in OverrideSets : /\ DOMAIN o \subseteq Nat
                               /\ \A d \in DOMAIN o : o[d] \subseteq Windows

VARIABLES
    zone, hours, overrides,   \* the workspace's configuration
    instant,                  \* the trusted clock sample, in UTC
    wall,                     \* the clock on the wall: date, weekday, minute
    target                    \* what the code answers: "open", "closed", "error"

calendar == <<zone, hours, overrides, instant, wall, target>>

-----------------------------------------------------------------------------
\* zoneinfo: the offset that applies at an instant.
Offset(z, t) == IF t < z.change THEN z.before ELSE z.after

Local(z, t)     == t + Offset(z, t)
LocalDate(z, t) == Local(z, t) \div MinutesPerDay
Minute(z, t)    == Local(z, t) % MinutesPerDay

\* Plausible bug: the weekday is taken before the conversion to the zone.
UtcWeekday(z, t) == (t \div MinutesPerDay) % DaysPerWeek

Weekday(z, t) == LocalDate(z, t) % DaysPerWeek

InWindow(w, minute) == w.start <= minute /\ minute < w.end

\* Every configured window is checked, those that cannot match included.
WindowsValid(plan) ==
    \A d \in DOMAIN plan : \A w \in plan[d] :
        0 <= w.start /\ w.start < w.end /\ w.end <= MinutesPerDay

\* resolve_business_hours_target, for a valid plan.
TargetOf(plan, day, minute) ==
    IF day \in DOMAIN plan /\ \E w \in plan[day] : InWindow(w, minute)
    THEN "open" ELSE "closed"

\* resolve_business_hours_target_at: an override replaces the weekly windows.
ResolveAt(z, h, o, t) ==
    IF ~WindowsValid(h) \/ ~WindowsValid(o) THEN "error"
    ELSE IF LocalDate(z, t) \in DOMAIN o
         THEN TargetOf(o, LocalDate(z, t), Minute(z, t))
         ELSE TargetOf(h, Weekday(z, t), Minute(z, t))

-----------------------------------------------------------------------------
\* The wall clock moves on, or back, by at most a day.
Moved(clock, minutes) ==
    LET minute == clock.minute + minutes
    IN  IF minute >= MinutesPerDay
        THEN [date    |-> clock.date + 1,
              weekday |-> IF clock.weekday = DaysPerWeek - 1
                          THEN 0 ELSE clock.weekday + 1,
              minute  |-> minute - MinutesPerDay]
        ELSE IF minute < 0
        THEN [date    |-> clock.date - 1,
              weekday |-> IF clock.weekday = 0
                          THEN DaysPerWeek - 1 ELSE clock.weekday - 1,
              minute  |-> minute + MinutesPerDay]
        ELSE [clock EXCEPT !.minute = minute]

Opening ==
    /\ zone \in Zones
    /\ hours \in Schedules
    /\ overrides \in OverrideSets
    /\ instant = 0
    /\ wall = Moved([date |-> 0, weekday |-> 0, minute |-> 0], Offset(zone, 0))
    /\ target = ResolveAt(zone, hours, overrides, instant)

\* A minute passes and the code is asked again.
Tick ==
    /\ instant < Horizon
    /\ instant' = instant + 1
    /\ wall' = Moved(Moved(wall, 1), Offset(zone, instant') - Offset(zone, instant))
    /\ target' = ResolveAt(zone, hours, overrides, instant')
    /\ UNCHANGED <<zone, hours, overrides>>

Days == Opening /\ [][Tick]_calendar

-----------------------------------------------------------------------------
\* The minutes of a day that its windows keep open.
OpenMinutes(windows) == UNION {w.start..(w.end - 1) : w \in windows}

\* What is posted at the door for the day that the wall clock shows.
Posted ==
    IF wall.date \in DOMAIN overrides THEN overrides[wall.date]
    ELSE IF wall.weekday \in DOMAIN hours THEN hours[wall.weekday]
    ELSE {}

\* The target follows the clock on the wall, over midnight, the turn of the week,
\* overlapping and adjoining windows, overrides and both changes of the offset;
\* and one bad window, on whatever day, is never answered with a target.
TargetFollowsWallClock ==
    target = IF \E w \in UNION ({hours[d] : d \in DOMAIN hours}
                                \cup {overrides[d] : d \in DOMAIN overrides}) :
                    w \notin [start : 0..(MinutesPerDay - 1),
                              end   : 1..MinutesPerDay] \/ w.start >= w.end
             THEN "error"
             ELSE IF wall.minute \in OpenMinutes(Posted) THEN "open" ELSE "closed"
=============================================================================
