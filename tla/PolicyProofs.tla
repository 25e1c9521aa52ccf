---------------------------- MODULE PolicyProofs ----------------------------
(***************************************************************************)
(* Proofs about the policies that calculate.                               *)
(*                                                                         *)
(* What rests on division: resolve_operation_timeout, which rounds to      *)
(* whole units, with a worker that uses it, and business hours, for which  *)
(* an instant becomes a date, a weekday and a minute.                      *)
(*                                                                         *)
(* What rests on counting: the transcript limits of speech.py.  Characters *)
(* and bytes, words, separators and lines are sets of positions, so that   *)
(* the checks follow from how many members these have.                     *)
(***************************************************************************)
EXTENDS OperationBudget, BusinessHours, SpeechPolicy,
        FiniteSetTheorems, WellFoundedInduction, TLAPS

\* A quotient and a remainder, for any whole number.
LEMMA Division ==
    ASSUME NEW x \in Int, NEW g \in Nat \ {0}
    PROVE  /\ x \div g \in Int /\ x % g \in 0..(g - 1)
           /\ x = (x \div g) * g + (x % g)
BY Z3

\* There is only one such pair.
LEMMA DivisionIsUnique ==
    ASSUME NEW g \in Nat \ {0}, NEW q \in Int, NEW p \in Int,
           NEW r \in 0..(g - 1), NEW s \in 0..(g - 1), q * g + r = p * g + s
    PROVE  q = p /\ r = s
<1>1. q * g \in Int /\ p * g \in Int
  BY Z3
<1>2. ASSUME NEW a \in Int, NEW b \in Int, a >= b + 1 PROVE a * g >= b * g + g
  <2>1. a * g >= (b + 1) * g
    BY <1>2, Z3
  <2>2. (b + 1) * g = b * g + g
    BY <1>2, Z3
  <2> QED BY <2>1, <2>2
<1>3. ~(q >= p + 1) /\ ~(p >= q + 1)
  BY <1>1, <1>2
<1>4. q = p
  BY <1>3
<1> QED BY <1>1, <1>4

\* What a step of at most one unit does to quotient and remainder.
Carries(x, g, m) ==
    LET q == x \div g   r == x % g
    IN  /\ r + m >= g => (x + m) \div g = q + 1 /\ (x + m) % g = r + m - g
        /\ r + m < 0 => (x + m) \div g = q - 1 /\ (x + m) % g = r + m + g
        /\ 0 <= r + m /\ r + m < g => (x + m) \div g = q /\ (x + m) % g = r + m

LEMMA DivisionSteps ==
    ASSUME NEW x \in Int, NEW g \in Nat \ {0}, NEW m \in (-g)..g
    PROVE  Carries(x, g, m)
<1> DEFINE q == x \div g
           r == x % g
           p == (x + m) \div g
           s == (x + m) % g
<1>1. q \in Int /\ r \in 0..(g - 1) /\ x = q * g + r
  BY Division
<1>2. p \in Int /\ s \in 0..(g - 1) /\ x + m = p * g + s
  <2>1. x + m \in Int
    OBVIOUS
  <2> QED BY <2>1, Division
<1> SUFFICES /\ r + m >= g => p = q + 1 /\ s = r + m - g
             /\ r + m < 0 => p = q - 1 /\ s = r + m + g
             /\ 0 <= r + m /\ r + m < g => p = q /\ s = r + m
  BY DEF Carries
<1> HIDE DEF q, r, p, s
<1>3. ASSUME NEW a \in Int, NEW b \in 0..(g - 1), a * g + b = x + m
      PROVE  p = a /\ s = b
  BY <1>2, <1>3, DivisionIsUnique
<1>4. q * g \in Int /\ (q + 1) * g = q * g + g /\ (q - 1) * g = q * g - g
  BY <1>1, Z3
<1>5. CASE r + m >= g
  <2>1. r + m - g \in 0..(g - 1) /\ (q + 1) * g + (r + m - g) = x + m
    BY <1>1, <1>4, <1>5
  <2> QED BY <1>1, <1>3, <1>5, <2>1
<1>6. CASE r + m < 0
  <2>1. r + m + g \in 0..(g - 1) /\ (q - 1) * g + (r + m + g) = x + m
    BY <1>1, <1>4, <1>6
  <2> QED BY <1>1, <1>3, <1>6, <2>1
<1>7. CASE 0 <= r + m /\ r + m < g
  <2>1. r + m \in 0..(g - 1) /\ q * g + (r + m) = x + m
    BY <1>1, <1>4, <1>7
  <2> QED BY <1>1, <1>3, <1>7, <2>1
<1> QED BY <1>1, <1>5, <1>6, <1>7

-----------------------------------------------------------------------------
\* Rounding down loses less than one unit and yields a multiple of it.
LEMMA RoundDownIsMultiple ==
    ASSUME NEW t \in Nat, NEW g \in Nat \ {0}
    PROVE  /\ RoundDown(t, g) \in Nat
           /\ RoundDown(t, g) <= t
           /\ t < RoundDown(t, g) + g
           /\ RoundDown(t, g) % g = 0
<1> DEFINE q == t \div g
<1>1. /\ q \in Nat
      /\ t = q * g + (t % g)
      /\ t % g \in 0..(g - 1)
    BY Z3
<1>2. q * g \in Nat
    BY <1>1, Z3
<1>3. (q * g) % g = 0
    BY <1>1, Z3
<1> QED
    BY <1>1, <1>2, <1>3 DEF RoundDown

\* No multiple of the unit lies between a duration and its rounding.
LEMMA RoundDownIsLargest ==
    ASSUME NEW t \in Nat, NEW g \in Nat \ {0}, NEW s \in Nat,
           s % g = 0, s <= t
    PROVE  s <= RoundDown(t, g)
<1> DEFINE k == s \div g
           q == t \div g
<1>1. k \in Nat /\ q \in Nat /\ s = k * g
    BY Z3
<1>2. t < q * g + g
    BY RoundDownIsMultiple DEF RoundDown
<1>3. k <= q
    <2> SUFFICES ASSUME k >= q + 1 PROVE FALSE
        BY <1>1
    <2>1. k * g >= (q + 1) * g
        BY <1>1, Z3
    <2>2. (q + 1) * g = q * g + g
        BY <1>1, Z3
    <2> HIDE DEF k, q
    <2> QED
        BY <1>1, <1>2, <2>1, <2>2, Z3
<1>4. k * g <= q * g
    BY <1>1, <1>3, Z3
<1> QED
    BY <1>1, <1>4 DEF RoundDown

\* resolve_operation_timeout answers the longest timeout that fits what is
\* available, for every policy, and None only when none fits.
THEOREM LongestTimeout ==
    ASSUME NEW available \in Nat, NEW l \in Limits
    PROVE  IsLongestFit(TimeoutWithin(available, l), available, l)
<1> DEFINE usable == Lesser(l.maximum, available - l.reserve)
           rounded == RoundDown(usable, l.granularity)
<1>1. /\ l.maximum \in Nat \ {0} /\ l.minimum \in Nat \ {0}
      /\ l.reserve \in Nat /\ l.granularity \in Nat \ {0}
      /\ l.minimum <= l.maximum
    BY DEF Limits
<1>2. CASE ~Admits(available, l.minimum + l.reserve)
    BY <1>1, <1>2 DEF TimeoutWithin, IsLongestFit, Fits, Admits
<1>3. CASE Admits(available, l.minimum + l.reserve)
    <2>1. usable \in Nat /\ usable <= l.maximum
              /\ usable + l.reserve <= available
        BY <1>1, <1>3 DEF Lesser, Admits
    <2>2. /\ rounded \in Nat /\ rounded <= usable
          /\ rounded % l.granularity = 0
        BY <1>1, <2>1, RoundDownIsMultiple
    <2>3. \A t \in 1..l.maximum :
              Fits(t, available, l) => t <= rounded /\ l.minimum <= t
        <3> SUFFICES ASSUME NEW t \in 1..l.maximum, Fits(t, available, l)
                     PROVE  t <= rounded /\ l.minimum <= t
            OBVIOUS
        <3>1. t \in Nat /\ t % l.granularity = 0 /\ l.minimum <= t
            BY <1>1 DEF Fits
        <3>2. t <= usable
            BY <1>1 DEF Fits, Lesser
        <3> HIDE DEF usable
        <3> QED
            BY <1>1, <2>1, <3>1, <3>2, RoundDownIsLargest
    <2> HIDE DEF usable, rounded
    <2>4. TimeoutWithin(available, l) =
              IF rounded >= l.minimum THEN rounded ELSE None
        BY <1>3 DEF TimeoutWithin, rounded, usable
    <2>5. CASE rounded >= l.minimum
        BY <1>1, <2>1, <2>2, <2>3, <2>4, <2>5 DEF IsLongestFit, Fits, None
    <2>6. CASE ~(rounded >= l.minimum)
        BY <1>1, <2>2, <2>3, <2>4, <2>6 DEF IsLongestFit, None
    <2> QED
        BY <2>5, <2>6
<1> QED
    BY <1>2, <1>3

-----------------------------------------------------------------------------
\* Time never runs past the end of the invocation, and the timeout at hand is
\* the one that the present time gives.
OperationInvariant ==
    /\ deadline \in Nat
    /\ now \in Nat
    /\ limits \in Limits
    /\ now <= Timeout
    /\ now > 0 => now <= deadline
    /\ timeout = OperationTimeout(deadline, now, Left, limits)

\* What is resolved is either None or fits both the call and the invocation.
LEMMA ResolvedTimeout ==
    ASSUME NEW d \in Nat, NEW n \in Nat, NEW left \in Nat, NEW l \in Limits
    PROVE  IsLongestFit(OperationTimeout(d, n, left, l),
                        Lesser(CallRemaining(d, n), left), l)
<1>1. /\ l.maximum \in Nat \ {0} /\ l.minimum \in Nat \ {0}
      /\ l.reserve \in Nat
    BY DEF Limits
<1>2. CallRemaining(d, n) \in Nat
    BY DEF CallRemaining, Greater
<1>3. CASE Admits(CallRemaining(d, n), l.minimum + l.reserve)
    <2>1. Lesser(CallRemaining(d, n), left) \in Nat
        BY <1>2 DEF Lesser
    <2>2. OperationTimeout(d, n, left, l)
              = TimeoutWithin(Lesser(CallRemaining(d, n), left), l)
        BY <1>3 DEF OperationTimeout, Available, None
    <2> QED
        BY <2>1, <2>2, LongestTimeout
<1>4. CASE ~Admits(CallRemaining(d, n), l.minimum + l.reserve)
    BY <1>1, <1>2, <1>4
       DEF OperationTimeout, Admits, IsLongestFit, Fits, Lesser
<1> QED
    BY <1>3, <1>4

\* An operation within its timeout ends before the call and the invocation do.
LEMMA OperationFits ==
    ASSUME OperationInvariant, timeout # None
    PROVE  /\ timeout \in Nat
           /\ now + timeout + limits.reserve <= Lesser(deadline, Timeout)
           /\ limits.reserve \in Nat
<1>1. Left \in Nat
    BY OperationAssumption DEF OperationInvariant, Left
<1>2. Fits(timeout, Lesser(CallRemaining(deadline, now), Left), limits)
    BY <1>1, ResolvedTimeout DEF OperationInvariant, IsLongestFit
<1>3. timeout = TimeoutWithin(Lesser(CallRemaining(deadline, now), Left), limits)
    BY <1>1 DEF OperationInvariant, OperationTimeout, Available, None
<1>4. timeout \in Nat
    <2>1. /\ limits.maximum \in Nat \ {0} /\ limits.minimum \in Nat \ {0}
          /\ limits.reserve \in Nat /\ limits.granularity \in Nat \ {0}
        BY DEF OperationInvariant, Limits
    <2>2. Lesser(CallRemaining(deadline, now), Left) \in Nat
        BY <1>1 DEF OperationInvariant, Lesser, CallRemaining, Greater
    <2>3. Admits(Lesser(CallRemaining(deadline, now), Left),
                 limits.minimum + limits.reserve)
        BY <1>3 DEF TimeoutWithin
    <2>4. Lesser(limits.maximum,
                 Lesser(CallRemaining(deadline, now), Left) - limits.reserve) \in Nat
        BY <2>1, <2>2, <2>3 DEF Admits, Lesser
    <2> QED
        BY <1>3, <2>1, <2>4, RoundDownIsMultiple DEF TimeoutWithin
<1> QED
    BY <1>1, <1>2, <1>4, OperationAssumption
       DEF OperationInvariant, Fits, Limits, Lesser, CallRemaining, Greater, Left

LEMMA OperationInductive == Spec => []OperationInvariant
<1>1. Init => OperationInvariant
    BY OperationAssumption DEF Init, OperationInvariant
<1>2. OperationInvariant /\ [Next]_vars => OperationInvariant'
    <2> SUFFICES ASSUME OperationInvariant, [Next]_vars
                 PROVE  OperationInvariant'
        OBVIOUS
    <2> USE OperationAssumption
    <2>1. CASE Operate
        <3>1. timeout # None
            BY <2>1 DEF Operate
        <3>2. /\ timeout \in Nat
              /\ now + timeout <= deadline
              /\ now + timeout <= Timeout
            BY <3>1, OperationFits DEF OperationInvariant, Lesser
        <3> QED
            BY <2>1, <3>2 DEF Operate, OperationInvariant, Left
    <2>2. CASE Skip
        BY <2>2 DEF Skip, OperationInvariant, Left
    <2>3. CASE UNCHANGED vars
        BY <2>3 DEF vars, OperationInvariant, Left
    <2> QED
        BY <2>1, <2>2, <2>3 DEF Next
<1> QED
    BY <1>1, <1>2, PTL DEF Spec

\* TimeoutIsLongestFit for every invocation, deadline and policy.
THEOREM TimeoutsAreLongest == Spec => []TimeoutIsLongestFit
<1>1. OperationInvariant => TimeoutIsLongestFit
    <2> SUFFICES ASSUME OperationInvariant PROVE TimeoutIsLongestFit
        OBVIOUS
    <2>1. Left \in Nat
        BY OperationAssumption DEF OperationInvariant, Left
    <2> QED
        BY <2>1, ResolvedTimeout DEF OperationInvariant, TimeoutIsLongestFit
<1> QED
    BY <1>1, OperationInductive, PTL

\* OperationsEndInTime for every invocation, deadline and policy.
THEOREM OperationsStayInTime == Spec => []OperationsEndInTime
<1>1. OperationInvariant => OperationsEndInTime
    BY OperationFits, OperationAssumption
       DEF OperationInvariant, OperationsEndInTime, Lesser
<1> QED
    BY <1>1, OperationInductive, PTL

-----------------------------------------------------------------------------
\* The wall clock at a local time.
WallAt(local) ==
    [date    |-> local \div MinutesPerDay,
     weekday |-> (local \div MinutesPerDay) % DaysPerWeek,
     minute  |-> local % MinutesPerDay]

\* Moving the clock is moving the time that it shows.
LEMMA ClockMoves ==
    ASSUME NEW local \in Int, NEW m \in (-MinutesPerDay)..MinutesPerDay
    PROVE  Moved(WallAt(local), m) = WallAt(local + m)
<1> DEFINE date == local \div MinutesPerDay
           minute == local % MinutesPerDay
           day == date % DaysPerWeek
<1>1. MinutesPerDay \in Nat \ {0} /\ DaysPerWeek \in Nat \ {0}
  BY CalendarAssumption
<1>2. date \in Int /\ minute \in 0..(MinutesPerDay - 1)
  BY <1>1, Division
<1>3. day \in 0..(DaysPerWeek - 1)
  BY <1>1, <1>2, Division
<1>4. /\ minute + m >= MinutesPerDay =>
             /\ (local + m) \div MinutesPerDay = date + 1
             /\ (local + m) % MinutesPerDay = minute + m - MinutesPerDay
      /\ minute + m < 0 =>
             /\ (local + m) \div MinutesPerDay = date - 1
             /\ (local + m) % MinutesPerDay = minute + m + MinutesPerDay
      /\ 0 <= minute + m /\ minute + m < MinutesPerDay =>
             /\ (local + m) \div MinutesPerDay = date
             /\ (local + m) % MinutesPerDay = minute + m
  <2>1. Carries(local, MinutesPerDay, m)
    BY <1>1, DivisionSteps
  <2> QED BY <2>1 DEF Carries
<1>5. Carries(date, DaysPerWeek, 1) /\ Carries(date, DaysPerWeek, -1)
  <2>1. 1 \in (-DaysPerWeek)..DaysPerWeek /\ -1 \in (-DaysPerWeek)..DaysPerWeek
    BY <1>1
  <2> QED BY <1>1, <1>2, <2>1, DivisionSteps
<1>6. /\ (date + 1) % DaysPerWeek = IF day = DaysPerWeek - 1 THEN 0 ELSE day + 1
      /\ (date - 1) % DaysPerWeek = IF day = 0 THEN DaysPerWeek - 1 ELSE day - 1
  <2> DEFINE at(n) == (date + n) % DaysPerWeek
  <2>1. /\ day + 1 >= DaysPerWeek => at(1) = day + 1 - DaysPerWeek
        /\ 0 <= day + 1 /\ day + 1 < DaysPerWeek => at(1) = day + 1
    BY <1>5 DEF Carries
  <2>2. /\ day + (-1) < 0 => at(-1) = day + (-1) + DaysPerWeek
        /\ 0 <= day + (-1) /\ day + (-1) < DaysPerWeek => at(-1) = day + (-1)
    BY <1>5 DEF Carries
  <2>3. at(1) = (date + 1) % DaysPerWeek /\ at(-1) = (date - 1) % DaysPerWeek
    <3> HIDE DEF date
    <3>1. date + (-1) = date - 1
      BY <1>2
    <3> QED BY <3>1
  <2> HIDE DEF date, day, at
  <2> QED BY <1>1, <1>3, <2>1, <2>2, <2>3
<1>7. WallAt(local) = [date |-> date, weekday |-> day, minute |-> minute]
  BY DEF WallAt
<1> HIDE DEF date, minute, day
<1>8. WallAt(local + m) =
          [date    |-> (local + m) \div MinutesPerDay,
           weekday |-> ((local + m) \div MinutesPerDay) % DaysPerWeek,
           minute  |-> (local + m) % MinutesPerDay]
  BY DEF WallAt
<1>9. CASE minute + m >= MinutesPerDay
  <2>1. WallAt(local + m) =
            [date    |-> date + 1,
             weekday |-> IF day = DaysPerWeek - 1 THEN 0 ELSE day + 1,
             minute  |-> minute + m - MinutesPerDay]
    BY <1>4, <1>6, <1>8, <1>9
  <2> QED BY <1>1, <1>2, <1>3, <1>7, <1>9, <2>1 DEF Moved
<1>10. CASE minute + m < 0
  <2>1. WallAt(local + m) =
            [date    |-> date - 1,
             weekday |-> IF day = 0 THEN DaysPerWeek - 1 ELSE day - 1,
             minute  |-> minute + m + MinutesPerDay]
    BY <1>4, <1>6, <1>8, <1>10
  <2>2. ~(minute + m >= MinutesPerDay)
    BY <1>1, <1>2, <1>10
  <2> QED BY <1>7, <1>10, <2>1, <2>2 DEF Moved
<1>11. CASE 0 <= minute + m /\ minute + m < MinutesPerDay
  <2>1. WallAt(local + m) = [date |-> date, weekday |-> day, minute |-> minute + m]
    BY <1>4, <1>8, <1>11 DEF day
  <2>2. ~(minute + m >= MinutesPerDay) /\ ~(minute + m < 0)
    BY <1>1, <1>2, <1>11
  <2> QED BY <1>7, <2>1, <2>2 DEF Moved
<1> QED BY <1>1, <1>2, <1>9, <1>10, <1>11

\* What the clock on the wall is compared with: the time that the code computes.
CalendarInv ==
    /\ zone \in Zones /\ hours \in Schedules /\ overrides \in OverrideSets
    /\ instant \in Nat
    /\ wall = WallAt(Local(zone, instant))
    /\ target = ResolveAt(zone, hours, overrides, instant)

\* Offsets are whole minutes of at most a day, and change by at most a day.
LEMMA OffsetsAreSmall ==
    ASSUME NEW z \in Zones, NEW t \in Nat
    PROVE  /\ Offset(z, t) \in (-MinutesPerDay)..MinutesPerDay
           /\ Offset(z, t + 1) - Offset(z, t) \in (-MinutesPerDay)..MinutesPerDay
BY CalendarAssumption DEF Offset

LEMMA CalendarInvariant == Days => []CalendarInv
<1> USE CalendarAssumption
<1>1. Opening => CalendarInv
  <2> SUFFICES ASSUME Opening PROVE CalendarInv
    OBVIOUS
  <2>1. Offset(zone, 0) \in (-MinutesPerDay)..MinutesPerDay
    BY OffsetsAreSmall DEF Opening
  <2>2. WallAt(0) = [date |-> 0, weekday |-> 0, minute |-> 0]
    <3>1. 0 \div MinutesPerDay = 0 /\ 0 % MinutesPerDay = 0 /\ 0 % DaysPerWeek = 0
      BY Z3
    <3> QED BY <3>1 DEF WallAt
  <2>3. wall = WallAt(0 + Offset(zone, 0))
    BY <2>1, <2>2, ClockMoves DEF Opening
  <2> QED BY <2>3 DEF Opening, CalendarInv, Local
<1>2. CalendarInv /\ [Tick]_calendar => CalendarInv'
  <2> SUFFICES ASSUME CalendarInv, [Tick]_calendar PROVE CalendarInv'
    OBVIOUS
  <2>1. CASE Tick
    <3> DEFINE delta == Offset(zone, instant') - Offset(zone, instant)
    <3>1. /\ zone \in Zones /\ instant \in Nat /\ instant' = instant + 1
          /\ wall = WallAt(Local(zone, instant))
          /\ wall' = Moved(Moved(wall, 1), delta)
      BY <2>1 DEF CalendarInv, Tick
    <3>2. /\ Offset(zone, instant) \in Int
          /\ delta \in (-MinutesPerDay)..MinutesPerDay
      BY <3>1, OffsetsAreSmall
    <3>3. Local(zone, instant) \in Int /\ Local(zone, instant) + 1 \in Int
      BY <3>1, <3>2 DEF Local
    <3>4. Moved(wall, 1) = WallAt(Local(zone, instant) + 1)
      BY <3>1, <3>3, ClockMoves
    <3>5. wall' = WallAt(Local(zone, instant) + 1 + delta)
      BY <3>1, <3>2, <3>3, <3>4, ClockMoves
    <3>6. Local(zone, instant) + 1 + delta = Local(zone, instant')
      BY <3>1, <3>2, OffsetsAreSmall DEF Local
    <3> QED BY <2>1, <3>1, <3>5, <3>6 DEF CalendarInv, Tick
  <2>2. CASE UNCHANGED calendar
    BY <2>2 DEF calendar, CalendarInv
  <2> QED BY <2>1, <2>2
<1> QED BY <1>1, <1>2, PTL DEF Days

\* The check of all windows is that none of them is bad.
LEMMA BadWindowsAreFound ==
    ASSUME NEW plan, \A d \in DOMAIN plan : plan[d] \subseteq Windows
    PROVE  ~WindowsValid(plan) <=>
               \E d \in DOMAIN plan : \E w \in plan[d] :
                   w \notin [start : 0..(MinutesPerDay - 1), end : 1..MinutesPerDay]
                       \/ w.start >= w.end
<1>1. ASSUME NEW w \in Windows
      PROVE  (0 <= w.start /\ w.start < w.end /\ w.end <= MinutesPerDay)
                 <=> ~(w \notin [start : 0..(MinutesPerDay - 1),
                                 end : 1..MinutesPerDay] \/ w.start >= w.end)
  BY CalendarAssumption DEF Windows
<1> QED BY <1>1 DEF WindowsValid

\* The minutes that windows keep open are those that lie in one of them.
LEMMA OpenIsInSomeWindow ==
    ASSUME NEW windows \in SUBSET Windows, NEW minute \in Int
    PROVE  minute \in OpenMinutes(windows) <=> \E w \in windows : InWindow(w, minute)
BY DEF OpenMinutes, InWindow, Windows

\* TargetFollowsWallClock, for every length of day and week, schedule and zone: the
\* code's conversion of the instant agrees with a clock that ticks and is set.
THEOREM HoursFollowTheWall == Days => []TargetFollowsWallClock
<1>1. CalendarInv => TargetFollowsWallClock
  <2> SUFFICES ASSUME CalendarInv PROVE TargetFollowsWallClock
    OBVIOUS
  <2> DEFINE bad == \E w \in UNION ({hours[d] : d \in DOMAIN hours}
                                    \cup {overrides[d] : d \in DOMAIN overrides}) :
                       w \notin [start : 0..(MinutesPerDay - 1),
                                 end   : 1..MinutesPerDay] \/ w.start >= w.end
  <2>1. /\ \A d \in DOMAIN hours : hours[d] \subseteq Windows
        /\ \A d \in DOMAIN overrides : overrides[d] \subseteq Windows
    BY ConfigurationAssumption DEF CalendarInv
  <2>2. bad <=> ~WindowsValid(hours) \/ ~WindowsValid(overrides)
    <3>1. bad <=> \/ \E d \in DOMAIN hours : \E w \in hours[d] :
                         w \notin [start : 0..(MinutesPerDay - 1),
                                   end   : 1..MinutesPerDay] \/ w.start >= w.end
                  \/ \E d \in DOMAIN overrides : \E w \in overrides[d] :
                         w \notin [start : 0..(MinutesPerDay - 1),
                                   end   : 1..MinutesPerDay] \/ w.start >= w.end
      OBVIOUS
    <3> QED BY <2>1, <3>1, BadWindowsAreFound
  <2>3. /\ wall.date = LocalDate(zone, instant)
        /\ wall.weekday = Weekday(zone, instant)
        /\ wall.minute = Minute(zone, instant)
    BY DEF CalendarInv, WallAt, LocalDate, Weekday, Minute
  <2>4. Minute(zone, instant) \in Int
    <3>1. Local(zone, instant) \in Int
      BY OffsetsAreSmall, CalendarAssumption DEF CalendarInv, Local
    <3> QED BY <3>1, CalendarAssumption, Division DEF Minute
  <2>5. Posted \subseteq Windows
    BY <2>1 DEF Posted
  <2>6. wall.minute \in OpenMinutes(Posted)
            <=> \E w \in Posted : InWindow(w, Minute(zone, instant))
    BY <2>3, <2>4, <2>5, OpenIsInSomeWindow
  <2>7. ~bad => target = IF \E w \in Posted : InWindow(w, Minute(zone, instant))
                         THEN "open" ELSE "closed"
    BY <2>2, <2>3 DEF CalendarInv, ResolveAt, TargetOf, Posted
  <2>8. bad => target = "error"
    BY <2>2 DEF CalendarInv, ResolveAt
  <2> HIDE DEF bad
  <2> QED BY <2>6, <2>7, <2>8 DEF TargetFollowsWallClock, bad
<1> QED BY <1>1, CalendarInvariant, PTL

-----------------------------------------------------------------------------
(***************************************************************************)
(* Transcript limits.  First what numbers and finite sets of them do.      *)
(***************************************************************************)
\* The larger and the smaller of two numbers.
LEMMA OfTwo ==
    ASSUME NEW a \in Int, NEW b \in Int
    PROVE  /\ Max({a, b}) = (IF a >= b THEN a ELSE b)
           /\ Min({a, b}) = (IF a >= b THEN b ELSE a)
BY DEF Max, Min

\* A set of numbers that is not empty has a least one.
LEMMA LeastExists ==
    ASSUME NEW T \in SUBSET Nat, T # {}
    PROVE  \E x \in T : \A y \in T : x <= y
<1>1. PICK x \in T : \A y \in T : ~(<<y, x>> \in OpToRel(<, Nat))
  BY NatLessThanWellFounded, WFMin
<1>2. ASSUME NEW y \in T PROVE x <= y
  <2>1. x \in Nat /\ y \in Nat
    OBVIOUS
  <2>2. ~(y < x)
    BY <1>1, <2>1 DEF OpToRel
  <2> QED BY <2>1, <2>2
<1> QED BY <1>2

\* The first and the last of some positions.
LEMMA FirstAndLast ==
    ASSUME NEW n \in Nat, NEW S \in SUBSET (1..n), S # {}
    PROVE  /\ Min(S) \in S /\ Max(S) \in S
           /\ \A y \in S : Min(S) <= y /\ y <= Max(S)
<1>1. \E x \in S : \A y \in S : x <= y
  BY LeastExists
<1>2. \E x \in S : \A y \in S : x >= y
  <2> DEFINE rest == {n - x : x \in S}
  <2>1. rest \in SUBSET Nat /\ rest # {}
    <3>1. \A x \in S : n - x \in Nat
      OBVIOUS
    <3> QED BY <3>1
  <2>2. PICK r \in rest : \A q \in rest : r <= q
    BY <2>1, LeastExists
  <2>3. PICK x \in S : r = n - x
    OBVIOUS
  <2>4. ASSUME NEW y \in S PROVE x >= y
    <3>1. n - y \in rest
      OBVIOUS
    <3>2. n - x <= n - y
      BY <3>1, <2>2, <2>3
    <3> QED BY <3>2
  <2> QED BY <2>4
<1>3. Min(S) \in S /\ \A y \in S : Min(S) <= y
  BY <1>1 DEF Min
<1>4. Max(S) \in S /\ \A y \in S : Max(S) >= y
  BY <1>2 DEF Max
<1> QED BY <1>3, <1>4

-----------------------------------------------------------------------------
(***************************************************************************)
(* What a text measures.                                                   *)
(***************************************************************************)
\* White space between content: strip leaves it in place.
GapsAt(text) == Stripped(text) \ ContentAt(text)

\* The fields of one character.
LEMMA CharacterFields ==
    ASSUME NEW c \in Characters
    PROVE  /\ c.space \in BOOLEAN /\ c.bytes \in 1..4 /\ c.break \in BOOLEAN
           /\ c.space => c.bytes <= 3
           /\ c.break => c.space
           /\ Printable(c) => ~c.break
           /\ Printable(c) /\ c.space => c.bytes <= 1
<1>1. CASE c \in Content
  BY <1>1 DEF Content
<1>2. CASE c \in Space
  <2>1. c.space = TRUE /\ c.bytes \in 1..3 /\ c.break \in BOOLEAN
    BY <1>2 DEF Space
  <2>2. c \notin Content
    BY <2>1 DEF Content
  <2>3. c.bytes \in 1..4 /\ c.bytes <= 3
    BY <2>1
  <2>4. c.space
    BY <2>1
  <2>5. Printable(c) => ~c.break /\ c.bytes = 1
    BY <2>2, Zenon DEF Printable
  <2>6. Printable(c) => c.bytes <= 1
    BY <2>5
  <2> QED BY <2>1, <2>3, <2>4, <2>5, <2>6, Zenon
<1> QED BY <1>1, <1>2 DEF Characters

\* The positions of a text, of its content, of its stripped form.
LEMMA Positions ==
    ASSUME NEW n \in Nat, NEW text \in [1..n -> Characters], ContentAt(text) # {}
    PROVE  /\ DOMAIN text = 1..n
           /\ ContentAt(text) \subseteq Stripped(text) /\ Stripped(text) \subseteq 1..n
           /\ \E first, last \in ContentAt(text) : Stripped(text) = first..last
           /\ IsFiniteSet(1..n) /\ Cardinality(1..n) = n
           /\ IsFiniteSet(Stripped(text)) /\ Cardinality(Stripped(text)) \in Nat
           /\ IsFiniteSet(ContentAt(text)) /\ Cardinality(ContentAt(text)) \in Nat
           /\ IsFiniteSet(GapsAt(text)) /\ Cardinality(GapsAt(text)) \in Nat
<1> DEFINE C == ContentAt(text)
           first == Min(C)
           last == Max(C)
<1>1. C \in SUBSET (1..n) /\ C # {} /\ DOMAIN text = 1..n
  BY DEF ContentAt
<1>2. /\ first \in C /\ last \in C
      /\ \A y \in C : first <= y /\ y <= last
  <2> HIDE DEF C
  <2> QED BY <1>1, FirstAndLast
<1>3. Stripped(text) = first..last
  BY DEF Stripped
<1> HIDE DEF C, first, last
<1>4. C \subseteq first..last /\ first..last \subseteq 1..n
  BY <1>1, <1>2
<1>5. IsFiniteSet(1..n) /\ Cardinality(1..n) = n
  BY FS_Interval
<1>6. IsFiniteSet(first..last) /\ IsFiniteSet(C)
  BY <1>1, <1>4, <1>5, FS_Subset
<1>7. IsFiniteSet(Stripped(text) \ C)
  BY <1>3, <1>6, FS_Difference
<1>8. /\ Cardinality(C) \in Nat /\ Cardinality(first..last) \in Nat
      /\ Cardinality(Stripped(text) \ C) \in Nat
  BY <1>6, <1>7, FS_CardinalityType
<1>9. C = ContentAt(text)
  BY DEF C
<1> QED BY <1>1, <1>2, <1>3, <1>4, <1>5, <1>6, <1>7, <1>8, <1>9 DEF GapsAt

\* What is left of a set when a part of it is taken away.
LEMMA Remaining ==
    ASSUME NEW U, IsFiniteSet(U), NEW V \in SUBSET U
    PROVE  IsFiniteSet(U \ V) /\ Cardinality(U \ V) = Cardinality(U) - Cardinality(V)
<1>1. U \cap V = V
  OBVIOUS
<1>2. IsFiniteSet(U \ V) /\ Cardinality(U \ V) = Cardinality(U) - Cardinality(U \cap V)
  BY FS_Difference, Zenon
<1> QED BY <1>1, <1>2

\* Content and gaps make up the stripped text, content and breaks fit the whole.
LEMMA ContentGapsBreaks ==
    ASSUME NEW n \in Nat, NEW text \in [1..n -> Characters], ContentAt(text) # {}
    PROVE  /\ Cardinality(Stripped(text))
                  = Cardinality(ContentAt(text)) + Cardinality(GapsAt(text))
           /\ Cardinality(Stripped(text)) <= n
           /\ IsFiniteSet(BreaksAt(text)) /\ Cardinality(BreaksAt(text)) \in Nat
           /\ Cardinality(ContentAt(text)) + Cardinality(BreaksAt(text)) <= n
<1> DEFINE C == ContentAt(text)
           K == Stripped(text)
           B == BreaksAt(text)
<1>1. B \subseteq (1..n) \ C
  BY CharacterFields DEF BreaksAt, ContentAt
<1>2. /\ C \subseteq K /\ K \subseteq 1..n
      /\ IsFiniteSet(1..n) /\ Cardinality(1..n) = n
      /\ IsFiniteSet(K) /\ Cardinality(K) \in Nat
      /\ IsFiniteSet(C) /\ Cardinality(C) \in Nat
  BY Positions
<1>3. GapsAt(text) = K \ C
  BY DEF GapsAt
<1> HIDE DEF C, K, B
<1>5. Cardinality(K \ C) = Cardinality(K) - Cardinality(C)
  BY <1>2, Remaining
<1>6. Cardinality(K) <= n
  BY <1>2, FS_Subset
<1>7. IsFiniteSet((1..n) \ C) /\ Cardinality((1..n) \ C) = n - Cardinality(C)
  <2>1. C \in SUBSET (1..n)
    BY <1>2
  <2> QED BY <2>1, <1>2, Remaining
<1>8. IsFiniteSet(B) /\ Cardinality(B) <= Cardinality((1..n) \ C)
  BY <1>1, <1>7, FS_Subset
<1>9. Cardinality(B) \in Nat
  BY <1>8, FS_CardinalityType
<1>10. C = ContentAt(text) /\ K = Stripped(text) /\ B = BreaksAt(text)
  BY DEF C, K, B
<1>11. Cardinality(K) = Cardinality(C) + Cardinality(K \ C)
  BY <1>2, <1>5
<1>12. Cardinality(C) + Cardinality(B) <= n
  BY <1>2, <1>7, <1>8, <1>9
<1> QED BY <1>3, <1>6, <1>8, <1>9, <1>10, <1>11, <1>12

\* Every word but the first starts right after a gap; with a single word there
\* is no gap at all.
LEMMA WordsAndGaps ==
    ASSUME NEW n \in Nat, NEW text \in [1..n -> Characters], ContentAt(text) # {}
    PROVE  LET words == Cardinality(WordStarts(text))
               gaps  == Cardinality(GapsAt(text))
           IN  /\ words \in Nat \ {0}
               /\ words <= Cardinality(ContentAt(text))
               /\ words <= gaps + 1
               /\ words = 1 => gaps = 0
<1> DEFINE C == ContentAt(text)
           G == GapsAt(text)
           W == WordStarts(text)
<1>1. PICK first, last \in C : Stripped(text) = first..last
  BY Positions
<1>2. /\ C \subseteq 1..n /\ C \subseteq first..last
      /\ G = (first..last) \ C
      /\ IsFiniteSet(C) /\ IsFiniteSet(G) /\ Cardinality(G) \in Nat
  BY <1>1, Positions DEF GapsAt
<1>3. \A i \in 1..n : i \in C <=> ~text[i].space
  BY DEF ContentAt
<1>4. \A i \in 1..n : i \in W <=> (i \in C /\ (i = 1 \/ text[i - 1].space))
  BY <1>2 DEF WordStarts
<1>5. W \subseteq C
  BY DEF WordStarts
<1> SUFFICES /\ Cardinality(W) \in Nat \ {0} /\ Cardinality(W) <= Cardinality(C)
             /\ Cardinality(W) <= Cardinality(G) + 1
             /\ Cardinality(W) = 1 => Cardinality(G) = 0
  OBVIOUS
<1> HIDE DEF C, G, W
<1>6. first \in W
  <2>1. first \in 1..n
    BY <1>2
  <2>2. CASE first = 1
    BY <2>1, <2>2, <1>4
  <2>3. CASE first > 1
    <3>1. first - 1 \in 1..n /\ first - 1 \notin first..last
      BY <2>1, <2>3
    <3>2. text[first - 1].space
      BY <3>1, <1>2, <1>3
    <3> QED BY <2>1, <3>2, <1>4
  <2> QED BY <2>1, <2>2, <2>3
<1>7. /\ IsFiniteSet(W) /\ Cardinality(W) \in Nat /\ Cardinality(W) <= Cardinality(C)
      /\ IsFiniteSet(W \ {first}) /\ Cardinality(W \ {first}) = Cardinality(W) - 1
  <2>1. IsFiniteSet(W) /\ Cardinality(W) <= Cardinality(C)
    BY <1>2, <1>5, FS_Subset
  <2> QED BY <2>1, <1>6, FS_CardinalityType, FS_RemoveElement
<1>8. \A i \in W \ {first} : i - 1 \in G
  <2> SUFFICES ASSUME NEW i \in W \ {first} PROVE i - 1 \in G
    OBVIOUS
  <2>1. i \in C /\ i \in 1..n /\ i \in first..last /\ first \in 1..n
    BY <1>2, <1>5
  <2>2. i > first /\ i # 1 /\ i - 1 \in 1..n /\ i - 1 \in first..last
    BY <2>1
  <2>3. text[i - 1].space
    BY <2>1, <2>2, <1>4
  <2>4. i - 1 \notin C
    BY <2>2, <2>3, <1>3
  <2> QED BY <2>2, <2>4, <1>2
<1>9. Cardinality(W \ {first}) <= Cardinality(G)
  <2> DEFINE before == [i \in W \ {first} |-> i - 1]
  <2>1. \A i \in W \ {first} : i \in Int
    BY <1>2, <1>5
  <2>2. before \in [W \ {first} -> G]
    BY <1>8
  <2>3. \A i, j \in W \ {first} : before[i] = before[j] => i = j
    BY <2>1
  <2> HIDE DEF before
  <2>4. before \in Injection(W \ {first}, G)
    BY <2>2, <2>3 DEF Injection, IsInjective
  <2> QED BY <2>4, <1>2, FS_Injection
<1>10. ASSUME NEW g \in G PROVE W # {first}
  <2> DEFINE later == {i \in C : i > g}
  <2>1. g \in 1..n /\ first \in 1..n /\ last \in 1..n /\ g \in first..last /\ g \notin C
    BY <1>2
  <2>2. g < last /\ last \in later
    BY <2>1
  <2>3. later \in SUBSET Nat
    <3>1. \A i \in C : i \in Nat
      BY <1>2
    <3> QED BY <3>1
  <2>4. PICK i \in later : \A j \in later : i <= j
    <3> HIDE DEF later
    <3> QED BY <2>2, <2>3, LeastExists
  <2>5. i \in C /\ i \in 1..n /\ i > g /\ i - 1 \in 1..n
    BY <2>1, <2>4, <1>2
  <2>6. i - 1 \notin C
    <3>1. CASE i - 1 = g
      BY <3>1, <2>1
    <3>2. CASE i - 1 > g
      <4>1. i - 1 \notin later
        BY <2>4, <2>5
      <4> QED BY <4>1, <3>2
    <3> QED BY <3>1, <3>2, <2>5, <2>1
  <2>7. i \in W
    BY <2>5, <2>6, <1>3, <1>4
  <2>8. i # first
    BY <2>1, <2>5
  <2> QED BY <2>7, <2>8
<1>11. ASSUME Cardinality(W) = 1 PROVE Cardinality(G) = 0
  <2>1. W = {first}
    BY <1>6, <1>7, <1>11, FS_EmptySet
  <2>2. G = {}
    BY <2>1, <1>10
  <2> QED BY <2>2, FS_EmptySet
<1>12. Cardinality(W) # 0
  BY <1>6, <1>7, FS_EmptySet
<1> QED BY <1>2, <1>7, <1>9, <1>11, <1>12

\* The indices of the bytes of one character.
LEMMA FourIndices == IsFiniteSet(1..4) /\ Cardinality(1..4) = 4
<1>1. 1 \in Int /\ 4 \in Int
  OBVIOUS
<1>2. IsFiniteSet(1..4) /\ Cardinality(1..4) = IF 1 > 4 THEN 0 ELSE 4 - 1 + 1
  BY <1>1, FS_Interval, Zenon
<1> QED BY <1>2

\* Those above what white space may have: three, or one when it is printable.
LEMMA HigherIndices ==
    ASSUME NEW cap \in {1, 3}
    PROVE  IsFiniteSet((cap + 1)..4) /\ Cardinality((cap + 1)..4) = 4 - cap
<1>1. cap + 1 \in Int /\ 4 \in Int
  OBVIOUS
<1>2. /\ IsFiniteSet((cap + 1)..4)
      /\ Cardinality((cap + 1)..4) = IF cap + 1 > 4 THEN 0 ELSE 4 - (cap + 1) + 1
  BY <1>1, FS_Interval, Zenon
<1> QED BY <1>2

\* Some indices at some positions.
LEMMA SomeIndices ==
    ASSUME NEW P, NEW Q, NEW U, \A i \in P : \A k \in Q : <<i, k>> \in U
    PROVE  P \X Q \subseteq U
<1> SUFFICES ASSUME NEW pair \in P \X Q PROVE pair \in U
  OBVIOUS
<1>1. PICK i \in P, k \in Q : pair = <<i, k>>
  OBVIOUS
<1> QED BY <1>1

\* Every character has a byte, and no more than four, or than the cap in a gap.
LEMMA BytesOfText ==
    ASSUME NEW n \in Nat, NEW text \in [1..n -> Characters], ContentAt(text) # {},
           NEW cap \in {1, 3}, \A i \in GapsAt(text) : text[i].bytes <= cap
    PROVE  LET inside   == Cardinality(Bytes(text, Stripped(text)))
               all      == Cardinality(Bytes(text, 1..n))
               stripped == Cardinality(Stripped(text))
           IN  /\ inside \in Nat /\ all \in Nat
               /\ inside + (n - stripped) <= all
               /\ stripped <= inside
               /\ inside + (4 - cap) * Cardinality(GapsAt(text)) <= 4 * stripped
<1> DEFINE K == Stripped(text)
           G == GapsAt(text)
           outside == (1..n) \ K
<1>1. /\ K \subseteq 1..n /\ G \subseteq K
      /\ IsFiniteSet(1..n) /\ Cardinality(1..n) = n
      /\ IsFiniteSet(K) /\ Cardinality(K) \in Nat
      /\ IsFiniteSet(G) /\ Cardinality(G) \in Nat
  BY Positions DEF GapsAt
<1>2. \A i \in G : text[i].bytes <= cap
  OBVIOUS
<1> SUFFICES /\ Cardinality(Bytes(text, K)) \in Nat /\ Cardinality(Bytes(text, 1..n)) \in Nat
             /\ Cardinality(Bytes(text, K)) + (n - Cardinality(K)) <= Cardinality(Bytes(text, 1..n))
             /\ Cardinality(K) <= Cardinality(Bytes(text, K))
             /\ Cardinality(Bytes(text, K)) + (4 - cap) * Cardinality(G) <= 4 * Cardinality(K)
  OBVIOUS
<1> HIDE DEF K, G
<1>3. ASSUME NEW P \in SUBSET (1..n)
      PROVE  /\ IsFiniteSet(Bytes(text, P)) /\ Cardinality(Bytes(text, P)) \in Nat
             /\ P \X {1} \subseteq Bytes(text, P)
             /\ IsFiniteSet(P \X {1}) /\ Cardinality(P \X {1}) = Cardinality(P)
             /\ Cardinality(P) \in Nat /\ Cardinality(P) <= Cardinality(Bytes(text, P))
  <2>1. IsFiniteSet(P) /\ IsFiniteSet(1..4) /\ IsFiniteSet({1}) /\ Cardinality({1}) = 1
    BY <1>1, FourIndices, FS_Subset, FS_Singleton
  <2>2. IsFiniteSet(P \X (1..4))
    BY <2>1, FS_Product
  <2>3. Bytes(text, P) \in SUBSET (P \X (1..4))
    BY DEF Bytes
  <2>4. IsFiniteSet(Bytes(text, P))
    BY <2>2, <2>3, FS_Subset
  <2>5. P \X {1} \in SUBSET Bytes(text, P)
    <3>1. ASSUME NEW i \in P PROVE <<i, 1>> \in Bytes(text, P)
      <4>1. text[i].bytes \in 1..4
        BY CharacterFields
      <4> QED BY <4>1 DEF Bytes
    <3> QED BY <3>1, SomeIndices
  <2>6. Cardinality(P) \in Nat
    BY <2>1, FS_CardinalityType
  <2>7. IsFiniteSet(P \X {1}) /\ Cardinality(P \X {1}) = Cardinality(P) * 1
    BY <2>1, FS_Product
  <2>8. Cardinality(P \X {1}) <= Cardinality(Bytes(text, P))
    BY <2>4, <2>5, FS_Subset
  <2> QED BY <2>4, <2>5, <2>6, <2>7, <2>8, FS_CardinalityType
<1>4. Cardinality(Bytes(text, K)) + (n - Cardinality(K)) <= Cardinality(Bytes(text, 1..n))
  <2> DEFINE first == outside \X {1}
  <2>1. outside \in SUBSET (1..n) /\ Cardinality(outside) = n - Cardinality(K)
    <3>1. K \in SUBSET (1..n)
      BY <1>1
    <3> QED BY <1>1, <3>1, Remaining
  <2> HIDE DEF outside
  <2>2. /\ IsFiniteSet(first) /\ Cardinality(first) = n - Cardinality(K)
        /\ first \subseteq Bytes(text, outside)
    BY <1>3, <2>1
  <2>3. Bytes(text, K) \cup first \in SUBSET Bytes(text, 1..n)
    <3>1. Bytes(text, K) \subseteq Bytes(text, 1..n) /\ Bytes(text, outside) \subseteq Bytes(text, 1..n)
      BY <1>1, <2>1 DEF Bytes
    <3> HIDE DEF first
    <3> QED BY <2>2, <3>1
  <2>4. Bytes(text, K) \cap first = {}
    <3>1. \A byte \in Bytes(text, K) : byte[1] \in K
      BY DEF Bytes
    <3>2. \A byte \in first : byte[1] \notin K
      BY DEF outside
    <3> HIDE DEF first
    <3> QED BY <3>1, <3>2
  <2> HIDE DEF first
  <2>5. Cardinality(Bytes(text, K) \cup first) <= Cardinality(Bytes(text, 1..n))
    BY <1>3, <2>3, FS_Subset
  <2>6. Cardinality(Bytes(text, K) \cup first)
            = Cardinality(Bytes(text, K)) + Cardinality(first) - Cardinality(Bytes(text, K) \cap first)
    BY <1>1, <1>3, <2>2, FS_Union
  <2>7. Cardinality(Bytes(text, K) \cap first) = 0
    BY <2>4, FS_EmptySet
  <2>8. Cardinality(Bytes(text, K)) \in Nat
    BY <1>1, <1>3
  <2> QED BY <1>1, <2>2, <2>5, <2>6, <2>7, <2>8
<1>5. Cardinality(Bytes(text, K)) + (4 - cap) * Cardinality(G) <= 4 * Cardinality(K)
  <2> DEFINE high == G \X ((cap + 1)..4)
  <2>1. /\ IsFiniteSet((cap + 1)..4) /\ Cardinality((cap + 1)..4) = 4 - cap
        /\ IsFiniteSet(1..4) /\ Cardinality(1..4) = 4
    BY FourIndices, HigherIndices
  <2>2. IsFiniteSet(high) /\ Cardinality(high) = Cardinality(G) * (4 - cap)
    <3>1. IsFiniteSet(high) /\ Cardinality(high) = Cardinality(G) * Cardinality((cap + 1)..4)
      BY <1>1, <2>1, FS_Product, Zenon
    <3> QED BY <2>1, <3>1, Zenon
  <2>3. IsFiniteSet(K \X (1..4)) /\ Cardinality(K \X (1..4)) = Cardinality(K) * 4
    BY <1>1, <2>1, FS_Product
  <2>4. Bytes(text, K) \cup high \in SUBSET (K \X (1..4)) /\ Bytes(text, K) \cap high = {}
    <3>1. Bytes(text, K) \subseteq K \X (1..4)
      BY DEF Bytes
    <3>2. high \subseteq K \X (1..4)
      <4>1. \A i \in G : \A k \in (cap + 1)..4 : <<i, k>> \in K \X (1..4)
        BY <1>1
      <4> QED BY <4>1, SomeIndices
    <3>3. ASSUME NEW i \in G, NEW k \in (cap + 1)..4 PROVE <<i, k>> \notin Bytes(text, K)
      <4>1. text[i].bytes \in 1..4 /\ text[i].bytes <= cap
        BY <1>1, <1>2, CharacterFields
      <4> QED BY <4>1 DEF Bytes
    <3>4. Bytes(text, K) \cap high = {}
      BY <3>3
    <3> QED BY <3>1, <3>2, <3>4
  <2> HIDE DEF high
  <2>5. Cardinality(Bytes(text, K) \cup high) <= Cardinality(K) * 4
    BY <2>3, <2>4, FS_Subset
  <2>6. Cardinality(Bytes(text, K) \cup high)
            = Cardinality(Bytes(text, K)) + Cardinality(high) - Cardinality(Bytes(text, K) \cap high)
    BY <1>1, <1>3, <2>2, FS_Union
  <2>7. Cardinality(Bytes(text, K) \cap high) = 0
    BY <2>4, FS_EmptySet
  <2>8. Cardinality(Bytes(text, K)) \in Nat
    BY <1>1, <1>3
  <2>9. CASE cap = 1
    BY <1>1, <2>2, <2>5, <2>6, <2>7, <2>8, <2>9
  <2>10. CASE cap = 3
    BY <1>1, <2>2, <2>5, <2>6, <2>7, <2>8, <2>10
  <2> QED BY <2>9, <2>10
<1> QED BY <1>1, <1>3, <1>4, <1>5

\* The lines of a text with content: its breaks and one more at most.
LEMMA LinesOfText ==
    ASSUME NEW n \in Nat, NEW text \in [1..n -> Characters], ContentAt(text) # {}
    PROVE  /\ LineCount(text) \in Nat
           /\ LineCount(text) <= Cardinality(BreaksAt(text)) + 1
           /\ (\A i \in 1..n : Printable(text[i])) => LineCount(text) = 1
<1>1. DOMAIN text = 1..n /\ 1..n # {} /\ Cardinality(BreaksAt(text)) \in Nat
  <2>1. ContentAt(text) \subseteq 1..n
    BY DEF ContentAt
  <2> QED BY <2>1, ContentGapsBreaks
<1>2. /\ LineCount(text) \in Nat
      /\ LineCount(text) <= Cardinality(BreaksAt(text)) + 1
  BY <1>1 DEF LineCount
<1>3. ASSUME \A i \in 1..n : Printable(text[i]) PROVE LineCount(text) = 1
  <2>1. \A i \in 1..n : ~text[i].break
    BY <1>3, CharacterFields
  <2>2. BreaksAt(text) = {}
    BY <1>1, <2>1 DEF BreaksAt
  <2>3. Cardinality(BreaksAt(text)) = 0
    BY <2>2, FS_EmptySet
  <2>4. Max(1..n) \in 1..n
    BY <1>1, FirstAndLast
  <2>5. ~text[Max(DOMAIN text)].break
    BY <1>1, <2>1, <2>4
  <2> QED BY <1>1, <2>3, <2>5 DEF LineCount
<1> QED BY <1>2, <1>3

\* The shape of what a text with content can measure.
MeasuresOf(t, gaps, breaks) ==
    /\ gaps \in Nat /\ breaks \in Nat
    /\ t.chars \in Nat /\ t.strippedChars \in Nat /\ t.bytes \in Nat
    /\ t.strippedBytes \in Nat /\ t.words \in Nat \ {0} /\ t.lines \in Nat
    /\ t.strippedChars <= t.chars
    /\ t.words + gaps <= t.strippedChars
    /\ t.words <= gaps + 1
    /\ t.words = 1 => gaps = 0
    /\ t.strippedChars - gaps + breaks <= t.chars
    /\ t.lines <= breaks + 1
    /\ t.printable => t.lines = 1
    /\ t.strippedChars <= t.strippedBytes
    /\ t.strippedBytes + (t.chars - t.strippedChars) <= t.bytes
    /\ t.strippedBytes + gaps <= 4 * t.strippedChars
    /\ t.printable => t.strippedBytes + 3 * gaps <= 4 * t.strippedChars

LEMMA WhatTextsMeasure ==
    ASSUME NEW t \in Transcripts, t.words >= 1
    PROVE  \E gaps, breaks : MeasuresOf(t, gaps, breaks)
<1>0. PICK n \in 0..MaxChars : \E text \in [1..n -> Characters] : t = Measure(text)
  BY DEF Transcripts, Texts
<1>1. PICK text \in [1..n -> Characters] : t = Measure(text)
  BY <1>0
<1>2. n \in Nat
  BY LimitsAssumption
<1>3. ContentAt(text) # {}
  <2> SUFFICES ASSUME ContentAt(text) = {} PROVE FALSE
    OBVIOUS
  <2>1. WordStarts(text) = {}
    BY DEF WordStarts
  <2>2. t.words = 0
    BY <1>1, <2>1, FS_EmptySet DEF Measure
  <2> QED BY <2>2
<1> DEFINE gaps == Cardinality(GapsAt(text))
           breaks == Cardinality(BreaksAt(text))
           content == Cardinality(ContentAt(text))
           stripped == Cardinality(Stripped(text))
           inside == Cardinality(Bytes(text, Stripped(text)))
           all == Cardinality(Bytes(text, 1..n))
           words == Cardinality(WordStarts(text))
           lines == LineCount(text)
<1>4. /\ t.chars = n /\ t.strippedChars = stripped
      /\ t.bytes = all /\ t.strippedBytes = inside
      /\ t.words = words /\ t.lines = lines
      /\ t.printable = \A i \in 1..n : Printable(text[i])
  <2>1. DOMAIN text = 1..n /\ Cardinality(1..n) = n
    BY <1>2, <1>3, Positions
  <2> QED BY <1>1, <2>1 DEF Measure
<1>5. /\ gaps \in Nat /\ content \in Nat /\ stripped \in Nat
      /\ stripped = content + gaps /\ stripped <= n
      /\ breaks \in Nat /\ content + breaks <= n
  BY <1>2, <1>3, Positions, ContentGapsBreaks
<1>6. words \in Nat \ {0} /\ words <= content /\ words <= gaps + 1 /\ (words = 1 => gaps = 0)
  BY <1>2, <1>3, WordsAndGaps
<1>7. lines \in Nat /\ lines <= breaks + 1 /\ ((\A i \in 1..n : Printable(text[i])) => lines = 1)
  BY <1>2, <1>3, LinesOfText
<1>8. /\ \A i \in GapsAt(text) : i \in 1..n /\ text[i].space
      /\ \A i \in GapsAt(text) : text[i].bytes <= 3
      /\ t.printable => \A i \in GapsAt(text) : text[i].bytes <= 1
  <2>1. \A i \in GapsAt(text) : i \in 1..n /\ text[i].space
    BY <1>2, <1>3, Positions DEF GapsAt, ContentAt
  <2>2. \A i \in GapsAt(text) : text[i].bytes <= 3
    BY <2>1, CharacterFields
  <2>3. ASSUME t.printable PROVE \A i \in GapsAt(text) : text[i].bytes <= 1
    BY <1>4, <2>1, <2>3, CharacterFields
  <2> QED BY <2>1, <2>2, <2>3
<1>9. /\ inside \in Nat /\ all \in Nat /\ inside + (n - stripped) <= all
      /\ stripped <= inside /\ inside + (4 - 3) * gaps <= 4 * stripped
  <2>1. 3 \in {1, 3}
    OBVIOUS
  <2> QED BY <1>2, <1>3, <1>8, <2>1, BytesOfText
<1>10. t.printable => inside + (4 - 1) * gaps <= 4 * stripped
  <2>1. 1 \in {1, 3}
    OBVIOUS
  <2> QED BY <1>2, <1>3, <1>8, <2>1, BytesOfText
<1> HIDE DEF gaps, breaks, content, stripped, inside, all, words, lines
<1>11. t.printable => t.lines = 1
  BY <1>4, <1>7
<1>12. MeasuresOf(t, gaps, breaks)
  BY <1>2, <1>4, <1>5, <1>6, <1>7, <1>9, <1>10, <1>11 DEF MeasuresOf
<1> QED BY <1>12

-----------------------------------------------------------------------------
(***************************************************************************)
(* Refusals.                                                               *)
(***************************************************************************)
\* The limits of a policy are positive numbers.
LEMMA LimitsAreNumbers ==
    ASSUME NEW p \in TranscriptPolicies
    PROVE  /\ p.minChars \in Nat \ {0} /\ p.maxChars \in Nat \ {0}
           /\ p.minBytes \in Nat \ {0} /\ p.maxBytes \in Nat \ {0}
           /\ p.minWords \in Nat \ {0} /\ p.maxWords \in Nat \ {0}
           /\ p.minLines \in Nat \ {0} /\ p.maxLines \in Nat \ {0}
           /\ p.maxChars <= MaxChars
           /\ p.printable \in BOOLEAN
<1>1. \A b \in ByteLimits : b \in Nat \ {0}
  BY LimitsAssumption
<1>2. /\ p.minChars \in 1..MaxChars /\ p.maxChars \in 1..MaxChars
      /\ p.minBytes \in ByteLimits /\ p.maxBytes \in ByteLimits
      /\ p.minLines \in 1..MaxChars /\ p.maxLines \in 1..MaxChars
      /\ p.printable \in BOOLEAN
  BY DEF TranscriptPolicies
<1>3. p.minWords \in 1..(MaxChars \div 2) /\ p.maxWords \in 1..(MaxChars \div 2)
  BY DEF TranscriptPolicies
<1>4. p.minWords \in Nat \ {0} /\ p.maxWords \in Nat \ {0}
  BY <1>3
<1>5. p.maxChars <= MaxChars
  BY <1>2, LimitsAssumption
<1> QED BY <1>1, <1>2, <1>4, <1>5

\* A policy that understands some transcript passes the checks, and is not one
\* of those they do not see.
LEMMA UsableIsAccepted ==
    ASSUME NEW p \in TranscriptPolicies, Usable(p)
    PROVE  Accepts(p) /\ ~Overlooked(p)
<1>1. PICK t \in Transcripts : Understands(p, t)
  BY DEF Usable
<1>2. /\ p.minChars \in Nat \ {0} /\ p.maxChars \in Nat \ {0}
      /\ p.minBytes \in Nat \ {0} /\ p.maxBytes \in Nat \ {0}
      /\ p.minWords \in Nat \ {0} /\ p.maxWords \in Nat \ {0}
      /\ p.minLines \in Nat \ {0} /\ p.maxLines \in Nat \ {0}
  BY LimitsAreNumbers
<1>3. t.words >= 1
  <2>1. p.minWords <= t.words
    BY <1>1 DEF Understands
  <2>2. t.words \in Nat
    <3>0. PICK n \in 0..MaxChars : \E text \in [1..n -> Characters] : t = Measure(text)
      BY DEF Transcripts, Texts
    <3>1. PICK text \in [1..n -> Characters] : t = Measure(text)
      BY <3>0
    <3>2. WordStarts(text) \in SUBSET (1..n) /\ IsFiniteSet(1..n)
      BY <3>1, FS_Interval DEF WordStarts, ContentAt
    <3>3. Cardinality(WordStarts(text)) \in Nat
      BY <3>2, FS_Subset, FS_CardinalityType
    <3> QED BY <3>1, <3>3 DEF Measure
  <2> QED BY <1>2, <2>1, <2>2
<1>4. PICK gaps, breaks : MeasuresOf(t, gaps, breaks)
  BY <1>3, WhatTextsMeasure
<1>5. /\ t.chars <= p.maxChars /\ t.strippedChars >= p.minChars
      /\ p.minBytes <= t.strippedBytes /\ t.bytes <= p.maxBytes
      /\ p.minWords <= t.words /\ t.words <= p.maxWords
      /\ p.minLines <= t.lines /\ t.lines <= p.maxLines
  BY <1>1 DEF Understands
<1>6. ~(p.printable /\ p.minLines > 1)
  BY <1>1, <1>2, <1>4 DEF Understands, MeasuresOf
<1>7. Ordered(p) /\ p.minChars <= p.maxBytes
  BY <1>2, <1>4, <1>5 DEF Ordered, MeasuresOf
<1>8. WithinBoth(p, p.minWords * 2 - 1) /\ WithinBoth(p, p.minLines)
  BY <1>2, <1>4, <1>5 DEF WithinBoth, MeasuresOf
<1>9. /\ MinSeparators(p) = (IF p.minWords - 1 >= p.minLines - 1
                              THEN p.minWords - 1 ELSE p.minLines - 1)
      /\ MinSeparators(p) \in Nat
  BY <1>2, OfTwo DEF MinSeparators
<1>10. MinCharacters(p) \in Int /\ MinCharacters(p) <= t.chars
  <2> DEFINE leading == p.minChars + p.minLines - 1
             inside == Max({p.minChars, p.minLines + 1})
  <2>1. leading \in Nat /\ inside \in Nat /\ inside = (IF p.minChars >= p.minLines + 1
                                     THEN p.minChars ELSE p.minLines + 1)
    BY <1>2, OfTwo
  <2>2. CASE p.minWords = 1 /\ p.minLines > 1
    <3>1. MinCharacters(p) = (IF p.maxWords >= 2 THEN Min({leading, inside}) ELSE leading)
      BY <2>2 DEF MinCharacters
    <3> HIDE DEF inside
    <3>2. Min({leading, inside}) = IF leading >= inside THEN inside ELSE leading
      <4>1. leading \in Int /\ inside \in Int
        BY <2>1
      <4> HIDE DEF leading
      <4> QED BY <4>1, OfTwo, Zenon
    <3> QED BY <1>2, <1>4, <1>5, <2>1, <2>2, <3>1, <3>2 DEF MeasuresOf
  <2>3. CASE ~(p.minWords = 1 /\ p.minLines > 1)
    <3>1. MinCharacters(p) = Max({p.minChars, p.minWords + MinSeparators(p)})
      BY <2>3 DEF MinCharacters
    <3>2. MinCharacters(p) = IF p.minChars >= p.minWords + MinSeparators(p)
                             THEN p.minChars ELSE p.minWords + MinSeparators(p)
      BY <1>2, <1>9, <3>1, OfTwo
    <3> QED BY <1>2, <1>4, <1>5, <1>9, <3>2 DEF MeasuresOf
  <2> QED BY <2>2, <2>3
<1>11. WithinBoth(p, MinCharacters(p))
  BY <1>2, <1>4, <1>5, <1>10 DEF WithinBoth, MeasuresOf
<1>12. p.minBytes <= MaxContentBytes(p)
  BY <1>2, <1>4, <1>5, <1>9 DEF MaxContentBytes, MeasuresOf
<1>13. ~(p.printable /\ p.minBytes > p.maxChars * 4 - (p.minWords - 1) * 3)
  BY <1>1, <1>2, <1>4, <1>5 DEF Understands, MeasuresOf
<1>14. ASSUME AroundOneWord(p)
       PROVE  /\ p.minBytes + (p.minLines - 1) <= p.maxBytes
              /\ p.minBytes <= (p.maxChars - (p.minLines - 1)) * 4
  <2>1. t.words = 1
    BY <1>2, <1>4, <1>5, <1>14 DEF AroundOneWord, WithinBoth, MeasuresOf
  <2> QED BY <1>2, <1>4, <1>5, <2>1 DEF MeasuresOf
<1>15. ~Overlooked(p)
  <2>1. /\ ~(p.minBytes + (p.minLines - 1) > p.maxBytes) \/ ~AroundOneWord(p)
        /\ ~(p.minBytes > (p.maxChars - (p.minLines - 1)) * 4) \/ ~AroundOneWord(p)
    BY <1>2, <1>14
  <2> QED BY <1>13, <2>1 DEF Overlooked
<1> QED BY <1>6, <1>7, <1>8, <1>11, <1>12, <1>15 DEF Accepts

\* The copy of the checks in the command line decides as the library does.
LEMMA CommandLineAgrees ==
    ASSUME NEW p \in TranscriptPolicies
    PROVE  CommandLineAccepts(p) <=> Accepts(p)
<1>1. /\ p.minChars \in Nat \ {0} /\ p.minWords \in Nat \ {0} /\ p.maxWords \in Nat \ {0}
      /\ p.minLines \in Nat \ {0}
  BY LimitsAreNumbers
<1>2. CommandLineSeparators(p) = MinSeparators(p)
  BY DEF CommandLineSeparators, MinSeparators
<1>3. CommandLineMaxContentBytes(p) = MaxContentBytes(p)
  BY <1>2 DEF CommandLineMaxContentBytes, MaxContentBytes
<1>4. CommandLineMinCharacters(p) = MinCharacters(p)
  <2>1. CASE p.minWords > 1 \/ p.minLines = 1
    BY <1>1, <1>2, <2>1 DEF CommandLineMinCharacters, MinCharacters
  <2>2. CASE p.minWords = 1 /\ p.minLines > 1
    <3>1. CASE p.maxWords = 1
      BY <2>2, <3>1 DEF CommandLineMinCharacters, MinCharacters
    <3>2. CASE p.maxWords >= 2
      BY <2>2, <3>2 DEF CommandLineMinCharacters, MinCharacters
    <3> QED BY <1>1, <3>1, <3>2
  <2> QED BY <1>1, <2>1, <2>2
<1>5. (p.printable => p.minLines = 1) <=> ~(p.printable /\ p.minLines > 1)
  BY <1>1
<1>6. (\A length \in {p.minWords * 2 - 1, p.minLines, CommandLineMinCharacters(p)} :
           length <= p.maxChars /\ length <= p.maxBytes)
      <=> /\ WithinBoth(p, p.minWords * 2 - 1) /\ WithinBoth(p, p.minLines)
          /\ WithinBoth(p, MinCharacters(p))
  BY <1>4 DEF WithinBoth
<1> QED BY <1>3, <1>5, <1>6 DEF CommandLineAccepts, Accepts, Ordered

\* Each phase is reached by the checks that lead to it.
PhasesFollowChecks ==
    /\ policy \in TranscriptPolicies
    /\ phase \in {"given", "parsed", "usage error", "rejected", "accepted"}
    /\ phase = "parsed" => caller = "command line" /\ Accepts(policy)
    /\ phase = "usage error" => ~Accepts(policy)
    /\ phase = "rejected" => caller = "library" /\ ~Accepts(policy)
    /\ phase = "accepted" => Accepts(policy)

LEMMA PhasesInvariant == Configuration => []PhasesFollowChecks
<1>1. Unconfigured => PhasesFollowChecks
  BY DEF Unconfigured, PhasesFollowChecks
<1>2. PhasesFollowChecks /\ [Configure]_configuration => PhasesFollowChecks'
  <2> SUFFICES ASSUME PhasesFollowChecks, [Configure]_configuration
               PROVE  PhasesFollowChecks'
    OBVIOUS
  <2>1. CASE ParseArguments
    <3>1. CommandLineAccepts(policy) <=> Accepts(policy)
      BY CommandLineAgrees DEF PhasesFollowChecks
    <3>2. Accepts(policy') <=> Accepts(policy)
      BY <2>1 DEF ParseArguments
    <3> QED BY <2>1, <3>1, <3>2 DEF ParseArguments, PhasesFollowChecks
  <2>2. CASE Validate
    BY <2>2 DEF Validate, PhasesFollowChecks
  <2>3. CASE UNCHANGED configuration
    BY <2>3 DEF configuration, PhasesFollowChecks
  <2> QED BY <2>1, <2>2, <2>3 DEF Configure
<1> QED BY <1>1, <1>2, PTL DEF Configuration

\* Whatever the sizes: a refused policy understands no transcript, and what the
\* command line lets through is never rejected by the library.
THEOREM NoUsablePolicyIsRefused == Configuration => []RefusalsAreRight
<1>1. PhasesFollowChecks => RefusalsAreRight
  BY UsableIsAccepted DEF PhasesFollowChecks, RefusalsAreRight
<1> QED BY <1>1, PhasesInvariant, PTL

-----------------------------------------------------------------------------
(***************************************************************************)
(* Acceptance: a text is built for the limits, as long as they allow and   *)
(* with no more bytes than they ask for.  Its words are single letters but *)
(* for the last, and what separates more than the words do stands before   *)
(* the last word; breaks around one word lead it.                          *)
(***************************************************************************)
\* As many members as there are numbers for them.
LEMMA Numbered ==
    ASSUME NEW m \in Nat, NEW U, NEW f \in [1..m -> U],
           \A j, k \in 1..m : f[j] = f[k] => j = k,
           \A x \in U : \E k \in 1..m : f[k] = x
    PROVE  IsFiniteSet(U) /\ Cardinality(U) = m
<1>1. f \in Bijection(1..m, U)
  BY DEF Bijection, Injection, Surjection, IsInjective
<1>2. ExistsBijection(1..m, U)
  BY <1>1 DEF ExistsBijection
<1>3. IsFiniteSet(1..m)
  BY FS_Interval
<1> QED BY <1>2, <1>3, FS_Bijection, FS_CountingElements

\* The place of separator k when there are w words.
GapPlace(w, k) == IF k < w THEN 2 * k ELSE w - 1 + k

GapPlaces(w, m) == {GapPlace(w, k) : k \in 1..m}

\* They are different places between the first letter and the last word.
LEMMA GapsHavePlaces ==
    ASSUME NEW w \in Nat \ {0}, NEW seps \in Nat, seps >= w - 1, w = 1 => seps = 0,
           NEW m \in 0..seps
    PROVE  /\ GapPlaces(w, m) \subseteq 2..(w + seps - 1)
           /\ IsFiniteSet(GapPlaces(w, m)) /\ Cardinality(GapPlaces(w, m)) = m
<1>1. \A k \in 1..m : GapPlace(w, k) \in 2..(w + seps - 1)
  BY DEF GapPlace
<1>2. \A j, k \in 1..m : GapPlace(w, j) = GapPlace(w, k) => j = k
  BY DEF GapPlace
<1> DEFINE place == [k \in 1..m |-> GapPlace(w, k)]
<1>3. m \in Nat /\ place \in [1..m -> GapPlaces(w, m)]
  BY DEF GapPlaces
<1>4. \A j, k \in 1..m : place[j] = place[k] => j = k
  BY <1>2
<1>5. \A x \in GapPlaces(w, m) : \E k \in 1..m : place[k] = x
  BY DEF GapPlaces
<1> HIDE DEF place
<1>6. IsFiniteSet(GapPlaces(w, m)) /\ Cardinality(GapPlaces(w, m)) = m
  BY <1>3, <1>4, <1>5, Numbered
<1> QED BY <1>1, <1>6 DEF GapPlaces

\* The place where word k starts.
WordPlace(w, seps, k) == IF k < w THEN 2 * k - 1 ELSE w + seps

\* The places that follow a separator or nothing, and hold none, are as many
\* as the words.
LEMMA WordsHavePlaces ==
    ASSUME NEW w \in Nat \ {0}, NEW seps \in Nat, seps >= w - 1, w = 1 => seps = 0,
           NEW n \in Nat, w + seps <= n, NEW U,
           U = {i \in (1..n) \ GapPlaces(w, seps) : i = 1 \/ i - 1 \in GapPlaces(w, seps)}
    PROVE  Cardinality(U) = w
<1> DEFINE G == GapPlaces(w, seps)
<1>1. \A i \in Int : i \in G <=> \E k \in 1..seps : i = GapPlace(w, k)
  BY DEF GapPlaces
<1> HIDE DEF G
<1>2. ASSUME NEW k \in 1..w PROVE WordPlace(w, seps, k) \in U
  <2> DEFINE i == WordPlace(w, seps, k)
  <2>1. i \in 1..n
    BY <1>2 DEF WordPlace
  <2>2. i \notin G
    <3> SUFFICES ASSUME NEW j \in 1..seps, i = GapPlace(w, j) PROVE FALSE
      BY <1>1, <2>1
    <3> QED BY DEF WordPlace, GapPlace
  <2>3. i = 1 \/ i - 1 \in G
    <3>1. CASE k < w /\ k > 1
      <4>1. k - 1 \in 1..seps /\ i - 1 = GapPlace(w, k - 1)
        BY <3>1 DEF WordPlace, GapPlace
      <4> QED BY <2>1, <4>1, <1>1
    <3>2. CASE k < w /\ k = 1
      BY <3>2 DEF WordPlace
    <3>3. CASE k = w /\ seps = 0
      BY <3>3 DEF WordPlace
    <3>4. CASE k = w /\ seps > 0
      <4>1. seps \in 1..seps /\ i - 1 = GapPlace(w, seps)
        BY <3>4 DEF WordPlace, GapPlace
      <4> QED BY <2>1, <4>1, <1>1
    <3> QED BY <3>1, <3>2, <3>3, <3>4
  <2> QED BY <2>1, <2>2, <2>3 DEF G
<1>3. \A j, k \in 1..w : WordPlace(w, seps, j) = WordPlace(w, seps, k) => j = k
  BY DEF WordPlace
<1>4. ASSUME NEW i \in U PROVE \E k \in 1..w : WordPlace(w, seps, k) = i
  <2>1. i \in 1..n /\ i \notin G /\ (i = 1 \/ i - 1 \in G)
    BY DEF G
  <2>2. CASE i = 1
    <3>1. 1 \in 1..w /\ WordPlace(w, seps, 1) = 1
      BY DEF WordPlace
    <3> QED BY <2>2, <3>1
  <2>3. CASE i - 1 \in G
    <3>1. PICK k \in 1..seps : i - 1 = GapPlace(w, k)
      BY <2>1, <2>3, <1>1
    <3>2. CASE k + 1 < w
      <4>1. k + 1 \in 1..w /\ WordPlace(w, seps, k + 1) = i
        BY <2>1, <3>1, <3>2 DEF WordPlace, GapPlace
      <4> QED BY <4>1
    <3>3. CASE k + 1 >= w /\ k = seps
      <4>1. w \in 1..w /\ WordPlace(w, seps, w) = i
        BY <2>1, <3>1, <3>3 DEF WordPlace, GapPlace
      <4> QED BY <4>1
    <3>4. CASE k + 1 >= w /\ k < seps
      <4>1. k + 1 \in 1..seps /\ i = GapPlace(w, k + 1)
        BY <2>1, <3>1, <3>4 DEF GapPlace
      <4> QED BY <4>1, <2>1, <1>1
    <3> QED BY <3>2, <3>3, <3>4
  <2> QED BY <2>1, <2>2, <2>3
<1> DEFINE place == [k \in 1..w |-> WordPlace(w, seps, k)]
<1>5. place \in [1..w -> U]
  BY <1>2
<1>6. \A j, k \in 1..w : place[j] = place[k] => j = k
  BY <1>3
<1>7. \A x \in U : \E k \in 1..w : place[k] = x
  BY <1>4
<1> HIDE DEF place
<1> QED BY <1>5, <1>6, <1>7, Numbered

\* The bytes of n characters that have these numbers of them.
BytesOf(n, b) == {byte \in (1..n) \X (1..4) : byte[2] <= b[byte[1]]}

\* The numbers of bytes n characters may have, when those of G have a cap.
ByteNumbers(n, G, cap) == {b \in [1..n -> 1..4] : \A i \in G : b[i] <= cap}

\* One more byte for a character that may have it.
LEMMA OneMoreByte ==
    ASSUME NEW n \in Nat, NEW b \in [1..n -> 1..4], NEW i \in 1..n, b[i] < 4
    PROVE  Cardinality(BytesOf(n, [b EXCEPT ![i] = @ + 1])) = Cardinality(BytesOf(n, b)) + 1
<1> DEFINE a == [b EXCEPT ![i] = @ + 1]
           new == <<i, b[i] + 1>>
<1>1. b[i] \in 1..3 /\ new \in (1..n) \X (1..4)
  BY DEF BytesOf
<1>2. new \notin BytesOf(n, b)
  BY <1>1 DEF BytesOf
<1>3. BytesOf(n, a) = BytesOf(n, b) \cup {new}
  <2>1. ASSUME NEW j \in 1..n, NEW k \in 1..4
        PROVE  k <= a[j] <=> (k <= b[j] \/ (j = i /\ k = b[i] + 1))
    <3>1. a[j] = (IF j = i THEN b[i] + 1 ELSE b[j]) /\ b[j] \in 1..4
      OBVIOUS
    <3> QED BY <1>1, <3>1
  <2>2. ASSUME NEW byte \in (1..n) \X (1..4)
        PROVE  byte \in BytesOf(n, a) <=> byte \in BytesOf(n, b) \cup {new}
    <3>1. PICK j \in 1..n, k \in 1..4 : byte = <<j, k>>
      OBVIOUS
    <3>2. byte \in BytesOf(n, a) <=> k <= a[j]
      BY <3>1 DEF BytesOf
    <3>3. byte \in BytesOf(n, b) <=> k <= b[j]
      BY <3>1 DEF BytesOf
    <3>4. byte = new <=> (j = i /\ k = b[i] + 1)
      BY <3>1
    <3> QED BY <2>1, <3>2, <3>3, <3>4
  <2>3. BytesOf(n, a) \subseteq (1..n) \X (1..4) /\ BytesOf(n, b) \cup {new} \subseteq (1..n) \X (1..4)
    BY <1>1 DEF BytesOf
  <2> HIDE DEF a, new
  <2> QED BY <2>2, <2>3
<1>4. IsFiniteSet(BytesOf(n, b))
  <2>1. IsFiniteSet(1..n) /\ IsFiniteSet(1..4)
    BY FS_Interval, FourIndices
  <2>2. IsFiniteSet((1..n) \X (1..4))
    BY <2>1, FS_Product
  <2>3. BytesOf(n, b) \in SUBSET ((1..n) \X (1..4))
    BY DEF BytesOf
  <2> QED BY <2>2, <2>3, FS_Subset
<1> HIDE DEF a, new
<1>5. Cardinality(BytesOf(n, a)) = Cardinality(BytesOf(n, b)) + 1
  BY <1>2, <1>3, <1>4, FS_AddElement
<1> QED BY <1>5 DEF a

\* No character may have one more.
AreMost(n, G, cap, b) == \A i \in 1..n : b[i] >= (IF i \in G THEN cap ELSE 4)

\* One byte each is the least, and when nobody may have more it is the most.
LEMMA LeastAndMostBytes ==
    ASSUME NEW n \in Nat, NEW G \in SUBSET (1..n), NEW cap \in {1, 3}
    PROVE  /\ Cardinality(BytesOf(n, [i \in 1..n |-> 1])) = n
           /\ Cardinality(G) \in Nat /\ (4 - cap) * Cardinality(G) \in Nat
           /\ \A b \in ByteNumbers(n, G, cap) :
                  AreMost(n, G, cap, b) => Cardinality(BytesOf(n, b)) = 4 * n - (4 - cap) * Cardinality(G)
<1>1. /\ IsFiniteSet(1..n) /\ Cardinality(1..n) = n
      /\ IsFiniteSet(1..4) /\ Cardinality(1..4) = 4
  BY FS_Interval, FourIndices
<1>2. IsFiniteSet((1..n) \X (1..4)) /\ Cardinality((1..n) \X (1..4)) = n * 4
  <2>1. /\ IsFiniteSet((1..n) \X (1..4))
        /\ Cardinality((1..n) \X (1..4)) = Cardinality(1..n) * Cardinality(1..4)
    BY <1>1, FS_Product, Zenon
  <2> QED BY <1>1, <2>1, Zenon
<1>3. IsFiniteSet(G) /\ Cardinality(G) \in Nat
  BY <1>1, FS_Subset, FS_CardinalityType
<1>4. Cardinality(BytesOf(n, [i \in 1..n |-> 1])) = n
  <2>1. IsFiniteSet({1}) /\ Cardinality({1}) = 1
    BY FS_Singleton
  <2>2. Cardinality((1..n) \X {1}) = n
    <3>1. Cardinality((1..n) \X {1}) = Cardinality(1..n) * Cardinality({1})
      BY <1>1, <2>1, FS_Product, Zenon
    <3>2. Cardinality((1..n) \X {1}) = n * 1
      BY <1>1, <2>1, <3>1, Zenon
    <3> QED BY <3>2
  <2>3. BytesOf(n, [i \in 1..n |-> 1]) = (1..n) \X {1}
    <3>1. ASSUME NEW byte \in BytesOf(n, [i \in 1..n |-> 1]) PROVE byte \in (1..n) \X {1}
      <4>1. PICK j \in 1..n, k \in 1..4 : byte = <<j, k>>
        BY DEF BytesOf
      <4>2. k <= 1
        BY <4>1 DEF BytesOf
      <4>3. k = 1
        BY <4>2
      <4> QED BY <4>1, <4>3
    <3>2. \A i \in 1..n : <<i, 1>> \in BytesOf(n, [j \in 1..n |-> 1])
      BY DEF BytesOf
    <3>3. (1..n) \X {1} \subseteq BytesOf(n, [j \in 1..n |-> 1])
      BY <3>2, SomeIndices
    <3> QED BY <3>1, <3>3
  <2> QED BY <2>2, <2>3, Zenon
<1>5. (4 - cap) * Cardinality(G) \in Nat
  <2>1. CASE cap = 1
    BY <1>3, <2>1
  <2>2. CASE cap = 3
    BY <1>3, <2>2
  <2> QED BY <2>1, <2>2
<1>6. ASSUME NEW b \in ByteNumbers(n, G, cap), AreMost(n, G, cap, b)
      PROVE  Cardinality(BytesOf(n, b)) = 4 * n - (4 - cap) * Cardinality(G)
  <2> DEFINE all == (1..n) \X (1..4)
             high == G \X ((cap + 1)..4)
  <2>1. \A i \in 1..n : b[i] = (IF i \in G THEN cap ELSE 4)
    BY <1>6 DEF ByteNumbers, AreMost
  <2>2. high \subseteq all
    <3>1. \A i \in G : \A k \in (cap + 1)..4 : <<i, k>> \in all
      OBVIOUS
    <3> QED BY <3>1, SomeIndices
  <2>3. BytesOf(n, b) = all \ high
    <3>1. ASSUME NEW byte \in all PROVE byte \in BytesOf(n, b) <=> byte \notin high
      <4>1. PICK j \in 1..n, k \in 1..4 : byte = <<j, k>>
        OBVIOUS
      <4>2. byte \in BytesOf(n, b) <=> k <= b[j]
        BY <4>1 DEF BytesOf
      <4>3. byte \in high <=> (j \in G /\ k \in (cap + 1)..4)
        BY <4>1
      <4>4. k <= b[j] <=> ~(j \in G /\ k \in (cap + 1)..4)
        BY <2>1
      <4> QED BY <4>2, <4>3, <4>4
    <3>2. BytesOf(n, b) \subseteq all
      BY DEF BytesOf
    <3> HIDE DEF all, high
    <3> QED BY <3>1, <3>2
  <2>4. Cardinality(high) = Cardinality(G) * (4 - cap)
    <3>1. IsFiniteSet((cap + 1)..4) /\ Cardinality((cap + 1)..4) = 4 - cap
      BY HigherIndices
    <3>2. Cardinality(high) = Cardinality(G) * Cardinality((cap + 1)..4)
      BY <1>3, <3>1, FS_Product, Zenon
    <3> QED BY <3>1, <3>2, Zenon
  <2>5. IsFiniteSet(all) /\ Cardinality(all) = n * 4
    BY <1>2
  <2> HIDE DEF all, high
  <2>6. Cardinality(all \ high) = Cardinality(all) - Cardinality(high)
    BY <2>2, <2>5, Remaining
  <2>7. CASE cap = 1
    BY <1>3, <2>3, <2>4, <2>5, <2>6, <2>7
  <2>8. CASE cap = 3
    BY <1>3, <2>3, <2>4, <2>5, <2>6, <2>8
  <2> QED BY <2>7, <2>8
<1> QED BY <1>3, <1>4, <1>5, <1>6

\* The most, for numbers at hand.
LEMMA MostBytes ==
    ASSUME NEW n \in Nat, NEW G \in SUBSET (1..n), NEW cap \in {1, 3},
           NEW b \in ByteNumbers(n, G, cap), AreMost(n, G, cap, b)
    PROVE  Cardinality(BytesOf(n, b)) = 4 * n - (4 - cap) * Cardinality(G)
BY LeastAndMostBytes, Zenon

\* Every number of bytes between the least and the most can be had.
LEMMA BytesCanBeHad ==
    ASSUME NEW n \in Nat, NEW G \in SUBSET (1..n), NEW cap \in {1, 3},
           NEW total \in n..(4 * n - (4 - cap) * Cardinality(G))
    PROVE  \E b \in ByteNumbers(n, G, cap) : Cardinality(BytesOf(n, b)) = total
<1> DEFINE Had(m) == \E b \in ByteNumbers(n, G, cap) : Cardinality(BytesOf(n, b)) = m
           most == 4 * n - (4 - cap) * Cardinality(G)
           missing == {m \in n..most : ~Had(m)}
<1>1. most \in Int
  <2>1. (4 - cap) * Cardinality(G) \in Nat
    BY LeastAndMostBytes, Zenon
  <2> QED BY <2>1
<1> SUFFICES ASSUME missing # {} PROVE FALSE
  OBVIOUS
<1>2. missing \in SUBSET Nat
  <2>1. \A m \in missing : m \in Nat
    BY <1>1
  <2> QED BY <2>1
<1>3. PICK least \in missing : \A m \in missing : least <= m
  <2> HIDE DEF missing
  <2> QED BY <1>2, LeastExists
<1>4. least \in n..most /\ ~Had(least)
  OBVIOUS
<1>5. Had(n)
  <2>1. [i \in 1..n |-> 1] \in ByteNumbers(n, G, cap)
    BY DEF ByteNumbers
  <2> QED BY <2>1, LeastAndMostBytes
<1>6. least - 1 \in n..most /\ Had(least - 1)
  <2>1. least # n
    BY <1>4, <1>5
  <2>2. least - 1 \in n..most /\ ~(least <= least - 1)
    BY <1>1, <1>4, <2>1
  <2>3. least - 1 \notin missing
    BY <1>3, <2>2
  <2> QED BY <2>2, <2>3
<1>7. PICK b \in ByteNumbers(n, G, cap) : Cardinality(BytesOf(n, b)) = least - 1
  BY <1>6
<1>8. b \in [1..n -> 1..4] /\ \A i \in G : b[i] <= cap
  BY DEF ByteNumbers
<1>9. PICK i \in 1..n : b[i] < (IF i \in G THEN cap ELSE 4)
  <2> SUFFICES ASSUME \A i \in 1..n : ~(b[i] < (IF i \in G THEN cap ELSE 4)) PROVE FALSE
    OBVIOUS
  <2>1. AreMost(n, G, cap, b)
    BY <1>8 DEF AreMost
  <2>2. Cardinality(BytesOf(n, b)) = most
    <3> HIDE DEF Had, most, missing
    <3>1. Cardinality(BytesOf(n, b)) = 4 * n - (4 - cap) * Cardinality(G)
      BY <2>1, MostBytes
    <3> QED BY <3>1 DEF most
  <2> QED BY <1>1, <1>4, <1>7, <2>2
<1> DEFINE more == [b EXCEPT ![i] = @ + 1]
<1>10. more \in ByteNumbers(n, G, cap)
  <2>1. \A j \in 1..n : more[j] = (IF j = i THEN b[i] + 1 ELSE b[j]) /\ b[j] \in 1..4
    BY <1>8
  <2>2. b[i] + 1 \in 1..4 /\ (i \in G => b[i] + 1 <= cap)
    BY <1>8, <1>9
  <2>3. more \in [1..n -> 1..4]
    BY <1>8, <2>2
  <2>4. \A j \in G : more[j] <= cap
    BY <1>8, <2>1, <2>2
  <2> QED BY <2>3, <2>4 DEF ByteNumbers
<1>11. Cardinality(BytesOf(n, more)) = least - 1 + 1
  <2>1. b[i] < 4
    BY <1>8, <1>9
  <2> QED BY <1>7, <1>8, <2>1, OneMoreByte
<1>12. Had(least)
  <2>1. least - 1 + 1 = least
    BY <1>1, <1>4
  <2> HIDE DEF more
  <2> QED BY <1>10, <1>11, <2>1
<1> QED BY <1>4, <1>12

\* Characters with these bytes, white space at G and breaks at B.
Built(G, B, b) ==
    [i \in DOMAIN b |-> [space |-> i \in G, bytes |-> b[i], break |-> i \in B]]

\* What can be said of such a text.
BuiltAs(text, n, G, B, b, cap) ==
    /\ text \in [1..n -> Characters] /\ text \in Texts
    /\ DOMAIN text = 1..n /\ Cardinality(1..n) = n
    /\ \A i \in 1..n : /\ text[i].space <=> i \in G
                       /\ text[i].bytes = b[i]
                       /\ text[i].break <=> i \in B
    /\ ContentAt(text) = (1..n) \ G
    /\ BreaksAt(text) = B
    /\ Bytes(text, 1..n) = BytesOf(n, b)
    /\ cap = 1 /\ B = {} => \A i \in 1..n : Printable(text[i])

\* They are a text with its content and breaks where it was built to have them;
\* it is printable when its white space is single bytes without a break.
LEMMA BuiltText ==
    ASSUME NEW n \in 0..MaxChars, NEW G \in SUBSET (1..n), NEW B \in SUBSET G,
           NEW cap \in {1, 3}, NEW b \in ByteNumbers(n, G, cap),
           NEW text, text = Built(G, B, b)
    PROVE  BuiltAs(text, n, G, B, b, cap)
<1>1. b \in [1..n -> 1..4] /\ \A i \in G : b[i] <= cap
  BY DEF ByteNumbers
<1>2. DOMAIN text = 1..n /\ text = [i \in 1..n |-> text[i]]
  BY <1>1 DEF Built
<1>3. \A i \in 1..n : text[i] = [space |-> i \in G, bytes |-> b[i], break |-> i \in B]
  BY <1>1 DEF Built
<1>4. \A i \in 1..n : /\ text[i].space <=> i \in G
                      /\ text[i].bytes = b[i]
                      /\ text[i].break <=> i \in B
  <2> SUFFICES ASSUME NEW i \in 1..n
               PROVE  /\ text[i].space <=> i \in G
                      /\ text[i].bytes = b[i]
                      /\ text[i].break <=> i \in B
    OBVIOUS
  <2>1. PICK x, y : x = (i \in G) /\ y = (i \in B)
    OBVIOUS
  <2>2. text[i] = [space |-> x, bytes |-> b[i], break |-> y]
    BY <1>3, <2>1, Zenon
  <2>3. text[i].space = x /\ text[i].bytes = b[i] /\ text[i].break = y
    BY <2>2
  <2> QED BY <2>1, <2>3, Zenon
<1>5. ASSUME NEW i \in 1..n
      PROVE  text[i] \in Characters /\ (i \notin G => text[i] \in Content)
  <2>1. CASE i \in G
    <3>1. b[i] \in 1..3
      BY <1>1, <2>1
    <3>2. (i \in G) = TRUE /\ (i \in B) \in BOOLEAN
      BY <2>1
    <3>3. PICK x \in BOOLEAN : x = (i \in B)
      BY <3>2
    <3>4. text[i] = [space |-> TRUE, bytes |-> b[i], break |-> x]
      BY <1>3, <3>2, <3>3, Zenon
    <3>5. text[i] \in Space
      BY <3>1, <3>4 DEF Space
    <3> QED BY <2>1, <3>5 DEF Characters
  <2>2. CASE i \notin G
    <3>1. (i \in G) = FALSE /\ (i \in B) = FALSE
      BY <2>2
    <3>2. text[i] = [space |-> FALSE, bytes |-> b[i], break |-> FALSE]
      BY <1>3, <3>1
    <3>3. text[i] \in Content
      BY <1>1, <3>2 DEF Content
    <3> QED BY <3>3 DEF Characters
  <2> QED BY <2>1, <2>2
<1>6. text \in [1..n -> Characters] /\ text \in Texts
  <2>1. text \in [1..n -> Characters]
    BY <1>2, <1>5
  <2> QED BY <2>1 DEF Texts
<1>7. ContentAt(text) = (1..n) \ G /\ BreaksAt(text) = B
  BY <1>2, <1>4 DEF ContentAt, BreaksAt
<1>8. Bytes(text, 1..n) = BytesOf(n, b)
  <2>1. ASSUME NEW byte \in (1..n) \X (1..4) PROVE text[byte[1]].bytes = b[byte[1]]
    BY <1>4
  <2> QED BY <2>1 DEF Bytes, BytesOf
<1>9. ASSUME cap = 1, B = {}, NEW i \in 1..n PROVE Printable(text[i])
  <2>1. CASE i \notin G
    BY <1>5, <2>1 DEF Printable
  <2>2. CASE i \in G
    <3>1. text[i].bytes = 1 /\ ~text[i].break
      BY <1>1, <1>4, <1>9, <2>2
    <3> QED BY <3>1 DEF Printable
  <2> QED BY <2>1, <2>2
<1>10. Cardinality(1..n) = n
  BY FS_Interval, LimitsAssumption
<1> QED BY <1>2, <1>4, <1>6, <1>7, <1>8, <1>9, <1>10 DEF BuiltAs

\* The stripped form of a text whose content ends with its last character.
LEMMA StrippedAhead ==
    ASSUME NEW n \in Nat \ {0}, NEW G \in SUBSET (1..(n - 1)), NEW text,
           ContentAt(text) = (1..n) \ G, NEW first \in (1..n) \ G,
           1..(first - 1) \subseteq G
    PROVE  Stripped(text) = first..n
<1>1. (1..n) \ G \in SUBSET (1..n) /\ (1..n) \ G # {} /\ n \in (1..n) \ G
  OBVIOUS
<1>2. /\ Min((1..n) \ G) \in (1..n) \ G /\ Max((1..n) \ G) \in 1..n
      /\ Min((1..n) \ G) <= first /\ n <= Max((1..n) \ G)
  BY <1>1, FirstAndLast
<1>3. Min((1..n) \ G) = first
  <2>1. Min((1..n) \ G) \notin 1..(first - 1) /\ Min((1..n) \ G) \in 1..n
    BY <1>2
  <2> QED BY <1>2, <2>1
<1>4. Max((1..n) \ G) = n
  BY <1>2
<1> QED BY <1>1, <1>3, <1>4 DEF Stripped

\* Their lines, when the last character is content.
LEMMA LinesAhead ==
    ASSUME NEW n \in Nat \ {0}, NEW text, DOMAIN text = 1..n, ~text[n].break
    PROVE  LineCount(text) = Cardinality(BreaksAt(text)) + 1
<1>1. Max(1..n) = n
  <2>1. 1..n \in SUBSET (1..n) /\ 1..n # {} /\ n \in 1..n
    OBVIOUS
  <2>2. Max(1..n) \in 1..n /\ n <= Max(1..n)
    BY <2>1, FirstAndLast
  <2> QED BY <2>2
<1>2. DOMAIN text # {}
  OBVIOUS
<1> QED BY <1>1, <1>2 DEF LineCount

\* What a transcript measures.
MeasuredAs(t, chars, strippedChars, bytes, strippedBytes, words, lines) ==
    /\ t.chars = chars /\ t.strippedChars = strippedChars
    /\ t.bytes = bytes /\ t.strippedBytes = strippedBytes
    /\ t.words = words /\ t.lines = lines

\* Some text is n characters long, has this number of bytes, w words and l
\* lines, and begins and ends with content.
LEMMA TextWithGaps ==
    ASSUME NEW n \in 0..MaxChars, NEW w \in Nat \ {0}, NEW l \in Nat \ {0},
           NEW seps \in Nat, seps >= w - 1, seps >= l - 1, w = 1 => seps = 0,
           w + seps <= n, NEW cap \in {1, 3},
           NEW total \in n..(4 * n - (4 - cap) * seps)
    PROVE  \E t \in Transcripts :
               /\ MeasuredAs(t, n, n, total, total, w, l)
               /\ cap = 1 /\ l = 1 => t.printable
<1> DEFINE G == GapPlaces(w, seps)
           B == GapPlaces(w, l - 1)
<1>1. n \in Nat \ {0} /\ l - 1 \in 0..seps /\ seps \in 0..seps
  BY LimitsAssumption
<1>2. G \subseteq 2..(w + seps - 1) /\ Cardinality(G) = seps
  BY <1>1, GapsHavePlaces
<1>3. Cardinality(B) = l - 1 /\ (l = 1 => B = {})
  <2>1. Cardinality(B) = l - 1
    BY <1>1, GapsHavePlaces
  <2>2. l = 1 => B = {}
    BY DEF GapPlaces
  <2> QED BY <2>1, <2>2
<1>4. B \in SUBSET G
  BY <1>1 DEF GapPlaces
<1> HIDE DEF G, B
<1>5. G \in SUBSET (1..n) /\ G \in SUBSET (1..(n - 1)) /\ 1 \in (1..n) \ G
  BY <1>1, <1>2
<1>6. PICK b \in ByteNumbers(n, G, cap) : Cardinality(BytesOf(n, b)) = total
  BY <1>1, <1>2, <1>5, BytesCanBeHad
<1> DEFINE text == Built(G, B, b)
<1>7. /\ text \in Texts /\ DOMAIN text = 1..n /\ Cardinality(1..n) = n
      /\ \A i \in 1..n : (text[i].space <=> i \in G) /\ (text[i].break <=> i \in B)
      /\ ContentAt(text) = (1..n) \ G /\ BreaksAt(text) = B
      /\ Bytes(text, 1..n) = BytesOf(n, b)
      /\ cap = 1 /\ B = {} => \A i \in 1..n : Printable(text[i])
  <2> HIDE DEF text
  <2>1. text = Built(G, B, b)
    BY DEF text
  <2>2. BuiltAs(text, n, G, B, b, cap)
    BY <1>4, <1>5, <2>1, BuiltText
  <2> QED BY <2>2 DEF BuiltAs
<1> HIDE DEF text
<1>8. Stripped(text) = 1..n
  <2>1. 1..(1 - 1) \subseteq G
    OBVIOUS
  <2> QED BY <1>1, <1>5, <1>7, <2>1, StrippedAhead
<1>9. Cardinality(WordStarts(text)) = w
  <2> DEFINE U == {i \in (1..n) \ G : i = 1 \/ i - 1 \in G}
  <2>1. WordStarts(text) = U
    <3>1. ASSUME NEW i \in (1..n) \ G
          PROVE  (i = 1 \/ text[i - 1].space) <=> (i = 1 \/ i - 1 \in G)
      <4>1. CASE i = 1
        BY <4>1
      <4>2. CASE i # 1
        <5>1. i - 1 \in 1..n
          BY <4>2
        <5> QED BY <4>2, <5>1, <1>7
      <4> QED BY <4>1, <4>2
    <3> QED BY <1>7, <3>1 DEF WordStarts
  <2>2. Cardinality(U) = w
    BY <1>1, WordsHavePlaces DEF G
  <2> QED BY <2>1, <2>2
<1>10. LineCount(text) = l
  <2>1. n \in 1..n /\ n \notin B
    BY <1>1, <1>4, <1>5
  <2>2. ~text[n].break
    BY <1>7, <2>1
  <2>3. LineCount(text) = l - 1 + 1
    BY <1>1, <1>3, <1>7, <2>2, LinesAhead
  <2> QED BY <2>3
<1> DEFINE t == Measure(text)
<1>11. t \in Transcripts
  BY <1>7 DEF Transcripts
<1>12. /\ t.chars = n /\ t.strippedChars = n
       /\ t.bytes = total /\ t.strippedBytes = total
       /\ t.words = w /\ t.lines = l
       /\ t.printable = \A i \in 1..n : Printable(text[i])
  BY <1>6, <1>7, <1>8, <1>9, <1>10 DEF Measure
<1>13. cap = 1 /\ l = 1 => t.printable
  BY <1>3, <1>7, <1>12
<1> HIDE DEF t
<1>14. MeasuredAs(t, n, n, total, total, w, l)
  BY <1>12 DEF MeasuredAs
<1> QED BY <1>11, <1>13, <1>14

\* Some text is one word of m characters and of this number of bytes after
\* l - 1 breaks.
LEMMA TextAfterBreaks ==
    ASSUME NEW l \in Nat \ {0}, NEW m \in Nat \ {0}, l - 1 + m <= MaxChars,
           NEW total \in m..(4 * m)
    PROVE  \E t \in Transcripts : MeasuredAs(t, l - 1 + m, m, l - 1 + total, total, 1, l)
<1> DEFINE n == l - 1 + m
           G == 1..(l - 1)
<1>1. /\ n \in Nat \ {0} /\ n \in 0..MaxChars
      /\ G \in SUBSET (1..n) /\ G \in SUBSET (1..(n - 1)) /\ l \in (1..n) \ G
      /\ 1 \in {1, 3}
  BY LimitsAssumption
<1>2. IsFiniteSet(G) /\ Cardinality(G) = l - 1
  <2>1. 1 \in Int /\ l - 1 \in Int
    OBVIOUS
  <2>2. IsFiniteSet(G) /\ Cardinality(G) = IF 1 > l - 1 THEN 0 ELSE l - 1 - 1 + 1
    BY <2>1, FS_Interval, Zenon
  <2> QED BY <2>2
<1>3. PICK b \in ByteNumbers(n, G, 1) : Cardinality(BytesOf(n, b)) = l - 1 + total
  <2>1. l - 1 + total \in n..(4 * n - (4 - 1) * Cardinality(G))
    BY <1>2
  <2> HIDE DEF n, G
  <2> QED BY <1>1, <2>1, BytesCanBeHad
<1> DEFINE text == Built(G, G, b)
<1>4. /\ text \in [1..n -> Characters] /\ text \in Texts
      /\ DOMAIN text = 1..n /\ Cardinality(1..n) = n
      /\ \A i \in 1..n : /\ text[i].space <=> i \in G
                         /\ text[i].bytes = b[i]
                         /\ text[i].break <=> i \in G
      /\ ContentAt(text) = (1..n) \ G /\ BreaksAt(text) = G
      /\ Bytes(text, 1..n) = BytesOf(n, b)
  <2> HIDE DEF text, n, G
  <2>1. text = Built(G, G, b) /\ G \in SUBSET G
    BY DEF text
  <2>2. BuiltAs(text, n, G, G, b, 1)
    BY <1>1, <2>1, BuiltText
  <2> QED BY <2>2 DEF BuiltAs
<1> HIDE DEF text
<1>5. Stripped(text) = l..n
  <2>1. 1..(l - 1) \subseteq G
    OBVIOUS
  <2> HIDE DEF n, G
  <2> QED BY <1>1, <1>4, <2>1, StrippedAhead
<1>6. Cardinality(l..n) = m
  <2>1. l \in Int /\ n \in Int
    OBVIOUS
  <2>2. Cardinality(l..n) = IF l > n THEN 0 ELSE n - l + 1
    BY <2>1, FS_Interval, Zenon
  <2> QED BY <2>2
<1>7. Cardinality(WordStarts(text)) = 1
  <2>1. l \in WordStarts(text)
    <3>1. l = 1 \/ l - 1 \in G
      OBVIOUS
    <3>2. l = 1 \/ text[l - 1].space
      BY <1>1, <1>4, <3>1
    <3> QED BY <1>1, <1>4, <3>2 DEF WordStarts
  <2>2. ASSUME NEW i \in WordStarts(text) PROVE i = l
    <3>1. i \in (1..n) \ G /\ (i = 1 \/ text[i - 1].space)
      BY <1>4 DEF WordStarts
    <3>2. i # 1 => i - 1 \in 1..n /\ i - 1 \in G
      BY <1>4, <3>1
    <3> QED BY <3>1, <3>2
  <2>3. WordStarts(text) = {l}
    BY <2>1, <2>2
  <2> QED BY <2>3, FS_Singleton
<1>8. LineCount(text) = l
  <2>1. n \in 1..n /\ n \notin G
    OBVIOUS
  <2>2. ~text[n].break
    BY <1>4, <2>1
  <2>3. LineCount(text) = l - 1 + 1
    <3> HIDE DEF n, G
    <3> QED BY <1>1, <1>2, <1>4, <2>2, LinesAhead
  <2> QED BY <2>3
<1>9. Cardinality(Bytes(text, l..n)) = total
  <2> DEFINE first == G \X {1}
  <2>1. /\ Bytes(text, l..n) \in SUBSET Bytes(text, 1..n)
        /\ Bytes(text, 1..n) \ Bytes(text, l..n) = first
    <3>1. Bytes(text, l..n) \subseteq Bytes(text, 1..n)
      BY DEF Bytes
    <3>2. ASSUME NEW byte \in first PROVE byte \in Bytes(text, 1..n) \ Bytes(text, l..n)
      <4>1. PICK i \in G, k \in {1} : byte = <<i, k>>
        OBVIOUS
      <4>2. i \in 1..n /\ i \notin l..n /\ k = 1
        OBVIOUS
      <4>3. text[i].bytes \in 1..4
        BY <1>4, <4>2, CharacterFields
      <4> QED BY <4>1, <4>2, <4>3 DEF Bytes
    <3>3. ASSUME NEW byte \in Bytes(text, 1..n) \ Bytes(text, l..n) PROVE byte \in first
      <4>1. PICK i \in 1..n, k \in 1..4 : byte = <<i, k>>
        BY DEF Bytes
      <4>2. k <= text[i].bytes
        BY <4>1 DEF Bytes
      <4>3. i \notin l..n
        BY <4>1, <4>2 DEF Bytes
      <4>4. i \in G
        BY <4>3
      <4>5. text[i].bytes <= 1
        BY <1>4, <4>4 DEF ByteNumbers
      <4>6. k = 1
        BY <1>4, <4>2, <4>5, CharacterFields
      <4> QED BY <4>1, <4>4, <4>6
    <3> QED BY <3>1, <3>2, <3>3
  <2>2. Cardinality(first) = l - 1
    <3>1. IsFiniteSet({1}) /\ Cardinality({1}) = 1
      BY FS_Singleton
    <3>2. Cardinality(first) = Cardinality(G) * Cardinality({1})
      BY <1>2, <3>1, FS_Product, Zenon
    <3>3. Cardinality(first) = (l - 1) * 1
      BY <1>2, <3>1, <3>2, Zenon
    <3> QED BY <3>3
  <2>3. IsFiniteSet(Bytes(text, 1..n))
    <3>1. IsFiniteSet(1..n) /\ IsFiniteSet(1..4)
      BY FourIndices, FS_Interval
    <3>2. IsFiniteSet((1..n) \X (1..4))
      BY <3>1, FS_Product
    <3>3. Bytes(text, 1..n) \in SUBSET ((1..n) \X (1..4))
      BY DEF Bytes
    <3> QED BY <3>2, <3>3, FS_Subset
  <2> HIDE DEF first, n
  <2>4. Cardinality(first) = Cardinality(Bytes(text, 1..n)) - Cardinality(Bytes(text, l..n))
    BY <2>1, <2>3, Remaining
  <2>5. Cardinality(Bytes(text, l..n)) \in Nat
    BY <2>1, <2>3, FS_Subset, FS_CardinalityType
  <2>6. Cardinality(Bytes(text, 1..n)) = l - 1 + total
    BY <1>3, <1>4
  <2> QED BY <2>2, <2>4, <2>5, <2>6
<1> DEFINE t == Measure(text)
<1>10. t \in Transcripts
  BY <1>4 DEF Transcripts
<1>11. /\ t.chars = n /\ t.strippedChars = m
       /\ t.bytes = l - 1 + total /\ t.strippedBytes = total
       /\ t.words = 1 /\ t.lines = l
  <2> HIDE DEF n
  <2> QED BY <1>3, <1>4, <1>5, <1>6, <1>7, <1>8, <1>9 DEF Measure
<1> HIDE DEF t
<1>12. MeasuredAs(t, l - 1 + m, m, l - 1 + total, total, 1, l)
  BY <1>11 DEF MeasuredAs
<1> QED BY <1>10, <1>12

\* The length of the text that is built: as long as both maximums allow.
LongestText(p) == IF p.maxChars <= p.maxBytes THEN p.maxChars ELSE p.maxBytes

\* A policy understands a text with its separators inside, if one has room and
\* its bytes can be had.
LEMMA UsableByGaps ==
    ASSUME NEW p \in TranscriptPolicies, Ordered(p),
           NEW w \in Nat \ {0}, p.minWords <= w, w <= p.maxWords,
           NEW seps \in Nat, seps >= w - 1, seps >= p.minLines - 1, w = 1 => seps = 0,
           WithinBoth(p, p.minChars), WithinBoth(p, w + seps),
           NEW cap \in {1, 3}, p.printable => cap = 1 /\ p.minLines = 1,
           p.minBytes <= 4 * p.maxChars - (4 - cap) * seps
    PROVE  Usable(p)
<1> DEFINE n == LongestText(p)
           total == IF n >= p.minBytes THEN n ELSE p.minBytes
<1>1. /\ p.minChars \in Nat \ {0} /\ p.maxChars \in Nat \ {0}
      /\ p.minBytes \in Nat \ {0} /\ p.maxBytes \in Nat \ {0}
      /\ p.minWords \in Nat \ {0} /\ p.maxWords \in Nat \ {0}
      /\ p.minLines \in Nat \ {0} /\ p.maxLines \in Nat \ {0}
      /\ p.maxChars <= MaxChars
  BY LimitsAreNumbers
<1>2. /\ n \in 0..MaxChars /\ n \in Nat /\ n <= p.maxChars /\ n <= p.maxBytes
      /\ p.minChars <= n /\ w + seps <= n
      /\ n = p.maxChars \/ n = p.maxBytes
  BY <1>1, LimitsAssumption DEF WithinBoth, LongestText
<1> HIDE DEF n
<1>3. n <= 4 * n - (4 - cap) * seps
  <2>1. seps <= n
    BY <1>2
  <2>2. CASE cap = 1
    BY <1>2, <2>1, <2>2
  <2>3. CASE cap = 3
    BY <1>2, <2>1, <2>3
  <2> QED BY <2>2, <2>3
<1>4. p.minBytes <= 4 * n - (4 - cap) * seps /\ 4 * n - (4 - cap) * seps \in Int
  <2>1. (4 - cap) * seps \in Int
    OBVIOUS
  <2>2. CASE n = p.maxChars
    BY <1>1, <2>1, <2>2
  <2>3. CASE n = p.maxBytes
    BY <1>1, <1>2, <1>3, <2>1, <2>3 DEF Ordered
  <2> QED BY <1>2, <2>2, <2>3
<1>5. /\ total \in n..(4 * n - (4 - cap) * seps)
      /\ total >= p.minBytes /\ total <= p.maxBytes
  BY <1>1, <1>2, <1>3, <1>4 DEF Ordered
<1> HIDE DEF total
<1>6. PICK t \in Transcripts :
           /\ MeasuredAs(t, n, n, total, total, w, p.minLines)
           /\ cap = 1 /\ p.minLines = 1 => t.printable
  <2> DEFINE l == p.minLines
  <2>1. l \in Nat \ {0} /\ seps >= l - 1
    BY <1>1
  <2> HIDE DEF l
  <2>2. \E t \in Transcripts :
           /\ MeasuredAs(t, n, n, total, total, w, l)
           /\ cap = 1 /\ l = 1 => t.printable
    BY <1>2, <1>5, <2>1, TextWithGaps
  <2> QED BY <2>2 DEF l
<1>7. Understands(p, t)
  <2>1. p.printable => t.printable
    BY <1>6
  <2> QED BY <1>1, <1>2, <1>5, <1>6, <2>1 DEF Understands, Ordered, MeasuredAs
<1> QED BY <1>6, <1>7 DEF Usable

\* A policy that passes the checks, and is not one of those they do not see,
\* understands some transcript.
LEMMA AcceptedUnderstands ==
    ASSUME NEW p \in TranscriptPolicies, Accepts(p), ~Overlooked(p)
    PROVE  Usable(p)
<1> DEFINE w == p.minWords
           l == p.minLines
           seps == MinSeparators(p)
<1>1. /\ p.minChars \in Nat \ {0} /\ p.maxChars \in Nat \ {0}
      /\ p.minBytes \in Nat \ {0} /\ p.maxBytes \in Nat \ {0}
      /\ w \in Nat \ {0} /\ p.maxWords \in Nat \ {0}
      /\ l \in Nat \ {0} /\ p.maxLines \in Nat \ {0}
      /\ p.maxChars <= MaxChars /\ p.printable \in BOOLEAN
  BY LimitsAreNumbers
<1>2. /\ Ordered(p) /\ WithinBoth(p, MinCharacters(p)) /\ p.minBytes <= MaxContentBytes(p)
      /\ p.printable => l = 1
      /\ WithinBoth(p, p.minChars)
  BY <1>1 DEF Accepts, Ordered, WithinBoth
<1>3. /\ seps \in Nat /\ seps >= w - 1 /\ seps >= l - 1
      /\ seps = w - 1 \/ seps = l - 1
      /\ l = 1 => seps = w - 1
      /\ w = 1 => seps = l - 1
  <2>1. seps = IF w - 1 >= l - 1 THEN w - 1 ELSE l - 1
    BY <1>1, OfTwo DEF MinSeparators
  <2> QED BY <1>1, <2>1
<1>4. CASE ~(w = 1 /\ l > 1)
  <2>1. WithinBoth(p, w + seps)
    <3>1. MinCharacters(p) = Max({p.minChars, w + seps})
      BY <1>4 DEF MinCharacters
    <3>2. p.minChars \in Int /\ w + seps \in Int
      BY <1>1, <1>3
    <3> HIDE DEF seps, w
    <3>3. MinCharacters(p) = IF p.minChars >= w + seps THEN p.minChars ELSE w + seps
      BY <3>1, <3>2, OfTwo
    <3> QED BY <1>1, <1>2, <3>2, <3>3 DEF WithinBoth
  <2>2. w <= p.maxWords /\ (w = 1 => seps = 0)
    BY <1>1, <1>2, <1>3, <1>4 DEF Ordered
  <2>3. p.minBytes <= p.maxChars * 4 - seps
    <3>1. ~(p.maxWords = 1 /\ l > 1)
      BY <1>1, <1>2, <1>4 DEF Ordered
    <3> QED BY <1>2, <3>1 DEF MaxContentBytes
  <2>4. CASE p.printable
    <3>1. seps = w - 1 /\ p.minBytes <= p.maxChars * 4 - (w - 1) * 3
      BY <1>1, <1>2, <1>3, <2>4 DEF Overlooked
    <3>2. p.minBytes <= 4 * p.maxChars - (4 - 1) * seps /\ 1 \in {1, 3}
      BY <1>1, <1>3, <3>1
    <3> HIDE DEF seps
    <3> QED BY <1>1, <1>2, <1>3, <2>1, <2>2, <3>2, UsableByGaps
  <2>5. CASE ~p.printable
    <3>1. p.minBytes <= 4 * p.maxChars - (4 - 3) * seps /\ 3 \in {1, 3}
      BY <1>1, <1>3, <2>3
    <3> HIDE DEF seps
    <3> QED BY <1>1, <1>2, <1>3, <2>1, <2>2, <2>5, <3>1, UsableByGaps
  <2> QED BY <2>4, <2>5
<1>5. CASE w = 1 /\ l > 1 /\ ~AroundOneWord(p)
  <2>1. p.maxWords >= 2 /\ WithinBoth(p, 2 + (l - 1)) /\ ~p.printable
    <3>1. p.maxWords >= 2 /\ WithinBoth(p, l + 1)
      BY <1>1, <1>5 DEF AroundOneWord
    <3>2. l + 1 = 2 + (l - 1)
      BY <1>1
    <3> QED BY <1>1, <1>2, <1>5, <3>1, <3>2
  <2>2. p.minBytes <= 4 * p.maxChars - (4 - 3) * (l - 1)
    <3>1. MaxContentBytes(p) = p.maxChars * 4 - seps
      BY <1>1, <2>1 DEF MaxContentBytes
    <3> HIDE DEF seps
    <3> QED BY <1>1, <1>2, <1>3, <1>5, <3>1
  <2>3. /\ 2 \in Nat \ {0} /\ 3 \in {1, 3} /\ l - 1 \in Nat /\ l - 1 >= 2 - 1
        /\ p.minWords <= 2 /\ 2 <= p.maxWords /\ l - 1 >= p.minLines - 1 /\ 2 # 1
    BY <1>1, <1>5, <2>1
  <2> DEFINE two == 2
             breaks == l - 1
  <2>4. /\ two \in Nat \ {0} /\ breaks \in Nat /\ breaks >= two - 1
        /\ p.minWords <= two /\ two <= p.maxWords /\ breaks >= p.minLines - 1 /\ two # 1
        /\ WithinBoth(p, two + breaks) /\ p.minBytes <= 4 * p.maxChars - (4 - 3) * breaks
    BY <2>1, <2>2, <2>3
  <2> HIDE DEF two, breaks
  <2> QED BY <1>2, <2>1, <2>3, <2>4, UsableByGaps
<1>6. CASE AroundOneWord(p)
  <2> DEFINE m == LongestText(p) - (l - 1)
             total == IF m >= p.minBytes THEN m ELSE p.minBytes
  <2>1. /\ w = 1 /\ l > 1 /\ ~p.printable
        /\ p.minBytes + (l - 1) <= p.maxBytes
        /\ p.minBytes <= (p.maxChars - (l - 1)) * 4
    BY <1>1, <1>2, <1>6 DEF AroundOneWord, Overlooked
  <2>2. WithinBoth(p, p.minChars + l - 1)
    <3> DEFINE leading == p.minChars + l - 1
               inside == Max({p.minChars, l + 1})
    <3>1. /\ leading \in Int /\ inside \in Int
          /\ inside = (IF p.minChars >= l + 1 THEN p.minChars ELSE l + 1)
      BY <1>1, OfTwo
    <3>2. MinCharacters(p) = (IF p.maxWords >= 2 THEN Min({leading, inside}) ELSE leading)
      BY <2>1 DEF MinCharacters
    <3> HIDE DEF inside
    <3>3. Min({leading, inside}) = IF leading >= inside THEN inside ELSE leading
      <4> HIDE DEF leading
      <4> QED BY <3>1, OfTwo, Zenon
    <3>4. ~WithinBoth(p, l + 1) => ~WithinBoth(p, inside)
      BY <1>1, <3>1 DEF WithinBoth
    <3>5. p.maxWords = 1 \/ ~WithinBoth(p, inside)
      BY <1>6, <3>4 DEF AroundOneWord
    <3>6. MinCharacters(p) = leading
      BY <1>1, <1>2, <3>1, <3>2, <3>3, <3>5
    <3> QED BY <1>2, <3>6
  <2>3. /\ m \in Nat \ {0} /\ p.minChars <= m
        /\ l - 1 + m <= MaxChars /\ l - 1 + m <= p.maxChars /\ l - 1 + m <= p.maxBytes
        /\ m = p.maxChars - (l - 1) \/ m = p.maxBytes - (l - 1)
    <3>1. LongestText(p) = p.maxChars \/ LongestText(p) = p.maxBytes
      BY DEF LongestText
    <3>2. LongestText(p) <= p.maxChars /\ LongestText(p) <= p.maxBytes
      BY <1>1 DEF LongestText
    <3>3. p.minChars + l - 1 <= LongestText(p)
      BY <2>2, <3>1 DEF WithinBoth
    <3>4. LongestText(p) \in Nat
      BY <1>1, <3>1
    <3>5. m \in Nat \ {0} /\ p.minChars <= m /\ l - 1 + m = LongestText(p)
      BY <1>1, <3>3, <3>4
    <3>6. l - 1 + m <= MaxChars /\ l - 1 + m <= p.maxChars /\ l - 1 + m <= p.maxBytes
      BY <1>1, <3>2, <3>4, <3>5, LimitsAssumption
    <3>7. m = p.maxChars - (l - 1) \/ m = p.maxBytes - (l - 1)
      BY <3>1
    <3> QED BY <3>5, <3>6, <3>7
  <2> HIDE DEF m
  <2>4. total \in m..(4 * m) /\ total >= p.minBytes /\ l - 1 + total <= p.maxBytes
    BY <1>1, <2>1, <2>3
  <2> HIDE DEF total
  <2>5. PICK t \in Transcripts : MeasuredAs(t, l - 1 + m, m, l - 1 + total, total, 1, l)
    <3>1. l \in Nat \ {0}
      BY <1>1
    <3> HIDE DEF l
    <3> QED BY <3>1, <2>3, <2>4, TextAfterBreaks
  <2>6. Understands(p, t)
    <3>1. p.printable => t.printable
      BY <2>1
    <3> QED BY <1>1, <1>2, <2>1, <2>3, <2>4, <2>5, <3>1 DEF Understands, Ordered, MeasuredAs
  <2> QED BY <2>5, <2>6 DEF Usable
<1> QED BY <1>4, <1>5, <1>6

\* Whatever the sizes: an accepted policy understands some transcript, unless
\* it is one of those the checks do not see.
THEOREM AcceptedPoliciesAreUsable == Configuration => []AcceptedIsUsable
<1>1. PhasesFollowChecks => AcceptedIsUsable
  BY UsableIsAccepted, AcceptedUnderstands DEF PhasesFollowChecks, AcceptedIsUsable
<1> QED BY <1>1, PhasesInvariant, PTL
=============================================================================
