------------------------- MODULE RequestBudgetProofs -------------------------
(***************************************************************************)
(* Proofs about the hooks of RequestBudget, for every policy, every length *)
(* of the steps and every set of clock errors.                             *)
(***************************************************************************)
EXTENDS RequestBudget, TLAPS

\* The parameters are natural numbers; what a request and an attempt need is not 0.
LEMMA Parameters ==
    /\ Required \in Nat /\ Required > 0
    /\ MinimumAttempt \in Nat /\ MinimumAttempt > 0
    /\ Reserve \in Nat /\ MaxDelay \in Nat /\ MaxConflictRetries \in Nat
    /\ Timeout \in Nat /\ Start \in Nat /\ Deadline \in Nat
    /\ Lateness \in Nat /\ MaxGap \in Nat
    BY PolicyAssumption, TimeAssumption

USE Parameters DEF None

\* The readings of the clocks are integers, the runtime's never negative.
LEMMA ReadingTypes ==
    ASSUME TypeOK, NEW gap \in Gaps
    PROVE  /\ gap \in Nat /\ gap <= MaxGap
           /\ Runtime \in Nat
           /\ Now(gap) \in Int
           /\ Remaining(gap) \in Nat
           /\ HookReading(gap) \in Nat
           /\ Remaining(gap) <= Runtime
           /\ Remaining(gap) <= CallRemaining(Deadline, Now(gap))
    BY DEF TypeOK, Runtime, Now, Remaining, HookReading, CallRemaining,
           Lesser, Greater, Clocks, Gaps

\* An admitted request leaves room for itself and the reserve.
LEMMA AdmittedFits ==
    ASSUME TypeOK, NEW gap \in Gaps, RequestFits(gap)
    PROVE  Remaining(gap) >= Required + Reserve
<1>1. CallRemaining(Remaining(gap), 0) = Remaining(gap)
    BY ReadingTypes DEF CallRemaining, Greater
<1> QED
    BY <1>1, ReadingTypes
       DEF RequestFits, OperationTimeout, RequestLimits, Admits

-----------------------------------------------------------------------------
\* A delivery only waits when it has a retry left.
RetryLeft == pc \in {"waiting", "waited"} => attempt < MaxConflictRetries

\* Every step keeps the types and the count of retries.
LEMMA TypesInductive ==
    TypeOK /\ RetryLeft /\ [Next]_vars => TypeOK' /\ RetryLeft'
<1> SUFFICES ASSUME TypeOK, RetryLeft, [Next]_vars
             PROVE  TypeOK' /\ RetryLeft'
    OBVIOUS
<1> USE DEF RetryLeft
<1>0. \A gap \in Gaps : /\ gap \in Nat /\ Runtime \in Nat
                        /\ Now(gap) \in Int /\ HookReading(gap) \in Nat
    BY ReadingTypes
<1>1. ASSUME NEW least \in Nat, NEW most \in Nat, TimePasses(least, most)
      PROVE  elapsed' \in Nat /\ skew' = skew /\ stepped' = stepped
    BY <1>1 DEF TimePasses, TypeOK
<1>2. ASSUME NEW r \in Readers, NEW gap \in Gaps, Plausible(r, gap), Remember(r, gap)
      PROVE  /\ lastRuntime' \in [Readers -> Nat \cup {None}]
             /\ lastNow' \in [Readers -> Nat \cup {None}]
    BY <1>0, <1>2 DEF Remember, Plausible, TypeOK
<1>3. ASSUME NEW gap \in Gaps, HookRemembers(gap)
      PROVE  /\ lastRuntime' \in [Readers -> Nat \cup {None}]
             /\ lastNow' \in [Readers -> Nat \cup {None}]
    <2>1. CASE bound = "call" /\ HookReads(gap)
        BY <1>2, <1>3, <2>1 DEF HookRemembers, HookReads, Readers
    <2>2. CASE ~(bound = "call" /\ HookReads(gap))
        BY <1>3, <2>2 DEF HookRemembers, readerVars, TypeOK
    <2> QED
        BY <2>1, <2>2
<1>4. ASSUME NEW to \in Running \cup {"done", "failed"}, Request(to)
      PROVE  TypeOK' /\ (to \notin {"waiting", "waited"} => RetryLeft')
    <2>0. PICK gap \in Gaps : /\ Plausible("request", gap) /\ Remember("request", gap)
                              /\ TimePasses(gap, gap + Required + Lateness)
        BY <1>4 DEF Request
    <2>1. elapsed' \in Nat /\ skew' = skew /\ stepped' = stepped
        BY <1>0, <1>1, <2>0
    <2>2. /\ lastRuntime' \in [Readers -> Nat \cup {None}]
          /\ lastNow' \in [Readers -> Nat \cup {None}]
        BY <1>2, <2>0 DEF Readers
    <2> QED
        BY <1>4, <2>1, <2>2 DEF Request, TypeOK, hookVars
<1>5. CASE Load \/ Reload \/ Update \/ RequestFails
    BY <1>4, <1>5 DEF Load, Reload, Update, RequestFails, Running, Requests
<1>6. CASE RequestUnread
    BY <1>6 DEF RequestUnread, TypeOK, clockVars, readerVars, hookVars
<1>7. CASE RequestDenied
    <2>1. /\ lastRuntime' \in [Readers -> Nat \cup {None}]
          /\ lastNow' \in [Readers -> Nat \cup {None}]
        BY <1>2, <1>7 DEF RequestDenied, Readers
    <2> QED
        BY <1>7, <2>1 DEF RequestDenied, TypeOK, clockVars, hookVars
<1>8. CASE StartWait
    <2>1. PICK gap \in Gaps : /\ delay' \in Delays(gap) /\ HookRemembers(gap)
                              /\ beforeWait' = HookReading(gap)
                              /\ first' = IF first = None THEN HookReading(gap) ELSE first
                              /\ TimePasses(gap, gap)
        BY <1>8 DEF StartWait
    <2>2. delay' \in Nat /\ HookReading(gap) \in Nat
        BY <1>0, <2>1 DEF Delays
    <2>3. /\ lastRuntime' \in [Readers -> Nat \cup {None}]
          /\ lastNow' \in [Readers -> Nat \cup {None}]
        BY <1>3, <2>1
    <2>4. elapsed' \in Nat /\ skew' = skew /\ stepped' = stepped
        BY <1>0, <1>1, <2>1
    <2> QED
        BY <1>8, <2>1, <2>2, <2>3, <2>4 DEF StartWait, TypeOK, Running, RetriesLeft
<1>9. CASE Wait
    <2>1. delay \in Nat
        BY DEF TypeOK
    <2>2. elapsed' \in Nat /\ skew' = skew /\ stepped' = stepped
        BY <1>1, <1>9, <2>1 DEF Wait
    <2> QED
        BY <1>9, <2>2 DEF Wait, TypeOK, readerVars, hookVars, Running
<1>10. CASE NextAttempt
    <2>1. PICK gap \in Gaps : /\ HookRemembers(gap) /\ TimePasses(gap, gap)
                              /\ lastRemaining' = HookReading(gap)
        BY <1>10 DEF NextAttempt
    <2>2. /\ lastRuntime' \in [Readers -> Nat \cup {None}]
          /\ lastNow' \in [Readers -> Nat \cup {None}]
        BY <1>3, <2>1
    <2>3. elapsed' \in Nat /\ skew' = skew /\ stepped' = stepped
        BY <1>0, <1>1, <2>1
    <2>4. HookReading(gap) \in Nat
        BY <1>0
    <2> QED
        BY <1>10, <2>1, <2>2, <2>3, <2>4 DEF NextAttempt, TypeOK, Running, Requests
<1>11. CASE RetryRefused
    <2>1. /\ lastRuntime' \in [Readers -> Nat \cup {None}]
          /\ lastNow' \in [Readers -> Nat \cup {None}]
        BY <1>3, <1>11 DEF RetryRefused, readerVars, TypeOK
    <2> QED
        BY <1>11, <2>1 DEF RetryRefused, TypeOK, clockVars, hookVars
<1>12. CASE WaitRefused
    BY <1>3, <1>12 DEF WaitRefused, TypeOK, clockVars, hookVars
<1>13. ASSUME NEW c \in Clocks, ClockSteps(c)
       PROVE  TypeOK' /\ RetryLeft'
    BY <1>13, TimeAssumption DEF ClockSteps, TypeOK, readerVars, hookVars
<1>14. CASE UNCHANGED vars
    BY <1>14 DEF vars, TypeOK, clockVars, readerVars, hookVars
<1> QED
    BY <1>5, <1>6, <1>7, <1>8, <1>9, <1>10, <1>11, <1>12, <1>13, <1>14
       DEF Next

-----------------------------------------------------------------------------
\* A clock that never stepped is right.
ClocksTrusted == \A c \in Clocks : c \notin stepped => skew[c] = 0

\* A reader has read both clocks or neither.
ReadTogether == \A r \in Readers : lastNow[r] = None <=> lastRuntime[r] = None

\* While the hook waits, the true time that is left pays for the delay too.
WaitIsFunded ==
    pc = "waiting" =>
        /\ "runtime" \notin stepped =>
               elapsed + delay + Reserve + MinimumAttempt <= Timeout + MaxGap
        /\ bound = "call" /\ "wall" \notin stepped =>
               Start + elapsed + delay + Reserve + MinimumAttempt <= Deadline

\* What the hook remembers, in terms of its first reading.
HookAccount ==
    /\ attempt = 0 => lastRemaining = None /\ waited = 0
    /\ attempt = 0 /\ pc \notin {"waiting", "waited", "failed"} => first = None
    /\ attempt > 0 =>
           /\ first # None /\ lastRemaining # None
           /\ waited + lastRemaining <= first
           /\ lastRemaining >= Reserve + MinimumAttempt
    /\ pc \in {"waiting", "waited"} =>
           /\ first # None /\ beforeWait # None
           /\ waited + beforeWait <= first

HookInvariant ==
    /\ TypeOK
    /\ RetryLeft
    /\ ClocksTrusted
    /\ ReadTogether
    /\ WaitIsFunded
    /\ HookAccount
    /\ InvocationReserveIsKept
    /\ CallReserveIsKept
    /\ RetryIsFunded

LEMMA InitHolds == Init => HookInvariant
    BY TimeAssumption DEF Init, HookInvariant, TypeOK, RetryLeft, ClocksTrusted, ReadTogether,
           WaitIsFunded, HookAccount, InvocationReserveIsKept, CallReserveIsKept,
           RetryIsFunded, Running, Requests, Clocks, Readers

\* What a clock that never stepped shows is true.
LEMMA TrueReadings ==
    ASSUME TypeOK, ClocksTrusted, NEW gap \in Gaps
    PROVE  /\ "runtime" \notin stepped => Runtime = Greater(0, Timeout - elapsed)
           /\ "wall" \notin stepped => Now(gap) = Start + elapsed + gap
    BY DEF TypeOK, ClocksTrusted, Clocks, Runtime, Now, Gaps

\* A reading that shows what is needed bounds the true time that is left: of the
\* invocation when it began, of the call when it was over.
LEMMA ReadingBoundsTime ==
    ASSUME TypeOK, ClocksTrusted, NEW gap \in Gaps, NEW need \in Nat \ {0}
    PROVE  /\ Remaining(gap) >= need /\ "runtime" \notin stepped
                  => elapsed + need <= Timeout
           /\ Remaining(gap) >= need /\ "wall" \notin stepped
                  => Start + elapsed + gap + need <= Deadline
           /\ HookReading(gap) >= need /\ "runtime" \notin stepped
                  => elapsed + need <= Timeout
           /\ HookReading(gap) >= need /\ bound = "call" /\ "wall" \notin stepped
                  => Start + elapsed + gap + need <= Deadline
<1>1. /\ Runtime \in Nat /\ Remaining(gap) \in Nat /\ elapsed \in Nat
      /\ gap \in Nat /\ Now(gap) \in Int
      /\ Remaining(gap) <= Runtime
      /\ Remaining(gap) <= CallRemaining(Deadline, Now(gap))
    BY ReadingTypes DEF TypeOK
<1>2. "runtime" \notin stepped => Runtime = Greater(0, Timeout - elapsed)
    BY TrueReadings
<1>3. "wall" \notin stepped => Now(gap) = Start + elapsed + gap
    BY TrueReadings
<1>4. /\ HookReading(gap) \in {Remaining(gap), Runtime}
      /\ bound = "call" => HookReading(gap) = Remaining(gap)
    BY DEF HookReading
<1> QED
    BY <1>1, <1>2, <1>3, <1>4 DEF CallRemaining, Greater

\* A reading alone takes the gap.
LEMMA ReadingTakesGap ==
    ASSUME TypeOK, NEW gap \in Gaps, TimePasses(gap, gap)
    PROVE  elapsed' = elapsed + gap /\ stepped' = stepped
<1>1. gap \in Nat
    BY ReadingTypes
<1> QED
    BY <1>1 DEF TimePasses

-----------------------------------------------------------------------------
\* The clocks: only ClockSteps touches them, and it names the clock.
LEMMA ClocksStayTrusted ==
    ASSUME TypeOK, ClocksTrusted, [Next]_vars
    PROVE  ClocksTrusted'
<1>1. CASE \E c \in Clocks : ClockSteps(c)
    BY <1>1 DEF ClockSteps, ClocksTrusted, TypeOK
<1>2. CASE UNCHANGED <<skew, stepped>>
    BY <1>2 DEF ClocksTrusted
<1>3. \/ \E c \in Clocks : ClockSteps(c)
      \/ UNCHANGED <<skew, stepped>>
    BY DEF Next, Load, Reload, Update, RequestFails, Request, TimePasses,
           RequestUnread, RequestDenied, StartWait, Wait, NextAttempt,
           RetryRefused, WaitRefused, vars, clockVars
<1> QED
    BY <1>1, <1>2, <1>3

\* The readers: their histories change only by Remember, after Plausible.
LEMMA ReadersRemember ==
    ASSUME [Next]_vars
    PROVE  \/ UNCHANGED readerVars
           \/ \E r \in Readers, gap \in Gaps : Plausible(r, gap) /\ Remember(r, gap)
    BY DEF Next, Load, Reload, Update, RequestFails, Request,
           RequestUnread, RequestDenied, StartWait, Wait, NextAttempt,
           RetryRefused, WaitRefused, HookRemembers, HookReads, ClockSteps,
           vars, Readers

LEMMA ReadersStayTogether ==
    ASSUME TypeOK, ReadTogether, [Next]_vars
    PROVE  ReadTogether'
<1>1. CASE UNCHANGED readerVars
    BY <1>1 DEF readerVars, ReadTogether
<1>2. ASSUME NEW r \in Readers, NEW gap \in Gaps, Plausible(r, gap), Remember(r, gap)
      PROVE  ReadTogether'
    BY <1>2, ReadingTypes DEF Remember, Plausible, ReadTogether, TypeOK
<1> QED
    BY <1>1, <1>2, ReadersRemember

-----------------------------------------------------------------------------
\* The delays that may be sampled fit beside the reserve and the next attempt.
LEMMA DelayFits ==
    ASSUME TypeOK, StartWait
    PROVE  /\ delay' \in Nat
           /\ \E gap \in Gaps : /\ HookReading(gap) >= delay' + Reserve + MinimumAttempt
                              /\ TimePasses(gap, gap)
<1>1. PICK gap \in Gaps : delay' \in Delays(gap) /\ TimePasses(gap, gap)
    BY DEF StartWait
<1>2. HookReading(gap) \in Nat
    BY ReadingTypes
<1> QED
    BY <1>1, <1>2 DEF Delays

LEMMA WaitStaysFunded ==
    ASSUME TypeOK, ClocksTrusted, WaitIsFunded, [Next]_vars
    PROVE  WaitIsFunded'
<1>1. CASE StartWait
    <2>1. delay' + Reserve + MinimumAttempt \in Nat \ {0} /\ delay' \in Nat
        BY <1>1, DelayFits
    <2>2. PICK gap \in Gaps : /\ HookReading(gap) >= delay' + Reserve + MinimumAttempt
                              /\ TimePasses(gap, gap)
        BY <1>1, DelayFits
    <2>3. elapsed' = elapsed + gap /\ stepped' = stepped /\ bound' = bound
        BY <1>1, <2>2, ReadingTakesGap DEF StartWait
    <2>4. /\ "runtime" \notin stepped =>
                 elapsed + (delay' + Reserve + MinimumAttempt) <= Timeout
          /\ bound = "call" /\ "wall" \notin stepped =>
                 Start + elapsed + gap + (delay' + Reserve + MinimumAttempt) <= Deadline
        BY <2>1, <2>2, ReadingBoundsTime
    <2>5. elapsed \in Nat /\ gap \in Nat /\ gap <= MaxGap
        BY ReadingTypes DEF TypeOK
    <2>6. ASSUME NEW d \in Nat
          PROVE  /\ elapsed + (d + Reserve + MinimumAttempt) <= Timeout =>
                        elapsed + gap + d + Reserve + MinimumAttempt <= Timeout + MaxGap
                 /\ Start + elapsed + gap + (d + Reserve + MinimumAttempt) <= Deadline =>
                        Start + (elapsed + gap) + d + Reserve + MinimumAttempt <= Deadline
        BY <2>5
    <2> QED
        BY <2>1, <2>3, <2>4, <2>6 DEF WaitIsFunded
<1>2. CASE \E c \in Clocks : ClockSteps(c)
    BY <1>2 DEF ClockSteps, WaitIsFunded, hookVars, TypeOK
<1>3. CASE UNCHANGED vars
    BY <1>3 DEF vars, clockVars, hookVars, WaitIsFunded
<1>4. CASE pc' # "waiting"
    BY <1>4 DEF WaitIsFunded
<1>5. \/ StartWait \/ (\E c \in Clocks : ClockSteps(c)) \/ UNCHANGED vars
      \/ pc' # "waiting"
    BY DEF Next, Load, Reload, Update, RequestFails, Request,
           RequestUnread, RequestDenied, Wait, NextAttempt,
           RetryRefused, WaitRefused
<1> QED
    BY <1>1, <1>2, <1>3, <1>4, <1>5

\* Time passes only in admitted requests and in funded waits.
LEMMA ReservesStayKept ==
    ASSUME TypeOK, ClocksTrusted, WaitIsFunded,
           InvocationReserveIsKept, CallReserveIsKept, [Next]_vars
    PROVE  InvocationReserveIsKept' /\ CallReserveIsKept'
<1>0. elapsed \in Nat
    BY DEF TypeOK
<1>1. ASSUME NEW to, Request(to)
      PROVE  InvocationReserveIsKept' /\ CallReserveIsKept'
    <2>1. PICK gap \in Gaps : /\ RequestFits(gap)
                              /\ TimePasses(gap, gap + Required + Lateness)
        BY <1>1 DEF Request
    <2>2. PICK t \in gap..(gap + Required + Lateness) : elapsed' = elapsed + t
        BY <2>1 DEF TimePasses
    <2>3. stepped' = stepped /\ bound' = bound /\ gap \in Nat /\ gap <= MaxGap
        BY <1>1, <2>1, ReadingTypes DEF Request, TimePasses
    <2>4. Remaining(gap) >= Required + Reserve
        BY <2>1, AdmittedFits
    <2>5. /\ "runtime" \notin stepped
                 => elapsed + (Required + Reserve) <= Timeout
          /\ "wall" \notin stepped
                 => Start + elapsed + gap + (Required + Reserve) <= Deadline
        BY <2>4, ReadingBoundsTime
    <2>6. /\ "runtime" \notin stepped
                 => elapsed + t + Reserve <= Timeout + Lateness + MaxGap
          /\ "wall" \notin stepped
                 => Start + (elapsed + t) + Reserve <= Deadline + Lateness
        BY <1>0, <2>3, <2>5
    <2> QED
        BY <2>2, <2>3, <2>6 DEF InvocationReserveIsKept, CallReserveIsKept
<1>2. CASE Wait
    <2>1. stepped' = stepped /\ pc = "waiting" /\ bound' = bound /\ delay \in Nat
        BY <1>2 DEF Wait, TimePasses, TypeOK
    <2>2. PICK t \in 0..(delay + Lateness) : elapsed' = elapsed + t
        BY <1>2 DEF Wait, TimePasses
    <2>3. /\ "runtime" \notin stepped
                 => elapsed + t + Reserve <= Timeout + Lateness + MaxGap
          /\ bound = "call" /\ "wall" \notin stepped
                 => Start + (elapsed + t) + Reserve <= Deadline + Lateness
        BY <1>0, <2>1 DEF WaitIsFunded
    <2> QED
        BY <2>1, <2>2, <2>3 DEF InvocationReserveIsKept, CallReserveIsKept
<1>6. ASSUME NEW gap \in Gaps, NEW need \in Nat \ {0},
             HookReading(gap) >= need + Reserve, TimePasses(gap, gap), bound' = bound
      PROVE  InvocationReserveIsKept' /\ CallReserveIsKept'
    <2>1. /\ elapsed' = elapsed + gap /\ stepped' = stepped
          /\ gap \in Nat /\ gap <= MaxGap
        BY <1>6, ReadingTakesGap, ReadingTypes
    <2>2. /\ "runtime" \notin stepped => elapsed + (need + Reserve) <= Timeout
          /\ bound = "call" /\ "wall" \notin stepped
                 => Start + elapsed + gap + (need + Reserve) <= Deadline
        BY <1>6, ReadingBoundsTime
    <2>3. /\ "runtime" \notin stepped
                 => elapsed + gap + Reserve <= Timeout + Lateness + MaxGap
          /\ bound = "call" /\ "wall" \notin stepped
                 => Start + (elapsed + gap) + Reserve <= Deadline + Lateness
        BY <1>0, <2>1, <2>2
    <2> QED
        BY <1>6, <2>1, <2>3 DEF InvocationReserveIsKept, CallReserveIsKept
<1>7. CASE StartWait
    <2>1. delay' + MinimumAttempt \in Nat \ {0} /\ delay' \in Nat
        BY <1>7, DelayFits
    <2>2. PICK gap \in Gaps : /\ HookReading(gap) >= delay' + Reserve + MinimumAttempt
                              /\ TimePasses(gap, gap)
        BY <1>7, DelayFits
    <2>3. HookReading(gap) >= (delay' + MinimumAttempt) + Reserve
        BY <2>1, <2>2
    <2> QED
        BY <1>6, <1>7, <2>1, <2>2, <2>3 DEF StartWait
<1>8. CASE NextAttempt
    BY <1>6, <1>8 DEF NextAttempt, WaitedWell, Admits
<1>3. CASE \E c \in Clocks : ClockSteps(c)
    BY <1>3 DEF ClockSteps, InvocationReserveIsKept, CallReserveIsKept
<1>4. CASE UNCHANGED <<elapsed, stepped, bound>>
    BY <1>4 DEF InvocationReserveIsKept, CallReserveIsKept
<1>5. \/ \E to \in Running \cup {"done", "failed"} : Request(to)
      \/ Wait \/ StartWait \/ NextAttempt
      \/ \E c \in Clocks : ClockSteps(c)
      \/ UNCHANGED <<elapsed, stepped, bound>>
    BY DEF Next, Load, Reload, Update, RequestFails, Running, Requests,
           RequestUnread, RequestDenied, RetryRefused, WaitRefused, vars, clockVars
<1> QED
    BY <1>1, <1>2, <1>3, <1>4, <1>5, <1>7, <1>8

\* Only NextAttempt leads to another attempt's load.
LEMMA RetriesStayFunded ==
    ASSUME TypeOK, ClocksTrusted, RetryIsFunded, [Next]_vars
    PROVE  RetryIsFunded'
<1>1. CASE NextAttempt
    <2>1. PICK gap \in Gaps : /\ HookReading(gap) >= Reserve + MinimumAttempt
                              /\ TimePasses(gap, gap)
        BY <1>1 DEF NextAttempt, WaitedWell, Admits
    <2>2. /\ elapsed' = elapsed + gap /\ stepped' = stepped
          /\ gap \in Nat /\ gap <= MaxGap /\ elapsed \in Nat /\ bound' = bound
        BY <1>1, <2>1, ReadingTakesGap, ReadingTypes DEF NextAttempt, TypeOK
    <2>3. /\ "runtime" \notin stepped
                 => elapsed + (Reserve + MinimumAttempt) <= Timeout
          /\ bound = "call" /\ "wall" \notin stepped
                 => Start + elapsed + gap + (Reserve + MinimumAttempt) <= Deadline
        BY <2>1, ReadingBoundsTime
    <2>4. stepped = {} =>
             /\ elapsed + gap + Reserve + MinimumAttempt <= Timeout + MaxGap
             /\ bound = "call" =>
                    Start + (elapsed + gap) + Reserve + MinimumAttempt <= Deadline
        BY <2>2, <2>3
    <2> QED
        BY <2>2, <2>4 DEF RetryIsFunded
<1>2. CASE \E c \in Clocks : ClockSteps(c)
    BY <1>2 DEF ClockSteps, RetryIsFunded
<1>3. CASE UNCHANGED vars
    BY <1>3 DEF vars, clockVars, RetryIsFunded
<1>4. CASE pc' # "load"
    BY <1>4 DEF RetryIsFunded
<1>5. \/ NextAttempt \/ (\E c \in Clocks : ClockSteps(c)) \/ UNCHANGED vars
      \/ pc' # "load"
    BY DEF Next, Load, Reload, Update, RequestFails, Request,
           RequestUnread, RequestDenied, StartWait, Wait,
           RetryRefused, WaitRefused
<1> QED
    BY <1>1, <1>2, <1>3, <1>4, <1>5

\* The hook's account: a wait opens it, a retry settles it.
LEMMA AccountStaysBalanced ==
    ASSUME TypeOK, RetryLeft, HookAccount, [Next]_vars
    PROVE  HookAccount'
<1>0. /\ \A gap \in Gaps : HookReading(gap) \in Nat
      /\ attempt \in Nat /\ waited \in Nat
      /\ {lastRemaining, beforeWait, first} \subseteq Nat \cup {None}
    BY ReadingTypes DEF TypeOK
<1>1. CASE StartWait
    <2>1. PICK gap \in Gaps :
              /\ beforeWait' = HookReading(gap)
              /\ first' = IF first = None THEN HookReading(gap) ELSE first
              /\ lastRemaining # None => HookReading(gap) <= lastRemaining
        BY <1>1 DEF StartWait, NotGreaterThanLast
    <2>2. /\ pc' = "waiting" /\ pc = "conflict"
          /\ UNCHANGED <<lastRemaining, waited, attempt>>
        BY <1>1 DEF StartWait
    <2>3. HookReading(gap) \in Nat
        BY <1>0
    <2>4. CASE first = None
        BY <1>0, <2>1, <2>2, <2>3, <2>4 DEF HookAccount
    <2>5. CASE first # None
        BY <1>0, <2>1, <2>2, <2>3, <2>5 DEF HookAccount
    <2> QED
        BY <2>4, <2>5
<1>2. CASE NextAttempt
    <2>1. PICK gap \in Gaps : /\ lastRemaining' = HookReading(gap)
                              /\ beforeWait - HookReading(gap) >= delay
                              /\ HookReading(gap) >= Reserve + MinimumAttempt
        BY <1>2 DEF NextAttempt, WaitedWell, Admits
    <2>2. /\ pc' = "load" /\ pc = "waited"
          /\ waited' = waited + delay
          /\ attempt' = attempt + 1
          /\ UNCHANGED <<beforeWait, first>>
        BY <1>2 DEF NextAttempt
    <2>3. delay \in Nat /\ HookReading(gap) \in Nat
        BY <1>0 DEF TypeOK
    <2> QED
        BY <1>0, <2>1, <2>2, <2>3 DEF HookAccount
<1>3. CASE Wait
    BY <1>3 DEF Wait, hookVars, HookAccount
<1>4. CASE /\ UNCHANGED <<hookVars, attempt>>
           /\ pc' \in {pc, "failed"} \/ pc' \notin {"waiting", "waited"}
           /\ pc \notin {"waiting", "waited"} \/ pc' \in {pc, "failed"}
           /\ pc = "failed" => pc' = "failed"
    BY <1>4 DEF hookVars, HookAccount
<1>5. \/ StartWait \/ NextAttempt \/ Wait
      \/ /\ UNCHANGED <<hookVars, attempt>>
         /\ pc' \in {pc, "failed"} \/ pc' \notin {"waiting", "waited"}
         /\ pc \notin {"waiting", "waited"} \/ pc' \in {pc, "failed"}
         /\ pc = "failed" => pc' = "failed"
    BY DEF Next, Load, Reload, Update, RequestFails, Request, Requests,
           RequestUnread, RequestDenied, ClockSteps,
           RetryRefused, WaitRefused, vars
<1> QED
    BY <1>1, <1>2, <1>3, <1>4, <1>5

-----------------------------------------------------------------------------
LEMMA HookInductive == Spec => []HookInvariant
<1>1. HookInvariant /\ [Next]_vars => HookInvariant'
    BY TypesInductive, ClocksStayTrusted, ReadersStayTogether, WaitStaysFunded,
       ReservesStayKept, RetriesStayFunded, AccountStaysBalanced
       DEF HookInvariant
<1> QED
    BY <1>1, InitHolds, PTL DEF Spec

\* TypeOK for every policy: in particular no attempt beyond max_conflict_retries.
THEOREM TypeCorrect == Spec => []TypeOK
<1>1. HookInvariant => TypeOK
    BY DEF HookInvariant
<1> QED
    BY <1>1, HookInductive, PTL

\* InvocationReserveIsKept, whatever the wall clock does.
THEOREM InvocationReserve == Spec => []InvocationReserveIsKept
<1>1. HookInvariant => InvocationReserveIsKept
    BY DEF HookInvariant
<1> QED
    BY <1>1, HookInductive, PTL

\* CallReserveIsKept, whatever the runtime's clock does.
THEOREM CallReserve == Spec => []CallReserveIsKept
<1>1. HookInvariant => CallReserveIsKept
    BY DEF HookInvariant
<1> QED
    BY <1>1, HookInductive, PTL

\* RetryIsFunded, however late waits end.
THEOREM RetriesAreFunded == Spec => []RetryIsFunded
<1>1. HookInvariant => RetryIsFunded
    BY DEF HookInvariant
<1> QED
    BY <1>1, HookInductive, PTL

\* WaitsFitFirstReading, however the clocks step.
THEOREM WaitsAreBounded == Spec => []WaitsFitFirstReading
<1>1. HookInvariant => WaitsFitFirstReading
    <2> SUFFICES ASSUME HookInvariant, attempt > 0
                 PROVE  waited + Reserve + MinimumAttempt <= first
        BY DEF WaitsFitFirstReading
    <2>1. /\ waited \in Nat /\ lastRemaining \in Nat /\ first \in Nat
          /\ waited + lastRemaining <= first
          /\ lastRemaining >= Reserve + MinimumAttempt
        BY DEF HookInvariant, HookAccount, TypeOK
    <2> QED
        BY <2>1
<1> QED
    BY <1>1, HookInductive, PTL

\* NeitherClockGivesBack, however the clocks step.
THEOREM ReadersOnlySpendTime == Spec => NeitherClockGivesBack
<1>1. HookInvariant /\ [Next]_vars =>
          [\A r \in Readers : lastNow[r] # None =>
               /\ lastRuntime'[r] <= lastRuntime[r]
               /\ lastNow'[r] >= lastNow[r]]_vars
    <2> SUFFICES ASSUME HookInvariant, [Next]_vars,
                        NEW r \in Readers, lastNow[r] # None
                 PROVE  /\ lastRuntime'[r] <= lastRuntime[r]
                        /\ lastNow'[r] >= lastNow[r]
        OBVIOUS
    <2>1. /\ lastRuntime[r] \in Nat /\ lastNow[r] \in Nat
          /\ lastRuntime \in [Readers -> Nat \cup {None}]
          /\ lastNow \in [Readers -> Nat \cup {None}]
        BY DEF HookInvariant, TypeOK, ReadTogether
    <2>2. CASE UNCHANGED readerVars
        BY <2>1, <2>2 DEF readerVars
    <2>3. ASSUME NEW q \in Readers, NEW gap \in Gaps, Plausible(q, gap), Remember(q, gap)
          PROVE  /\ lastRuntime'[r] <= lastRuntime[r]
                 /\ lastNow'[r] >= lastNow[r]
        BY <2>1, <2>3, ReadingTypes DEF Remember, Plausible, HookInvariant
    <2> QED
        BY <2>2, <2>3, ReadersRemember
<1> QED
    BY <1>1, HookInductive, PTL DEF Spec, NeitherClockGivesBack
=============================================================================
