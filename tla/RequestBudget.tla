---------------------------- MODULE RequestBudget ----------------------------
(***************************************************************************)
(* One invocation that delivers a call status: the store's before_request  *)
(* hook (lambda_budget.py) admits each request, and the retry hook         *)
(* (call_status_event.py) waits between conflicting attempts.  The hooks   *)
(* know the time only through two clocks, the runtime's remaining time and *)
(* the wall clock that call deadlines are kept in.  Either may step; each  *)
(* hook has a reader of its own that remembers what the clocks told it.    *)
(* Time passes while a request or a wait runs, which may end late, and     *)
(* between the reading of the one clock and of the other.                  *)
(***************************************************************************)
EXTENDS Budget

CONSTANTS
    Timeout,             \* what the runtime grants the invocation
    Start, Deadline,     \* wall-clock time it starts at, and the call's deadline
    Required,            \* required_request_ms, the client's request envelope
    Reserve,             \* reserve_ms, of both hooks
    MinimumAttempt,      \* minimum_retry_attempt_ms
    BaseDelay, MaxDelay, \* base_delay_ms and max_delay_ms
    MaxConflictRetries,
    Lateness,            \* how much later than allowed a step may end
    MaxGap,              \* how much later than the runtime the wall clock is read
    Skews                \* Skews[c]: how far clock c may be off

ASSUME PolicyAssumption ==
    /\ Required \in Nat \ {0} /\ MinimumAttempt \in Nat \ {0}
    /\ Reserve \in Nat
    /\ BaseDelay \in Nat \ {0} /\ MaxDelay \in Nat \ {0} /\ BaseDelay <= MaxDelay
    /\ MaxConflictRetries \in Nat

Clocks == {"runtime", "wall"}

ASSUME TimeAssumption ==
    /\ Timeout \in Nat /\ Start \in Nat /\ Deadline \in Nat
    /\ Lateness \in Nat /\ MaxGap \in Nat
    /\ Skews \in [Clocks -> SUBSET Int] /\ \A c \in Clocks : 0 \in Skews[c]

Readers == {"request", "retry"}

VARIABLES
    elapsed,       \* the true time since the invocation started
    skew,          \* skew[c]: how far clock c is off
    stepped,       \* the clocks that stepped since the invocation started
    bound,         \* whether the retry hook knows the deadline: "call", "invocation"
    lastRuntime,   \* last_runtime_ms and last_now_ms of each reader,
    lastNow,       \*   None before its first reading
    lastRemaining, \* last_remaining_ms of the retry hook
    beforeWait,    \* remaining_before_wait_ms
    delay,         \* the delay that was sampled
    pc, attempt,   \* where the delivery is, and its attempt from 0
    first, waited  \* history: the hook's first reading, the delays it waited for

clockVars  == <<elapsed, skew, stepped>>
readerVars == <<lastRuntime, lastNow>>
hookVars   == <<lastRemaining, beforeWait, delay, first, waited>>
vars == <<clockVars, bound, readerVars, hookVars, pc, attempt>>

Requests == {"load", "reload", "update"}
Running  == Requests \cup {"conflict", "waiting", "waited"}

TypeOK ==
    /\ elapsed \in Nat
    /\ skew \in [Clocks -> Int] /\ \A c \in Clocks : skew[c] \in Skews[c]
    /\ stepped \subseteq Clocks
    /\ bound \in {"call", "invocation"}
    /\ lastRuntime \in [Readers -> Nat \cup {None}]
    /\ lastNow \in [Readers -> Nat \cup {None}]
    /\ {lastRemaining, beforeWait, first} \subseteq Nat \cup {None}
    /\ delay \in Nat
    /\ waited \in Nat
    /\ pc \in Running \cup {"done", "failed"}
    /\ attempt \in 0..MaxConflictRetries

Init ==
    /\ elapsed = 0
    /\ skew = [c \in Clocks |-> 0]
    /\ stepped = {}
    /\ bound \in {"call", "invocation"}
    /\ lastRuntime = [r \in Readers |-> None]
    /\ lastNow = [r \in Readers |-> None]
    /\ lastRemaining = None /\ beforeWait = None /\ first = None
    /\ delay = 0
    /\ waited = 0
    /\ pc = "load"
    /\ attempt = 0

-----------------------------------------------------------------------------
\* The clocks.  A reader asks the runtime first, and gap later the wall clock.
\* A clock that steps in between could as well have stepped before or after.
Runtime  == Greater(0, Timeout - elapsed + skew["runtime"])
Now(gap) == Start + elapsed + gap + skew["wall"]

Gaps == 0..MaxGap

\* Outside the program: a clock is set, or a context of another invocation read.
ClockSteps(c) ==
    /\ pc \in Running
    /\ \E s \in Skews[c] : skew' = [skew EXCEPT ![c] = s]
    /\ stepped' = stepped \cup {c}
    /\ UNCHANGED <<elapsed, bound, readerVars, hookVars, pc, attempt>>

\* A step takes some time between least and most.
TimePasses(least, most) ==
    /\ \E t \in least..most : elapsed' = elapsed + t
    /\ UNCHANGED <<skew, stepped>>

-----------------------------------------------------------------------------
\* _call_remaining_time_reader.

\* Plausible bug: only the combined remaining time is remembered.
NotMoreThanBefore(r, gap) ==
    /\ Now(gap) >= 0
    /\ lastNow[r] # None =>
           Lesser(Runtime, CallRemaining(Deadline, Now(gap)))
               <= Lesser(lastRuntime[r], CallRemaining(Deadline, lastNow[r]))

\* Neither clock contradicts the reader's own history.
Plausible(r, gap) ==
    /\ Now(gap) >= 0
    /\ lastNow[r] # None => Now(gap) >= lastNow[r]
    /\ lastRuntime[r] # None => Runtime <= lastRuntime[r]

Remember(r, gap) ==
    /\ lastRuntime' = [lastRuntime EXCEPT ![r] = Runtime]
    /\ lastNow' = [lastNow EXCEPT ![r] = Now(gap)]

\* Plausible bug: one of the two clocks is forgotten.
RuntimeOnly(gap) == Runtime
DeadlineOnly(gap) == CallRemaining(Deadline, Now(gap))

Remaining(gap) == Lesser(Runtime, CallRemaining(Deadline, Now(gap)))

-----------------------------------------------------------------------------
\* make_lambda_request_admission_hook: the whole request fits, or it is denied.
RequestLimits == [maximum |-> Required, minimum |-> Required,
                  reserve |-> Reserve, granularity |-> 1]

RequestFits(gap) ==
    OperationTimeout(Remaining(gap), 0, None, RequestLimits) # None

\* The request is admitted, runs, and leaves the delivery at to.
Request(to) ==
    /\ \E gap \in Gaps :
          /\ Plausible("request", gap)
          /\ RequestFits(gap)
          /\ Remember("request", gap)
          /\ TimePasses(gap, gap + Required + Lateness)
    /\ pc' = to
    /\ UNCHANGED <<bound, hookVars, attempt>>

Load   == pc = "load"   /\ Request("reload")
Reload == pc = "reload" /\ \E to \in {"update", "conflict"} : Request(to)
Update == pc = "update" /\ \E to \in {"done", "conflict"} : Request(to)

\* The reader rejects a clock: its history stays as it was.  What time a refusal
\* takes is not counted, here and below: the delivery is over.
RequestUnread ==
    /\ pc \in Requests
    /\ \E gap \in Gaps : ~Plausible("request", gap)
    /\ pc' = "failed"
    /\ UNCHANGED <<clockVars, bound, readerVars, hookVars, attempt>>

\* RequestBudgetExhaustedError
RequestDenied ==
    /\ pc \in Requests
    /\ \E gap \in Gaps :
          /\ Plausible("request", gap)
          /\ ~RequestFits(gap)
          /\ Remember("request", gap)
    /\ pc' = "failed"
    /\ UNCHANGED <<clockVars, bound, hookVars, attempt>>

\* The request fails otherwise, having used its time; the loop passes it on.
RequestFails == pc \in Requests /\ Request("failed")

-----------------------------------------------------------------------------
\* make_budgeted_status_conflict_retry_hook, after a conflicting write.

RetriesLeft == attempt < MaxConflictRetries

\* status_conflict_retry_delay_ms: the exponential ceiling of the n-th retry.
Ceiling(n) == Lesser(MaxDelay, BaseDelay * 2^(n - 1))

\* A hook that does not know the deadline reads the runtime, without a history.
HookReading(gap) == IF bound = "call" THEN Remaining(gap) ELSE Runtime
HookReads(gap)   == bound = "call" => Plausible("retry", gap)
HookRemembers(gap) ==
    IF bound = "call" /\ HookReads(gap)
    THEN Remember("retry", gap)
    ELSE UNCHANGED readerVars

\* Plausible bug: every retry starts from the invocation's whole budget.
NotGreaterThanEver(gap) == TRUE

NotGreaterThanLast(gap) ==
    lastRemaining # None => HookReading(gap) <= lastRemaining

\* The delays that jitter may pick, none if the reserves do not fit.
Delays(gap) ==
    {d \in 0..(HookReading(gap) - Reserve - MinimumAttempt) :
        d <= Ceiling(attempt + 1)}

\* The first reading of before_retry, and the delay.
StartWait ==
    /\ pc = "conflict"
    /\ RetriesLeft
    /\ \E gap \in Gaps :
          /\ HookReads(gap)
          /\ NotGreaterThanLast(gap)
          /\ delay' \in Delays(gap)
          /\ HookRemembers(gap)
          /\ beforeWait' = HookReading(gap)
          /\ first' = IF first = None THEN HookReading(gap) ELSE first
          /\ TimePasses(gap, gap)
    /\ pc' = "waiting"
    /\ UNCHANGED <<bound, lastRemaining, waited, attempt>>

\* The injected wait_ms returns, whether or not it waited as long as it should.
Wait ==
    /\ pc = "waiting"
    /\ TimePasses(0, delay + Lateness)
    /\ pc' = "waited"
    /\ UNCHANGED <<bound, readerVars, hookVars, attempt>>

\* Plausible bug: the second reading is not compared with what the next attempt
\* needs.
TrustsFirstReading(gap) ==
    /\ HookReads(gap)
    /\ HookReading(gap) <= beforeWait
    /\ beforeWait - HookReading(gap) >= delay

\* The second reading shows that the delay has passed and the attempt still fits.
WaitedWell(gap) ==
    /\ HookReads(gap)
    /\ HookReading(gap) <= beforeWait
    /\ beforeWait - HookReading(gap) >= delay
    /\ Admits(HookReading(gap), Reserve + MinimumAttempt)

\* before_retry returns, and the next attempt begins.
NextAttempt ==
    /\ pc = "waited"
    /\ \E gap \in Gaps :
          /\ WaitedWell(gap)
          /\ HookRemembers(gap)
          /\ lastRemaining' = HookReading(gap)
          /\ TimePasses(gap, gap)
    /\ waited' = waited + delay
    /\ attempt' = attempt + 1
    /\ pc' = "load"
    /\ UNCHANGED <<bound, beforeWait, delay, first>>

\* No attempt is left, or the hook raises before it waits.
RetryRefused ==
    /\ pc = "conflict"
    /\ \/ ~RetriesLeft /\ UNCHANGED readerVars
       \/ /\ RetriesLeft
          /\ \E gap \in Gaps :
                /\ ~(HookReads(gap) /\ NotGreaterThanLast(gap) /\ Delays(gap) # {})
                /\ HookRemembers(gap)
    /\ pc' = "failed"
    /\ UNCHANGED <<clockVars, bound, hookVars, attempt>>

\* The hook raises after it waited.
WaitRefused ==
    /\ pc = "waited"
    /\ \E gap \in Gaps : ~WaitedWell(gap) /\ HookRemembers(gap)
    /\ pc' = "failed"
    /\ UNCHANGED <<clockVars, bound, hookVars, attempt>>

-----------------------------------------------------------------------------
Next ==
    \/ Load \/ Reload \/ Update
    \/ RequestUnread \/ RequestDenied \/ RequestFails
    \/ StartWait \/ Wait \/ NextAttempt
    \/ RetryRefused \/ WaitRefused
    \/ \E c \in Clocks : ClockSteps(c)

Spec == Init /\ [][Next]_vars

-----------------------------------------------------------------------------
\* While the runtime's clock is right, whatever the wall clock says, no step ever
\* eats more than one step's lateness, and the gap after the reading that allowed
\* it, into the reserve that the invocation keeps for its end: neither adds up
\* over requests, waits and retries.
InvocationReserveIsKept ==
    (elapsed > 0 /\ "runtime" \notin stepped)
        => elapsed + Reserve <= Timeout + Lateness + MaxGap

\* While the wall clock is right, whatever the runtime's says, the same is true
\* of the call's deadline, unless the retry hook was built without it.  The wall
\* clock is read last, so the gap is not lost.
CallReserveIsKept ==
    (elapsed > 0 /\ bound = "call" /\ "wall" \notin stepped)
        => Start + elapsed + Reserve <= Deadline + Lateness

\* A retry is only begun when the wait, however late it ended, left enough for
\* the reserve and the shortest attempt: of the invocation when its clock was
\* read, and of the call even when the reading was over.
RetryIsFunded ==
    (attempt > 0 /\ pc = "load" /\ stepped = {})
        => /\ elapsed + Reserve + MinimumAttempt <= Timeout + MaxGap
           /\ bound = "call" =>
                  Start + elapsed + Reserve + MinimumAttempt <= Deadline

\* However the clocks step, the delays of all retries together, the reserve and
\* the last attempt's minimum come out of the time of the hook's first reading: no
\* retry is paid with time that a clock gave back.
WaitsFitFirstReading ==
    attempt > 0 => waited + Reserve + MinimumAttempt <= first

\* A reader's later reading never gives back time, on either clock by itself:
\* neither clock hides that the other was reset.
NeitherClockGivesBack ==
    [][\A r \in Readers : lastNow[r] # None =>
           /\ lastRuntime'[r] <= lastRuntime[r]
           /\ lastNow'[r] >= lastNow[r]]_vars
=============================================================================
