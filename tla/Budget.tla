------------------------------- MODULE Budget -------------------------------
(***************************************************************************)
(* The admission arithmetic of budget.py, in integer milliseconds.  None   *)
(* stands for the "skip this work" answer and for an argument left out.    *)
(***************************************************************************)
EXTENDS Integers

None == -1   \* never a duration

Lesser(m, n)  == IF m <= n THEN m ELSE n
Greater(m, n) == IF m <= n THEN n ELSE m

\* Every limit record that resolve_operation_timeout accepts.
Limits ==
    {l \in [maximum : Nat \ {0}, minimum : Nat \ {0},
            reserve : Nat, granularity : Nat \ {0}] : l.minimum <= l.maximum}

\* resolve_call_budget's remaining_ms, and whether its action is "continue".
CallRemaining(deadline, now) == Greater(0, deadline - now)
Admits(remaining, minimum)   == remaining >= minimum

\* What the call and, when it is given, the invocation leave.
Available(deadline, now, invocation) ==
    IF invocation = None
    THEN CallRemaining(deadline, now)
    ELSE Lesser(CallRemaining(deadline, now), invocation)

RoundDown(t, granularity) == (t \div granularity) * granularity

\* Plausible bugs: the reserve is deducted after the cap; rounding to nearest
\* instead of down; the minimum is checked before rounding only.
CapThenReserve(available, l) ==
    LET timeout == RoundDown(Lesser(l.maximum, available) - l.reserve,
                             l.granularity)
    IN  IF Admits(available, l.minimum + l.reserve) /\ timeout >= l.minimum
        THEN timeout ELSE None
RoundUp(available, l) ==
    LET timeout == RoundDown(Lesser(l.maximum, available - l.reserve)
                                 + l.granularity - 1, l.granularity)
    IN  IF Admits(available, l.minimum + l.reserve) THEN timeout ELSE None
MinimumBeforeRounding(available, l) ==
    IF Admits(available, l.minimum + l.reserve)
    THEN RoundDown(Lesser(l.maximum, available - l.reserve), l.granularity)
    ELSE None

\* Reserve, cap, round down, and admit what is still at least the minimum.
TimeoutWithin(available, l) ==
    LET timeout == RoundDown(Lesser(l.maximum, available - l.reserve),
                             l.granularity)
    IN  IF Admits(available, l.minimum + l.reserve) /\ timeout >= l.minimum
        THEN timeout ELSE None

\* resolve_operation_timeout: the call's deadline must admit the work by itself.
OperationTimeout(deadline, now, invocation, l) ==
    IF Admits(CallRemaining(deadline, now), l.minimum + l.reserve)
    THEN TimeoutWithin(Available(deadline, now, invocation), l)
    ELSE None

-----------------------------------------------------------------------------
\* The reference: t is a timeout that the limits allow within what is available.
Fits(t, available, l) ==
    /\ l.minimum <= t /\ t <= l.maximum
    /\ t % l.granularity = 0
    /\ t + l.reserve <= available

\* answer is the longest timeout that fits, or None when none fits.
IsLongestFit(answer, available, l) ==
    IF answer = None
    THEN \A t \in 1..l.maximum : ~Fits(t, available, l)
    ELSE /\ Fits(answer, available, l)
         /\ \A t \in 1..l.maximum : Fits(t, available, l) => t <= answer
=============================================================================
