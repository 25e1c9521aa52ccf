--------------------------- MODULE OperationBudget ---------------------------
(***************************************************************************)
(* A worker that bounds one operation after the other by what its call and *)
(* its invocation still leave (resolve_lambda_operation_timeout): it asks  *)
(* for a timeout, runs the operation no longer than that, and asks again.  *)
(***************************************************************************)
EXTENDS Budget

CONSTANTS
    Timeout,    \* what the runtime grants the invocation
    Deadlines,  \* possible deadlines of calls, on a clock that starts at 0
    Policies    \* the limit records operations come with

ASSUME OperationAssumption ==
    Timeout \in Nat /\ Deadlines \subseteq Nat /\ Policies \subseteq Limits

VARIABLES
    deadline,   \* the call's fixed deadline
    now,        \* both clocks: the time since the invocation started
    limits,     \* the policy of the operation at hand
    timeout     \* what was resolved for it, None to skip it

vars == <<deadline, now, limits, timeout>>

Left == Timeout - now   \* get_remaining_time_in_millis

Init ==
    /\ deadline \in Deadlines
    /\ now = 0
    /\ limits \in Policies
    /\ timeout = OperationTimeout(deadline, now, Left, limits)

\* The operation takes at most its timeout; then the next one is resolved.
Operate ==
    /\ timeout # None
    /\ now' \in now..(now + timeout)
    /\ limits' \in Policies
    /\ timeout' = OperationTimeout(deadline, now', Left', limits')
    /\ UNCHANGED deadline

\* The operation is skipped: another one may still fit.
Skip ==
    /\ timeout = None
    /\ limits' \in Policies
    /\ timeout' = OperationTimeout(deadline, now, Left, limits')
    /\ UNCHANGED <<deadline, now>>

Next == Operate \/ Skip

Spec == Init /\ [][Next]_vars

-----------------------------------------------------------------------------
\* The timeout is the longest one that fits what is left of the call and of the
\* invocation, and an operation is skipped only when none fits: neither the cap,
\* the reserve, the rounding nor their order gains or loses time.
TimeoutIsLongestFit ==
    IsLongestFit(timeout, Lesser(CallRemaining(deadline, now), Left), limits)

\* After operations of any policies, neither the call's deadline nor the
\* invocation's end has passed, and no operation runs into the reserve of its own.
OperationsEndInTime ==
    /\ now > 0 => now <= Lesser(deadline, Timeout)
    /\ timeout # None =>
           now + timeout + limits.reserve <= Lesser(deadline, Timeout)
=============================================================================
