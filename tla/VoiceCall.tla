----------------------------- MODULE VoiceCall -----------------------------
(***************************************************************************)
(* What the claimed helpers promise together: one call as it looks to      *)
(* whoever reads its session.  The step that runs is decided once, by the  *)
(* callback that reports of it, and what follows is there at once or not   *)
(* at all.  Processes, claims, redeliveries and deaths cannot be seen.     *)
(***************************************************************************)
EXTENDS Naturals

CONSTANTS
    Outcomes(_, _, _),  \* the steps that the fields of a callback may lead a
                        \*   session to, by the routes that are known
    Saved(_), Over(_),  \* a step as the session of the call, and a session's end
    Final,              \* the statuses of a call that has ended
    MaxTransitions

VARIABLES
    session,    \* the step of the call that runs
    status,     \* the stored status of the call
    routes,     \* the labels that have a destination
    callback    \* what was last reported: of which step, its fields, the routes then

view == <<session, status, routes, callback>>

Init ==
    /\ session.stage # "over"
    /\ callback.step < session.step

\* The provider reports of the step that runs.
Report ==
    /\ session.stage # "over"
    /\ callback'.step = session.step /\ callback'.configured = routes
    /\ UNCHANGED <<session, status, routes>>

\* The next step: the callback leads to it with routes that were there between the
\* report and now, the call has not ended, and one more transition is left.
Proceed ==
    /\ session.stage # "over" /\ callback.step = session.step
    /\ status \notin Final
    /\ session.transitions < MaxTransitions
    /\ \E known \in SUBSET callback.configured :
          /\ routes \subseteq known
          /\ \E next \in Outcomes(session, callback.fields, known) :
                next.stage # "over" /\ session' = Saved(next)
    /\ UNCHANGED <<status, routes, callback>>

\* The callback, or a budget, ends the call.
End ==
    /\ session.stage # "over" /\ callback.step = session.step
    /\ session' = Over(session)
    /\ UNCHANGED <<status, routes, callback>>

\* A status is stored, or a destination taken away.
Outside ==
    /\ routes' \subseteq routes
    /\ UNCHANGED <<session, callback>>

Next == Report \/ Proceed \/ End \/ Outside

Spec == Init /\ [][Next]_view
=============================================================================
