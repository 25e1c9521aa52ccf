---------------------------- MODULE VoicePolicies ----------------------------
(***************************************************************************)
(* What the voice helpers decide from one callback: keypad menus           *)
(* (gather.py), speech (speech.py), the classifier's answer                *)
(* (classification.py), the confirmation of an intent (intent.py), the     *)
(* result of a forwarding attempt (dial.py) and the admission of the next  *)
(* step (budget.py).  Each is a function of the trusted state it is given  *)
(* and of the fields of the callback; None is a field that is missing.     *)
(***************************************************************************)
EXTENDS CallStatus, Integers

CONSTANTS
    MaxAttempts,      \* collections of one stage
    HangupDigit,      \* ends a collection without a destination
    FallbackTarget,   \* the destination when nothing was chosen
    MinimumScore,     \* minimum_confidence_percent, or NoScore
    RequireScore,     \* require_confidence
    MaxTransitions, Deadline, MinimumRemaining   \* whole-call budgets

B == INSTANCE Budget

ASSUME VoiceAssumption ==
    /\ MaxAttempts \in Nat \ {0}
    /\ HangupDigit \notin {"1", "2", None} /\ FallbackTarget # None
    /\ MinimumScore \in -1..100 /\ RequireScore \in BOOLEAN
    /\ MaxTransitions \in Nat /\ Deadline \in Nat
    /\ MinimumRemaining \in Nat \ {0}

Decision(action, target, attempts) ==
    [action |-> action, target |-> target, attempts |-> attempts]

-----------------------------------------------------------------------------
\* Plausible bug: one collection more than the attempts allow.
RetryOnceMore(completed) == completed <= MaxAttempts

MayRetry(completed) == completed < MaxAttempts

\* What an input that selects nothing leads to.
Unanswered(completed) ==
    IF MayRetry(completed)
    THEN Decision("retry", None, completed)
    ELSE Decision("fallback", FallbackTarget, completed)

\* resolve_gather: an exhausted budget falls back whatever the caller pressed.
Gather(digits, menu, attempts) ==
    IF attempts >= MaxAttempts
    THEN Decision("fallback", FallbackTarget, attempts)
    ELSE IF digits = HangupDigit THEN Decision("hangup", None, attempts + 1)
    ELSE IF digits \in DOMAIN menu
    THEN Decision("route", menu[digits], attempts + 1)
    ELSE Unanswered(attempts + 1)

\* Plausible bug: silence after the prompt is taken for consent.
SilenceConfirms(digits, intent, routes, attempts) ==
    Gather(IF digits = None THEN "1" ELSE digits,
           [d \in {"1", "2"} |->
               IF d = "1" /\ intent \in DOMAIN routes
               THEN routes[intent] ELSE FallbackTarget],
           attempts)

\* resolve_intent_confirmation: 1 takes the pending intent's route, if it still
\* has one, and 2 declines it.
Confirm(digits, intent, routes, attempts) ==
    LET known == intent \in DOMAIN routes
        menu  == [d \in {"1", "2"} |->
                     IF d = "1" /\ known THEN routes[intent] ELSE FallbackTarget]
        answer == Gather(digits, menu, attempts)
    IN  IF known /\ digits # "2" THEN answer
        ELSE Decision("fallback", FallbackTarget, answer.attempts)

-----------------------------------------------------------------------------
\* A provider's score in percent; what is not a decimal from 0 to 1 is malformed.
NoScore        == -1
MalformedScore == -2
Scores         == 0..100 \cup {NoScore, MalformedScore}

ConfidenceMeetsMinimum(score) ==
    \/ MinimumScore = NoScore /\ ~RequireScore
    \/ score = NoScore /\ ~RequireScore
    \/ score \in 0..100 /\ score >= MinimumScore

\* resolve_speech_gather, for a text that the limits admit or not: what is not
\* classified is a collection without an answer.
Speech(text, score, attempts) ==
    LET budget == Gather(None, <<>>, attempts)
    IN  IF /\ attempts < MaxAttempts
           /\ text = "admissible" /\ ConfidenceMeetsMinimum(score)
        THEN Decision("classify", None, budget.attempts)
        ELSE budget

\* parse_intent_response: an allowed label, or nothing.
Parse(response, allowed) == IF response \in allowed THEN response ELSE None

-----------------------------------------------------------------------------
FailedDials   == {"busy", "no-answer", "failed"}
FinishedDials == {"completed", "canceled"}
DialStatuses  == FailedDials \cup FinishedDials

\* resolve_dial_result: one fallback after a failed attempt.
DialResult(status, fallbackUsed) ==
    IF status \in FailedDials /\ ~fallbackUsed
    THEN [action |-> "fallback", target |-> FallbackTarget]
    ELSE [action |-> "hangup", target |-> None]

-----------------------------------------------------------------------------
TransitionLeft(transitions) == transitions < MaxTransitions

\* Plausible bug: the stored status of the call is not looked at.
BudgetsOnly(status, now, transitions) ==
    /\ B!Admits(B!CallRemaining(Deadline, now), MinimumRemaining)
    /\ TransitionLeft(transitions)

\* resolve_voice_step_budget: its action is "continue", and then one more
\* transition is spent.
StepAdmitted(status, now, transitions) ==
    /\ status \notin Terminal
    /\ B!Admits(B!CallRemaining(Deadline, now), MinimumRemaining)
    /\ TransitionLeft(transitions)
=============================================================================
