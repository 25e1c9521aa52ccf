---------------------------- MODULE VoiceSession ----------------------------
(***************************************************************************)
(* One call through its voice steps, as the claimed helpers compose them:  *)
(* a keypad menu or a spoken request, its classification, the confirmation *)
(* of the intent, and at most two forwarding attempts.  A step's callback  *)
(* is handled by a process that loads the session, authenticates and binds *)
(* the callback, claims the step, decides, asks the whole-call budgets and *)
(* saves the next step before it is emitted.  The callback may be          *)
(* delivered again, processes may die, and the stored status and the       *)
(* routes change at any time.                                              *)
(*                                                                         *)
(* The helpers are the code's.  The adapter that keeps the session is not  *)
(* in the repository: it does here what the helpers ask of their callers.  *)
(***************************************************************************)
EXTENDS VoicePolicies

CONSTANTS
    Handlers,         \* processes that may handle callbacks at the same time
    Labels, MenuOf,   \* the intents, and those of the menu's digits
    Removable,        \* the intents whose destination may be taken away
    Digits, Spoken, DialResults,   \* what callers and legs may answer
    Observations,     \* statuses the provider may report of the call
    MaxCrashes        \* bound on the processes that die

ASSUME SessionAssumption ==
    /\ None \notin Labels \cup Digits \cup DialResults
    /\ \A digit \in DOMAIN MenuOf :
          digit \notin {HangupDigit, None} /\ MenuOf[digit] \in Labels
    /\ Spoken \subseteq [text : {"admissible", "silence"}, score : Scores]
    /\ Observations \subseteq Known
    /\ MaxCrashes \in Nat

VARIABLES
    session,   \* what is stored of the call: its step, counts, intent, target
    status,    \* the stored status of the call leg, or None
    routes,    \* the labels that have a destination
    claims,    \* the steps that are claimed
    emitted,   \* whether the current step has reached the provider
    posted,    \* the provider's last callback, delivered any number of times
    handler,   \* what each process is doing
    crashes,   \* the processes that died
    asked,     \* history: how often each stage was emitted
    dropped    \* history: a process died after it had claimed a step

vars == <<session, status, routes, claims, emitted, posted, handler, crashes,
          asked, dropped>>

outside == <<status, routes>>

Stages == {"menu", "speech", "confirm", "dial"}

\* A callback without any field that a step reads.
Silence ==
    [digits |-> None, text |-> "silence", score |-> NoScore, result |-> None]

\* What the provider may report of a step.
Answers(stage) ==
    CASE stage \in {"menu", "confirm"} ->
             {[Silence EXCEPT !.digits = d] : d \in Digits \cup {None}}
      [] stage = "speech" ->
             {[Silence EXCEPT !.text = s.text, !.score = s.score] : s \in Spoken}
      [] stage = "dial" ->
             {[Silence EXCEPT !.result = r] : r \in DialResults \cup {None}}

\* What is stored of a call.
Sessions ==
    [stage : Stages \cup {"over"}, step : Nat \ {0}, attempts : Nat,
     intent : Labels \cup {None}, target : Labels \cup {FallbackTarget, None},
     fallbackUsed : BOOLEAN, transitions : Nat]

Callbacks ==
    [digits : Digits \cup {None}, text : {"admissible", "silence"},
     score : Scores, result : DialResults \cup {None}]

\* A process and what it holds: "loaded" before it has claimed the step, and from
\* then on the step it is about to save.
Processes ==
    [pc : {"idle", "saved"}]
    \cup [pc : {"loaded"}, at : Sessions, known : SUBSET Labels, fields : Callbacks]
    \cup [pc : {"classifying", "decided"}, at : Sessions]
    \cup [pc : {"admitted"}, at : Sessions, seen : Known \cup {None}]

TypeOK ==
    /\ session \in Sessions
    /\ status  \in Known \cup {None}
    /\ routes  \in SUBSET Labels
    /\ claims  \in SUBSET Nat
    /\ emitted \in BOOLEAN
    /\ posted  \in [step : Nat, fields : Callbacks, configured : SUBSET Labels]
    /\ handler \in [Handlers -> Processes]
    /\ crashes \in 0..MaxCrashes
    /\ asked   \in [Stages -> Nat]
    /\ dropped \in BOOLEAN

Idle == [pc |-> "idle"]

Init ==
    /\ \E stage \in {"menu", "speech"} :
          /\ session = [stage |-> stage, step |-> 1, attempts |-> 0,
                        intent |-> None, target |-> None,
                        fallbackUsed |-> FALSE, transitions |-> 0]
          /\ asked = [s \in Stages |-> IF s = stage THEN 1 ELSE 0]
    /\ status = None /\ routes = Labels
    /\ claims = {}
    /\ emitted = TRUE
    /\ posted = [step |-> 0, fields |-> Silence, configured |-> {}]
    /\ handler = [h \in Handlers |-> Idle]
    /\ crashes = 0
    /\ dropped = FALSE

-----------------------------------------------------------------------------
\* The step that a decision asks for next; "over" ends the call.
Over(s) == [s EXCEPT !.stage = "over"]

Dial(s, target) == [s EXCEPT !.stage = "dial", !.target = target, !.attempts = 0]

AfterCollection(s, decision) ==
    CASE decision.action = "hangup" -> Over(s)
      [] decision.action = "retry"  -> [s EXCEPT !.attempts = decision.attempts]
      [] decision.action \in {"route", "fallback"} -> Dial(s, decision.target)

AfterClassification(s, intent) ==
    IF intent = None
    THEN Dial(s, FallbackTarget)
    ELSE [s EXCEPT !.stage = "confirm", !.intent = intent, !.attempts = 0]

AfterDial(s, decision) ==
    IF decision.action = "hangup"
    THEN Over(s)
    ELSE [Dial(s, decision.target) EXCEPT !.fallbackUsed = TRUE]

\* A snapshot of the routes: every label that is known names its destination.
Menu(known)   == [d \in {x \in DOMAIN MenuOf : MenuOf[x] \in known} |-> MenuOf[d]]
Routes(known) == [label \in known |-> label]

Decided(s, fields, known) ==
    CASE s.stage = "menu" ->
             AfterCollection(s, Gather(fields.digits, Menu(known), s.attempts))
      [] s.stage = "confirm" ->
             AfterCollection(s, Confirm(fields.digits, s.intent, Routes(known),
                                        s.attempts))
      [] s.stage = "speech" ->
             AfterCollection(s, Speech(fields.text, fields.score, s.attempts))
      [] s.stage = "dial" ->
             AfterDial(s, DialResult(fields.result, s.fallbackUsed))

Classifies(s, fields) ==
    /\ s.stage = "speech"
    /\ Speech(fields.text, fields.score, s.attempts).action = "classify"

-----------------------------------------------------------------------------
\* Plausible bug: the child leg of a dial callback is not compared.
AnyLeg(callback, s) == TRUE

\* The callback's child leg is the one of the current forwarding attempt.
SameLeg(callback, s) == callback.step = s.step

\* The adapter's current-step check of a collection.
CurrentStep(callback, s) == callback.step = s.step

Bound(callback, s) ==
    IF s.stage = "dial" THEN SameLeg(callback, s) ELSE CurrentStep(callback, s)

\* A dial result that the policy knows; it raises on any other.
Readable(s, fields) == s.stage = "dial" => fields.result \in DialStatuses

\* Plausible bug: a dial result is read only after the step is claimed.
ClaimsUnread(s, fields) == TRUE

\* A malformed dial result is refused before the claim.
MayClaim(s, fields) == Readable(s, fields)

\* A process has loaded the session, and the callback is genuine and bound.
Receive(h) ==
    /\ handler[h].pc = "idle" /\ session.stage # "over"
    /\ posted.step > 0 /\ Bound(posted, session)
    /\ handler' = [handler EXCEPT ![h] =
          [pc |-> "loaded", at |-> session, known |-> routes,
           fields |-> posted.fields]]
    /\ UNCHANGED <<session, outside, claims, emitted, posted, crashes, asked,
                   dropped>>

\* The process claims the step and decides; a replay or an error ends it.
Claim(h) ==
    LET s == handler[h].at  fields == handler[h].fields
        admitted == MayClaim(s, fields) /\ s.step \notin claims
    IN  /\ handler[h].pc = "loaded"
        /\ claims' = IF admitted THEN claims \cup {s.step} ELSE claims
        /\ handler' = [handler EXCEPT ![h] =
              IF ~admitted \/ ~Readable(s, fields) THEN Idle
              ELSE IF Classifies(s, fields) THEN [pc |-> "classifying", at |-> s]
              ELSE [pc |-> "decided", at |-> Decided(s, fields, handler[h].known)]]
        /\ UNCHANGED <<session, outside, emitted, posted, crashes, asked, dropped>>

\* The classifier answers with an allowed label, or with anything else.
Classify(h) ==
    /\ handler[h].pc = "classifying"
    /\ \E response \in Labels \cup {"unusable"} :
          handler' = [handler EXCEPT ![h] =
             [pc |-> "decided",
              at |-> AfterClassification(@.at, Parse(response, Labels))]]
    /\ UNCHANGED <<session, outside, claims, emitted, posted, crashes, asked,
                   dropped>>

\* New work asks both budgets, with the stored status and a reading of a clock
\* that may be set back; when they deny it the call is over.
Admit(h) ==
    LET next == handler[h].at
    IN  /\ handler[h].pc = "decided" /\ next.stage # "over"
        /\ \E now \in 0..Deadline :
              handler' = [handler EXCEPT ![h] =
                 IF StepAdmitted(status, now, next.transitions)
                 THEN [pc |-> "admitted", at |-> next, seen |-> status]
                 ELSE [pc |-> "decided", at |-> Over(next)]]
        /\ UNCHANGED <<session, outside, claims, emitted, posted, crashes, asked,
                       dropped>>

\* A step as it is stored, with its transition spent.
Saved(next) == [next EXCEPT !.step = @ + 1, !.transitions = @ + 1]

\* The adapter's conditional write of the step and its count; on a conflict the
\* status is loaded again and the admission computed anew.
Save(h) ==
    LET next == handler[h].at
    IN  /\ handler[h].pc = "admitted"
        /\ IF session.step = next.step /\ status = handler[h].seen
           THEN /\ session' = Saved(next)
                /\ emitted' = FALSE
                /\ asked' = [asked EXCEPT ![next.stage] = @ + 1]
                /\ handler' = [handler EXCEPT ![h] = [pc |-> "saved"]]
           ELSE /\ handler' = [handler EXCEPT ![h] = [pc |-> "decided", at |-> next]]
                /\ UNCHANGED <<session, emitted, asked>>
        /\ UNCHANGED <<outside, claims, posted, crashes, dropped>>

\* The answer to the provider, with the saved step.
Emit(h) ==
    /\ handler[h].pc = "saved"
    /\ emitted' = TRUE
    /\ handler' = [handler EXCEPT ![h] = Idle]
    /\ UNCHANGED <<session, outside, claims, posted, crashes, asked, dropped>>

\* A decision or a denial that ends the call needs no budget.
HangUp(h) ==
    /\ handler[h].pc = "decided" /\ handler[h].at.stage = "over"
    /\ session' = Over(session)
    /\ handler' = [handler EXCEPT ![h] = Idle]
    /\ UNCHANGED <<outside, claims, emitted, posted, crashes, asked, dropped>>

\* A process dies; a claim it holds is not given back.
Crash(h) ==
    /\ handler[h].pc # "idle" /\ crashes < MaxCrashes
    /\ crashes' = crashes + 1
    /\ handler' = [handler EXCEPT ![h] = Idle]
    /\ dropped' = (dropped \/ handler[h].pc # "loaded")
    /\ UNCHANGED <<session, outside, claims, emitted, posted, asked>>

-----------------------------------------------------------------------------
\* The provider reports of the step that it runs, a leg at first possibly with
\* a result that cannot be read.
Post ==
    /\ emitted /\ session.stage # "over"
    /\ \/ posted.step < session.step
       \/ session.stage = "dial" /\ posted.fields.result = None
    /\ \E fields \in Answers(session.stage) :
          /\ posted.step = session.step => fields # posted.fields
          /\ posted' = [step |-> session.step, fields |-> fields,
                        configured |-> routes]
    /\ UNCHANGED <<session, outside, claims, emitted, handler, crashes, asked,
                   dropped>>

\* A status callback is stored.
Observe ==
    /\ \E incoming \in Observations : status' = Advance(status, incoming)
    /\ UNCHANGED <<session, routes, claims, emitted, posted, handler, crashes,
                   asked, dropped>>

\* The workspace takes a destination away.
RemoveRoute ==
    /\ \E label \in routes \cap Removable : routes' = routes \ {label}
    /\ UNCHANGED <<session, status, claims, emitted, posted, handler, crashes,
                   asked, dropped>>

Work(h) == Claim(h) \/ Classify(h) \/ Admit(h) \/ Save(h) \/ Emit(h) \/ HangUp(h)

Next ==
    \/ \E h \in Handlers : Receive(h) \/ Work(h) \/ Crash(h)
    \/ Post \/ Observe \/ RemoveRoute

Spec == Init /\ [][Next]_vars

\* The provider reports of every step that it runs, a callback is handled, and a
\* process that does not die goes on.
Fairness ==
    /\ WF_vars(Post)
    /\ WF_vars(\E h \in Handlers : Receive(h))
    /\ \A h \in Handlers : WF_vars(Work(h))

FairSpec == Spec /\ Fairness

-----------------------------------------------------------------------------
(***************************************************************************)
(* Properties.                                                             *)
(***************************************************************************)

\* All work is paid for and bounded: each step after the first spends one
\* transition, whoever handles it and however often it is delivered; no stage
\* prompts more than its attempts, and no call is forwarded more than twice.
WorkIsPaid ==
    /\ session.transitions <= MaxTransitions
    /\ asked["menu"] + asked["speech"] + asked["confirm"] + asked["dial"]
           = session.transitions + 1
    /\ \A stage \in Stages : stage # "dial" => asked[stage] <= MaxAttempts
    /\ asked["dial"] <= 2

\* No new work is saved once the stored status is terminal or the call was
\* denied work, not even by a process that was admitted before, or after the
\* clock was set back.
NothingAfterTheEnd ==
    [][session'.step # session.step
          => session.stage # "over" /\ status \notin Terminal]_vars

\* A forwarding attempt is decided by its own leg only: a result that arrives
\* late from the first leg neither ends nor repeats the fallback.  A second
\* attempt follows one failure, and no other result.
OldLegsDecideNothing ==
    [][session.stage = "dial" /\ session' # session
          => /\ posted.step = session.step
             /\ session'.stage # "over"
                   => /\ posted.fields.result \in FailedDials
                      /\ ~session.fallbackUsed]_vars

\* A destination other than the fallback is dialled only when the caller chose
\* it in this very step, and it was still configured when the caller did.
DestinationsAreChosen ==
    [][session'.stage = "dial" /\ session'.target # FallbackTarget
       /\ session'.step # session.step
          => LET digits == posted.fields.digits
             IN  /\ posted.step = session.step
                 /\ session'.target \in posted.configured
                 /\ \/ /\ session.stage = "menu"
                       /\ digits \in DOMAIN MenuOf
                       /\ session'.target = MenuOf[digits]
                    \/ /\ session.stage = "confirm" /\ digits = "1"
                       /\ session'.target = session.intent]_vars

\* The steps that a callback may lead to.
Outcomes(s, fields, known) ==
    CASE ~Readable(s, fields) -> {}
      [] Classifies(s, fields) ->
             {AfterClassification(s, intent) : intent \in Labels \cup {None}}
      [] OTHER -> {Decided(s, fields, known)}

\* Whoever reads the session sees one step after the other, each decided by its own
\* callback and stored once, whatever the processes do: overlap, repeat or die.
Call == INSTANCE VoiceCall WITH callback <- posted, Final <- Terminal
ImplementsCall == Call!Spec

\* Every call comes to an end by itself, unless a process died with a claim.
CallSettles ==
    <>(session.stage = "over" \/ status \in Terminal \/ dropped)
=============================================================================
