------------------------- MODULE VoiceSessionProofs -------------------------
(***************************************************************************)
(* Theorems about one call through its voice steps, for any processes,     *)
(* intents, menus, routes, answers, attempts and budgets.                  *)
(*                                                                         *)
(* The claim is what the proof turns on: the steps that are claimed are    *)
(* those up to the current one, so at most one process is past the claim   *)
(* at a time, and while it is nobody else changes the session, nor does    *)
(* the provider's callback change.  What that process is about to save     *)
(* then follows the session and is earned by the callback.                 *)
(***************************************************************************)
EXTENDS VoiceSession, CallStatusProofs

-----------------------------------------------------------------------------
(***************************************************************************)
(* What the policies may decide.                                           *)
(***************************************************************************)
Collections == {"menu", "speech", "confirm"}

\* n is a step that may follow the session s.
Follows(s, n) ==
    /\ n.step = s.step /\ n.transitions = s.transitions
    /\ \/ n.stage = "over"
       \/ /\ n.stage \in Collections /\ n.stage = s.stage
          /\ n.attempts = s.attempts + 1 /\ n.attempts < MaxAttempts
          /\ n.fallbackUsed = s.fallbackUsed
       \/ /\ s.stage = "speech" /\ n.stage = "confirm" /\ n.attempts = 0
          /\ n.fallbackUsed = s.fallbackUsed
       \/ /\ s.stage \in Collections /\ n.stage = "dial"
          /\ n.fallbackUsed = s.fallbackUsed
       \/ /\ s.stage = "dial" /\ n.stage = "dial"
          /\ ~s.fallbackUsed /\ n.fallbackUsed

\* The caller of s chose the target by these digits, and it was configured.
Chosen(s, target, digits, configured) ==
    /\ target \in configured
    /\ \/ /\ s.stage = "menu" /\ digits \in DOMAIN MenuOf /\ target = MenuOf[digits]
       \/ /\ s.stage = "confirm" /\ digits = "1" /\ target = s.intent

\* The callback's fields justify a forwarding attempt in n.
Earned(s, n, fields, configured) ==
    n.stage = "dial" =>
       /\ s.stage = "dial" => fields.result \in FailedDials
       /\ n.target # FallbackTarget => Chosen(s, n.target, fields.digits, configured)

\* The decision d of a collection with that many attempts before it.
Collected(d, attempts) ==
    /\ d.action \in {"hangup", "retry", "route", "fallback"}
    /\ d.attempts \in Nat
    /\ d.action = "retry" => d.attempts = attempts + 1 /\ d.attempts < MaxAttempts
    /\ d.action = "fallback" => d.target = FallbackTarget

\* resolve_gather retries below the limit, routes what the menu has, and otherwise
\* falls back or hangs up.
LEMMA GatherDecides ==
    ASSUME NEW digits, NEW menu, NEW attempts \in Nat
    PROVE  /\ Collected(Gather(digits, menu, attempts), attempts)
           /\ Gather(digits, menu, attempts).action = "route" =>
                 /\ digits \in DOMAIN menu /\ digits # HangupDigit
                 /\ Gather(digits, menu, attempts).target = menu[digits]
  BY VoiceAssumption DEF Collected, Gather, Unanswered, MayRetry, Decision

\* Without digits nothing is routed.
LEMMA NothingPressed ==
    ASSUME NEW attempts \in Nat
    PROVE  Gather(None, <<>>, attempts).action # "route"
  BY VoiceAssumption DEF Gather, Unanswered, MayRetry, Decision

\* resolve_intent_confirmation routes only the pending intent, on a 1, while it has
\* a route.
LEMMA ConfirmDecides ==
    ASSUME NEW digits, NEW intent, NEW known, NEW attempts \in Nat
    PROVE  LET d == Confirm(digits, intent, Routes(known), attempts)
           IN  /\ Collected(d, attempts)
               /\ d.action = "route" => digits = "1" /\ intent \in known /\ d.target = intent
<1> DEFINE menu == [x \in {"1", "2"} |->
                      IF x = "1" /\ intent \in DOMAIN Routes(known)
                      THEN Routes(known)[intent] ELSE FallbackTarget]
           answer == Gather(digits, menu, attempts)
           c == Confirm(digits, intent, Routes(known), attempts)
<1>1. /\ Collected(answer, attempts)
      /\ answer.action = "route" => digits \in {"1", "2"} /\ answer.target = menu[digits]
  BY GatherDecides
<1>2. c = IF intent \in known /\ digits # "2"
          THEN answer ELSE Decision("fallback", FallbackTarget, answer.attempts)
  BY DEF Confirm, Routes
<1>3. intent \in known => menu["1"] = intent
  BY DEF Routes
<1> HIDE DEF menu, answer, c
<1>4. Collected(c, attempts)
  BY <1>1, <1>2 DEF Collected, Decision
<1>5. c.action = "route" => digits = "1" /\ intent \in known /\ c.target = intent
  BY <1>1, <1>2, <1>3 DEF Decision
<1> QED BY <1>4, <1>5 DEF c

\* What Over and Dial change of a session.
LEMMA NextSessions ==
    ASSUME NEW s \in Sessions, NEW t \in Labels \cup {FallbackTarget, None}
    PROVE  /\ Over(s) \in Sessions /\ Over(s).stage = "over"
           /\ Over(s).step = s.step /\ Over(s).transitions = s.transitions
           /\ Dial(s, t) \in Sessions
           /\ Dial(s, t).stage = "dial" /\ Dial(s, t).target = t
           /\ Dial(s, t).step = s.step /\ Dial(s, t).transitions = s.transitions
           /\ Dial(s, t).fallbackUsed = s.fallbackUsed
<1>1. Over(s) \in Sessions
  BY DEF Over, Sessions
<1>2. Dial(s, t) \in Sessions
  BY DEF Dial, Sessions, Stages
<1> QED BY <1>1, <1>2 DEF Over, Dial, Sessions

\* What a collection of the session s leads to, whatever its policy decided.
LEMMA CollectionsFollow ==
    ASSUME NEW s \in Sessions, s.stage \in Collections, NEW d,
           Collected(d, s.attempts), d.action = "route" => d.target \in Labels
    PROVE  LET n == AfterCollection(s, d)
           IN  /\ n \in Sessions /\ Follows(s, n)
               /\ n.stage = "dial" /\ n.target # FallbackTarget =>
                     d.action = "route" /\ n.target = d.target
<1> DEFINE m == AfterCollection(s, d)
<1>1. CASE d.action = "hangup"
  <2>1. m = Over(s)
    BY <1>1 DEF AfterCollection
  <2> QED BY <2>1, NextSessions DEF Follows
<1>2. CASE d.action = "retry"
  <2>1. m = [s EXCEPT !.attempts = d.attempts]
    BY <1>2 DEF AfterCollection
  <2>2. d.attempts \in Nat /\ d.attempts = s.attempts + 1 /\ d.attempts < MaxAttempts
    BY <1>2 DEF Collected
  <2>3. /\ m \in Sessions /\ m.stage = s.stage /\ m.step = s.step
        /\ m.transitions = s.transitions /\ m.attempts = d.attempts
        /\ m.fallbackUsed = s.fallbackUsed
    BY <2>1, <2>2 DEF Sessions
  <2>4. Follows(s, m) /\ m.stage # "dial"
    BY <2>2, <2>3 DEF Follows, Collections
  <2> QED BY <2>3, <2>4
<1>3. CASE d.action \in {"route", "fallback"}
  <2>1. m = Dial(s, d.target) /\ d.target \in Labels \cup {FallbackTarget, None}
    BY <1>3 DEF AfterCollection, Collected
  <2>2. Follows(s, m)
    BY <2>1, NextSessions DEF Follows
  <2>3. m.target # FallbackTarget => d.action = "route"
    BY <1>3, <2>1, NextSessions DEF Collected
  <2> QED BY <2>1, <2>2, <2>3, NextSessions
<1> QED BY <1>1, <1>2, <1>3 DEF Collected

\* What the failure of a forwarding attempt, or its end, leads to.
LEMMA DialsFollow ==
    ASSUME NEW s \in Sessions, s.stage = "dial", NEW result
    PROVE  LET n == AfterDial(s, DialResult(result, s.fallbackUsed))
           IN  /\ n \in Sessions /\ Follows(s, n)
               /\ n.stage = "dial" => result \in FailedDials /\ n.target = FallbackTarget
<1> DEFINE d == DialResult(result, s.fallbackUsed)
           m == AfterDial(s, d)
<1>1. CASE result \in FailedDials /\ ~s.fallbackUsed
  <2> DEFINE e == Dial(s, FallbackTarget)
  <2>1. m = [e EXCEPT !.fallbackUsed = TRUE]
    BY <1>1 DEF DialResult, AfterDial
  <2>2. /\ e \in Sessions /\ e.stage = "dial" /\ e.step = s.step
        /\ e.transitions = s.transitions /\ e.target = FallbackTarget
    BY NextSessions
  <2> HIDE DEF e
  <2>3. /\ m \in Sessions /\ m.stage = "dial" /\ m.step = s.step
        /\ m.transitions = s.transitions /\ m.target = FallbackTarget /\ m.fallbackUsed
    BY <2>1, <2>2 DEF Sessions
  <2>4. Follows(s, m)
    BY <1>1, <2>3 DEF Follows
  <2> QED BY <1>1, <2>3, <2>4
<1>2. CASE ~(result \in FailedDials /\ ~s.fallbackUsed)
  <2>1. m = Over(s)
    BY <1>2 DEF DialResult, AfterDial
  <2> QED BY <2>1, NextSessions DEF Follows
<1> QED BY <1>1, <1>2

\* What the classifier's answer leads to.
LEMMA ClassificationsFollow ==
    ASSUME NEW s \in Sessions, s.stage = "speech", NEW intent \in Labels \cup {None}
    PROVE  LET n == AfterClassification(s, intent)
           IN  /\ n \in Sessions /\ Follows(s, n)
               /\ n.stage = "dial" => n.target = FallbackTarget
<1> DEFINE m == AfterClassification(s, intent)
<1>1. CASE intent = None
  <2>1. m = Dial(s, FallbackTarget)
    BY <1>1 DEF AfterClassification
  <2> QED BY <2>1, NextSessions DEF Follows, Collections
<1>2. CASE intent # None
  <2>1. m = [s EXCEPT !.stage = "confirm", !.intent = intent, !.attempts = 0]
    BY <1>2 DEF AfterClassification
  <2> DEFINE e == [s EXCEPT !.stage = "confirm"]
             f == [e EXCEPT !.intent = intent]
  <2>2. /\ e \in Sessions /\ e.stage = "confirm" /\ e.step = s.step
        /\ e.transitions = s.transitions /\ e.fallbackUsed = s.fallbackUsed
    BY DEF Sessions, Stages
  <2>3. m = [f EXCEPT !.attempts = 0]
    BY <2>1
  <2> HIDE DEF e
  <2>4. /\ f \in Sessions /\ f.stage = "confirm" /\ f.step = s.step
        /\ f.transitions = s.transitions /\ f.fallbackUsed = s.fallbackUsed
    BY <2>2 DEF Sessions
  <2> HIDE DEF f
  <2>5. /\ m \in Sessions /\ m.stage = "confirm" /\ m.step = s.step
        /\ m.transitions = s.transitions /\ m.attempts = 0
        /\ m.fallbackUsed = s.fallbackUsed
    BY <2>3, <2>4 DEF Sessions
  <2> QED BY <2>5 DEF Follows
<1> QED BY <1>1, <1>2

\* Whatever a process decides follows the session it loaded, and forwards only to
\* what the callback and the routes it loaded justify.
LEMMA DecisionsFollow ==
    ASSUME NEW s \in Sessions, s.stage \in Stages, NEW fields, NEW known \in SUBSET Labels,
           ~Classifies(s, fields)
    PROVE  /\ Decided(s, fields, known) \in Sessions
           /\ Follows(s, Decided(s, fields, known))
           /\ Earned(s, Decided(s, fields, known), fields, known)
<1>0. s.attempts \in Nat /\ s.intent \in Labels \cup {None}
  BY DEF Sessions
<1>1. CASE s.stage = "menu"
  <2> DEFINE d == Gather(fields.digits, Menu(known), s.attempts)
             n == AfterCollection(s, d)
  <2>1. Decided(s, fields, known) = n
    BY <1>1 DEF Decided
  <2>2. /\ Collected(d, s.attempts)
        /\ d.action = "route" =>
              /\ fields.digits \in DOMAIN MenuOf
              /\ d.target = MenuOf[fields.digits] /\ d.target \in known
    BY <1>0, GatherDecides DEF Menu
  <2> HIDE DEF d
  <2>3. /\ n \in Sessions /\ Follows(s, n)
        /\ n.stage = "dial" /\ n.target # FallbackTarget =>
              d.action = "route" /\ n.target = d.target
    BY <1>1, <2>2, CollectionsFollow DEF Collections
  <2> QED BY <1>1, <2>1, <2>2, <2>3 DEF Earned, Chosen
<1>2. CASE s.stage = "confirm"
  <2> DEFINE d == Confirm(fields.digits, s.intent, Routes(known), s.attempts)
             n == AfterCollection(s, d)
  <2>1. Decided(s, fields, known) = n
    BY <1>2 DEF Decided
  <2>2. /\ Collected(d, s.attempts)
        /\ d.action = "route" =>
              fields.digits = "1" /\ s.intent \in known /\ d.target = s.intent
    BY <1>0, ConfirmDecides
  <2> HIDE DEF d
  <2>3. /\ n \in Sessions /\ Follows(s, n)
        /\ n.stage = "dial" /\ n.target # FallbackTarget =>
              d.action = "route" /\ n.target = d.target
    BY <1>2, <2>2, CollectionsFollow DEF Collections
  <2> QED BY <1>2, <2>1, <2>2, <2>3 DEF Earned, Chosen
<1>3. CASE s.stage = "speech"
  <2> DEFINE d == Speech(fields.text, fields.score, s.attempts)
             n == AfterCollection(s, d)
  <2>1. Decided(s, fields, known) = n
    BY <1>3 DEF Decided
  <2>2. d.action # "classify"
    BY <1>3 DEF Classifies
  <2>3. d = Gather(None, <<>>, s.attempts)
    BY <2>2 DEF Speech, Decision
  <2>4. Collected(d, s.attempts) /\ d.action # "route"
    BY <1>0, <2>3, GatherDecides, NothingPressed
  <2> HIDE DEF d
  <2>5. /\ n \in Sessions /\ Follows(s, n)
        /\ n.stage = "dial" /\ n.target # FallbackTarget => d.action = "route"
    BY <1>3, <2>4, CollectionsFollow DEF Collections
  <2> QED BY <1>3, <2>1, <2>4, <2>5 DEF Earned
<1>4. CASE s.stage = "dial"
  <2>1. Decided(s, fields, known) = AfterDial(s, DialResult(fields.result, s.fallbackUsed))
    BY <1>4 DEF Decided
  <2> QED BY <1>4, <2>1, DialsFollow DEF Earned
<1> QED BY <1>1, <1>2, <1>3, <1>4 DEF Stages

-----------------------------------------------------------------------------
(***************************************************************************)
(* The invariant.  A process is past the claim of the current step while   *)
(* it classifies, decides or was admitted.                                 *)
(***************************************************************************)
Decides(p)  == p.pc \in {"classifying", "decided", "admitted"}
Deciding(h) == Decides(handler[h])

\* The steps are claimed in order, and none is claimed before it is there.
Claimed == claims = 1..(session.step - 1) \/ claims = 1..session.step

\* One process at a time decides.
Alone == \A g, h \in Handlers : Deciding(g) /\ Deciding(h) => g = h

\* What a process loaded is the session as long as nobody claimed the step.  Its
\* fields are the callback's, unless a leg reported no result at first.
Loaded(p) ==
    p.pc = "loaded" =>
       /\ p.at.step <= session.step
       /\ p.at.step \notin claims =>
             /\ p.at = session /\ session.stage # "over"
             /\ posted.step = session.step
             /\ IF session.stage = "dial"
                THEN p.fields = posted.fields \/ p.fields.result = None
                ELSE p.fields = posted.fields /\ p.known \subseteq posted.configured

\* The step that a process is past the claim of is current, its callback is the
\* provider's last, and what is to be saved follows it and is earned by the callback.
Worked(p) ==
    Decides(p) =>
       /\ session.step \in claims /\ session.stage # "over"
       /\ posted.step = session.step
       /\ session.stage = "dial" => posted.fields.result # None
       /\ IF p.pc = "classifying"
          THEN p.at = session /\ session.stage = "speech"
          ELSE /\ Follows(session, p.at)
               /\ Earned(session, p.at, posted.fields, posted.configured)
       /\ p.pc = "admitted" =>
             /\ p.at.stage # "over" /\ p.seen \notin Terminal
             /\ TransitionLeft(p.at.transitions)

Loads == \A h \in Handlers : Loaded(handler[h])
Works == \A h \in Handlers : Worked(handler[h])

\* Routes are only taken away, so what is left was configured at the callback.
Posts ==
    /\ posted.step <= session.step
    /\ posted.step > 0 => routes \subseteq posted.configured

\* A call is ended by who claimed its last step.
Ends == session.stage = "over" => session.step \in claims

\* The prompts of the current stage are its completed attempts and one more.
Prompts ==
    /\ WorkIsPaid
    /\ session.stage \in Collections =>
          /\ asked[session.stage] = session.attempts + 1
          /\ asked["dial"] = 0 /\ ~session.fallbackUsed
    /\ session.stage = "speech" => asked["confirm"] = 0
    /\ session.stage = "dial" => asked["dial"] = IF session.fallbackUsed THEN 2 ELSE 1

SessionInv ==
    TypeOK /\ Claimed /\ Alone /\ Loads /\ Works /\ Posts /\ Ends /\ Prompts

\* What a process holds, by what it is doing.
LEMMA ProcessTypes ==
    ASSUME NEW p \in Processes
    PROVE  /\ p.pc \in {"idle", "saved", "loaded", "classifying", "decided", "admitted"}
           /\ p.pc \notin {"idle", "saved"} => p.at \in Sessions
           /\ p.pc = "loaded" => p.known \in SUBSET Labels /\ p.fields \in Callbacks
           /\ p.pc = "admitted" => p.seen \in Known \cup {None}
  BY DEF Processes

\* A session's fields.
LEMMA SessionTypes ==
    ASSUME NEW s \in Sessions
    PROVE  /\ s.stage \in Stages \cup {"over"} /\ s.step \in Nat \ {0}
           /\ s.attempts \in Nat /\ s.intent \in Labels \cup {None}
           /\ s.target \in Labels \cup {FallbackTarget, None}
           /\ s.fallbackUsed \in BOOLEAN /\ s.transitions \in Nat
  BY DEF Sessions

\* Before any callback nothing is claimed and one prompt was made.
LEMMA SessionStarts == Init => SessionInv
<1> SUFFICES ASSUME Init PROVE SessionInv
  OBVIOUS
<1>0. /\ status = None /\ routes = Labels /\ claims = {} /\ emitted = TRUE
      /\ posted = [step |-> 0, fields |-> Silence, configured |-> {}]
      /\ handler = [h \in Handlers |-> Idle] /\ crashes = 0 /\ dropped = FALSE
  BY DEF Init
<1>1. PICK stage \in {"menu", "speech"} :
        /\ session = [stage |-> stage, step |-> 1, attempts |-> 0,
                      intent |-> None, target |-> None,
                      fallbackUsed |-> FALSE, transitions |-> 0]
        /\ asked = [s \in Stages |-> IF s = stage THEN 1 ELSE 0]
  BY DEF Init
<1>2. /\ session \in Sessions /\ session.stage = stage /\ session.step = 1
      /\ session.attempts = 0 /\ session.transitions = 0 /\ ~session.fallbackUsed
  BY <1>1 DEF Sessions, Stages
<1>3. TypeOK
  <2>1. Idle \in Processes
    BY DEF Idle, Processes
  <2>2. Silence \in Callbacks
    BY DEF Silence, Callbacks, Scores
  <2>3. posted \in [step : Nat, fields : Callbacks, configured : SUBSET Labels]
    BY <1>0, <2>2
  <2>4. asked \in [Stages -> Nat]
    BY <1>1
  <2>5. handler \in [Handlers -> Processes]
    BY <1>0, <2>1
  <2>6. claims \in SUBSET Nat /\ routes \in SUBSET Labels /\ crashes \in 0..MaxCrashes
    BY <1>0, SessionAssumption
  <2>7. status \in Known \cup {None} /\ emitted \in BOOLEAN /\ dropped \in BOOLEAN
    BY <1>0
  <2> QED BY <1>2, <2>3, <2>4, <2>5, <2>6, <2>7 DEF TypeOK
<1>4. Claimed
  BY <1>0, <1>2 DEF Claimed
<1>5. Alone /\ Loads /\ Works
  <2>1. \A h \in Handlers : handler[h].pc = "idle"
    BY <1>0 DEF Idle
  <2> QED BY <2>1 DEF Alone, Loads, Works, Deciding, Decides, Loaded, Worked
<1>6. Posts /\ Ends
  BY <1>0, <1>2 DEF Posts, Ends
<1>7. Prompts
  <2>1. \A s \in Stages : asked[s] = IF s = stage THEN 1 ELSE 0
    BY <1>1
  <2>2. WorkIsPaid
    BY <1>2, <2>1, VoiceAssumption DEF WorkIsPaid, Stages
  <2> QED BY <1>2, <2>1, <2>2 DEF Prompts, Collections, Stages
<1> QED BY <1>3, <1>4, <1>5, <1>6, <1>7 DEF SessionInv

\* A step of one process h to p that leaves the session, the claims and the callback
\* as they are.
LEMMA ProcessSteps ==
    ASSUME SessionInv, NEW h \in Handlers, NEW p \in Processes,
           handler' = [handler EXCEPT ![h] = p],
           UNCHANGED <<session, outside, claims, posted, asked>>,
           emitted' \in BOOLEAN, crashes' \in 0..MaxCrashes, dropped' \in BOOLEAN,
           Loaded(p), Worked(p), Decides(p) => Deciding(h)
    PROVE  SessionInv'
<1> USE DEF SessionInv
<1>1. TypeOK'
  BY DEF TypeOK, outside
<1>2. \A g \in Handlers : handler'[g] = IF g = h THEN p ELSE handler[g]
  BY DEF TypeOK
<1>3. Alone'
  BY <1>2 DEF Alone, Deciding
<1>4. Loads'
  BY <1>2 DEF Loads, Loaded
<1>5. Works'
  BY <1>2 DEF Works, Worked, Decides, Follows, Earned, Chosen, TransitionLeft
<1>6. Claimed' /\ Posts' /\ Ends' /\ Prompts'
  BY DEF Claimed, Posts, Ends, Prompts, WorkIsPaid, outside
<1> QED BY <1>1, <1>3, <1>4, <1>5, <1>6

\* Loading the session: the callback is bound to the current step.
LEMMA ReceiveKeeps ==
    ASSUME SessionInv, NEW h \in Handlers, Receive(h)
    PROVE  SessionInv'
<1> DEFINE p == [pc |-> "loaded", at |-> session, known |-> routes,
                 fields |-> posted.fields]
<1>1. p \in Processes
  BY DEF SessionInv, TypeOK, Processes
<1>2. /\ posted.step > 0 /\ posted.step = session.step /\ session.stage # "over"
  BY DEF Receive, Bound, SameLeg, CurrentStep
<1>3. session.step <= session.step
  BY SessionTypes DEF SessionInv, TypeOK
<1>4. Loaded(p)
  BY <1>2, <1>3 DEF Loaded, SessionInv, Posts
<1>5. ~Decides(p) /\ Worked(p)
  BY DEF Decides, Worked
<1> HIDE DEF p
<1> QED BY <1>1, <1>4, <1>5, ProcessSteps DEF Receive, p, SessionInv, TypeOK

\* The classifier's answer.
LEMMA ClassifyKeeps ==
    ASSUME SessionInv, NEW h \in Handlers, Classify(h)
    PROVE  SessionInv'
<1>1. PICK response \in Labels \cup {"unusable"} :
        handler' = [handler EXCEPT ![h] =
           [pc |-> "decided",
            at |-> AfterClassification(handler[h].at, Parse(response, Labels))]]
  BY DEF Classify, SessionInv, TypeOK
<1> DEFINE n == AfterClassification(handler[h].at, Parse(response, Labels))
           p == [pc |-> "decided", at |-> n]
<1>2. /\ handler[h].pc = "classifying" /\ Worked(handler[h]) /\ session \in Sessions
      /\ Deciding(h)
  BY DEF Classify, SessionInv, Works, TypeOK, Deciding, Decides
<1>3. handler[h].at = session /\ session.stage = "speech"
  BY <1>2 DEF Worked, Decides
<1>4. Parse(response, Labels) \in Labels \cup {None}
  BY DEF Parse
<1>5. /\ n \in Sessions /\ Follows(session, n)
      /\ n.stage = "dial" => n.target = FallbackTarget
  BY <1>2, <1>3, <1>4, ClassificationsFollow
<1> HIDE DEF n
<1>6. p \in Processes
  BY <1>5 DEF Processes
<1>7. Worked(p)
  BY <1>2, <1>3, <1>5 DEF Worked, Decides, Earned
<1>8. Loaded(p)
  BY DEF Loaded
<1> QED
  <2> HIDE DEF p
  <2> QED BY <1>1, <1>2, <1>6, <1>7, <1>8, ProcessSteps DEF Classify, p, n, SessionInv, TypeOK

\* The budgets admit the step, with the status they saw, or end the call.
LEMMA AdmitKeeps ==
    ASSUME SessionInv, NEW h \in Handlers, Admit(h)
    PROVE  SessionInv'
<1> DEFINE next == handler[h].at
           a == [pc |-> "admitted", at |-> next, seen |-> status]
           d == [pc |-> "decided", at |-> Over(next)]
<1>1. PICK now \in 0..Deadline :
        handler' = [handler EXCEPT ![h] =
           IF StepAdmitted(status, now, next.transitions) THEN a ELSE d]
  BY DEF Admit
<1>2. /\ handler[h].pc = "decided" /\ next.stage # "over"
      /\ Worked(handler[h]) /\ Deciding(h) /\ next \in Sessions
  BY ProcessTypes DEF Admit, SessionInv, Works, Deciding, Decides, TypeOK
<1>3. /\ Follows(session, next)
      /\ Earned(session, next, posted.fields, posted.configured)
  BY <1>2 DEF Worked, Decides
<1>4. CASE StepAdmitted(status, now, next.transitions)
  <2>1. a \in Processes
    BY <1>2 DEF Processes, SessionInv, TypeOK
  <2>2. status \notin Terminal /\ TransitionLeft(next.transitions)
    BY <1>4 DEF StepAdmitted
  <2>3. Worked(a) /\ Loaded(a)
    BY <1>2, <1>3, <2>2 DEF Worked, Decides, Loaded
  <2>4. handler' = [handler EXCEPT ![h] = a]
    BY <1>1, <1>4
  <2> HIDE DEF a
  <2> QED BY <1>2, <2>1, <2>3, <2>4, ProcessSteps DEF Admit, SessionInv, TypeOK
<1>5. CASE ~StepAdmitted(status, now, next.transitions)
  <2>1. d \in Processes
    BY <1>2, NextSessions DEF Processes
  <2>2. Over(next).stage = "over" /\ Follows(session, Over(next))
    BY <1>2, <1>3, NextSessions DEF Follows
  <2>3. Worked(d) /\ Loaded(d)
    BY <1>2, <2>2 DEF Worked, Decides, Loaded, Earned
  <2>4. handler' = [handler EXCEPT ![h] = d]
    BY <1>1, <1>5
  <2> HIDE DEF d
  <2> QED BY <1>2, <2>1, <2>3, <2>4, ProcessSteps DEF Admit, SessionInv, TypeOK
<1> QED BY <1>4, <1>5

\* A process answers the provider, or dies.
LEMMA EndsKeep ==
    ASSUME SessionInv, NEW h \in Handlers, Emit(h) \/ Crash(h)
    PROVE  SessionInv'
<1>1. Idle \in Processes /\ Loaded(Idle) /\ Worked(Idle) /\ ~Decides(Idle)
  BY DEF Idle, Processes, Loaded, Worked, Decides
<1>2. handler' = [handler EXCEPT ![h] = Idle]
  BY DEF Emit, Crash
<1>3. /\ UNCHANGED <<session, outside, claims, posted, asked>>
      /\ emitted' \in BOOLEAN /\ dropped' \in BOOLEAN
  BY DEF Emit, Crash, SessionInv, TypeOK
<1>4. crashes' \in 0..MaxCrashes
  BY SessionAssumption DEF Emit, Crash, SessionInv, TypeOK
<1> HIDE DEF Idle
<1> QED BY <1>1, <1>2, <1>3, <1>4, ProcessSteps

\* The claim: it succeeds for the current step alone, and what was loaded is then
\* still the session, so that the decision follows it.
LEMMA ClaimKeeps ==
    ASSUME SessionInv, NEW h \in Handlers, Claim(h)
    PROVE  SessionInv'
<1> DEFINE s == handler[h].at
           fields == handler[h].fields
           known == handler[h].known
           c == [pc |-> "classifying", at |-> s]
           d == [pc |-> "decided", at |-> Decided(s, fields, known)]
<1>1. /\ handler[h].pc = "loaded" /\ Loaded(handler[h]) /\ handler[h] \in Processes
      /\ UNCHANGED <<session, outside, emitted, posted, crashes, asked, dropped>>
  BY DEF Claim, SessionInv, Loads, TypeOK
<1>2. s \in Sessions /\ known \in SUBSET Labels /\ fields \in Callbacks /\ s.step \in Nat \ {0}
  BY <1>1, ProcessTypes, SessionTypes
<1>3. CASE ~(MayClaim(s, fields) /\ s.step \notin claims)
  <2>1. claims' = claims /\ handler' = [handler EXCEPT ![h] = Idle]
    BY <1>3 DEF Claim
  <2>2. Idle \in Processes /\ Loaded(Idle) /\ Worked(Idle) /\ ~Decides(Idle)
    BY DEF Idle, Processes, Loaded, Worked, Decides
  <2> HIDE DEF Idle
  <2> QED BY <1>1, <2>1, <2>2, ProcessSteps DEF SessionInv, TypeOK
<1>4. CASE MayClaim(s, fields) /\ s.step \notin claims
  <2> DEFINE p == IF Classifies(s, fields) THEN c ELSE d
  <2>1. claims' = claims \cup {s.step} /\ handler' = [handler EXCEPT ![h] = p]
    BY <1>4 DEF Claim, MayClaim
  <2>2. /\ s = session /\ session.stage # "over" /\ posted.step = session.step
        /\ IF session.stage = "dial"
           THEN fields = posted.fields \/ fields.result = None
           ELSE fields = posted.fields /\ known \subseteq posted.configured
    BY <1>1, <1>4 DEF Loaded
  <2>3. session.step \in Nat \ {0} /\ s.stage \in Stages
    BY <1>2, <2>2, SessionTypes
  <2>4. claims = 1..(session.step - 1) /\ claims' = 1..session.step
    BY <1>4, <2>1, <2>2, <2>3 DEF SessionInv, Claimed
  <2>5. \A g \in Handlers : ~Deciding(g)
    BY <1>4, <2>2 DEF SessionInv, Works, Worked, Deciding
  <2>6. session.stage = "dial" => fields.result \in DialStatuses /\ fields = posted.fields
    BY <1>4, <2>2 DEF MayClaim, Readable, DialStatuses, FailedDials, FinishedDials, None
  <2>7. session.stage = "dial" => posted.fields.result # None
    BY <2>6 DEF DialStatuses, FailedDials, FinishedDials, None
  <2>8. \E q \in Processes :
           q = p /\ q.pc \in {"classifying", "decided"} /\ Worked(q)'
    <3>1. CASE Classifies(s, fields)
      <4>1. s.stage = "speech"
        BY <3>1 DEF Classifies
      <4>2. c \in Processes
        BY <1>2 DEF Processes
      <4>3. ASSUME NEW q, q = c PROVE Worked(q)'
        BY <1>1, <2>2, <2>3, <2>4, <2>7, <4>1, <4>3 DEF Worked, Decides
      <4> QED BY <3>1, <4>2, <4>3
    <3>2. CASE ~Classifies(s, fields)
      <4> DEFINE n == Decided(s, fields, known)
      <4>1. n \in Sessions /\ Follows(session, n) /\ Earned(session, n, fields, known)
        BY <1>2, <2>2, <2>3, <3>2, DecisionsFollow
      <4>2. Earned(session, n, posted.fields, posted.configured)
        BY <2>2, <2>6, <4>1 DEF Earned, Chosen
      <4> HIDE DEF n
      <4>3. [pc |-> "decided", at |-> n] \in Processes
        BY <4>1 DEF Processes
      <4>4. ASSUME NEW q, q = [pc |-> "decided", at |-> n] PROVE Worked(q)'
        BY <1>1, <2>2, <2>3, <2>4, <2>7, <4>1, <4>2, <4>4
        DEF Worked, Decides, Follows, Earned, Chosen
      <4> QED BY <3>2, <4>3, <4>4 DEF n
    <3> QED BY <3>1, <3>2
  <2> HIDE DEF p
  <2> PICK q \in Processes : q = p /\ q.pc \in {"classifying", "decided"} /\ Worked(q)'
    BY <2>8
  <2>9. \A g \in Handlers : handler'[g] = IF g = h THEN q ELSE handler[g]
    BY <2>1 DEF SessionInv, TypeOK
  <2>10. TypeOK'
    BY <1>1, <2>1, <2>3, <2>4 DEF SessionInv, TypeOK, outside
  <2>11. Claimed' /\ Posts' /\ Ends' /\ Prompts'
    BY <1>1, <2>2, <2>4
    DEF SessionInv, Claimed, Posts, Ends, Prompts, WorkIsPaid, outside
  <2>12. Alone' /\ Works'
    BY <1>1, <2>5, <2>9 DEF Alone, Works, Deciding, Worked, Decides
  <2>13. Loads'
    <3>1. \A g \in Handlers : handler[g].pc = "loaded" =>
            /\ handler[g].at.step \in Nat \ {0}
            /\ handler[g].at.step <= session.step
      BY ProcessTypes, SessionTypes DEF SessionInv, Loads, Loaded, TypeOK
    <3>2. \A g \in Handlers : handler'[g].pc = "loaded" =>
            handler'[g].at.step <= session.step /\ handler'[g].at.step \in claims'
      BY <2>3, <2>4, <2>9, <3>1
    <3> QED BY <1>1, <3>2 DEF Loads, Loaded
  <2> QED BY <2>10, <2>11, <2>12, <2>13 DEF SessionInv
<1> QED BY <1>3, <1>4

\* A status callback, or a destination that is taken away.
LEMMA OutsideKeeps ==
    ASSUME SessionInv, Observe \/ RemoveRoute
    PROVE  SessionInv'
<1>1. UNCHANGED <<session, claims, emitted, posted, handler, crashes, asked, dropped>>
  BY DEF Observe, RemoveRoute
<1>2. routes' \subseteq routes /\ status' \in Known \cup {None}
  <2>1. CASE Observe
    BY <2>1, AdvanceIsMonotonic, SessionAssumption DEF Observe, SessionInv, TypeOK
  <2>2. CASE RemoveRoute
    BY <2>2 DEF RemoveRoute, SessionInv, TypeOK
  <2> QED BY <2>1, <2>2
<1>3. TypeOK'
  BY <1>1, <1>2 DEF SessionInv, TypeOK
<1>4. Loads' /\ Works'
  BY <1>1 DEF SessionInv, Loads, Works, Loaded, Worked, Decides, Follows, Earned, Chosen,
              TransitionLeft
<1>5. Claimed' /\ Alone' /\ Posts' /\ Ends' /\ Prompts'
  BY <1>1, <1>2 DEF SessionInv, Claimed, Alone, Deciding, Decides, Posts, Ends, Prompts,
                    WorkIsPaid
<1> QED BY <1>3, <1>4, <1>5 DEF SessionInv

\* The provider does not report again while a process decides: a leg reports a second
\* time only of a result it had not reported.
LEMMA PostKeeps ==
    ASSUME SessionInv, Post
    PROVE  SessionInv'
<1>1. PICK fields \in Answers(session.stage) :
        posted' = [step |-> session.step, fields |-> fields, configured |-> routes]
  BY DEF Post
<1>2. /\ UNCHANGED <<session, outside, claims, emitted, handler, crashes, asked, dropped>>
      /\ session.stage # "over"
      /\ \/ posted.step < session.step
         \/ session.stage = "dial" /\ posted.fields.result = None
  BY DEF Post
<1>3. session.step \in Nat \ {0} /\ session.stage \in Stages /\ posted.step \in Nat
  BY <1>2, SessionTypes DEF SessionInv, TypeOK
<1>4. fields \in Callbacks
  <2>1. Silence \in Callbacks
    BY DEF Silence, Callbacks, Scores
  <2>2. CASE session.stage \in {"menu", "confirm"}
    <3>1. PICK x \in Digits \cup {None} : fields = [Silence EXCEPT !.digits = x]
      BY <2>2 DEF Answers
    <3> QED BY <2>1, <3>1 DEF Callbacks
  <2>3. CASE session.stage = "speech"
    <3>1. PICK x \in Spoken : fields = [Silence EXCEPT !.text = x.text, !.score = x.score]
      BY <2>3 DEF Answers
    <3>2. x.text \in {"admissible", "silence"} /\ x.score \in Scores
      BY SessionAssumption
    <3> QED BY <2>1, <3>1, <3>2 DEF Callbacks, Silence
  <2>4. CASE session.stage = "dial"
    <3>1. PICK x \in DialResults \cup {None} : fields = [Silence EXCEPT !.result = x]
      BY <2>4 DEF Answers
    <3> QED BY <2>1, <3>1 DEF Callbacks
  <2> QED BY <1>3, <2>2, <2>3, <2>4 DEF Stages
<1>5. /\ posted'.step = session.step /\ posted'.configured = routes
      /\ posted'.fields = fields
      /\ posted' \in [step : Nat, fields : Callbacks, configured : SUBSET Labels]
  BY <1>1, <1>3, <1>4 DEF SessionInv, TypeOK
<1>6. TypeOK'
  BY <1>2, <1>5 DEF SessionInv, TypeOK, outside
<1>7. \A h \in Handlers : ~Deciding(h)
  BY <1>2, <1>3 DEF SessionInv, Works, Worked, Deciding
<1>8. Works' /\ Alone'
  BY <1>2, <1>7 DEF Works, Worked, Alone, Deciding
<1>9. Loads'
  <2> SUFFICES ASSUME NEW h \in Handlers, handler[h].pc = "loaded" PROVE Loaded(handler[h])'
    BY <1>2 DEF Loads, Loaded
  <2>1. Loaded(handler[h])
    BY DEF SessionInv, Loads
  <2>2. CASE handler[h].at.step \in claims
    BY <1>2, <2>1, <2>2 DEF Loaded
  <2>3. CASE handler[h].at.step \notin claims
    <3>1. session.stage = "dial" /\ handler[h].fields.result = None
      BY <1>2, <1>3, <2>1, <2>3 DEF Loaded
    <3> QED BY <1>2, <1>5, <2>1, <2>3, <3>1 DEF Loaded
  <2> QED BY <2>2, <2>3
<1>10. Claimed' /\ Posts' /\ Ends' /\ Prompts'
  BY <1>2, <1>3, <1>5 DEF SessionInv, Claimed, Posts, Ends, Prompts, WorkIsPaid, outside
<1> QED BY <1>6, <1>8, <1>9, <1>10 DEF SessionInv

\* Whoever decides claimed the current step, so that every step up to it is claimed,
\* and nobody else decides.
LEMMA DecidingIsCurrent ==
    ASSUME SessionInv, NEW h \in Handlers, Deciding(h)
    PROVE  /\ claims = 1..session.step /\ session.stage # "over"
           /\ session.step \in Nat \ {0} /\ session.stage \in Stages
           /\ posted.step = session.step
           /\ handler[h].at \in Sessions
           /\ handler[h].pc # "classifying" =>
                 /\ Follows(session, handler[h].at)
                 /\ Earned(session, handler[h].at, posted.fields, posted.configured)
           /\ \A g \in Handlers \ {h} : ~Deciding(g)
           /\ \A g \in Handlers : handler[g].pc = "loaded" =>
                 /\ handler[g].at.step \in claims
                 /\ handler[g].at.step <= session.step
<1>1. Worked(handler[h]) /\ Decides(handler[h]) /\ handler[h] \in Processes
  BY DEF SessionInv, Works, Deciding, TypeOK
<1>2. session.step \in Nat \ {0} /\ session.stage \in Stages \cup {"over"}
  BY SessionTypes DEF SessionInv, TypeOK
<1>3. session.step \in claims /\ session.stage # "over" /\ posted.step = session.step
  BY <1>1 DEF Worked
<1>4. claims = 1..session.step
  BY <1>2, <1>3 DEF SessionInv, Claimed
<1>5. handler[h].at \in Sessions
  BY <1>1, ProcessTypes DEF Decides
<1>6. ASSUME NEW g \in Handlers, handler[g].pc = "loaded"
      PROVE  handler[g].at.step \in claims /\ handler[g].at.step <= session.step
  <2>1. handler[g].at.step \in Nat \ {0}
    BY <1>6, ProcessTypes, SessionTypes DEF SessionInv, TypeOK
  <2> QED BY <1>2, <1>4, <1>6, <2>1 DEF SessionInv, Loads, Loaded
<1>7. \A g \in Handlers \ {h} : ~Deciding(g)
  BY DEF SessionInv, Alone
<1> QED BY <1>1, <1>2, <1>3, <1>4, <1>5, <1>6, <1>7 DEF Worked

\* The prompts that are counted after a step that follows the session is saved.
LEMMA SavedIsPaid ==
    ASSUME SessionInv, NEW n \in Sessions, Follows(session, n), n.stage # "over",
           session.stage \in Stages, TransitionLeft(n.transitions),
           session' = Saved(n),
           asked' = [asked EXCEPT ![n.stage] = @ + 1]
    PROVE  Prompts' /\ asked' \in [Stages -> Nat]
<1>1. /\ n.stage \in Stages /\ n.attempts \in Nat /\ n.transitions \in Nat
      /\ n.fallbackUsed \in BOOLEAN
  BY SessionTypes
<1>2. /\ session'.stage = n.stage /\ session'.attempts = n.attempts
      /\ session'.transitions = n.transitions + 1
      /\ session'.fallbackUsed = n.fallbackUsed
  BY DEF Sessions, Saved
<1>3. /\ session.transitions = n.transitions /\ session.attempts \in Nat
      /\ session.fallbackUsed \in BOOLEAN
  BY SessionTypes DEF SessionInv, TypeOK, Follows
<1>4. /\ asked' \in [Stages -> Nat]
      /\ \A s \in Stages : /\ asked[s] \in Nat
                            /\ asked'[s] = IF s = n.stage THEN asked[s] + 1 ELSE asked[s]
  BY <1>1 DEF SessionInv, TypeOK
<1>5. /\ asked["menu"] + asked["speech"] + asked["confirm"] + asked["dial"]
             = session.transitions + 1
      /\ \A s \in Stages : s # "dial" => asked[s] <= MaxAttempts
      /\ asked["dial"] <= 2
  BY DEF SessionInv, Prompts, WorkIsPaid
<1>6. /\ session.stage \in Collections =>
            /\ asked[session.stage] = session.attempts + 1
            /\ asked["dial"] = 0 /\ ~session.fallbackUsed
      /\ session.stage = "speech" => asked["confirm"] = 0
      /\ session.stage = "dial" => asked["dial"] = IF session.fallbackUsed THEN 2 ELSE 1
  BY DEF SessionInv, Prompts
<1>7. session'.transitions <= MaxTransitions
  BY <1>1, <1>2, VoiceAssumption DEF TransitionLeft
<1>8. asked'["menu"] + asked'["speech"] + asked'["confirm"] + asked'["dial"]
         = session'.transitions + 1
  BY <1>1, <1>2, <1>3, <1>4, <1>5 DEF Stages
<1>9. CASE n.stage \in Collections /\ n.stage = session.stage
  <2>1. n.attempts = session.attempts + 1 /\ n.attempts < MaxAttempts /\ ~n.fallbackUsed
    BY <1>6, <1>9 DEF Follows, Collections
  <2>2. asked'[n.stage] = n.attempts + 1 /\ asked'[n.stage] <= MaxAttempts
    BY <1>1, <1>3, <1>4, <1>6, <1>9, <2>1, VoiceAssumption
  <2>3. WorkIsPaid'
    BY <1>4, <1>5, <1>7, <1>8, <1>9, <2>2 DEF WorkIsPaid, Collections, Stages
  <2> QED BY <1>2, <1>4, <1>6, <1>9, <2>1, <2>2, <2>3 DEF Prompts, Collections, Stages
<1>10. CASE session.stage = "speech" /\ n.stage = "confirm"
  <2>1. n.attempts = 0 /\ ~n.fallbackUsed /\ asked'["confirm"] = 1 /\ asked'["dial"] = 0
    BY <1>4, <1>6, <1>10 DEF Follows, Collections, Stages
  <2>2. WorkIsPaid'
    BY <1>4, <1>5, <1>7, <1>8, <1>10, <2>1, VoiceAssumption DEF WorkIsPaid, Stages
  <2> QED BY <1>2, <1>4, <1>10, <2>1, <2>2 DEF Prompts, Collections, Stages
<1>11. CASE n.stage = "dial"
  <2>1. asked'["dial"] = IF n.fallbackUsed THEN 2 ELSE 1
    BY <1>1, <1>3, <1>4, <1>6, <1>11 DEF Follows, Collections, Stages
  <2>2. WorkIsPaid'
    BY <1>4, <1>5, <1>7, <1>8, <1>11, <2>1 DEF WorkIsPaid, Stages
  <2> QED BY <1>2, <1>4, <1>11, <2>1, <2>2 DEF Prompts, Collections, Stages
<1> QED BY <1>4, <1>9, <1>10, <1>11 DEF Follows

\* The conditional write: it starts a step that nobody has claimed, or changes nothing.
LEMMA SaveKeeps ==
    ASSUME SessionInv, NEW h \in Handlers, Save(h)
    PROVE  SessionInv'
<1> DEFINE next == handler[h].at
<1>1. /\ handler[h].pc = "admitted" /\ Deciding(h)
      /\ UNCHANGED <<outside, claims, posted, crashes, dropped>>
  BY DEF Save, Deciding, Decides
<1>2. /\ next.stage # "over" /\ TransitionLeft(next.transitions)
      /\ Worked(handler[h]) /\ handler[h] \in Processes
  BY <1>1 DEF SessionInv, Works, Worked, Deciding, TypeOK
<1>3. /\ claims = 1..session.step /\ session.stage \in Stages
      /\ session.step \in Nat \ {0} /\ posted.step = session.step
      /\ next \in Sessions /\ Follows(session, next)
      /\ Earned(session, next, posted.fields, posted.configured)
  BY <1>1, DecidingIsCurrent
<1>4. CASE session.step = next.step /\ status = handler[h].seen
  <2>1. /\ session' = Saved(next)
        /\ emitted' = FALSE
        /\ asked' = [asked EXCEPT ![next.stage] = @ + 1]
        /\ handler' = [handler EXCEPT ![h] = [pc |-> "saved"]]
    BY <1>4 DEF Save
  <2>2. Prompts' /\ asked' \in [Stages -> Nat]
    BY <1>2, <1>3, <2>1, SavedIsPaid
  <2>3. /\ session' \in Sessions /\ session'.step = session.step + 1
        /\ session'.stage # "over"
    <3> DEFINE e == [next EXCEPT !.step = @ + 1]
    <3>1. next.step = session.step /\ next.step \in Nat \ {0} /\ next.transitions \in Nat
      BY <1>3, SessionTypes DEF Follows
    <3>2. /\ e \in Sessions /\ e.step = session.step + 1 /\ e.stage = next.stage
          /\ e.transitions = next.transitions
      BY <1>3, <3>1 DEF Sessions
    <3>3. session' = [e EXCEPT !.transitions = @ + 1]
      BY <2>1 DEF Saved
    <3> HIDE DEF e
    <3>4. e.transitions + 1 \in Nat
      BY <3>1, <3>2
    <3> QED BY <1>2, <3>2, <3>3, <3>4 DEF Sessions
  <2>4. [pc |-> "saved"] \in Processes
    BY DEF Processes
  <2>5. TypeOK'
    BY <1>1, <2>1, <2>2, <2>3, <2>4 DEF SessionInv, TypeOK, outside
  <2>6. Claimed' /\ Ends'
    BY <1>1, <1>3, <2>3 DEF Claimed, Ends
  <2>7. \A g \in Handlers : /\ ~Decides(handler'[g])
                            /\ handler'[g].pc = "loaded" => handler'[g] = handler[g]
    BY <1>1, <2>1, DecidingIsCurrent DEF SessionInv, TypeOK, Deciding, Decides
  <2>8. Alone' /\ Works'
    BY <2>7 DEF Alone, Works, Worked, Deciding, Decides
  <2>9. Loads'
    <3>1. \A g \in Handlers : handler'[g].pc = "loaded" =>
            /\ handler'[g].at.step \in claims'
            /\ handler'[g].at.step <= session'.step
      BY <1>1, <1>3, <2>3, <2>7, DecidingIsCurrent
    <3> QED BY <3>1 DEF Loads, Loaded
  <2>10. Posts'
    BY <1>1, <1>3, <2>3 DEF SessionInv, Posts, outside
  <2> QED BY <2>2, <2>5, <2>6, <2>8, <2>9, <2>10 DEF SessionInv
<1>5. CASE ~(session.step = next.step /\ status = handler[h].seen)
  <2> DEFINE p == [pc |-> "decided", at |-> next]
  <2>1. handler' = [handler EXCEPT ![h] = p] /\ UNCHANGED <<session, emitted, asked>>
    BY <1>5 DEF Save
  <2>2. p \in Processes
    BY <1>3 DEF Processes
  <2>3. Loaded(p) /\ Worked(p)
    BY <1>1, <1>2, <1>3 DEF Loaded, Worked, Decides
  <2> HIDE DEF p
  <2> QED BY <1>1, <2>1, <2>2, <2>3, ProcessSteps DEF SessionInv, TypeOK
<1> QED BY <1>4, <1>5

\* The end of the call, by whoever claimed its last step.
LEMMA HangUpKeeps ==
    ASSUME SessionInv, NEW h \in Handlers, HangUp(h)
    PROVE  SessionInv'
<1>1. /\ Deciding(h) /\ session' = Over(session)
      /\ handler' = [handler EXCEPT ![h] = Idle]
      /\ UNCHANGED <<outside, claims, emitted, posted, crashes, asked, dropped>>
  BY DEF HangUp, Deciding, Decides
<1>2. /\ session \in Sessions /\ session' \in Sessions /\ session'.stage = "over"
      /\ session'.step = session.step /\ session'.transitions = session.transitions
  BY <1>1, NextSessions DEF SessionInv, TypeOK
<1>3. claims = 1..session.step /\ session.step \in Nat \ {0}
  BY <1>1, DecidingIsCurrent
<1>4. Idle \in Processes /\ ~Decides(Idle) /\ Idle.pc # "loaded"
  BY DEF Idle, Processes, Decides
<1> HIDE DEF Idle
<1>5. TypeOK'
  BY <1>1, <1>2, <1>4 DEF SessionInv, TypeOK, outside
<1>6. \A g \in Handlers : /\ ~Decides(handler'[g])
                          /\ handler'[g].pc = "loaded" => handler'[g] = handler[g]
  BY <1>1, <1>4, DecidingIsCurrent DEF SessionInv, TypeOK, Deciding
<1>7. Alone' /\ Works'
  BY <1>6 DEF Alone, Works, Worked, Deciding
<1>8. Loads'
  <2>1. \A g \in Handlers : handler'[g].pc = "loaded" =>
          /\ handler'[g].at.step \in claims'
          /\ handler'[g].at.step <= session'.step
    BY <1>1, <1>2, <1>6, DecidingIsCurrent
  <2> QED BY <2>1 DEF Loads, Loaded
<1>9. Claimed' /\ Posts' /\ Ends'
  BY <1>1, <1>2, <1>3 DEF SessionInv, Claimed, Posts, Ends, outside
<1>10. Prompts'
  BY <1>1, <1>2 DEF SessionInv, Prompts, WorkIsPaid, Collections
<1> QED BY <1>5, <1>7, <1>8, <1>9, <1>10 DEF SessionInv

\* Every step keeps the invariant.
LEMMA SessionSteps == SessionInv /\ [Next]_vars => SessionInv'
<1> SUFFICES ASSUME SessionInv, [Next]_vars PROVE SessionInv'
  OBVIOUS
<1>1. CASE UNCHANGED vars
  BY <1>1 DEF vars, outside, SessionInv, TypeOK, Claimed, Alone, Loads, Works, Posts, Ends,
              Prompts, WorkIsPaid, Deciding, Decides, Loaded, Worked, Follows, Earned,
              Chosen, TransitionLeft
<1>2. ASSUME NEW h \in Handlers, Receive(h) \/ Work(h) \/ Crash(h)
      PROVE  SessionInv'
  BY <1>2, ReceiveKeeps, ClaimKeeps, ClassifyKeeps, AdmitKeeps, SaveKeeps, EndsKeep,
     HangUpKeeps DEF Work
<1>3. CASE Post \/ Observe \/ RemoveRoute
  BY <1>3, PostKeeps, OutsideKeeps
<1> QED BY <1>1, <1>2, <1>3 DEF Next

-----------------------------------------------------------------------------
\* The claims, what every process holds and what was asked of the caller belong
\* together: one process at a time decides, about the current step.
THEOREM SessionInvariant == Spec => []SessionInv
<1> QED BY SessionStarts, SessionSteps, PTL DEF Spec

\* Every stored and held value has its type.
THEOREM SessionTypeCorrect == Spec => []TypeOK
<1>1. SessionInv => TypeOK
  BY DEF SessionInv
<1> QED BY <1>1, SessionInvariant, PTL

\* WorkIsPaid, for any attempts and transitions: no stage prompts more than its
\* attempts, no call is forwarded more than twice, and every step is paid for.
THEOREM AllWorkIsPaid == Spec => []WorkIsPaid
<1>1. SessionInv => WorkIsPaid
  BY DEF SessionInv, Prompts
<1> QED BY <1>1, SessionInvariant, PTL

\* Only the save of an admitted step starts a step, and only its save or the end of
\* the call changes the session at all.
LEMMA SessionMoves ==
    ASSUME SessionInv, [Next]_vars, session' # session
    PROVE  \E h \in Handlers :
              /\ Deciding(h)
              /\ \/ HangUp(h) /\ session'.stage = "over" /\ session'.step = session.step
                 \/ /\ Save(h) /\ handler[h].at.stage # "over"
                    /\ status \notin Terminal
                    /\ session'.stage = handler[h].at.stage
                    /\ session'.target = handler[h].at.target
                    /\ handler[h].pc # "classifying"
<1>1. PICK h \in Handlers : Save(h) \/ HangUp(h)
  BY DEF Next, Work, vars, Receive, Claim, Classify, Admit, Emit, Crash, Post, Observe,
         RemoveRoute
<1>2. Deciding(h)
  BY <1>1 DEF Save, HangUp, Deciding, Decides
<1>3. CASE HangUp(h)
  <2>1. session'.stage = "over" /\ session'.step = session.step
    BY <1>3, NextSessions DEF HangUp, SessionInv, TypeOK
  <2> QED BY <1>2, <1>3, <2>1
<1>4. CASE Save(h)
  <2>1. /\ handler[h].pc = "admitted" /\ status = handler[h].seen
        /\ session' = Saved(handler[h].at)
    BY <1>4 DEF Save
  <2>2. handler[h].at.stage # "over" /\ handler[h].seen \notin Terminal
    BY <1>2, <2>1 DEF SessionInv, Works, Worked, Deciding
  <2>3. handler[h].at \in Sessions
    BY <1>2, DecidingIsCurrent
  <2>4. session'.stage = handler[h].at.stage /\ session'.target = handler[h].at.target
    BY <2>1, <2>3 DEF Sessions, Saved
  <2> QED BY <1>2, <1>4, <2>1, <2>2, <2>4
<1> QED BY <1>1, <1>3, <1>4

\* NothingAfterTheEnd, for any processes: new work is saved only while the call is not
\* over and its stored status is not terminal at that very moment.
THEOREM EndedCallsGetNoWork == Spec => NothingAfterTheEnd
<1>1. SessionInv /\ [Next]_vars =>
        [session'.step # session.step
            => session.stage # "over" /\ status \notin Terminal]_vars
  BY SessionMoves, DecidingIsCurrent
<1> QED BY <1>1, SessionInvariant, PTL DEF Spec, NothingAfterTheEnd

\* OldLegsDecideNothing, for any dial results: a forwarding attempt is decided by the
\* last callback of its own leg, and a second attempt follows a failure of the first.
THEOREM LegsDecideForThemselves == Spec => OldLegsDecideNothing
<1>1. ASSUME SessionInv, [Next]_vars, session.stage = "dial", session' # session
      PROVE  /\ posted.step = session.step
             /\ session'.stage # "over"
                   => posted.fields.result \in FailedDials /\ ~session.fallbackUsed
  <2>1. PICK h \in Handlers :
          /\ Deciding(h)
          /\ \/ session'.stage = "over"
             \/ /\ handler[h].at.stage # "over" /\ session'.stage = handler[h].at.stage
                /\ handler[h].pc # "classifying"
    BY <1>1, SessionMoves
  <2>2. posted.step = session.step
    BY <1>1, <2>1, DecidingIsCurrent
  <2>3. CASE session'.stage # "over"
    <3>1. /\ Follows(session, handler[h].at)
          /\ Earned(session, handler[h].at, posted.fields, posted.configured)
      BY <1>1, <2>1, <2>3, DecidingIsCurrent
    <3>2. handler[h].at.stage = "dial" /\ ~session.fallbackUsed
      BY <1>1, <2>1, <2>3, <3>1 DEF Follows, Collections
    <3> QED BY <1>1, <2>2, <3>1, <3>2 DEF Earned
  <2> QED BY <2>2, <2>3
<1>2. SessionInv /\ [Next]_vars =>
        [session.stage = "dial" /\ session' # session
          => /\ posted.step = session.step
             /\ session'.stage # "over"
                   => /\ posted.fields.result \in FailedDials
                      /\ ~session.fallbackUsed]_vars
  BY <1>1
<1> QED BY <1>2, SessionInvariant, PTL DEF Spec, OldLegsDecideNothing

\* DestinationsAreChosen, for any menu, intents and routes: what is dialled is the
\* fallback, or what the caller chose in this step and was still configured.
THEOREM CallersChooseDestinations == Spec => DestinationsAreChosen
<1>1. ASSUME SessionInv, [Next]_vars, session'.stage = "dial",
             session'.target # FallbackTarget, session'.step # session.step
      PROVE  /\ posted.step = session.step
             /\ Chosen(session, session'.target, posted.fields.digits, posted.configured)
  <2>1. PICK h \in Handlers :
          /\ Deciding(h) /\ session'.stage = handler[h].at.stage
          /\ session'.target = handler[h].at.target /\ handler[h].pc # "classifying"
    BY <1>1, SessionMoves
  <2>2. /\ posted.step = session.step
        /\ Earned(session, handler[h].at, posted.fields, posted.configured)
    BY <1>1, <2>1, DecidingIsCurrent
  <2> QED BY <1>1, <2>1, <2>2 DEF Earned
<1>2. SessionInv /\ [Next]_vars =>
        [session'.stage = "dial" /\ session'.target # FallbackTarget
         /\ session'.step # session.step
            => LET digits == posted.fields.digits
               IN  /\ posted.step = session.step
                   /\ session'.target \in posted.configured
                   /\ \/ /\ session.stage = "menu"
                         /\ digits \in DOMAIN MenuOf
                         /\ session'.target = MenuOf[digits]
                      \/ /\ session.stage = "confirm" /\ digits = "1"
                         /\ session'.target = session.intent]_vars
  BY <1>1 DEF Chosen
<1> QED BY <1>2, SessionInvariant, PTL DEF Spec, DestinationsAreChosen

-----------------------------------------------------------------------------
(***************************************************************************)
(* The session implements the abstract call.  What a process is about to   *)
(* save is one of the outcomes of the callback, by routes that were there  *)
(* between the report and now.                                             *)
(***************************************************************************)
Outcome(n) ==
    \E known \in SUBSET posted.configured :
       routes \subseteq known /\ n \in Outcomes(session, posted.fields, known)

JustifiedBy(p) ==
    /\ p.pc = "loaded" /\ p.at.step \notin claims /\ session.stage # "dial" =>
          routes \subseteq p.known
    /\ p.pc = "classifying" => Classifies(session, posted.fields)
    /\ p.pc \in {"decided", "admitted"} => p.at.stage = "over" \/ Outcome(p.at)

Justified == \A h \in Handlers : JustifiedBy(handler[h])

\* A justification lasts while session and callback do; claims only grow, routes shrink.
LEMMA JustificationsLast ==
    ASSUME UNCHANGED <<session, posted>>, claims \subseteq claims', routes' \subseteq routes,
           NEW p, JustifiedBy(p)
    PROVE  JustifiedBy(p)'
<1>1. \A n : Outcome(n) => Outcome(n)'
  BY DEF Outcome
<1>2. p.pc \in {"decided", "admitted"} => p.at.stage = "over" \/ Outcome(p.at)'
  BY <1>1 DEF JustifiedBy
<1> QED BY <1>2 DEF JustifiedBy

\* A step of one process to what is justified after it.
LEMMA JustifiedProcess ==
    ASSUME SessionInv, Justified, NEW h \in Handlers, NEW p,
           handler' = [handler EXCEPT ![h] = p],
           UNCHANGED <<session, posted, routes>>, claims \subseteq claims', JustifiedBy(p)'
    PROVE  Justified'
<1>1. \A g \in Handlers : handler'[g] = IF g = h THEN p ELSE handler[g]
  BY DEF SessionInv, TypeOK
<1> SUFFICES ASSUME NEW g \in Handlers PROVE JustifiedBy(handler[g])'
  BY DEF Justified
<1>2. CASE g = h
  BY <1>1, <1>2 DEF JustifiedBy
<1>3. CASE g # h
  <2>1. handler'[g] = handler[g] /\ JustifiedBy(handler[g])
    BY <1>1, <1>3 DEF Justified
  <2>2. PICK q : q = handler[g]
    OBVIOUS
  <2>3. JustifiedBy(q)'
    BY <2>1, <2>2, JustificationsLast
  <2> QED BY <2>1, <2>2, <2>3 DEF JustifiedBy
<1> QED BY <1>2, <1>3

\* Loading and claiming.  What is decided is an outcome of the callback: its fields are
\* those that were loaded, and so were the routes, or a leg's result does not read them.
LEMMA ClaimsAreJustified ==
    ASSUME SessionInv, Justified, NEW h \in Handlers, Claim(h)
    PROVE  Justified'
<1> DEFINE s == handler[h].at
           fields == handler[h].fields
           known == handler[h].known
<1>1. /\ handler[h].pc = "loaded" /\ Loaded(handler[h]) /\ handler[h] \in Processes
      /\ JustifiedBy(handler[h])
      /\ UNCHANGED <<session, posted, routes>> /\ claims \subseteq claims'
  BY DEF Claim, SessionInv, Loads, TypeOK, Justified, outside
<1>2. s \in Sessions /\ known \in SUBSET Labels /\ fields \in Callbacks
  BY <1>1, ProcessTypes
<1>3. CASE ~(MayClaim(s, fields) /\ s.step \notin claims)
  <2>1. handler' = [handler EXCEPT ![h] = Idle]
    BY <1>3 DEF Claim
  <2>2. PICK q : q = Idle
    OBVIOUS
  <2>3. JustifiedBy(q)'
    BY <2>2 DEF JustifiedBy, Idle
  <2> QED BY <1>1, <2>1, <2>2, <2>3, JustifiedProcess
<1>4. CASE MayClaim(s, fields) /\ s.step \notin claims
  <2>1. /\ s = session /\ session.stage \in Stages /\ posted.step = session.step
        /\ IF session.stage = "dial"
           THEN fields = posted.fields \/ fields.result = None
           ELSE fields = posted.fields /\ known \subseteq posted.configured
    BY <1>1, <1>2, <1>4, SessionTypes DEF Loaded
  <2>2. Readable(s, fields) /\ (session.stage = "dial" => fields.result # None)
    BY <1>4, <2>1
    DEF MayClaim, Readable, DialStatuses, FailedDials, FinishedDials, None
  <2>3. fields = posted.fields
    BY <2>1, <2>2
  <2>4. routes \subseteq posted.configured /\ posted.configured \subseteq Labels
    BY <1>2, <2>1, SessionTypes DEF SessionInv, Posts, TypeOK
  <2>5. CASE Classifies(s, fields)
    <3>1. PICK q : q = [pc |-> "classifying", at |-> s]
      OBVIOUS
    <3>2. handler' = [handler EXCEPT ![h] = q]
      BY <1>4, <2>2, <2>5, <3>1 DEF Claim
    <3>3. JustifiedBy(q)'
      BY <1>1, <2>1, <2>3, <2>5, <3>1 DEF JustifiedBy
    <3> QED BY <1>1, <3>2, <3>3, JustifiedProcess
  <2>6. CASE ~Classifies(s, fields)
    <3>1. PICK q : q = [pc |-> "decided", at |-> Decided(s, fields, known)]
      OBVIOUS
    <3>2. handler' = [handler EXCEPT ![h] = q]
      BY <1>4, <2>2, <2>6, <3>1 DEF Claim
    <3>3. \A k : Decided(s, fields, k) \in Outcomes(session, posted.fields, k)
      BY <2>1, <2>2, <2>3, <2>6 DEF Outcomes
    <3>4. Outcome(Decided(s, fields, known))
      <4>1. CASE session.stage = "dial"
        <5>1. Decided(s, fields, known) = Decided(s, fields, routes)
          BY <2>1, <4>1 DEF Decided
        <5> QED BY <2>4, <3>3, <5>1 DEF Outcome
      <4>2. CASE session.stage # "dial"
        <5>1. routes \subseteq known /\ known \subseteq posted.configured
          BY <1>1, <1>4, <2>1, <4>2 DEF JustifiedBy
        <5> QED BY <3>3, <5>1 DEF Outcome
      <4> QED BY <4>1, <4>2
    <3>5. JustifiedBy(q)'
      <4>1. Outcome(q.at)
        BY <3>1, <3>4
      <4>2. Outcome(q.at)'
        BY <1>1, <4>1 DEF Outcome
      <4> QED BY <3>1, <4>2 DEF JustifiedBy
    <3> QED BY <1>1, <3>2, <3>5, JustifiedProcess
  <2> QED BY <2>5, <2>6
<1> QED BY <1>3, <1>4

\* The steps of one process that leave the session and the claims as they are.
LEMMA ProcessesAreJustified ==
    ASSUME SessionInv, Justified, NEW h \in Handlers,
           Receive(h) \/ Classify(h) \/ Admit(h) \/ Emit(h) \/ Crash(h)
               \/ (Save(h) /\ UNCHANGED session)
    PROVE  Justified'
<1>1. UNCHANGED <<session, posted, routes>> /\ claims \subseteq claims'
  BY DEF Receive, Classify, Admit, Emit, Crash, Save, outside
<1>2. /\ JustifiedBy(handler[h]) /\ Worked(handler[h]) /\ handler[h] \in Processes
  BY DEF Justified, SessionInv, Works, TypeOK
<1>3. CASE Receive(h)
  <2>1. PICK q : q = [pc |-> "loaded", at |-> session, known |-> routes,
                      fields |-> posted.fields]
    OBVIOUS
  <2>2. handler' = [handler EXCEPT ![h] = q]
    BY <1>3, <2>1 DEF Receive
  <2>3. JustifiedBy(q)'
    BY <1>1, <2>1 DEF JustifiedBy
  <2> QED BY <1>1, <2>2, <2>3, JustifiedProcess
<1>4. CASE Classify(h)
  <2>1. PICK response \in Labels \cup {"unusable"} :
          handler' = [handler EXCEPT ![h] =
             [pc |-> "decided",
              at |-> AfterClassification(handler[h].at, Parse(response, Labels))]]
    BY <1>4 DEF Classify
  <2> DEFINE n == AfterClassification(handler[h].at, Parse(response, Labels))
  <2>2. PICK q : q = [pc |-> "decided", at |-> n]
    OBVIOUS
  <2>3. handler' = [handler EXCEPT ![h] = q]
    BY <2>1, <2>2
  <2>4. /\ handler[h].at = session /\ session.stage = "speech"
        /\ Classifies(session, posted.fields) /\ posted.step = session.step
    BY <1>2, <1>4 DEF Classify, Worked, Decides, JustifiedBy
  <2>5. Readable(session, posted.fields) /\ Parse(response, Labels) \in Labels \cup {None}
    BY <2>4 DEF Readable, Parse
  <2>6. n \in Outcomes(session, posted.fields, routes)
    BY <2>4, <2>5 DEF Outcomes
  <2>7. routes \subseteq posted.configured
    BY <2>4, SessionTypes DEF SessionInv, Posts, TypeOK
  <2>8. Outcome(q.at)'
    BY <1>1, <2>2, <2>6, <2>7 DEF Outcome
  <2>9. JustifiedBy(q)'
    BY <2>2, <2>8 DEF JustifiedBy
  <2> QED BY <1>1, <2>3, <2>9, JustifiedProcess
<1>5. CASE Admit(h) \/ (Save(h) /\ UNCHANGED session)
  <2>1. PICK q : /\ handler' = [handler EXCEPT ![h] = q]
                 /\ q.pc \in {"admitted", "decided", "saved"}
                 /\ q.pc # "saved" => q.at = handler[h].at \/ q.at.stage = "over"
    <3>1. CASE Admit(h)
      <4> DEFINE next == handler[h].at
      <4>1. next.stage # "over" /\ next \in Sessions
        BY <1>2, <3>1, ProcessTypes DEF Admit
      <4>2. PICK a : a = [pc |-> "admitted", at |-> next, seen |-> status]
        OBVIOUS
      <4>3. PICK d : d = [pc |-> "decided", at |-> Over(next)]
        OBVIOUS
      <4>4. handler' = [handler EXCEPT ![h] = a] \/ handler' = [handler EXCEPT ![h] = d]
        BY <3>1, <4>2, <4>3 DEF Admit
      <4>5. /\ a.pc = "admitted" /\ a.at = handler[h].at
            /\ d.pc = "decided" /\ d.at.stage = "over"
        BY <4>1, <4>2, <4>3, NextSessions
      <4> HIDE DEF next
      <4> QED BY <4>4, <4>5
    <3>2. CASE Save(h) /\ UNCHANGED session
      <4>1. PICK a : a = [pc |-> "saved"]
        OBVIOUS
      <4>2. PICK d : d = [pc |-> "decided", at |-> handler[h].at]
        OBVIOUS
      <4>3. handler' = [handler EXCEPT ![h] = a] \/ handler' = [handler EXCEPT ![h] = d]
        BY <3>2, <4>1, <4>2 DEF Save
      <4>4. a.pc = "saved" /\ d.pc = "decided" /\ d.at = handler[h].at
        BY <4>1, <4>2
      <4> QED BY <4>3, <4>4
    <3> QED BY <1>5, <3>1, <3>2
  <2>2. handler[h].pc \in {"decided", "admitted"}
    BY <1>5 DEF Admit, Save
  <2>3. q.pc \in {"admitted", "decided"} => q.at.stage = "over" \/ Outcome(q.at)
    BY <1>2, <2>1, <2>2 DEF JustifiedBy
  <2>4. JustifiedBy(q)'
    BY <1>1, <2>1, <2>3 DEF JustifiedBy, Outcome
  <2> QED BY <1>1, <2>1, <2>4, JustifiedProcess
<1>6. CASE Emit(h) \/ Crash(h)
  <2>1. PICK q : q = Idle
    OBVIOUS
  <2>2. handler' = [handler EXCEPT ![h] = q]
    BY <1>6, <2>1 DEF Emit, Crash
  <2>3. JustifiedBy(q)'
    BY <2>1 DEF JustifiedBy, Idle
  <2> QED BY <1>1, <2>2, <2>3, JustifiedProcess
<1> QED BY <1>3, <1>4, <1>5, <1>6

\* When the session changes, nobody decides any more, and every load is claimed.
LEMMA MovesAreJustified ==
    ASSUME SessionInv, Justified, NEW h \in Handlers, Save(h) \/ HangUp(h), session' # session
    PROVE  Justified'
<1>1. PICK q : handler' = [handler EXCEPT ![h] = q] /\ q.pc \in {"saved", "idle"}
  <2>1. CASE Save(h)
    <3>1. PICK a : a = [pc |-> "saved"]
      OBVIOUS
    <3>2. handler' = [handler EXCEPT ![h] = a] /\ a.pc = "saved"
      BY <2>1, <3>1 DEF Save
    <3> QED BY <3>2
  <2>2. CASE HangUp(h)
    <3>1. PICK a : a = Idle
      OBVIOUS
    <3>2. handler' = [handler EXCEPT ![h] = a] /\ a.pc = "idle"
      BY <2>2, <3>1 DEF HangUp, Idle
    <3> QED BY <3>2
  <2> QED BY <2>1, <2>2
<1>2. Deciding(h) /\ claims' = claims
  BY DEF Save, HangUp, Deciding, Decides
<1>3. \A g \in Handlers : handler'[g] = IF g = h THEN q ELSE handler[g]
  BY <1>1 DEF SessionInv, TypeOK
<1>4. \A g \in Handlers : /\ ~Decides(handler'[g])
                          /\ handler'[g].pc = "loaded" => handler'[g].at.step \in claims'
  BY <1>1, <1>2, <1>3, DecidingIsCurrent DEF Deciding, Decides
<1> QED BY <1>4 DEF Justified, JustifiedBy, Decides

\* A report, when nobody decides, and what happens outside the program.
LEMMA OutsideIsJustified ==
    ASSUME SessionInv, Justified, Post \/ Observe \/ RemoveRoute
    PROVE  Justified'
<1>1. /\ UNCHANGED <<session, claims, handler>> /\ routes' \subseteq routes
  BY DEF Post, Observe, RemoveRoute, outside
<1>2. CASE Post
  <2>1. \A h \in Handlers : ~Deciding(h)
    <3>1. session.step \in Nat /\ posted.step \in Nat
      BY SessionTypes DEF SessionInv, TypeOK
    <3>2. \/ posted.step < session.step
          \/ session.stage = "dial" /\ posted.fields.result = None
      BY <1>2 DEF Post
    <3> QED BY <3>1, <3>2 DEF SessionInv, Works, Worked, Deciding
  <2> QED BY <1>1, <2>1 DEF Justified, JustifiedBy, Deciding, Decides
<1>3. CASE Observe \/ RemoveRoute
  <2>1. posted' = posted
    BY <1>3 DEF Observe, RemoveRoute
  <2> SUFFICES ASSUME NEW h \in Handlers PROVE JustifiedBy(handler[h])'
    BY DEF Justified
  <2>2. PICK q : q = handler[h]
    OBVIOUS
  <2>3. JustifiedBy(q)'
    BY <1>1, <2>1, <2>2, JustificationsLast DEF Justified
  <2> QED BY <1>1, <2>2, <2>3 DEF JustifiedBy
<1> QED BY <1>2, <1>3

\* Every step keeps the justifications.
LEMMA JustifiedSteps == SessionInv /\ Justified /\ [Next]_vars => Justified'
<1> SUFFICES ASSUME SessionInv, Justified, [Next]_vars PROVE Justified'
  OBVIOUS
<1>1. CASE UNCHANGED vars
  BY <1>1 DEF vars, outside, Justified, JustifiedBy, Outcome
<1>2. ASSUME NEW h \in Handlers, Receive(h) \/ Work(h) \/ Crash(h)
      PROVE  Justified'
  <2>1. CASE Claim(h)
    BY <2>1, ClaimsAreJustified
  <2>2. CASE (Save(h) \/ HangUp(h)) /\ session' # session
    BY <2>2, MovesAreJustified
  <2>3. CASE HangUp(h) /\ session' = session
    <3>1. session \in Sessions
      BY DEF SessionInv, TypeOK
    <3>2. session'.stage = "over"
      <4>1. Over(session).stage = "over"
        BY <3>1, NextSessions
      <4>2. session' = Over(session)
        BY <2>3 DEF HangUp
      <4> QED BY <4>1, <4>2
    <3>3. Deciding(h)
      BY <2>3 DEF HangUp, Deciding, Decides
    <3> QED BY <2>3, <3>2, <3>3, DecidingIsCurrent
  <2> QED BY <1>2, <2>1, <2>2, <2>3, ProcessesAreJustified DEF Work
<1>3. CASE Post \/ Observe \/ RemoveRoute
  BY <1>3, OutsideIsJustified
<1> QED BY <1>1, <1>2, <1>3 DEF Next

\* The justifications hold throughout.
LEMMA JustificationsHold == Spec => []Justified
<1>1. Init => Justified
  BY DEF Init, Justified, JustifiedBy, Idle
<1> QED BY <1>1, JustifiedSteps, SessionInvariant, PTL DEF Spec

\* A step of the processes is one of the abstract call, or cannot be seen.
LEMMA CallSteps ==
    ASSUME SessionInv, Justified, [Next]_vars
    PROVE  [Call!Next]_(Call!view)
<1>1. CASE session' # session
  <2>1. PICK h \in Handlers :
          /\ Deciding(h)
          /\ \/ HangUp(h)
             \/ /\ Save(h) /\ handler[h].at.stage # "over" /\ status \notin Terminal
                /\ handler[h].pc # "classifying"
    BY <1>1, SessionMoves
  <2>2. session.stage # "over" /\ posted.step = session.step
    BY <2>1, DecidingIsCurrent
  <2>3. UNCHANGED <<status, routes, posted>>
    BY <2>1 DEF HangUp, Save, outside
  <2>4. CASE HangUp(h)
    <3>1. session' = Over(session)
      BY <2>4 DEF HangUp
    <3>2. Call!End
      BY <2>2, <2>3, <3>1 DEF Call!End
    <3> QED BY <3>2 DEF Call!Next
  <2>5. CASE Save(h) /\ handler[h].at.stage # "over" /\ status \notin Terminal
    <3>1. session' = Saved(handler[h].at) /\ handler[h].pc = "admitted"
      BY <1>1, <2>5 DEF Save
    <3>2. PICK known \in SUBSET posted.configured :
            routes \subseteq known /\ handler[h].at \in Outcomes(session, posted.fields, known)
      BY <2>5, <3>1 DEF Justified, JustifiedBy, Outcome
    <3>3. /\ TransitionLeft(handler[h].at.transitions)
          /\ handler[h].at.transitions = session.transitions
      BY <2>1, <3>1, DecidingIsCurrent DEF SessionInv, Works, Worked, Deciding, Follows
    <3>4. Call!Proceed
      BY <2>2, <2>3, <2>5, <3>1, <3>2, <3>3 DEF Call!Proceed, TransitionLeft
    <3> QED BY <3>4 DEF Call!Next
  <2> QED BY <2>1, <2>4, <2>5
<1>2. CASE session' = session /\ ~Post
  <2>1. posted' = posted /\ routes' \subseteq routes
    BY <1>2 DEF Next, Work, Receive, Claim, Classify, Admit, Save, Emit, HangUp, Crash,
                Observe, RemoveRoute, vars, outside
  <2>2. Call!Outside
    BY <1>2, <2>1 DEF Call!Outside
  <2> QED BY <2>2 DEF Call!Next
<1>3. CASE Post
  <2>1. Call!Report
    BY <1>3 DEF Post, Call!Report, outside
  <2> QED BY <2>1 DEF Call!Next
<1> QED BY <1>1, <1>2, <1>3

\* ImplementsCall: whatever the processes do, what can be read of the call is one step
\* after the other, each decided by its own callback and stored once.
THEOREM SessionIsOneCall == Spec => ImplementsCall
<1>1. Init => Call!Init
  BY DEF Init, Call!Init
<1>2. SessionInv /\ Justified /\ [Next]_vars => [Call!Next]_(Call!view)
  BY CallSteps
<1> QED BY <1>1, <1>2, SessionInvariant, JustificationsHold, PTL
        DEF Spec, ImplementsCall, Call!Spec
=============================================================================
