--------------------------- MODULE CallbackClaims ---------------------------
(***************************************************************************)
(* One-shot voice steps (callback_claim_store.py and the claimed helpers   *)
(* of the *_event.py modules).  Twilio may deliver the callback of a step  *)
(* any number of times, at once or later.  A delivery is authenticated and *)
(* bound to its call, claims its step in an injected store, and only then  *)
(* is a decision proposed for it.  Helpers differ in when the callback's   *)
(* fields are admitted: keypad, speech and confirmation claim first and    *)
(* let the policy treat bad input as a bad attempt; dial results and       *)
(* voicemail admit first, so that a malformed callback leaves the step.    *)
(*                                                                         *)
(* Both adapters are here.  InMemoryCallbackClaimStore is atomic and       *)
(* bounded.  DynamoDBCallbackClaimStore sends one conditional put: it may  *)
(* be applied without an answer, and the SDK may then send it again.       *)
(***************************************************************************)
EXTENDS Naturals, FiniteSets

CONSTANTS
    Deliveries,   \* callback deliveries
    Steps,        \* workspace/call/step keys
    AdmitFirst,   \* the steps whose helper admits the fields before it claims
    MaxEntries    \* max_entries of the in-memory store

ASSUME StepsAssumption   == IsFiniteSet(Steps) /\ AdmitFirst \subseteq Steps
ASSUME EntriesAssumption == MaxEntries \in Nat \ {0}

VARIABLES
    claimer,      \* the adapter that is injected
    claims,       \* the claimed steps
    unanswered,   \* steps claimed by a put whose answer was lost (history)
    pc,           \* pc[d]: where delivery d is
    step,         \* step[d]: the trusted step that d is served for
    genuine,      \* genuine[d]: signed, and bound to the step's account and call
    admissible    \* admissible[d]: its fields are ones the policy accepts

callbackVars == <<claimer, step, genuine, admissible>>
vars == <<claimer, claims, unanswered, pc, step, genuine, admissible>>

\* "decided" returned a decision, "replayed" raised CallbackReplayError, "refused"
\* CallbackClaimCapacityError, "rejected" failed before the claim, and "failed"
\* raised anything else or died.
Running  == {"received", "claim", "resolve"}
Finished == {"decided", "replayed", "refused", "rejected", "failed"}

TypeOK ==
    /\ claimer    \in {"memory", "dynamodb"}
    /\ claims     \subseteq Steps
    /\ unanswered \subseteq Steps
    /\ pc         \in [Deliveries -> Running \cup Finished]
    /\ step       \in [Deliveries -> Steps]
    /\ genuine    \in [Deliveries -> BOOLEAN]
    /\ admissible \in [Deliveries -> BOOLEAN]

Init ==
    /\ claimer    \in {"memory", "dynamodb"}
    /\ claims     = {}
    /\ unanswered = {}
    /\ pc         = [d \in Deliveries |-> "received"]
    /\ step       \in [Deliveries -> Steps]
    /\ genuine    \in [Deliveries -> BOOLEAN]
    /\ admissible \in [Deliveries -> BOOLEAN]

-----------------------------------------------------------------------------
At(d, label) == pc[d] = label

Goto(d, label) ==
    /\ pc' = [pc EXCEPT ![d] = label]
    /\ UNCHANGED callbackVars

\* Plausible bug: every helper claims before it looks at the fields.
ClaimsFirst(d) == genuine[d]

\* What a delivery has to pass before it may touch the claim.
MayClaim(d) == genuine[d] /\ (step[d] \in AdmitFirst => admissible[d])

Authenticate(d) ==
    /\ At(d, "received")
    /\ Goto(d, IF MayClaim(d) THEN "claim" ELSE "rejected")
    /\ UNCHANGED <<claims, unanswered>>

Free(d) == step[d] \notin claims
Full    == claimer = "memory" /\ Cardinality(claims) >= MaxEntries

\* Plausible bug: a put without its condition.
UnconditionalPut(d) ==
    /\ At(d, "claim")
    /\ Free(d) => ~Full
    /\ claims' = claims \cup {step[d]}
    /\ Goto(d, "resolve")
    /\ UNCHANGED unanswered

\* claim answers True: the delivery is the one that created the entry.
Claim(d) ==
    /\ At(d, "claim")
    /\ Free(d) /\ ~Full
    /\ claims' = claims \cup {step[d]}
    /\ Goto(d, "resolve")
    /\ UNCHANGED unanswered

\* claim answers False, from a full store too.
Replay(d) ==
    /\ At(d, "claim")
    /\ ~Free(d)
    /\ Goto(d, "replayed")
    /\ UNCHANGED <<claims, unanswered>>

\* Plausible bugs: a full store refuses the steps it holds, or calls a step that
\* it does not hold a replay.
RefuseEveryStep(d) ==
    /\ At(d, "claim")
    /\ Full
    /\ Goto(d, "refused")
    /\ UNCHANGED <<claims, unanswered>>

RefuseAsReplay(d) ==
    /\ At(d, "claim")
    /\ Free(d) /\ Full
    /\ Goto(d, "replayed")
    /\ UNCHANGED <<claims, unanswered>>

\* A full store has no room for a new step.
Refuse(d) ==
    /\ At(d, "claim")
    /\ Free(d) /\ Full
    /\ Goto(d, "refused")
    /\ UNCHANGED <<claims, unanswered>>

\* The put is applied and its answer lost or malformed: the call raises, or the
\* SDK sends the put again and finds its own entry.
PutUnanswered(d) ==
    /\ claimer = "dynamodb"
    /\ At(d, "claim")
    /\ Free(d)
    /\ claims' = claims \cup {step[d]}
    /\ unanswered' = unanswered \cup {step[d]}
    /\ \E label \in {"claim", "failed"} : Goto(d, label)

\* Claimed: the policy proposes the decision that the helper returns.
Resolve(d) ==
    /\ At(d, "resolve")
    /\ Goto(d, "decided")
    /\ UNCHANGED <<claims, unanswered>>

\* Plausible bug: a failed delivery gives its step back.
FailAndRelease(d) ==
    /\ pc[d] \in Running
    /\ claims' = claims \ {step[d]}
    /\ Goto(d, "failed")
    /\ UNCHANGED unanswered

\* Admission denies the put, the put is not applied, the policy raises, or the
\* process dies.  No claim is ever given back.
Fail(d) ==
    /\ pc[d] \in Running
    /\ Goto(d, "failed")
    /\ UNCHANGED <<claims, unanswered>>

Deliver(d) ==
    \/ Authenticate(d)
    \/ Claim(d)
    \/ Replay(d)
    \/ Refuse(d)
    \/ PutUnanswered(d)
    \/ Resolve(d)
    \/ Fail(d)

Next == \E d \in Deliveries : Deliver(d)

Spec == Init /\ [][Next]_vars

-----------------------------------------------------------------------------
(***************************************************************************)
(* Properties.                                                             *)
(***************************************************************************)
Holds(d) == pc[d] \in {"resolve", "decided"}

\* A step is decided at most once, however its deliveries overlap, whatever
\* answers are lost and whoever dies while holding the claim.
OneDecision ==
    \A d, e \in Deliveries :
       Holds(d) /\ Holds(e) /\ step[d] = step[e] => d = e

\* A claim whose answer was lost admits nobody, for ever: neither the delivery
\* that made it, nor its own resend, nor a later redelivery
\* (docs/dynamodb-callback-claims.md, failure and retention boundaries).
LostAnswerAdmitsNobody ==
    \A d \in Deliveries : step[d] \in unanswered => ~Holds(d)

\* Only an authenticated delivery consumes a step and, where the helper admits
\* first, only one with acceptable fields: a forged or malformed callback never
\* makes a later good one a replay.
ClaimsAreEarned ==
    \A s \in claims : \E d \in Deliveries :
       /\ step[d] = s
       /\ genuine[d]
       /\ s \in AdmitFirst => admissible[d]
       /\ ~At(d, "rejected")

\* No decision disappears silently: once all deliveries of a step have ended and
\* one of them deserved it, there is a decision, or someone saw an error that is
\* not a replay, or the claim's answer was lost.
NoStepIsLost ==
    \A s \in Steps :
       LET served == {d \in Deliveries : step[d] = s}
       IN  /\ \A d \in served : pc[d] \in Finished
           /\ \E d \in served : pc[d] # "rejected"
           /\ s \notin unanswered
           => \E d \in served : pc[d] \in {"decided", "refused", "failed"}

\* A bounded store keeps its bound, and a refusal is final: the step of a refused
\* delivery is held by nobody, then or ever after.
RefusalIsFinal ==
    claimer = "memory" =>
       /\ Cardinality(claims) <= MaxEntries
       /\ \A d \in Deliveries : At(d, "refused") =>
             step[d] \notin claims /\ Cardinality(claims) = MaxEntries
=============================================================================
