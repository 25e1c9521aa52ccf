------------------------ MODULE CallbackClaimsProofs ------------------------
(***************************************************************************)
(* Theorems about CallbackClaims, for any deliveries, steps, split of the  *)
(* helpers and capacity.  Holding, what a claim says of the delivery that  *)
(* made it, carries the induction: a delivery that may decide holds a      *)
(* claim that was answered, and every answered claim has had a holder.     *)
(***************************************************************************)
EXTENDS CallbackClaims, FiniteSetTheorems, TLAPS

\* The delivery d has passed authentication and, where it comes first, admission.
Earned(d) == genuine[d] /\ (step[d] \in AdmitFirst => admissible[d])

Holding ==
    /\ unanswered \subseteq claims
    /\ \A d \in Deliveries :
         /\ Holds(d) => step[d] \in claims \ unanswered
         /\ At(d, "replayed") => step[d] \in claims
         /\ pc[d] \in {"claim", "resolve", "decided", "replayed", "refused"} => Earned(d)
    /\ \A s \in claims :
         /\ \E d \in Deliveries : step[d] = s /\ Earned(d) /\ ~At(d, "rejected")
         /\ s \notin unanswered =>
              \E d \in Deliveries : step[d] = s /\ (Holds(d) \/ At(d, "failed"))

IInv == TypeOK /\ OneDecision /\ Holding /\ RefusalIsFinal

-----------------------------------------------------------------------------
\* At the start nothing is claimed.
LEMMA ClaimsStart == Init => IInv
<1> SUFFICES ASSUME Init PROVE IInv
  OBVIOUS
<1>1. TypeOK
  BY DEF Init, TypeOK, Running
<1>2. \A d \in Deliveries : pc[d] = "received"
  BY DEF Init
<1>3. OneDecision /\ Holding
  BY <1>2 DEF Init, OneDecision, Holding, Holds, At
<1>4. RefusalIsFinal
  BY <1>2, FS_EmptySet, EntriesAssumption DEF Init, RefusalIsFinal, At
<1> QED BY <1>1, <1>3, <1>4 DEF IInv

\* What a step of delivery d leaves alone.
LEMMA OneMoves ==
    ASSUME TypeOK, NEW d \in Deliveries, Deliver(d)
    PROVE  /\ \A e \in Deliveries \ {d} : pc'[e] = pc[e]
           /\ UNCHANGED callbackVars
           /\ claims \subseteq claims' /\ unanswered \subseteq unanswered'
  BY DEF Deliver, Authenticate, Claim, Replay, Refuse, PutUnanswered, Resolve, Fail,
         Goto, TypeOK

\* Types are kept.
LEMMA TypeSteps ==
    ASSUME TypeOK, NEW d \in Deliveries, Deliver(d)
    PROVE  TypeOK'
<1>1. step[d] \in Steps
  BY DEF TypeOK
<1>2. claims' \in SUBSET Steps /\ unanswered' \in SUBSET Steps
  BY <1>1 DEF TypeOK, Deliver, Authenticate, Claim, Replay, Refuse, PutUnanswered,
              Resolve, Fail
<1>3. \E label \in Running \cup Finished : Goto(d, label)
  BY DEF Deliver, Authenticate, Claim, Replay, Refuse, PutUnanswered, Resolve, Fail,
         Running, Finished
<1> QED BY <1>2, <1>3 DEF TypeOK, Goto, callbackVars

\* A delivery comes to hold a step only when nobody has claimed it.
LEMMA DecisionSteps ==
    ASSUME TypeOK, OneDecision, Holding, NEW d \in Deliveries, Deliver(d)
    PROVE  OneDecision'
<1>1. /\ \A e \in Deliveries \ {d} : pc'[e] = pc[e]
      /\ step' = step
  BY OneMoves DEF callbackVars
<1>2. Holds(d)' => Holds(d) \/ step[d] \notin claims
  BY DEF Deliver, Authenticate, Claim, Replay, Refuse, PutUnanswered, Resolve, Fail,
         Goto, TypeOK, Holds, Free, At
<1>3. \A e \in Deliveries : Holds(e) => step[e] \in claims
  BY DEF Holding
<1> QED BY <1>1, <1>2, <1>3 DEF OneDecision, Holds

\* What each delivery knows about its claim is kept.
LEMMA HoldingSteps ==
    ASSUME TypeOK, Holding, NEW d \in Deliveries, Deliver(d)
    PROVE  Holding'
<1>1. /\ \A e \in Deliveries \ {d} : pc'[e] = pc[e]
      /\ claimer' = claimer /\ step' = step
      /\ genuine' = genuine /\ admissible' = admissible
      /\ claims \subseteq claims' /\ unanswered \subseteq unanswered'
  BY OneMoves DEF callbackVars
<1>2. \A e \in Deliveries : Earned(e)' <=> Earned(e)
  BY <1>1 DEF Earned
<1> HIDE DEF Earned
<1>3. CASE claims' = claims /\ unanswered' = unanswered
  <2>1. /\ Holds(d)' => Holds(d)
        /\ Holds(d) => Holds(d)' \/ pc'[d] = "failed"
        /\ pc'[d] = "replayed" => step[d] \in claims
        /\ pc'[d] \in {"claim", "resolve", "decided", "replayed", "refused"}
              => Earned(d)
        /\ pc[d] \in Running
        /\ pc'[d] = "rejected" => ~Earned(d)
    BY <1>3 DEF Deliver, Authenticate, Claim, Replay, Refuse, PutUnanswered, Resolve,
                Fail, Goto, TypeOK, Holds, Holding, Free, At, MayClaim, Running, Earned
  <2>2. \A e \in Deliveries :
          /\ Holds(e)' => Holds(e)
          /\ Holds(e) => Holds(e)' \/ pc'[e] = "failed"
          /\ pc[e] = "failed" => pc'[e] = "failed"
          /\ pc'[e] = "rejected" => pc[e] = "rejected" \/ ~Earned(e)
    BY <1>1, <2>1 DEF Holds, Running
  <2>3. unanswered' \subseteq claims'
    BY <1>3 DEF Holding
  <2>4. \A e \in Deliveries :
          /\ Holds(e)' => step'[e] \in claims' \ unanswered'
          /\ At(e, "replayed")' => step'[e] \in claims'
          /\ pc'[e] \in {"claim", "resolve", "decided", "replayed", "refused"} => Earned(e)'
    BY <1>1, <1>2, <1>3, <2>1, <2>2 DEF Holding, At
  <2>5. \A s \in claims' :
          /\ \E e \in Deliveries : step'[e] = s /\ Earned(e)' /\ ~At(e, "rejected")'
          /\ s \notin unanswered' =>
               \E e \in Deliveries : step'[e] = s /\ (Holds(e)' \/ At(e, "failed")')
    BY <1>1, <1>2, <1>3, <2>2 DEF Holding, At
  <2> QED BY <2>3, <2>4, <2>5 DEF Holding
<1>4. CASE Claim(d) \/ PutUnanswered(d)
  <2>1. /\ pc[d] = "claim" /\ step[d] \notin claims
        /\ claims' = claims \cup {step[d]}
        /\ \/ unanswered' = unanswered /\ pc'[d] = "resolve"
           \/ unanswered' = unanswered \cup {step[d]} /\ pc'[d] \in {"claim", "failed"}
    BY <1>4 DEF Claim, PutUnanswered, Goto, TypeOK, At, Free
  <2>2. Earned(d)
    BY <2>1 DEF Holding
  <2>3. unanswered' \subseteq claims'
    BY <2>1 DEF Holding
  <2>4. \A e \in Deliveries \ {d} : Holds(e) => step[e] # step[d]
    BY <2>1 DEF Holding
  <2>5. \A e \in Deliveries :
          /\ Holds(e)' => step'[e] \in claims' \ unanswered'
          /\ At(e, "replayed")' => step'[e] \in claims'
          /\ pc'[e] \in {"claim", "resolve", "decided", "replayed", "refused"} => Earned(e)'
    <3> SUFFICES ASSUME NEW e \in Deliveries
                 PROVE  /\ Holds(e)' => step'[e] \in claims' \ unanswered'
                        /\ At(e, "replayed")' => step'[e] \in claims'
                        /\ pc'[e] \in {"claim", "resolve", "decided", "replayed", "refused"}
                              => Earned(e)'
      OBVIOUS
    <3>1. CASE e = d
      BY <1>1, <1>2, <2>1, <2>2, <3>1 DEF Holding, Holds, At
    <3>2. CASE e # d
      BY <1>1, <1>2, <2>1, <2>4, <3>2 DEF Holding, Holds, At
    <3> QED BY <3>1, <3>2
  <2>6. ASSUME NEW s \in claims'
        PROVE  /\ \E e \in Deliveries : step'[e] = s /\ Earned(e)' /\ ~At(e, "rejected")'
               /\ s \notin unanswered' =>
                    \E e \in Deliveries : step'[e] = s /\ (Holds(e)' \/ At(e, "failed")')
    <3>1. CASE s = step[d]
      BY <1>1, <1>2, <2>1, <2>2, <3>1 DEF Holds, At
    <3>2. CASE s # step[d]
      <4>1. s \in claims /\ \A e \in Deliveries : step[e] = s => e # d
        BY <2>1, <2>6, <3>2
      <4> QED BY <1>1, <1>2, <4>1 DEF Holding, Holds, At
    <3> QED BY <3>1, <3>2
  <2> QED BY <2>3, <2>5, <2>6 DEF Holding
<1> QED
  BY <1>3, <1>4 DEF Deliver, Authenticate, Replay, Refuse, Resolve, Fail

\* A full store stays as it is.
LEMMA RefusalSteps ==
    ASSUME TypeOK, RefusalIsFinal, NEW d \in Deliveries, Deliver(d)
    PROVE  RefusalIsFinal'
<1>1. IsFiniteSet(claims) /\ Cardinality(claims) \in Nat
  BY StepsAssumption, FS_Subset, FS_CardinalityType DEF TypeOK
<1>2. /\ \A e \in Deliveries \ {d} : pc'[e] = pc[e]
      /\ claimer' = claimer /\ step' = step
  BY OneMoves DEF callbackVars
<1> SUFFICES ASSUME claimer = "memory" PROVE RefusalIsFinal'
  BY <1>2 DEF RefusalIsFinal
<1>3. CASE Claim(d)
  <2>1. /\ step[d] \notin claims /\ claims' = claims \cup {step[d]}
        /\ ~(Cardinality(claims) >= MaxEntries) /\ pc'[d] = "resolve"
    BY <1>3 DEF Claim, Free, Full, Goto, TypeOK
  <2>2. Cardinality(claims') = Cardinality(claims) + 1
    BY <1>1, <2>1, FS_AddElement
  <2>3. \A e \in Deliveries : ~At(e, "refused")'
    BY <1>1, <1>2, <2>1, EntriesAssumption DEF RefusalIsFinal, At
  <2> QED BY <1>1, <2>1, <2>2, <2>3, EntriesAssumption DEF RefusalIsFinal
<1>4. CASE Refuse(d)
  <2>1. /\ claims' = claims /\ step[d] \notin claims
        /\ Cardinality(claims) >= MaxEntries
    BY <1>4 DEF Refuse, Free, Full
  <2>2. Cardinality(claims) = MaxEntries
    BY <1>1, <2>1, EntriesAssumption DEF RefusalIsFinal
  <2> QED BY <1>2, <2>1, <2>2 DEF RefusalIsFinal, At
<1>5. CASE claims' = claims /\ pc'[d] # "refused"
  BY <1>2, <1>5 DEF RefusalIsFinal, At
<1>6. ~PutUnanswered(d)
  BY DEF PutUnanswered
<1> QED
  BY <1>3, <1>4, <1>5, <1>6 DEF Deliver, Authenticate, Replay, Resolve, Fail, Goto, TypeOK

\* The invariant is inductive and holds throughout.
THEOREM ClaimInvariant == Spec => []IInv
<1>1. IInv /\ [Next]_vars => IInv'
  <2> SUFFICES ASSUME IInv, [Next]_vars PROVE IInv'
    OBVIOUS
  <2>1. CASE \E d \in Deliveries : Deliver(d)
    BY <2>1, TypeSteps, DecisionSteps, HoldingSteps, RefusalSteps DEF IInv
  <2>2. CASE UNCHANGED vars
    BY <2>2 DEF vars, IInv, TypeOK, OneDecision, Holding, RefusalIsFinal, Holds, At, Earned
  <2> QED BY <2>1, <2>2 DEF Next
<1> QED BY <1>1, ClaimsStart, PTL DEF Spec

-----------------------------------------------------------------------------
\* The steps keep to the types.
THEOREM TypeCorrect == Spec => []TypeOK
  BY ClaimInvariant, PTL DEF IInv

\* A step is decided at most once, for any number of deliveries and failures.
THEOREM StepsAreDecidedOnce == Spec => []OneDecision
  BY ClaimInvariant, PTL DEF IInv

\* A claim with a lost answer never leads to a decision.
THEOREM UncertainClaimsAdmitNobody == Spec => []LostAnswerAdmitsNobody
<1>1. IInv => LostAnswerAdmitsNobody
  BY DEF IInv, Holding, LostAnswerAdmitsNobody
<1> QED BY <1>1, ClaimInvariant, PTL

\* Rejected callbacks never consume a step.
THEOREM RejectionsConsumeNothing == Spec => []ClaimsAreEarned
<1>1. IInv => ClaimsAreEarned
  BY DEF IInv, Holding, ClaimsAreEarned, Earned
<1> QED BY <1>1, ClaimInvariant, PTL

\* A step that deserved a decision gets one, or an error that says otherwise.
THEOREM StepsAreAccountedFor == Spec => []NoStepIsLost
<1>1. IInv => NoStepIsLost
  <2> SUFFICES ASSUME IInv, NEW s \in Steps, s \notin unanswered,
                      NEW d \in Deliveries, step[d] = s, pc[d] # "rejected",
                      \A e \in Deliveries : step[e] = s => pc[e] \in Finished
               PROVE  \E e \in Deliveries :
                        step[e] = s /\ pc[e] \in {"decided", "refused", "failed"}
    BY DEF NoStepIsLost
  <2>1. CASE pc[d] = "replayed"
    <3>1. PICK e \in Deliveries : step[e] = s /\ (Holds(e) \/ At(e, "failed"))
      BY <2>1 DEF IInv, Holding, At
    <3>2. pc[e] \in {"decided", "failed"}
      BY <3>1 DEF Holds, At, Finished
    <3> QED BY <3>1, <3>2
  <2>2. CASE pc[d] \in {"decided", "refused", "failed"}
    BY <2>2
  <2> QED BY <2>1, <2>2 DEF Finished
<1> QED BY <1>1, ClaimInvariant, PTL

\* The in-memory store keeps its bound, and what it refused stays unclaimed.
THEOREM RefusalsAreFinal == Spec => []RefusalIsFinal
  BY ClaimInvariant, PTL DEF IInv
=============================================================================
