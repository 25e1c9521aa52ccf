---------------------- MODULE InMemoryCallStatusProofs ----------------------
(***************************************************************************)
(* Theorems about InMemoryCallStatus for any threads, legs, statuses,      *)
(* retry bound and capacity: the types, the capacity, that the dictionary  *)
(* implements the abstract register, that a full one refuses new legs      *)
(* only, and that answers are current and changes reported once.           *)
(***************************************************************************)
EXTENDS InMemoryCallStatus, CallStatusProofs, FiniteSetTheorems

AttemptLeft == \A d \in Deliveries : At(d, "backoff") => attempt[d] < MaxConflictRetries

EntriesReachable == \A k \in Keys : Reachable(states[k])

IInv == TypeOK /\ AttemptLeft /\ EntriesReachable

\* The initial states satisfy the invariant.
LEMMA InitIInv == Init => IInv
  BY IncomingAssumption, RetriesAssumption, MissingIsReachable
     DEF Init, EventInit, IInv, TypeOK, EventTypeOK, Running, AttemptLeft, At,
         EntriesReachable

\* The only step that changes the dictionary stores one whole observation of the
\* entry it finds there.
LEMMA DictionarySteps ==
    ASSUME [Next]_vars
    PROVE  \/ \E d \in Deliveries : Write(d)
           \/ UNCHANGED states
  BY DEF Next, Deliver, Load, Conflict, Unchanged, Refuse, Fail, RetryLoad, vars

\* Every step keeps the invariant.
LEMMA StepIInv ==
    ASSUME IInv, [Next]_vars
    PROVE  IInv'
  <1> USE DEF IInv, TypeOK, EventTypeOK, AttemptLeft, EntriesReachable, At
  <1>1. ASSUME NEW d \in Deliveries, Deliver(d)
        PROVE  IInv'
    <2>1. /\ incoming[d] \in Known /\ callKey[d] \in Keys
          /\ Entry(d) \in Snapshots /\ Reachable(Entry(d))
          /\ Observed(Entry(d), incoming[d]) \in Snapshots
          /\ Reachable(Observed(Entry(d), incoming[d]))
      BY ObservedIsReachable, IncomingAssumption DEF Entry
    <2>2. CASE Load(d)
      BY <2>1, <2>2 DEF Load, Prepared, Goto, Running
    <2>3. CASE Conflict(d)
      BY <2>3, RetriesAssumption DEF Conflict, Conflicted, Goto, Running, Finished
    <2>4. CASE Unchanged(d)
      BY <2>1, <2>4 DEF Unchanged, Persisted, Goto, Finished
    <2>5. CASE Refuse(d)
      BY <2>5 DEF Refuse, Changes, Failed, Goto, Finished
    <2>6. CASE Write(d)
      <3>1. states' = [states EXCEPT ![callKey[d]] = Observed(Entry(d), incoming[d])]
        BY <2>6 DEF Write, Entry
      <3>2. states' \in [Keys -> Snapshots] /\ EntriesReachable'
        BY <2>1, <3>1
      <3>3. EventTypeOK' /\ AttemptLeft'
        BY <2>1, <2>6 DEF Write, Changes, Persisted, Goto, Finished
      <3> QED
        BY <3>2, <3>3
    <2>7. CASE Fail(d)
      BY <2>7 DEF Fail, Failed, Goto, Finished
    <2>8. CASE RetryLoad(d)
      BY <2>8, RetriesAssumption DEF RetryLoad, Retry, Goto, Running
    <2> QED
      BY <1>1, <2>2, <2>3, <2>4, <2>5, <2>6, <2>7, <2>8 DEF Deliver
  <1>2. CASE UNCHANGED vars
    BY <1>2 DEF vars
  <1> QED
    BY <1>1, <1>2 DEF Next

\* Type correctness of the threads and the dictionary.
THEOREM TypeCorrect == Spec => []TypeOK
  BY InitIInv, StepIInv, PTL DEF Spec, IInv

-----------------------------------------------------------------------------
\* Storing a leg that is already held adds no entry; a new leg adds one.
LEMMA StoredAfterWrite ==
    ASSUME TypeOK, NEW d \in Deliveries, Write(d)
    PROVE  Stored' \subseteq Stored \cup {callKey[d]}
  BY DEF TypeOK, EventTypeOK, Write, Stored

\* CapacityKept: the dictionary never outgrows max_entries.
THEOREM CapacityIsKept == Spec => []CapacityKept
  <1>1. IsFiniteSet(Stored) /\ IsFiniteSet(Stored')
    BY KeysAssumption, FS_Subset DEF Stored
  <1>2. Init => CapacityKept
    <2> SUFFICES ASSUME Init
                 PROVE  Cardinality(Stored) <= MaxEntries
      BY DEF CapacityKept
    <2>1. Stored = {}
      BY DEF Init, Stored
    <2> QED
      BY <2>1, FS_EmptySet, EntriesAssumption
  <1>3. ASSUME IInv, CapacityKept, [Next]_vars
        PROVE  CapacityKept'
    <2>1. ASSUME NEW d \in Deliveries, Write(d)
          PROVE  CapacityKept'
      <3>1. Stored' \subseteq Stored \cup {callKey[d]}
        BY <1>3, <2>1, StoredAfterWrite DEF IInv
      <3>2. CASE callKey[d] \in Stored
        <4>1. Stored' \subseteq Stored
          BY <3>1, <3>2
        <4>2. Cardinality(Stored') <= Cardinality(Stored)
          BY <1>1, <4>1, FS_Subset
        <4> QED
          BY <1>1, <1>3, <4>2, FS_CardinalityType, EntriesAssumption DEF CapacityKept
      <3>3. CASE callKey[d] \notin Stored
        <4>1. ~(Cardinality(Stored) >= MaxEntries)
          BY <2>1, <3>3 DEF Write, AtCapacity
        <4>2. /\ IsFiniteSet(Stored \cup {callKey[d]})
              /\ Cardinality(Stored \cup {callKey[d]}) = Cardinality(Stored) + 1
          BY <1>1, <3>3, FS_AddElement
        <4>3. Cardinality(Stored') <= Cardinality(Stored \cup {callKey[d]})
          BY <3>1, <4>2, FS_Subset
        <4> QED
          BY <1>1, <4>1, <4>2, <4>3, FS_CardinalityType, EntriesAssumption
             DEF CapacityKept
      <3> QED
        BY <3>2, <3>3
    <2>2. CASE UNCHANGED states
      BY <1>3, <2>2 DEF CapacityKept, Stored
    <2> QED
      BY <1>3, <2>1, <2>2, DictionarySteps
  <1> QED
    BY <1>2, <1>3, InitIInv, StepIInv, PTL DEF Spec

-----------------------------------------------------------------------------
\* TerminalIsKept: no entry is evicted and no terminal one replaced.
THEOREM EntriesAreKept == Spec => TerminalIsKept
  <1> DEFINE A == \A k \in Keys :
                    /\ states[k] # Missing => states'[k] # Missing
                    /\ states[k].status \in Terminal => states'[k] = states[k]
  <1>1. ASSUME IInv, [Next]_vars
        PROVE  A
    <2>1. ASSUME NEW d \in Deliveries, Write(d), NEW k \in Keys
          PROVE  /\ states[k] # Missing => states'[k] # Missing
                 /\ states[k].status \in Terminal => states'[k] = states[k]
      <3>1. /\ incoming[d] \in Known /\ callKey[d] \in Keys
            /\ states \in [Keys -> Snapshots] /\ Reachable(states[callKey[d]])
            /\ states' = [states EXCEPT ![callKey[d]] = Observed(Entry(d), incoming[d])]
        BY <1>1, <2>1, IncomingAssumption
           DEF IInv, TypeOK, EventTypeOK, EntriesReachable, Write, Entry
      <3>2. CASE k = callKey[d]
        <4>1. Observed(Entry(d), incoming[d]).revision > 0
          BY <3>1, ObservedIsReachable DEF Entry
        <4>2. states[k].status \notin Terminal
          BY <2>1, <3>1, <3>2, TerminalIsFinal DEF Write, Changes, Entry
        <4> QED
          BY <3>1, <3>2, <4>1, <4>2 DEF Missing
      <3>3. CASE k # callKey[d]
        BY <3>1, <3>3
      <3> QED
        BY <3>2, <3>3
    <2> QED
      BY <1>1, <2>1, DictionarySteps
  <1>2. IInv /\ [Next]_vars => IInv' /\ A
    BY <1>1, StepIInv
  <1> QED
    BY <1>2, InitIInv, PTL DEF Spec, TerminalIsKept

\* The abstract register applies the very same lifecycle policy.
LEMMA SamePolicy ==
    /\ Register!Known = Known /\ Register!Missing = Missing
    /\ \A s, c : Register!Supersedes(s, c) <=> Supersedes(s, c)
    /\ \A p, s : Register!Observed(p, s) = Observed(p, s)
  <1>1. /\ Register!Known = Known /\ Register!None = None
        /\ Register!Missing = Missing
        /\ Register!Active = Active /\ Register!Terminal = Terminal
        /\ Register!ActiveProgress = ActiveProgress
    BY DEF Register!Known, Known, Register!None, None, Register!Missing, Missing,
           Register!Active, Active, Register!Terminal, Terminal,
           Register!ActiveProgress, ActiveProgress
  <1>2. \A s, c : Register!Supersedes(s, c) <=> Supersedes(s, c)
    BY <1>1 DEF Register!Supersedes, Supersedes
  <1>3. \A p, s : Register!Observed(p, s) = Observed(p, s)
    BY <1>2 DEF Register!Observed, Observed, Register!Advance, Advance
  <1> QED
    BY <1>1, <1>2, <1>3

\* The dictionary implements the abstract register, without ever forgetting.
THEOREM RefinesRegister == Spec => ImplementsRegister
  <1>1. Init => Register!Init
    BY SamePolicy DEF Init, Register!Init
  <1>2. ASSUME IInv, [Next]_vars
        PROVE  [Register!Next]_states
    <2>1. ASSUME NEW d \in Deliveries, Write(d)
          PROVE  Register!Next
      <3>1. /\ incoming[d] \in Known /\ callKey[d] \in Keys
            /\ states' = [states EXCEPT ![callKey[d]] = Observed(Entry(d), incoming[d])]
        BY <1>2, <2>1, IncomingAssumption DEF IInv, TypeOK, EventTypeOK, Write, Entry
      <3>2. Supersedes(incoming[d], Entry(d).status)
        BY <2>1 DEF Write, Changes, Advance
      <3>3. Register!Record(callKey[d], incoming[d])
        BY <3>1, <3>2, SamePolicy DEF Register!Record, Entry
      <3> QED
        BY <3>1, <3>3, SamePolicy DEF Register!Next
    <2> QED
      BY <1>2, <2>1, DictionarySteps
  <1>3. IInv /\ [Next]_vars => IInv' /\ [Register!Next]_states
    BY <1>2, StepIInv
  <1> QED
    BY <1>1, <1>3, InitIInv, PTL DEF Spec, ImplementsRegister, Register!Spec

-----------------------------------------------------------------------------
(***************************************************************************)
(* What deliveries remember of the entries: a snapshot that is about to be *)
(* observed is the entry or an older revision of it, and a saved result is *)
(* no later revision than the entry.                                       *)
(***************************************************************************)
SnapshotsArePast ==
    \A d \in Deliveries : At(d, "observe") =>
       /\ snapshot[d].revision <= Entry(d).revision
       /\ snapshot[d].revision = Entry(d).revision => snapshot[d] = Entry(d)

ResultsArePast ==
    \A d \in Deliveries : At(d, "saved") => result[d].revision <= Entry(d).revision

History == SnapshotsArePast /\ ResultsArePast

\* What a delivery that observes at the entry's revision finds and answers.
LEMMA ObservedAtTheEntry ==
    ASSUME IInv, SnapshotsArePast, NEW d \in Deliveries, At(d, "observe"),
           Entry(d).revision = snapshot[d].revision
    PROVE  /\ snapshot[d] = Entry(d) /\ Expected(d) = Observed(Entry(d), incoming[d])
           /\ Advance(Entry(d).status, incoming[d]) = Entry(d).status => Expected(d) = Entry(d)
           /\ Advance(Entry(d).status, incoming[d]) # Entry(d).status
                 => Expected(d).revision = Entry(d).revision + 1
  <1>1. snapshot[d] = Entry(d)
    BY DEF SnapshotsArePast
  <1>2. Entry(d) \in Snapshots
    BY DEF IInv, TypeOK, EventTypeOK, Entry
  <1>3. Entry(d) = [status |-> Entry(d).status, revision |-> Entry(d).revision]
        /\ Entry(d).revision \in Nat
    BY <1>2 DEF Snapshots
  <1> HIDE DEF Entry
  <1> QED
    BY <1>1, <1>3 DEF Expected, Observed

\* A write moves the entry of its own leg to the next revision, and no other.
LEMMA WritesMoveOn ==
    ASSUME IInv, NEW d \in Deliveries, Write(d)
    PROVE  /\ states' = [states EXCEPT ![callKey[d]] = Observed(Entry(d), incoming[d])]
           /\ states'[callKey[d]] = Observed(Entry(d), incoming[d])
           /\ Observed(Entry(d), incoming[d]).revision = Entry(d).revision + 1
           /\ \A k \in Keys : states'[k] = states[k] \/ states'[k].revision > states[k].revision
  <1>1. states' = [states EXCEPT ![callKey[d]] = Observed(Entry(d), incoming[d])]
    BY DEF Write, Entry
  <1>2. /\ callKey[d] \in Keys /\ states \in [Keys -> Snapshots]
        /\ Entry(d).revision \in Nat
    BY DEF IInv, TypeOK, EventTypeOK, Entry, Snapshots
  <1>3. Observed(Entry(d), incoming[d]).revision = Entry(d).revision + 1
    BY <1>2 DEF Write, Changes, Observed
  <1> QED
    BY <1>1, <1>2, <1>3 DEF Entry

\* Entries only move on, so what was past stays past.
LEMMA PastStaysPast ==
    ASSUME IInv, [Next]_vars, NEW k \in Keys
    PROVE  /\ states[k].revision \in Nat /\ states'[k].revision \in Nat
           /\ states'[k] = states[k] \/ states'[k].revision > states[k].revision
  <1>1. states[k].revision \in Nat /\ states'[k].revision \in Nat
    BY StepIInv DEF IInv, TypeOK, Snapshots
  <1> QED
    BY <1>1, WritesMoveOn, DictionarySteps

\* Every step keeps the history.
LEMMA StepHistory ==
    ASSUME IInv, History, [Next]_vars
    PROVE  History'
  <1> USE DEF At
  <1>1. /\ pc \in [Deliveries -> Running \cup Finished]
        /\ snapshot \in [Deliveries -> Snapshots] /\ result \in [Deliveries -> Snapshots]
        /\ \A d \in Deliveries : /\ callKey[d] \in Keys /\ callKey'[d] = callKey[d]
                                /\ snapshot[d].revision \in Nat
                                /\ result[d].revision \in Nat
    <2>1. callKey' = callKey
      BY DEF Next, Deliver, Load, Prepared, Conflict, Conflicted, Unchanged, Persisted,
             Refuse, Failed, Write, Fail, RetryLoad, Retry, vars
    <2> QED
      BY <2>1 DEF IInv, TypeOK, EventTypeOK, Snapshots
  <1>2. ASSUME NEW e \in Deliveries, pc'[e] = "observe" => pc[e] = "observe",
               pc'[e] = "saved" => pc[e] = "saved",
               snapshot'[e] = snapshot[e], result'[e] = result[e]
        PROVE  /\ At(e, "observe")' => /\ snapshot'[e].revision <= Entry(e)'.revision
                                       /\ snapshot'[e].revision = Entry(e)'.revision
                                             => snapshot'[e] = Entry(e)'
               /\ At(e, "saved")' => result'[e].revision <= Entry(e)'.revision
    <2>1. /\ Entry(e).revision \in Nat /\ Entry(e)'.revision \in Nat
          /\ Entry(e)' = Entry(e) \/ Entry(e)'.revision > Entry(e).revision
      BY <1>1, PastStaysPast DEF Entry
    <2> QED
      BY <1>1, <1>2, <2>1 DEF History, SnapshotsArePast, ResultsArePast
  <1>3. ASSUME NEW d \in Deliveries, Deliver(d), NEW e \in Deliveries
        PROVE  /\ At(e, "observe")' => /\ snapshot'[e].revision <= Entry(e)'.revision
                                       /\ snapshot'[e].revision = Entry(e)'.revision
                                             => snapshot'[e] = Entry(e)'
               /\ At(e, "saved")' => result'[e].revision <= Entry(e)'.revision
    <2>1. CASE d # e
      <3>1. pc'[e] = pc[e] /\ snapshot'[e] = snapshot[e] /\ result'[e] = result[e]
        BY <1>1, <1>3, <2>1
           DEF Deliver, Load, Prepared, Conflict, Conflicted, Unchanged, Persisted,
               Refuse, Changes, Failed, Write, Fail, RetryLoad, Retry, Goto
      <3> QED
        BY <1>2, <3>1
    <2>2. CASE d = e /\ Load(d)
      <3>1. /\ pc'[d] = "observe" /\ snapshot'[d] = Entry(d) /\ states' = states
        BY <1>1, <2>2 DEF Load, Prepared, Goto
      <3> QED
        BY <1>1, <2>2, <3>1, PastStaysPast DEF Entry
    <2>3. CASE d = e /\ (Conflict(d) \/ Refuse(d) \/ Fail(d) \/ RetryLoad(d))
      <3>1. /\ pc'[d] \in {"conflict", "backoff", "failed", "load"}
            /\ snapshot'[d] = snapshot[d] /\ result'[d] = result[d]
        BY <1>1, <2>3 DEF Conflict, Conflicted, Refuse, Failed, Fail, RetryLoad, Retry, Goto
      <3> QED
        BY <1>2, <2>3, <3>1
    <2>4. CASE d = e /\ Unchanged(d)
      <3>1. /\ pc'[d] = "failed" \/ (pc'[d] = "saved" /\ result'[d] = Entry(d))
            /\ states' = states
        BY <1>1, <2>4 DEF Unchanged, Persisted, Goto
      <3> QED
        BY <1>1, <2>4, <3>1, PastStaysPast DEF Entry
    <2>5. CASE d = e /\ Write(d)
      <3>1. \/ pc'[d] = "failed"
            \/ pc'[d] = "saved" /\ result'[d] = Observed(Entry(d), incoming[d])
        BY <1>1, <2>5 DEF Write, Persisted, Goto
      <3> QED
        BY <1>1, <2>5, <3>1, WritesMoveOn, PastStaysPast DEF Entry
    <2> QED
      BY <1>3, <2>1, <2>2, <2>3, <2>4, <2>5 DEF Deliver
  <1>4. CASE UNCHANGED vars
    BY <1>4 DEF vars, History, SnapshotsArePast, ResultsArePast, Entry
  <1> QED
    BY <1>3, <1>4 DEF Next, History, SnapshotsArePast, ResultsArePast

\* What deliveries remember is never ahead of the dictionary.
LEMMA HistoryHolds == Spec => [](IInv /\ History)
  <1>1. Init => History
    BY DEF Init, EventInit, History, SnapshotsArePast, ResultsArePast, At
  <1> QED
    BY <1>1, StepHistory, InitIInv, StepIInv, PTL DEF Spec

\* CapacityIsExact: no step takes the store past max_entries, and an observation
\* fails for want of a free entry only; what the store answers is otherwise always
\* what the delivery expects.
THEOREM CapacityStaysExact == Spec => CapacityIsExact
  <1> DEFINE A == \A d \in Deliveries :
                    pc[d] = "observe" /\ pc'[d] = "failed"
                       => callKey[d] \notin Stored /\ Cardinality(Stored) = MaxEntries
  <1>1. ASSUME IInv, History, CapacityKept, [Next]_vars PROVE A
    <2> SUFFICES ASSUME NEW d \in Deliveries, pc[d] = "observe", pc'[d] = "failed"
                 PROVE  callKey[d] \notin Stored /\ Cardinality(Stored) = MaxEntries
      OBVIOUS
    <2>0. pc \in [Deliveries -> Running \cup Finished]
      BY <1>1 DEF IInv, TypeOK, EventTypeOK
    <2>1. Deliver(d)
      <3>1. ASSUME NEW e \in Deliveries, Deliver(e), e # d PROVE FALSE
        BY <2>0, <3>1 DEF Deliver, Load, Prepared, Conflict, Conflicted, Unchanged,
            Persisted, Refuse, Failed, Write, Fail, RetryLoad, Retry, Goto
      <3>2. CASE UNCHANGED vars
        BY <3>2 DEF vars
      <3> QED
        BY <1>1, <3>1, <3>2 DEF Next
    <2>2. ~Load(d) /\ ~Conflict(d) /\ ~Fail(d) /\ ~RetryLoad(d)
      BY <2>0 DEF Load, Prepared, Conflict, Conflicted, Fail, RetryLoad, Retry, Goto, At
    <2>3. ~Unchanged(d) /\ ~Write(d)
      BY <1>1, <2>0, ObservedAtTheEntry
         DEF Unchanged, Write, Changes, Persisted, Goto, History, At
    <2>4. Refuse(d)
      BY <2>1, <2>2, <2>3 DEF Deliver
    <2>5. IsFiniteSet(Stored)
      BY KeysAssumption, FS_Subset DEF Stored
    <2> QED
      BY <1>1, <2>4, <2>5, FS_CardinalityType, EntriesAssumption
         DEF Refuse, AtCapacity, CapacityKept
  <1> DEFINE B == Cardinality(Stored') <= MaxEntries
  <1>2. IInv /\ History /\ CapacityKept /\ CapacityKept' /\ [Next]_vars => [B /\ A]_vars
    BY <1>1 DEF CapacityKept
  <1> QED
    BY <1>2, HistoryHolds, CapacityIsKept, PTL DEF Spec, CapacityIsExact

\* AnswersAreCurrent: a returned snapshot is the entry at that instant, and one that
\* changed it is a later revision than any reported before.
THEOREM AnswersStayCurrent == Spec => AnswersAreCurrent
  <1> DEFINE A == \A d \in Deliveries :
         pc[d] # "saved" /\ pc'[d] = "saved"
            => /\ states'[callKey[d]] = result'[d]
               /\ Changed(d)' => \A e \in Deliveries \ {d} :
                     Changed(e) /\ callKey[e] = callKey[d]
                        => result[e].revision < result'[d].revision
  <1>1. ASSUME IInv, History, [Next]_vars PROVE A
    <2> SUFFICES ASSUME NEW d \in Deliveries, pc[d] # "saved", pc'[d] = "saved"
                 PROVE  /\ states'[callKey[d]] = result'[d]
                        /\ Changed(d)' => \A e \in Deliveries \ {d} :
                              Changed(e) /\ callKey[e] = callKey[d]
                                 => result[e].revision < result'[d].revision
      OBVIOUS
    <2>0. /\ pc \in [Deliveries -> Running \cup Finished]
          /\ result \in [Deliveries -> Snapshots]
          /\ snapshot[d].revision \in Nat
      BY <1>1 DEF IInv, TypeOK, EventTypeOK, Snapshots
    <2>1. Deliver(d)
      <3>1. ASSUME NEW e \in Deliveries, Deliver(e), e # d PROVE FALSE
        BY <2>0, <3>1 DEF Deliver, Load, Prepared, Conflict, Conflicted, Unchanged,
            Persisted, Refuse, Failed, Write, Fail, RetryLoad, Retry, Goto
      <3>2. CASE UNCHANGED vars
        BY <3>2 DEF vars
      <3> QED
        BY <1>1, <3>1, <3>2 DEF Next
    <2>2. Unchanged(d) \/ Write(d)
      BY <2>0, <2>1 DEF Deliver, Load, Prepared, Conflict, Conflicted, Refuse, Failed,
         Fail, RetryLoad, Retry, Goto
    <2>3. CASE Unchanged(d)
      <3>1. /\ result'[d] = Entry(d) /\ states' = states /\ snapshot' = snapshot
            /\ Entry(d).revision = snapshot[d].revision
        BY <2>0, <2>3 DEF Unchanged, Persisted, Goto
      <3>2. ~Changed(d)'
        BY <2>0, <3>1 DEF Changed
      <3> QED
        BY <3>1, <3>2 DEF Entry
    <2>4. CASE Write(d)
      <3>1. result'[d] = Observed(Entry(d), incoming[d])
        BY <2>0, <2>4 DEF Write, Persisted, Goto
      <3>2. /\ states'[callKey[d]] = result'[d]
            /\ result'[d].revision = Entry(d).revision + 1
        BY <1>1, <2>4, <3>1, WritesMoveOn
      <3>3. ASSUME NEW e \in Deliveries, Changed(e), callKey[e] = callKey[d]
            PROVE  result[e].revision < result'[d].revision
        <4>1. result[e].revision <= Entry(d).revision
          BY <1>1, <3>3 DEF History, ResultsArePast, Changed, Entry
        <4>2. result[e].revision \in Nat /\ Entry(d).revision \in Nat
          BY <1>1 DEF IInv, TypeOK, EventTypeOK, Entry, Snapshots
        <4> QED
          BY <3>2, <4>1, <4>2
      <3> QED
        BY <3>2, <3>3
    <2> QED
      BY <2>2, <2>3, <2>4
  <1>2. IInv /\ History /\ [Next]_vars => [A]_vars
    BY <1>1
  <1> QED
    BY <1>2, HistoryHolds, PTL DEF Spec, AnswersAreCurrent
=============================================================================
