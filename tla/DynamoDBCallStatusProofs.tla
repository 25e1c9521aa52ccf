---------------------- MODULE DynamoDBCallStatusProofs ----------------------
(***************************************************************************)
(* Theorems about DynamoDBCallStatus, for any deliveries, legs, statuses,  *)
(* retry bound and number of removed rows.  They follow from one inductive *)
(* invariant in two parts: Readings, that whatever a delivery read is a    *)
(* snapshot a leg can reach, and, while no row has been removed, History,  *)
(* how what it read relates to the row now.                                *)
(***************************************************************************)
EXTENDS DynamoDBCallStatus, CallStatusProofs

Readings ==
    /\ \A k \in Keys : Reachable(rows[k])
    /\ \A d \in Deliveries :
         /\ Reachable(snapshot[d])
         /\ Reachable(current[d])

\* p was the item of a leg whose item is now q: the leg only went forward, and
\* a revision names one snapshot of it.
Precedes(p, q) ==
    /\ p.revision <= q.revision
    /\ p.revision = q.revision => p = q
    /\ Progress(p.status) <= Progress(q.status)

RevisionsRead(d) ==
    /\ pc[d] \in {"observe", "update"} => Precedes(snapshot[d], Row(d))
    /\ At(d, "update") => /\ Precedes(current[d], Row(d))
                          /\ current[d].revision = snapshot[d].revision

AttemptsPaid(d) ==
    /\ attempt[d] <= Row(d).revision
    /\ pc[d] \in {"observe", "update"} => attempt[d] <= snapshot[d].revision
    /\ At(d, "backoff") => attempt[d] < Row(d).revision
    /\ At(d, "conflict") => Row(d).revision > MaxConflictRetries

ResultKept(d) ==
    At(d, "saved") => /\ result[d].revision <= Row(d).revision
                      /\ Progress(incoming[d]) <= Progress(Row(d).status)

History ==
    /\ \A d \in Deliveries : RevisionsRead(d) /\ AttemptsPaid(d) /\ ResultKept(d)
    /\ \A d, e \in Deliveries :
         d # e /\ callKey[d] = callKey[e] /\ Changed(d) /\ Changed(e)
            => result[d].revision # result[e].revision

\* A delivery that waits to retry has an attempt left.
AttemptLeft == \A d \in Deliveries : At(d, "backoff") => attempt[d] < MaxConflictRetries

IInv == TypeOK /\ AttemptLeft /\ Readings /\ (deletions = 0 => History)

-----------------------------------------------------------------------------
\* The initial states are well typed, with no delivery waiting to retry.
LEMMA TypeInit == Init => TypeOK /\ AttemptLeft
  BY IncomingAssumption, RetriesAssumption, DeletionAssumption, MissingIsReachable
     DEF Init, EventInit, TypeOK, EventTypeOK, Running, AttemptLeft, At

\* Observing keeps a snapshot well typed.
LEMMA TypedSnapshots ==
    ASSUME NEW p \in Snapshots, NEW s \in Known
    PROVE  Observed(p, s) \in Snapshots
  BY AdvanceIsMonotonic DEF Observed, Snapshots

\* Every step keeps the types; a conflict on the last attempt never retries.
LEMMA TypeStep ==
    ASSUME TypeOK, AttemptLeft, [Next]_vars
    PROVE  TypeOK' /\ AttemptLeft'
  <1> USE DEF TypeOK, EventTypeOK, AttemptLeft, At
  <1>1. ASSUME NEW d \in Deliveries, Deliver(d)
        PROVE  TypeOK' /\ AttemptLeft'
    <2>1. /\ incoming[d] \in Known /\ callKey[d] \in Keys
          /\ Observed(current[d], incoming[d]) \in Snapshots
          /\ Observed(snapshot[d], incoming[d]) \in Snapshots
      BY TypedSnapshots, IncomingAssumption
    <2>2. CASE Load(d)
      BY <2>1, <2>2 DEF Load, Prepared, Goto, Row, Running
    <2>3. CASE Reload(d)
      BY <2>1, <2>3, RetriesAssumption
         DEF Reload, Conflicted, Goto, Row, Running, Finished
    <2>4. CASE UpdateAcknowledged(d)
      BY <2>1, <2>4
         DEF UpdateAcknowledged, Write, Persisted, Proposed, Expected, Goto, Finished
    <2>5. CASE UpdateRejected(d)
      BY <2>1, <2>5, RetriesAssumption
         DEF UpdateRejected, Conflicted, Goto, Running, Finished
    <2>6. CASE UpdateUnacknowledged(d)
      BY <2>1, <2>6 DEF UpdateUnacknowledged, Write, Failed, Proposed, Goto, Finished
    <2>7. CASE UpdateResent(d)
      BY <2>1, <2>7 DEF UpdateResent, Write, Proposed, eventVars
    <2>8. CASE Fail(d)
      BY <2>8 DEF Fail, Failed, Goto, Finished
    <2>9. CASE RetryLoad(d)
      BY <2>9, RetriesAssumption DEF RetryLoad, Retry, Goto, Running
    <2> QED
      BY <1>1, <2>2, <2>3, <2>4, <2>5, <2>6, <2>7, <2>8, <2>9 DEF Deliver
  <1>2. ASSUME NEW k \in Keys, DeleteRow(k)
        PROVE  TypeOK' /\ AttemptLeft'
    BY <1>2, DeletionAssumption, MissingIsReachable DEF DeleteRow, eventVars
  <1>3. CASE UNCHANGED vars
    BY <1>3 DEF vars
  <1> QED
    BY <1>1, <1>2, <1>3 DEF Next

\* Type correctness: the retry counter in particular stays within its bound.
THEOREM TypeCorrect == Spec => []TypeOK
  BY TypeInit, TypeStep, PTL DEF Spec

-----------------------------------------------------------------------------
\* Reading and writing whole observations keeps every snapshot reachable.
LEMMA ReadingsStep ==
    ASSUME TypeOK, Readings, [Next]_vars
    PROVE  Readings'
  <1> USE DEF TypeOK, EventTypeOK, Readings, Row
  <1>1. ASSUME NEW d \in Deliveries, Deliver(d)
        PROVE  Readings'
    <2>1. /\ incoming[d] \in Known /\ callKey[d] \in Keys
          /\ Reachable(Observed(current[d], incoming[d]))
      BY ObservedIsReachable, IncomingAssumption
    <2>2. CASE Load(d)
      BY <2>1, <2>2 DEF Load, Prepared
    <2>3. CASE Reload(d)
      BY <2>1, <2>3 DEF Reload, Conflicted
    <2>4. CASE Write(d) /\ UNCHANGED snapshot
      BY <2>1, <2>4 DEF Write, Proposed
    <2>5. CASE UNCHANGED <<rows, snapshot, current>>
      BY <2>5
    <2> QED
      BY <1>1, <2>2, <2>3, <2>4, <2>5
         DEF Deliver, UpdateAcknowledged, Persisted, UpdateRejected, Conflicted,
             UpdateUnacknowledged, Failed, UpdateResent, eventVars, Fail,
             RetryLoad, Retry
  <1>2. ASSUME NEW k \in Keys, DeleteRow(k)
        PROVE  Readings'
    BY <1>2, MissingIsReachable DEF DeleteRow, eventVars
  <1>3. CASE UNCHANGED vars
    BY <1>3 DEF vars
  <1> QED
    BY <1>1, <1>2, <1>3 DEF Next

\* RowsReachable holds for ever: no leg that starts absent passes revision four.
THEOREM RevisionsBounded == Spec => [](RowsReachable /\ \A k \in Keys : rows[k].revision <= 4)
  <1>1. Init => Readings
    BY MissingIsReachable DEF Init, EventInit, Readings
  <1>2. TypeOK /\ AttemptLeft /\ Readings /\ [Next]_vars
          => (TypeOK /\ AttemptLeft /\ Readings)'
    BY TypeStep, ReadingsStep
  <1>3. TypeOK /\ Readings => RowsReachable /\ \A k \in Keys : rows[k].revision <= 4
    BY FourRevisions DEF TypeOK, Readings, RowsReachable
  <1> QED
    BY <1>1, <1>2, <1>3, TypeInit, PTL DEF Spec

-----------------------------------------------------------------------------
\* A conditional write is applied only to the very item it was computed from.
LEMMA WriteObservesTheRow ==
    ASSUME TypeOK, Readings, NEW d \in Deliveries, Write(d)
    PROVE  /\ Row(d) = current[d]
           /\ rows' = [rows EXCEPT ![callKey[d]] = Observed(Row(d), incoming[d])]
  <1>1. /\ callKey[d] \in Keys
        /\ Row(d) \in Snapshots /\ Reachable(Row(d))
        /\ current[d] \in Snapshots /\ Reachable(current[d])
    BY DEF TypeOK, EventTypeOK, Readings, Row
  <1>2. CASE current[d].revision = 0
    BY <1>1, <1>2, MissingIsReachable DEF Write, ConditionHolds, Proposed
  <1>3. CASE current[d].revision # 0
    <2>1. Row(d).status = current[d].status /\ Row(d).revision = current[d].revision
      BY <1>3 DEF Write, ConditionHolds
    <2>2. Row(d) = current[d]
      BY <1>1, <2>1 DEF Snapshots
    <2> QED
      BY <2>2 DEF Write, Proposed
  <1> QED
    BY <1>2, <1>3

\* The only steps that touch the table are writes and removals.
LEMMA TableSteps ==
    ASSUME [Next]_vars
    PROVE  \/ \E d \in Deliveries : Write(d)
           \/ \E k \in Keys : DeleteRow(k)
           \/ UNCHANGED rows
  <1>1. ASSUME NEW d \in Deliveries, Deliver(d)
        PROVE  Write(d) \/ UNCHANGED rows
    BY <1>1 DEF Deliver, Load, Reload, UpdateAcknowledged, UpdateRejected,
                UpdateUnacknowledged, UpdateResent, Fail, RetryLoad
  <1> QED
    BY <1>1 DEF Next, vars

\* FirstTerminalWins for every interleaving, removals included.
THEOREM TerminalStatusIsFinal == Spec => FirstTerminalWins
  <1> DEFINE A == \A k \in Keys :
                    rows[k].status \in Terminal /\ rows'[k] # Missing
                       => rows'[k].status = rows[k].status
  <1>1. ASSUME TypeOK, Readings, [Next]_vars
        PROVE  A
    <2>1. ASSUME NEW d \in Deliveries, Write(d), NEW k \in Keys,
                 rows[k].status \in Terminal
          PROVE  rows'[k].status = rows[k].status
      <3>1. rows' = [rows EXCEPT ![callKey[d]] = Observed(Row(d), incoming[d])]
        BY <2>1, <1>1, WriteObservesTheRow
      <3>2. incoming[d] \in Known /\ callKey[d] \in Keys /\ rows \in [Keys -> Snapshots]
        BY <1>1, IncomingAssumption DEF TypeOK, EventTypeOK
      <3>3. CASE k = callKey[d]
        BY <2>1, <3>1, <3>2, <3>3, TerminalIsFinal DEF Observed, Row
      <3>4. CASE k # callKey[d]
        BY <3>1, <3>2, <3>4
      <3> QED
        BY <3>3, <3>4
    <2>2. ASSUME NEW k \in Keys, DeleteRow(k), NEW l \in Keys, rows'[l] # Missing
          PROVE  rows'[l] = rows[l]
      BY <1>1, <2>2 DEF DeleteRow, TypeOK
    <2> QED
      BY <1>1, <2>1, <2>2, TableSteps
  <1>2. Init => Readings
    BY MissingIsReachable DEF Init, EventInit, Readings
  <1>3. TypeOK /\ AttemptLeft /\ Readings /\ [Next]_vars
          => (TypeOK /\ AttemptLeft /\ Readings)' /\ A
    BY TypeStep, ReadingsStep, <1>1
  <1> QED
    BY <1>2, <1>3, TypeInit, PTL DEF Spec, FirstTerminalWins

\* The abstract register applies the very same lifecycle policy.
LEMMA SamePolicy ==
    /\ Register!Known = Known /\ Register!None = None
    /\ Register!Missing = Missing
    /\ \A s, c : Register!Supersedes(s, c) <=> Supersedes(s, c)
    /\ \A p, s : Register!Observed(p, s) = Observed(p, s)
  <1>1. /\ Register!Known = Known /\ Register!None = None
        /\ Register!Missing = Missing
        /\ Register!Active = Active /\ Register!Terminal = Terminal
        /\ Register!ActiveProgress = ActiveProgress
    BY DEF Register!Known, Known, Register!None, None, Register!Missing, Missing,
           Register!Active, Active, Register!Terminal, Terminal,
           Register!ActiveProgress, ActiveProgress
  <1>2. \A s, c : Register!Supersedes(s, c) <=> Supersedes(s, c)
    BY <1>1 DEF Register!Supersedes, Supersedes
  <1>3. \A p, s : Register!Observed(p, s) = Observed(p, s)
    BY <1>2 DEF Register!Observed, Observed, Register!Advance, Advance
  <1> QED
    BY <1>1, <1>2, <1>3

\* The table and its adapter implement the abstract register: every step is one
\* whole observation of one leg, a removal, or invisible.
THEOREM RefinesRegister == Spec => ImplementsRegister
  <1>1. Init => Register!Init
    BY SamePolicy DEF Init, Register!Init
  <1>2. ASSUME TypeOK, Readings, [Next]_vars
        PROVE  [Register!Next]_rows
    <2>1. ASSUME NEW d \in Deliveries, Write(d)
          PROVE  Register!Next \/ UNCHANGED rows
      <3>1. rows' = [rows EXCEPT ![callKey[d]] = Observed(Row(d), incoming[d])]
        BY <2>1, <1>2, WriteObservesTheRow
      <3>2. /\ incoming[d] \in Known /\ callKey[d] \in Keys
            /\ rows \in [Keys -> Snapshots] /\ Row(d) \in Snapshots
        BY <1>2, IncomingAssumption DEF TypeOK, EventTypeOK, Row
      <3>3. CASE Observed(Row(d), incoming[d]) = Row(d)
        BY <3>1, <3>2, <3>3 DEF Row
      <3>4. CASE Observed(Row(d), incoming[d]) # Row(d)
        <4>1. Register!Record(callKey[d], incoming[d])
          BY <3>1, <3>2, <3>4, ObservedIsRecord, SamePolicy DEF Register!Record, Row
        <4> QED
          BY <3>2, <4>1, SamePolicy DEF Register!Next
      <3> QED
        BY <3>3, <3>4
    <2>2. ASSUME NEW k \in Keys, DeleteRow(k)
          PROVE  Register!Next
      BY <2>2, SamePolicy DEF DeleteRow, Register!Next, Register!Forget
    <2> QED
      BY <1>2, <2>1, <2>2, TableSteps
  <1>3. Init => Readings
    BY MissingIsReachable DEF Init, EventInit, Readings
  <1>4. TypeOK /\ AttemptLeft /\ Readings /\ [Next]_vars
          => (TypeOK /\ AttemptLeft /\ Readings)' /\ [Register!Next]_rows
    BY TypeStep, ReadingsStep, <1>2
  <1> QED
    BY <1>1, <1>3, <1>4, TypeInit, PTL DEF Spec, ImplementsRegister, Register!Spec

-----------------------------------------------------------------------------
\* Preceding is reflexive and transitive on snapshots.
LEMMA PrecedesIsPreorder ==
    ASSUME NEW p \in Snapshots, NEW q \in Snapshots, NEW r \in Snapshots
    PROVE  /\ Precedes(p, p)
           /\ Precedes(p, q) /\ Precedes(q, r) => Precedes(p, r)
  <1>1. /\ Progress(p.status) \in Nat /\ Progress(q.status) \in Nat
        /\ Progress(r.status) \in Nat
        /\ p.revision \in Nat /\ q.revision \in Nat /\ r.revision \in Nat
    BY ProgressRange DEF Snapshots
  <1> QED
    BY <1>1 DEF Precedes

\* What one observation makes of a reachable snapshot comes after it.
LEMMA ObservedSucceeds ==
    ASSUME NEW p \in Snapshots, Reachable(p), NEW s \in Known
    PROVE  Precedes(p, Observed(p, s))
  <1>1. p.revision \in Nat
    BY DEF Snapshots
  <1> QED
    BY <1>1, ObservedIsReachable DEF Precedes

\* While no row is removed, every row only goes forward.
LEMMA RowsGoForward ==
    ASSUME TypeOK, Readings, [Next]_vars, deletions' = 0, NEW k \in Keys
    PROVE  /\ Precedes(rows[k], rows'[k])
           /\ rows[k] \in Snapshots /\ rows'[k] \in Snapshots
  <1>1. rows[k] \in Snapshots /\ rows'[k] \in Snapshots
    <2>2. ASSUME NEW d \in Deliveries, Write(d)
          PROVE  rows'[k] \in Snapshots
      BY <2>2, TypedSnapshots, IncomingAssumption DEF Write, Proposed, TypeOK, EventTypeOK
    <2>3. ASSUME NEW l \in Keys, DeleteRow(l)
          PROVE  rows'[k] \in Snapshots
      BY <2>3, MissingIsReachable DEF DeleteRow, TypeOK
    <2> QED
      BY <2>2, <2>3, TableSteps DEF TypeOK
  <1>2. ASSUME NEW d \in Deliveries, Write(d)
        PROVE  Precedes(rows[k], rows'[k])
    <2>1. rows' = [rows EXCEPT ![callKey[d]] = Observed(Row(d), incoming[d])]
      BY <1>2, WriteObservesTheRow
    <2>2. /\ incoming[d] \in Known /\ callKey[d] \in Keys
          /\ rows \in [Keys -> Snapshots] /\ Reachable(rows[k])
      BY IncomingAssumption DEF TypeOK, EventTypeOK, Readings
    <2>3. CASE k = callKey[d]
      BY <1>1, <2>1, <2>2, <2>3, ObservedSucceeds DEF Row
    <2>4. CASE k # callKey[d]
      BY <1>1, <2>1, <2>2, <2>4, PrecedesIsPreorder
    <2> QED
      BY <2>3, <2>4
  <1>3. \A l \in Keys : ~DeleteRow(l)
    BY DEF DeleteRow, TypeOK
  <1>4. CASE UNCHANGED rows
    BY <1>1, <1>4, PrecedesIsPreorder
  <1> QED
    BY <1>1, <1>2, <1>3, <1>4, TableSteps

\* A delivery that does not move keeps its part of History: what it read, paid
\* and returned still precedes its row.
LEMMA BystanderKeepsHistory ==
    ASSUME TypeOK, Readings, [Next]_vars, deletions' = 0, NEW d \in Deliveries,
           RevisionsRead(d), AttemptsPaid(d), ResultKept(d),
           pc'[d] = pc[d], attempt'[d] = attempt[d], snapshot'[d] = snapshot[d],
           current'[d] = current[d], result'[d] = result[d],
           incoming' = incoming, callKey' = callKey
    PROVE  RevisionsRead(d)' /\ AttemptsPaid(d)' /\ ResultKept(d)'
  <1> DEFINE k == callKey[d]
  <1>1. /\ k \in Keys /\ attempt[d] \in Nat /\ MaxConflictRetries \in Nat
        /\ snapshot[d] \in Snapshots /\ current[d] \in Snapshots
        /\ result[d] \in Snapshots /\ incoming[d] \in Known
    BY IncomingAssumption, RetriesAssumption DEF TypeOK, EventTypeOK
  <1>2. /\ Precedes(rows[k], rows'[k])
        /\ rows[k] \in Snapshots /\ rows'[k] \in Snapshots
    BY <1>1, RowsGoForward
  <1>3. /\ rows[k].revision \in Nat /\ rows'[k].revision \in Nat
        /\ result[d].revision \in Nat
        /\ Progress(rows[k].status) \in Nat /\ Progress(rows'[k].status) \in Nat
        /\ Progress(incoming[d]) \in Nat
    BY <1>1, <1>2, ProgressRange DEF Snapshots
  <1>4. Row(d) = rows[k] /\ Row(d)' = rows'[k]
    BY DEF Row
  <1>5. RevisionsRead(d)'
    BY <1>1, <1>2, <1>4, PrecedesIsPreorder DEF RevisionsRead, At
  <1>6. AttemptsPaid(d)'
    BY <1>1, <1>2, <1>3, <1>4 DEF AttemptsPaid, At, Precedes
  <1>7. ResultKept(d)'
    BY <1>1, <1>2, <1>3, <1>4 DEF ResultKept, At, Precedes
  <1> QED
    BY <1>5, <1>6, <1>7

\* Only the delivery that moves changes its own variables.
LEMMA OneDeliveryMoves ==
    ASSUME TypeOK, NEW d \in Deliveries, Deliver(d)
    PROVE  /\ incoming' = incoming /\ callKey' = callKey
           /\ \A e \in Deliveries \ {d} :
                /\ pc'[e] = pc[e] /\ attempt'[e] = attempt[e]
                /\ snapshot'[e] = snapshot[e] /\ current'[e] = current[e]
                /\ result'[e] = result[e]
  BY DEF TypeOK, EventTypeOK, Deliver, Load, Prepared, Reload, Conflicted, Write,
         UpdateAcknowledged, Persisted, UpdateRejected, UpdateUnacknowledged,
         UpdateResent, Fail, Failed, RetryLoad, Retry, Goto, eventVars

\* The delivery that moves keeps its part of History: a conflict in particular
\* has seen its row change since it loaded it.
LEMMA MoverKeepsHistory ==
    ASSUME TypeOK, Readings, AttemptLeft, [Next]_vars, deletions' = 0,
           NEW d \in Deliveries, Deliver(d),
           RevisionsRead(d), AttemptsPaid(d), ResultKept(d)
    PROVE  RevisionsRead(d)' /\ AttemptsPaid(d)' /\ ResultKept(d)'
  <1> DEFINE k == callKey[d]
             o == Observed(Row(d), incoming[d])
  <1>1. /\ k \in Keys /\ attempt[d] \in 0..MaxConflictRetries
        /\ MaxConflictRetries \in Nat
        /\ snapshot[d] \in Snapshots /\ current[d] \in Snapshots
        /\ result[d] \in Snapshots /\ incoming[d] \in Known
        /\ Row(d) \in Snapshots /\ Reachable(Row(d))
        /\ Row(d) = rows[k]
    BY IncomingAssumption, RetriesAssumption DEF TypeOK, EventTypeOK, Readings, Row
  <1>2. /\ snapshot[d].revision \in Nat /\ current[d].revision \in Nat
        /\ Row(d).revision \in Nat
    BY <1>1 DEF Snapshots
  <1>3. /\ o \in Snapshots /\ o.revision \in Nat
        /\ Precedes(Row(d), o) /\ Row(d).revision <= o.revision
        /\ Progress(incoming[d]) <= Progress(o.status)
    <2>1. /\ o \in Snapshots /\ Progress(o.status) >= Progress(incoming[d])
      BY <1>1, ObservedIsReachable
    <2>2. /\ Progress(o.status) \in Nat /\ Progress(incoming[d]) \in Nat
          /\ o.revision \in Nat
      BY <1>1, <2>1, ProgressRange DEF Snapshots
    <2> QED
      BY <1>1, <2>1, <2>2, ObservedSucceeds DEF Precedes
  <1>4. /\ pc \in [Deliveries -> Running \cup Finished]
        /\ attempt \in [Deliveries -> 0..MaxConflictRetries]
        /\ snapshot \in [Deliveries -> Snapshots]
        /\ result \in [Deliveries -> Snapshots]
        /\ current \in [Deliveries -> Snapshots]
        /\ rows \in [Keys -> Snapshots]
    BY DEF TypeOK, EventTypeOK
  <1>5. CASE Load(d)
    <2>1. /\ pc'[d] = "observe" /\ snapshot'[d] = Row(d) /\ Row(d)' = Row(d)
          /\ attempt'[d] = attempt[d]
      BY <1>4, <1>5 DEF Load, Prepared, Goto, Row
    <2> QED
      BY <1>1, <2>1, PrecedesIsPreorder
         DEF RevisionsRead, AttemptsPaid, ResultKept, At
  <1>6. CASE Conflicted(d) /\ Row(d).revision > snapshot[d].revision
             /\ pc[d] \in {"observe", "update"} /\ UNCHANGED rows
    <2>1. /\ pc'[d] = IF attempt[d] = MaxConflictRetries THEN "conflict" ELSE "backoff"
          /\ attempt'[d] = attempt[d] /\ Row(d)' = Row(d)
      BY <1>4, <1>6 DEF Conflicted, Goto, Row
    <2>2. attempt[d] < Row(d).revision
      BY <1>1, <1>2, <1>6 DEF AttemptsPaid
    <2> QED
      BY <1>1, <1>2, <2>1, <2>2 DEF RevisionsRead, AttemptsPaid, ResultKept, At
  <1>7. CASE Reload(d)
    <2>1. CASE Row(d).revision # snapshot[d].revision
      BY <1>2, <1>6, <1>7, <2>1 DEF Reload, RevisionsRead, At, Precedes
    <2>2. CASE Row(d).revision = snapshot[d].revision
      <3>1. /\ pc'[d] = "update" /\ current'[d] = Row(d) /\ Row(d)' = Row(d)
            /\ attempt'[d] = attempt[d] /\ snapshot'[d] = snapshot[d]
            /\ pc[d] = "observe"
        BY <1>4, <1>7, <2>2 DEF Reload, Goto, Row, At
      <3> QED
        BY <1>1, <1>2, <2>2, <3>1, PrecedesIsPreorder
           DEF RevisionsRead, AttemptsPaid, ResultKept, At
    <2> QED
      BY <2>1, <2>2
  <1>8. CASE Write(d)
    <2>1. /\ Row(d) = current[d] /\ Row(d)' = o
          /\ pc[d] = "update" /\ UNCHANGED current
          /\ attempt'[d] = attempt[d] /\ snapshot'[d] = snapshot[d]
      <3>1. /\ Row(d) = current[d]
            /\ rows' = [rows EXCEPT ![callKey[d]] = o]
        BY <1>8, WriteObservesTheRow
      <3>2. callKey' = callKey /\ pc[d] = "update" /\ UNCHANGED current
        BY <1>8, OneDeliveryMoves DEF Write, At
      <3>3. attempt'[d] = attempt[d] /\ snapshot'[d] = snapshot[d]
        BY <1>8 DEF Deliver, Load, Prepared, Reload, Write, UpdateAcknowledged,
           Persisted, UpdateRejected, Conflicted, UpdateUnacknowledged, Failed,
           UpdateResent, eventVars, Fail, RetryLoad, Retry, At
      <3> QED
        BY <1>1, <1>4, <3>1, <3>2, <3>3 DEF Row
    <2>2. /\ attempt[d] <= snapshot[d].revision
          /\ Precedes(snapshot[d], o) /\ Precedes(current[d], o)
          /\ current[d].revision = snapshot[d].revision
      BY <1>1, <1>3, <2>1, PrecedesIsPreorder DEF RevisionsRead, AttemptsPaid, At
    <2>3. attempt[d] <= o.revision
      BY <1>1, <1>2, <1>3, <2>1, <2>2
    <2>4. CASE UpdateAcknowledged(d)
      <3>1. pc'[d] \in {"saved", "failed"}
        BY <1>4, <2>4 DEF UpdateAcknowledged, Persisted, Goto
      <3>2. pc'[d] = "saved" => result'[d] = o
        BY <1>4, <2>1, <2>4 DEF UpdateAcknowledged, Persisted, Goto, Proposed
      <3> QED
        BY <1>1, <1>3, <2>1, <2>3, <3>1, <3>2, OneDeliveryMoves
           DEF RevisionsRead, AttemptsPaid, ResultKept, At
    <2>5. CASE pc'[d] = "failed"
      BY <2>1, <2>3, <2>5 DEF RevisionsRead, AttemptsPaid, ResultKept, At
    <2>6. CASE UpdateResent(d)
      BY <2>1, <2>2, <2>3, <2>6
         DEF UpdateResent, eventVars, RevisionsRead, AttemptsPaid, ResultKept, At
    <2>7. Write(d) => UpdateAcknowledged(d) \/ UpdateResent(d) \/ pc'[d] = "failed"
      BY <1>4, <1>8 DEF Deliver, Load, Prepared, Reload, Write, UpdateRejected,
         UpdateUnacknowledged, Failed, Fail, Goto, RetryLoad, Retry, At
    <2> QED
      BY <1>8, <2>4, <2>5, <2>6, <2>7
  <1>9. CASE UpdateRejected(d)
    <2>1. Row(d).revision > snapshot[d].revision
      BY <1>1, <1>2, <1>9, MissingIsReachable
         DEF UpdateRejected, ConditionHolds, RevisionsRead, Precedes, At
    <2> QED
      BY <1>6, <1>9, <2>1 DEF UpdateRejected, At
  <1>10. CASE Fail(d)
    <2>1. /\ pc'[d] = "failed" /\ attempt'[d] = attempt[d] /\ Row(d)' = Row(d)
      BY <1>4, <1>10 DEF Fail, Failed, Goto, Row
    <2> QED
      BY <2>1 DEF RevisionsRead, AttemptsPaid, ResultKept, At
  <1>11. CASE RetryLoad(d)
    <2>1. /\ pc'[d] = "load" /\ pc[d] = "backoff"
          /\ attempt'[d] = attempt[d] + 1 /\ Row(d)' = Row(d)
      BY <1>4, <1>11 DEF RetryLoad, Retry, Goto, Row, At
    <2> QED
      BY <1>1, <1>2, <2>1 DEF RevisionsRead, AttemptsPaid, ResultKept, At
  <1> QED
    BY <1>5, <1>7, <1>8, <1>9, <1>10, <1>11
       DEF Deliver, UpdateAcknowledged, UpdateUnacknowledged, UpdateResent

\* A delivery that becomes a reported change took its leg to a revision that no
\* other delivery has reported, because every result it precedes is older.
LEMMA ReportsStayUnique ==
    ASSUME TypeOK, Readings, History, NEW d \in Deliveries, Deliver(d),
           NEW e \in Deliveries, d # e, callKey[d] = callKey[e],
           Changed(d)', Changed(e)
    PROVE  result'[d].revision # result[e].revision
  <1>1. /\ pc \in [Deliveries -> Running \cup Finished]
        /\ result \in [Deliveries -> Snapshots]
        /\ snapshot[d] \in Snapshots /\ snapshot[d].revision \in Nat
        /\ Row(d) \in Snapshots /\ Reachable(Row(d))
        /\ Row(d).revision \in Nat /\ result[e].revision \in Nat
        /\ incoming[d] \in Known
    BY IncomingAssumption DEF TypeOK, EventTypeOK, Readings, Row, Snapshots
  <1>2. CASE UpdateAcknowledged(d)
    <2>1. /\ Row(d) = current[d] /\ pc[d] = "update" /\ snapshot'[d] = snapshot[d]
          /\ result'[d] = Observed(Row(d), incoming[d])
      BY <1>1, <1>2, WriteObservesTheRow
         DEF UpdateAcknowledged, Write, Persisted, Proposed, Goto, Changed, At
    <2>2. current[d].revision = snapshot[d].revision
      BY <2>1 DEF History, RevisionsRead, At
    <2>3. result'[d].revision > Row(d).revision
      BY <2>1, <2>2 DEF Changed
    <2>4. result[e].revision <= Row(d).revision
      BY DEF History, ResultKept, Changed, Row
    <2> QED
      BY <1>1, <2>1, <2>3, <2>4, ObservedIsReachable
  <1>3. pc'[d] = "saved" => UpdateAcknowledged(d)
    BY <1>1 DEF Deliver, Load, Prepared, Reload, Conflicted, UpdateRejected, Write,
       UpdateUnacknowledged, UpdateResent, eventVars, Fail, Failed, RetryLoad,
       Retry, Goto, At, Running
  <1> QED
    BY <1>2, <1>3 DEF Changed, At

\* While no row is removed, every step keeps History.
LEMMA HistoryStep ==
    ASSUME TypeOK, AttemptLeft, Readings, History, [Next]_vars, deletions' = 0
    PROVE  History'
  <1>1. ASSUME NEW d \in Deliveries, Deliver(d)
        PROVE  History'
    <2>1. /\ incoming' = incoming /\ callKey' = callKey
          /\ \A e \in Deliveries \ {d} :
               /\ pc'[e] = pc[e] /\ attempt'[e] = attempt[e]
               /\ snapshot'[e] = snapshot[e] /\ current'[e] = current[e]
               /\ result'[e] = result[e]
      BY <1>1, OneDeliveryMoves
    <2>2. ASSUME NEW e \in Deliveries
          PROVE  RevisionsRead(e)' /\ AttemptsPaid(e)' /\ ResultKept(e)'
      <3>1. CASE e = d
        BY <1>1, <3>1, MoverKeepsHistory DEF History
      <3>2. CASE e # d
        BY <2>1, <3>2, BystanderKeepsHistory DEF History
      <3> QED
        BY <3>1, <3>2
    <2>3. ASSUME NEW e \in Deliveries, NEW f \in Deliveries, e # f,
                 callKey'[e] = callKey'[f], Changed(e)', Changed(f)'
          PROVE  result'[e].revision # result'[f].revision
      <3>1. \A g \in Deliveries \ {d} :
               /\ Changed(g)' <=> Changed(g)
               /\ result'[g] = result[g]
        BY <2>1 DEF Changed, At
      <3>2. CASE e = d
        BY <1>1, <2>1, <2>3, <3>1, <3>2, ReportsStayUnique
      <3>3. CASE f = d
        BY <1>1, <2>1, <2>3, <3>1, <3>3, ReportsStayUnique
      <3>4. CASE e # d /\ f # d
        BY <2>1, <2>3, <3>1, <3>4 DEF History
      <3> QED
        BY <3>2, <3>3, <3>4
    <2> QED
      BY <2>2, <2>3 DEF History
  <1>2. \A k \in Keys : ~DeleteRow(k)
    BY DEF DeleteRow, TypeOK
  <1>3. CASE UNCHANGED vars
    BY <1>3 DEF vars, History, RevisionsRead, AttemptsPaid, ResultKept, Changed,
       At, Row, Precedes
  <1> QED
    BY <1>1, <1>2, <1>3 DEF Next

\* IInv is inductive, and so holds for ever.
LEMMA IInvHolds == Spec => []IInv
  <1>1. Init => IInv
    <2> SUFFICES ASSUME Init
                 PROVE  Readings /\ History
      BY TypeInit DEF IInv
    <2>1. Readings
      BY MissingIsReachable DEF Init, EventInit, Readings
    <2>2. ASSUME NEW d \in Deliveries
          PROVE  /\ pc[d] = "load" /\ attempt[d] = 0 /\ Row(d) = Missing
                 /\ Row(d).revision = 0
      BY TypeInit DEF Init, EventInit, Row, Missing, TypeOK, EventTypeOK
    <2> QED
      BY <2>1, <2>2
         DEF History, RevisionsRead, AttemptsPaid, ResultKept, Changed, At
  <1>2. ASSUME IInv, [Next]_vars
        PROVE  IInv'
    <2>1. /\ TypeOK' /\ AttemptLeft' /\ Readings'
      BY <1>2, TypeStep, ReadingsStep DEF IInv
    <2>2. ASSUME deletions' = 0
          PROVE  deletions = 0
      <3>1. deletions \in Nat
        BY <1>2, DeletionAssumption DEF IInv, TypeOK
      <3>2. deletions' = deletions \/ deletions' = deletions + 1
        BY <1>2 DEF Next, vars, Deliver, Load, Reload, UpdateAcknowledged, Write,
           UpdateRejected, UpdateUnacknowledged, UpdateResent, Fail, RetryLoad, DeleteRow
      <3> QED
        BY <2>2, <3>1, <3>2
    <2> QED
      BY <1>2, <2>1, <2>2, HistoryStep DEF IInv
  <1> QED
    BY <1>1, <1>2, PTL DEF Spec

\* NoLostObservation: while no row is removed, what a delivery reported as saved
\* is never undone.
THEOREM ObservationsAreKept == Spec => []NoLostObservation
  <1>1. IInv => NoLostObservation
    <2> SUFFICES ASSUME IInv, deletions = 0, NEW d \in Deliveries, At(d, "saved")
                 PROVE  /\ Progress(Row(d).status) >= Progress(incoming[d])
                        /\ Row(d).revision >= result[d].revision
      BY DEF NoLostObservation
    <2>1. /\ Progress(incoming[d]) <= Progress(Row(d).status)
          /\ result[d].revision <= Row(d).revision
      BY DEF IInv, History, ResultKept
    <2> QED
      BY <2>1
  <1> QED
    BY <1>1, IInvHolds, PTL

\* TransitionReportedOnce: of the callbacks that race for one change of a leg, at
\* most one is told that it made it.
THEOREM ChangesAreReportedOnce == Spec => []TransitionReportedOnce
  <1>1. IInv => TransitionReportedOnce
    BY DEF IInv, History, TransitionReportedOnce
  <1> QED
    BY <1>1, IInvHolds, PTL

\* ConflictsPaidByChanges: conflicts never outnumber the changes of the leg, and
\* these never outnumber the stages that it has passed.
THEOREM ConflictsAreNeverSpurious == Spec => []ConflictsPaidByChanges
  <1>1. IInv => ConflictsPaidByChanges
    <2> SUFFICES ASSUME IInv, deletions = 0, NEW d \in Deliveries
                 PROVE  /\ attempt[d] <= Progress(Row(d).status)
                        /\ At(d, "conflict") => Progress(Row(d).status) > MaxConflictRetries
      BY DEF ConflictsPaidByChanges
    <2>1. /\ attempt[d] <= Row(d).revision
          /\ At(d, "conflict") => Row(d).revision > MaxConflictRetries
      BY DEF IInv, History, AttemptsPaid
    <2>2. /\ Row(d) \in Snapshots /\ Row(d).revision <= Progress(Row(d).status)
          /\ attempt[d] \in 0..MaxConflictRetries
      BY DEF IInv, TypeOK, EventTypeOK, Readings, Row, Reachable
    <2>3. Row(d).revision \in Nat /\ Progress(Row(d).status) \in 0..4
      BY <2>2, ProgressRange DEF Snapshots
    <2> QED
      BY <2>1, <2>2, <2>3, RetriesAssumption
  <1> QED
    BY <1>1, IInvHolds, PTL

\* With four retries or more, half of what the code allows, contention alone can
\* never make a delivery raise StatusConflictError while no row is removed: a leg
\* has only four changes to lose a race to.
THEOREM FourRetriesSuffice ==
    ASSUME MaxConflictRetries >= 4
    PROVE  Spec => [](deletions = 0 => \A d \in Deliveries : ~At(d, "conflict"))
  <1>1. IInv => (deletions = 0 => \A d \in Deliveries : ~At(d, "conflict"))
    <2> SUFFICES ASSUME IInv, deletions = 0, NEW d \in Deliveries, At(d, "conflict")
                 PROVE  FALSE
      OBVIOUS
    <2>1. Row(d).revision > MaxConflictRetries
      BY DEF IInv, History, AttemptsPaid
    <2>2. Row(d) \in Snapshots /\ Reachable(Row(d))
      BY DEF IInv, TypeOK, EventTypeOK, Readings, Row
    <2> QED
      BY <2>1, <2>2, FourRevisions, RetriesAssumption
  <1> QED
    BY <1>1, IInvHolds, PTL

\* AcknowledgedWasStored: what a delivery returns is its row at that instant.
THEOREM AnswersAreCurrent == Spec => AcknowledgedWasStored
  <1> DEFINE A == \A d \in Deliveries : pc[d] # "saved" /\ pc'[d] = "saved"
                                       => rows'[callKey[d]] = result'[d]
  <1>1. ASSUME TypeOK, [Next]_vars
        PROVE  A
    <2> SUFFICES ASSUME NEW d \in Deliveries, pc[d] # "saved", pc'[d] = "saved"
                 PROVE  rows'[callKey[d]] = result'[d]
      OBVIOUS
    <2> USE DEF TypeOK, EventTypeOK
    <2>1. Deliver(d)
      <3>1. ASSUME NEW e \in Deliveries, Deliver(e)
            PROVE  e = d
        BY <1>1, <3>1, OneDeliveryMoves
      <3>2. ~UNCHANGED pc
        OBVIOUS
      <3> QED
        BY <1>1, <3>1, <3>2 DEF Next, DeleteRow, eventVars, vars
    <2>2. UpdateAcknowledged(d)
      BY <1>1, <2>1 DEF Deliver, Load, Prepared, Reload, Conflicted, UpdateRejected,
         Write, UpdateUnacknowledged, UpdateResent, eventVars, Fail, Failed,
         RetryLoad, Retry, Goto, At, Running
    <2>3. result'[d] = Proposed(d)
      BY <1>1, <2>2 DEF UpdateAcknowledged, Write, Persisted, Goto
    <2>4. rows'[callKey[d]] = Proposed(d)
      BY <1>1, <2>2 DEF UpdateAcknowledged, Write
    <2> QED
      BY <2>3, <2>4
  <1>2. TypeOK /\ AttemptLeft /\ [Next]_vars => (TypeOK /\ AttemptLeft)' /\ A
    BY <1>1, TypeStep
  <1> QED
    BY <1>2, TypeInit, PTL DEF Spec, AcknowledgedWasStored
=============================================================================
