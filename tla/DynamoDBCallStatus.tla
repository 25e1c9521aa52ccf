------------------------- MODULE DynamoDBCallStatus -------------------------
(***************************************************************************)
(* Status deliveries against DynamoDBCallStatusStore                       *)
(* (dynamodb_call_status_store.py).  The store is not atomic: observe      *)
(* reads the row again, computes, and sends a conditional write.  Between  *)
(* any two requests another delivery may write, the row may be removed     *)
(* from outside, and a write may be applied without its answer arriving,   *)
(* after which the SDK may send it once more.                              *)
(***************************************************************************)
EXTENDS CallStatusEvent

CONSTANTS
    MaxStatusRevision,   \* MAX_STATUS_REVISION, 10^38 - 1 in the code
    MaxDeletions         \* bound on the rows removed from outside

ASSUME LimitAssumption    == MaxStatusRevision \in Nat /\ MaxStatusRevision > 0
ASSUME DeletionAssumption == MaxDeletions \in Nat

VARIABLES
    rows,        \* rows[k]: the table's item for leg k, Missing if there is none
    current,     \* current[d]: what observe read for delivery d
    deletions    \* how many rows were removed from outside

vars == <<pc, callKey, incoming, attempt, snapshot, result,
          rows, current, deletions>>

TypeOK ==
    /\ EventTypeOK
    /\ rows      \in [Keys -> Snapshots]
    /\ current   \in [Deliveries -> Snapshots]
    /\ deletions \in 0..MaxDeletions

Init ==
    /\ EventInit
    /\ rows      = [k \in Keys |-> Missing]
    /\ current   = [d \in Deliveries |-> Missing]
    /\ deletions = 0

-----------------------------------------------------------------------------
Row(d) == rows[callKey[d]]

Load(d) ==
    /\ Prepared(d, Row(d))
    /\ UNCHANGED <<rows, current, deletions>>

\* observe, up to its write: the revision must still be the one that was loaded.
Reload(d) ==
    /\ At(d, "observe")
    /\ \/ /\ Row(d).revision # snapshot[d].revision
          /\ Conflicted(d)
          /\ UNCHANGED current
       \/ /\ Row(d).revision = snapshot[d].revision
          /\ Observed(Row(d), incoming[d]).revision <= MaxStatusRevision
          /\ Goto(d, "update")
          /\ current' = [current EXCEPT ![d] = Row(d)]
          /\ UNCHANGED <<callKey, incoming, attempt, snapshot, result>>
    /\ UNCHANGED <<rows, deletions>>

Proposed(d) == Observed(current[d], incoming[d])

\* Plausible bugs: an update that checks the revision alone, a creation that
\* checks nothing.
ConditionOnRevisionOnly(d) == Row(d).revision = current[d].revision
UnconditionalCreation(d) ==
    \/ current[d].revision = 0
    \/ Row(d) = current[d]

\* The ConditionExpression that update_item carries.
ConditionHolds(d) ==
    IF current[d].revision = 0
    THEN Row(d) = Missing
    ELSE /\ Row(d).revision = current[d].revision
         /\ Row(d).status   = current[d].status

\* update_item as the table executes it, a write even for a no-op.
Write(d) ==
    /\ At(d, "update")
    /\ ConditionHolds(d)
    /\ rows' = [rows EXCEPT ![callKey[d]] = Proposed(d)]
    /\ UNCHANGED <<current, deletions>>

UpdateAcknowledged(d) == Write(d) /\ Persisted(d, Proposed(d))

UpdateRejected(d) ==
    /\ At(d, "update")
    /\ ~ConditionHolds(d)
    /\ Conflicted(d)
    /\ UNCHANGED <<rows, current, deletions>>

\* The row is written, but the call times out or its answer is malformed.
UpdateUnacknowledged(d) == Write(d) /\ Failed(d)

\* The row is written, the answer is lost, and the SDK sends the same request
\* again: neither admission nor the retry loop sees it.
UpdateResent(d) == Write(d) /\ UNCHANGED eventVars

\* Authentication, admission, a request that was not applied, an invalid row, or
\* the retry hook raises.
Fail(d) ==
    /\ pc[d] \in Running
    /\ Failed(d)
    /\ UNCHANGED <<rows, current, deletions>>

RetryLoad(d) == Retry(d) /\ UNCHANGED <<rows, current, deletions>>

\* Outside the store: an operator or the table's time-to-live removes the item.
DeleteRow(k) ==
    /\ deletions < MaxDeletions
    /\ rows[k] # Missing
    /\ rows' = [rows EXCEPT ![k] = Missing]
    /\ deletions' = deletions + 1
    /\ UNCHANGED <<eventVars, current>>

Deliver(d) ==
    \/ Load(d)
    \/ Reload(d)
    \/ UpdateAcknowledged(d)
    \/ UpdateRejected(d)
    \/ UpdateUnacknowledged(d)
    \/ UpdateResent(d)
    \/ Fail(d)
    \/ RetryLoad(d)

Next ==
    \/ \E d \in Deliveries : Deliver(d)
    \/ \E k \in Keys : DeleteRow(k)

Spec == Init /\ [][Next]_vars

\* Every request returns or raises (the client has timeouts of its own), so a
\* delivery that can take a step takes one.
FairSpec == Spec /\ \A d \in Deliveries : WF_vars(Deliver(d))

-----------------------------------------------------------------------------
(***************************************************************************)
(* Properties.                                                             *)
(***************************************************************************)

\* The first terminal status wins: whatever writers overlap, and whatever is
\* removed and created again between their requests, no write replaces the
\* terminal status of an item (dynamodb_call_status_store.py:134-156).
FirstTerminalWins ==
    [][\A k \in Keys :
         rows[k].status \in Terminal /\ rows'[k] # Missing
            => rows'[k].status = rows[k].status]_vars

\* The answer a delivery returns was the item at the instant it was given, for
\* no-op observations too; nobody returns a snapshot that was already stale.
AcknowledgedWasStored ==
    [][\A d \in Deliveries :
         pc[d] # "saved" /\ pc'[d] = "saved"
            => rows'[callKey[d]] = result'[d]]_vars

\* Every item has changed at most once per stage of the lifecycle, so at most
\* four times: the revision limit is never met by a leg that started absent.
RowsReachable == \A k \in Keys : Reachable(rows[k])

\* An observation that was reported as saved is never lost: unless rows are
\* removed, its leg stays at least as far as it said, for ever.
NoLostObservation ==
    deletions = 0 =>
        \A d \in Deliveries : At(d, "saved") =>
            /\ Progress(Row(d).status) >= Progress(incoming[d])
            /\ Row(d).revision >= result[d].revision

\* One change of a leg is reported by at most one delivery: two callbacks that
\* race for the same transition cannot both be told that they made it.
Changed(d) == At(d, "saved") /\ result[d].revision > snapshot[d].revision

TransitionReportedOnce ==
    deletions = 0 =>
        \A d, e \in Deliveries :
            /\ d # e /\ callKey[d] = callKey[e]
            /\ Changed(d) /\ Changed(e)
            => result[d].revision # result[e].revision

\* A conflict is never spurious: each one that a delivery retried, and the one
\* it finally raises, is paid for by a stage of the lifecycle that its own leg
\* has passed, never by an observation that changed nothing.
ConflictsPaidByChanges ==
    deletions = 0 =>
        \A d \in Deliveries :
            /\ attempt[d] <= Progress(Row(d).status)
            /\ At(d, "conflict") => Progress(Row(d).status) > MaxConflictRetries

\* The store is a register that only whole observations change: every request
\* sequence of observe takes effect at its conditional write, or not at all.
Register == INSTANCE CallStatusRegister WITH register <- rows
ImplementsRegister == Register!Spec

\* The loop ends: a delivery is saved, gives up on conflicts or fails, however
\* the others interleave with it.
Settles == \A d \in Deliveries : <>(pc[d] \in Finished)
=============================================================================
