------------------------- MODULE InMemoryCallStatus -------------------------
(***************************************************************************)
(* Status deliveries of several threads against InMemoryCallStatusStore    *)
(* (call_status_store.py).  load and observe each run under the store's    *)
(* lock, so each is one step, but a delivery's two calls are not one: other *)
(* threads run between them.  The store holds a bounded number of legs and *)
(* never evicts one.                                                       *)
(***************************************************************************)
EXTENDS CallStatusEvent, FiniteSets

CONSTANT MaxEntries   \* max_entries

ASSUME KeysAssumption    == IsFiniteSet(Keys)
ASSUME EntriesAssumption == MaxEntries \in Nat /\ MaxEntries > 0

VARIABLE states       \* states[k]: the dictionary's entry, Missing if none

vars == <<pc, callKey, incoming, attempt, snapshot, result, states>>

Stored == {k \in Keys : states[k] # Missing}

TypeOK == EventTypeOK /\ states \in [Keys -> Snapshots]

Init == EventInit /\ states = [k \in Keys |-> Missing]

-----------------------------------------------------------------------------
Entry(d) == states[callKey[d]]

Load(d) == Prepared(d, Entry(d)) /\ UNCHANGED states

Conflict(d) ==
    /\ At(d, "observe")
    /\ Entry(d).revision # snapshot[d].revision
    /\ Conflicted(d)
    /\ UNCHANGED states

\* Plausible bug: the conflict check is left out of the no-op path.
UncheckedUnchanged(d) ==
    /\ At(d, "observe")
    /\ Advance(Entry(d).status, incoming[d]) = Entry(d).status
    /\ Persisted(d, Expected(d))
    /\ UNCHANGED states

\* observe of a status that changes nothing answers the entry, without a write.
Unchanged(d) ==
    /\ At(d, "observe")
    /\ Entry(d).revision = snapshot[d].revision
    /\ Advance(Entry(d).status, incoming[d]) = Entry(d).status
    /\ Persisted(d, Entry(d))
    /\ UNCHANGED states

\* Plausible bug: the capacity check is off by one.
RoomForOneMore(d) == callKey[d] \notin Stored /\ Cardinality(Stored) > MaxEntries

\* A leg that is not stored needs a free entry.
AtCapacity(d) == callKey[d] \notin Stored /\ Cardinality(Stored) >= MaxEntries

Changes(d) ==
    /\ At(d, "observe")
    /\ Entry(d).revision = snapshot[d].revision
    /\ Advance(Entry(d).status, incoming[d]) # Entry(d).status

\* StatusCapacityError leaves the loop: it is not a conflict.
Refuse(d) ==
    /\ Changes(d)
    /\ AtCapacity(d)
    /\ Failed(d)
    /\ UNCHANGED states

\* Plausible bug: what was computed before taking the lock is stored under it.
WriteWhatWasPrepared(d) ==
    /\ At(d, "observe")
    /\ ~AtCapacity(d)
    /\ states' = [states EXCEPT ![callKey[d]] = Expected(d)]
    /\ Persisted(d, Expected(d))

Write(d) ==
    /\ Changes(d)
    /\ ~AtCapacity(d)
    /\ states' = [states EXCEPT ![callKey[d]] = Observed(@, incoming[d])]
    /\ Persisted(d, Observed(Entry(d), incoming[d]))

\* Authentication fails before the load, or the retry hook raises.
Fail(d) ==
    /\ pc[d] \in {"load", "backoff"}
    /\ Failed(d)
    /\ UNCHANGED states

RetryLoad(d) == Retry(d) /\ UNCHANGED states

Deliver(d) ==
    \/ Load(d)
    \/ Conflict(d)
    \/ Unchanged(d)
    \/ Refuse(d)
    \/ Write(d)
    \/ Fail(d)
    \/ RetryLoad(d)

Next == \E d \in Deliveries : Deliver(d)

Spec == Init /\ [][Next]_vars

-----------------------------------------------------------------------------
(***************************************************************************)
(* Properties.                                                             *)
(***************************************************************************)

\* The store never holds more legs than it may, although the check and the
\* insertion follow a load that other threads overtake.
CapacityKept == Cardinality(Stored) <= MaxEntries

\* The capacity is exact: no thread inserts past max_entries, however long ago it
\* loaded, and a full store serves the legs it holds: only authentication, the
\* retry hook or a leg that found no free entry can fail a delivery.
CapacityIsExact ==
    [][/\ Cardinality(Stored') <= MaxEntries
       /\ \A d \in Deliveries :
             pc[d] = "observe" /\ pc'[d] = "failed"
                => callKey[d] \notin Stored /\ Cardinality(Stored) = MaxEntries]_vars

\* No leg is ever evicted and no terminal status ever replaced.
TerminalIsKept ==
    [][\A k \in Keys :
         /\ states[k] # Missing => states'[k] # Missing
         /\ states[k].status \in Terminal => states'[k] = states[k]]_vars

\* A returned snapshot is the entry at that instant, and one that changed it is
\* reported by one delivery only.
Changed(d) == At(d, "saved") /\ result[d].revision > snapshot[d].revision

AnswersAreCurrent ==
    [][\A d \in Deliveries :
         pc[d] # "saved" /\ pc'[d] = "saved"
            => /\ states'[callKey[d]] = result'[d]
               /\ Changed(d)' => \A e \in Deliveries \ {d} :
                     Changed(e) /\ callKey[e] = callKey[d]
                        => result[e].revision < result'[d].revision]_vars

\* The dictionary implements the same register as the DynamoDB table.
Register == INSTANCE CallStatusRegister WITH register <- states
ImplementsRegister == Register!Spec
=============================================================================
