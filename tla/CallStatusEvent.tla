--------------------------- MODULE CallStatusEvent ---------------------------
(***************************************************************************)
(* retry_call_status_event (call_status_event.py): what one signed status  *)
(* callback does with a CallStatusStore.  A delivery loads a snapshot,     *)
(* asks the store to observe its status at that revision, and goes round   *)
(* again on a conflict, a bounded number of times.  Any number of          *)
(* deliveries run at once, in different threads or Lambda invocations; a   *)
(* redelivered callback is a second delivery with the same status.         *)
(*                                                                         *)
(* The module holds the loop only.  DynamoDBCallStatus and                 *)
(* InMemoryCallStatus add the store, and tie each step to what it returns. *)
(***************************************************************************)
EXTENDS CallStatus

CONSTANTS
    Deliveries,          \* callback deliveries
    Keys,                \* workspace/call pairs
    Incoming,            \* the statuses that callbacks carry
    MaxConflictRetries   \* max_conflict_retries

ASSUME IncomingAssumption == Incoming \subseteq Known
ASSUME RetriesAssumption  == MaxConflictRetries \in 0..8

VARIABLES
    pc,         \* pc[d]: where delivery d is
    callKey,    \* callKey[d]: the leg that d is bound to
    incoming,   \* incoming[d]: the status that d carries
    attempt,    \* attempt[d]: the loop counter, conflicts already retried
    snapshot,   \* snapshot[d]: what this attempt loaded
    result      \* result[d]: the snapshot that d returned, once it is "saved"

eventVars == <<pc, callKey, incoming, attempt, snapshot, result>>

\* "saved", "conflict" (StatusConflictError raised) and "failed" (any other
\* exception) are ends; "update" is a step of the DynamoDB store only.
Running  == {"load", "observe", "update", "backoff"}
Finished == {"saved", "conflict", "failed"}

EventTypeOK ==
    /\ pc       \in [Deliveries -> Running \cup Finished]
    /\ callKey  \in [Deliveries -> Keys]
    /\ incoming \in [Deliveries -> Incoming]
    /\ attempt  \in [Deliveries -> 0..MaxConflictRetries]
    /\ snapshot \in [Deliveries -> Snapshots]
    /\ result   \in [Deliveries -> Snapshots]

EventInit ==
    /\ pc       = [d \in Deliveries |-> "load"]
    /\ callKey  \in [Deliveries -> Keys]
    /\ incoming \in [Deliveries -> Incoming]
    /\ attempt  = [d \in Deliveries |-> 0]
    /\ snapshot = [d \in Deliveries |-> Missing]
    /\ result   = [d \in Deliveries |-> Missing]

-----------------------------------------------------------------------------
At(d, label)   == pc[d] = label
Goto(d, label) == pc' = [pc EXCEPT ![d] = label]

\* What _prepare_status_observation expects the store to answer.
Expected(d) == Observed(snapshot[d], incoming[d])

\* _prepare_status_observation: the callback is valid and load answered.
Prepared(d, loaded) ==
    /\ At(d, "load")
    /\ Goto(d, "observe")
    /\ snapshot' = [snapshot EXCEPT ![d] = loaded]
    /\ UNCHANGED <<callKey, incoming, attempt, result>>

\* _persist_status_observation: an answer that was not expected is an error.
Persisted(d, saved) ==
    /\ IF saved = Expected(d)
       THEN Goto(d, "saved") /\ result' = [result EXCEPT ![d] = saved]
       ELSE Goto(d, "failed") /\ UNCHANGED result
    /\ UNCHANGED <<callKey, incoming, attempt, snapshot>>

\* Plausible bug: one attempt too many.
OneAttemptTooMany(d) ==
    /\ Goto(d, IF attempt[d] > MaxConflictRetries THEN "conflict" ELSE "backoff")
    /\ UNCHANGED <<callKey, incoming, attempt, snapshot, result>>

\* The store raised StatusConflictError: raise it from the last attempt.
Conflicted(d) ==
    /\ Goto(d, IF attempt[d] = MaxConflictRetries THEN "conflict" ELSE "backoff")
    /\ UNCHANGED <<callKey, incoming, attempt, snapshot, result>>

\* Plausible bug: the failed attempt's snapshot is used again.
RetryWithoutLoad(d) ==
    /\ At(d, "backoff")
    /\ Goto(d, "observe")
    /\ attempt' = [attempt EXCEPT ![d] = @ + 1]
    /\ UNCHANGED <<callKey, incoming, snapshot, result>>

\* Plausible bug: as long as it conflicts, try again with what is at hand.
RetryUncounted(d) ==
    /\ At(d, "backoff")
    /\ Goto(d, "observe")
    /\ UNCHANGED <<callKey, incoming, attempt, snapshot, result>>

\* before_retry returned (or there is none): authenticate and load afresh.
Retry(d) ==
    /\ At(d, "backoff")
    /\ Goto(d, "load")
    /\ attempt' = [attempt EXCEPT ![d] = @ + 1]
    /\ UNCHANGED <<callKey, incoming, snapshot, result>>

\* Any other exception, from authentication, admission, the store or the retry
\* hook, leaves the loop at once.
Failed(d) ==
    /\ Goto(d, "failed")
    /\ UNCHANGED <<callKey, incoming, attempt, snapshot, result>>
=============================================================================
