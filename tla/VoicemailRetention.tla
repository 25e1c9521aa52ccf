------------------------- MODULE VoicemailRetention -------------------------
(***************************************************************************)
(* The retention worker (voicemail_retention.py) over the voicemail store. *)
(* A pass lists a bounded batch of due tombstones and then purges them one *)
(* conditional call at a time, with the clock reading it started from;     *)
(* between the listing and each purge the other callers of the store, and  *)
(* other workers, act.  The pass ends in a report whose follow-up class    *)
(* tells the scheduler whether to run another.                             *)
(***************************************************************************)
EXTENDS VoicemailStatusStore, RetentionTelemetry

CONSTANTS
    Workers,   \* retention workers
    Limit      \* the batch limit that each worker passes

\* Discovery compares keys: their numbers are those of their order.
ASSUME OrderAssumption == Recordings \subseteq Int
ASSUME LimitAssumption == Limit \in [Workers -> Nat \ {0}]

VARIABLES
    pc,           \* pc[w]: "idle", "purging" or "reported"
    now,          \* now[w]: the clock reading of the pass
    due,          \* due[w]: all that was due when w listed (history)
    discovered,   \* discovered[w]: the candidates that w listed
    remaining,    \* remaining[w]: the candidates that are not classified yet
    purged,       \* purged[w]: the candidates with a purge receipt
    conflicted    \* conflicted[w]: the candidates whose purge conflicted

passVars == <<pc, now, due, discovered, remaining, purged, conflicted>>
vars     == <<states, expired, nextVersion, clock,
              pc, now, due, discovered, remaining, purged, conflicted>>

\* DueVoicemailExpiry
Candidates == [recording : Recordings, tombstone : Tombstones]

TypeOK ==
    /\ StoreTypeOK
    /\ pc         \in [Workers -> {"idle", "purging", "reported"}]
    /\ now        \in [Workers -> 0..MaxTime]
    /\ due        \in [Workers -> SUBSET Candidates]
    /\ discovered \in [Workers -> SUBSET Candidates]
    /\ remaining  \in [Workers -> SUBSET Candidates]
    /\ purged     \in [Workers -> SUBSET Candidates]
    /\ conflicted \in [Workers -> SUBSET Candidates]

Init ==
    /\ StoreInit
    /\ pc         = [w \in Workers |-> "idle"]
    /\ now        = [w \in Workers |-> 0]
    /\ due        = [w \in Workers |-> {}]
    /\ discovered = [w \in Workers |-> {}]
    /\ remaining  = [w \in Workers |-> {}]
    /\ purged     = [w \in Workers |-> {}]
    /\ conflicted = [w \in Workers |-> {}]

-----------------------------------------------------------------------------
\* Discovery order: by deadline, then by key.
Precedes(c, d) ==
    \/ c.tombstone.purgeAfter < d.tombstone.purgeAfter
    \/ /\ c.tombstone.purgeAfter = d.tombstone.purgeAfter
       /\ c.recording < d.recording

\* Plausible bug: a tombstone is due only after its deadline.
StrictlyDue(time) ==
    {c \in [recording : Buried, tombstone : {expired[r] : r \in Buried}] :
        /\ c.tombstone = expired[c.recording]
        /\ c.tombstone.purgeAfter # NoDeadline
        /\ c.tombstone.purgeAfter < time}

Due(time) ==
    {c \in [recording : Buried, tombstone : {expired[r] : r \in Buried}] :
        /\ c.tombstone = expired[c.recording]
        /\ c.tombstone.purgeAfter # NoDeadline
        /\ c.tombstone.purgeAfter <= time}

\* list_due_expiries: the first candidates in discovery order, up to a limit.
Batch(candidates, limit) ==
    {c \in candidates : Cardinality({d \in candidates : Precedes(d, c)}) < limit}

\* The pass starts: list with a fresh clock reading.
List(w) ==
    /\ pc[w] # "purging"
    /\ pc' = [pc EXCEPT ![w] = "purging"]
    /\ now' = [now EXCEPT ![w] = clock]
    /\ due' = [due EXCEPT ![w] = Due(clock)]
    /\ discovered' = [discovered EXCEPT ![w] = Batch(Due(clock), Limit[w])]
    /\ remaining' = [remaining EXCEPT ![w] = Batch(Due(clock), Limit[w])]
    /\ purged' = [purged EXCEPT ![w] = {}]
    /\ conflicted' = [conflicted EXCEPT ![w] = {}]
    /\ UNCHANGED storeVars

\* The loop's next candidate leaves remaining.
Take(w, c) ==
    /\ pc[w] = "purging"
    /\ c \in remaining[w]
    /\ \A d \in remaining[w] \ {c} : Precedes(c, d)
    /\ remaining' = [remaining EXCEPT ![w] = @ \ {c}]

\* The store answers with the tombstone it removed.
PurgeCandidate(w, c) ==
    /\ Take(w, c)
    /\ PurgeExpiredIfDue(c.recording, c.tombstone.version,
                         c.tombstone.purgeAfter, now[w])
    /\ purged' = [purged EXCEPT ![w] = @ \cup {c}]
    /\ UNCHANGED <<pc, now, due, discovered, conflicted>>

\* VoicemailStatusConflictError: another tombstone, or another deadline.
ConflictCandidate(w, c) ==
    /\ Take(w, c)
    /\ expired[c.recording] # NoTombstone
    /\ ~Matches(c.recording, c.tombstone.version, c.tombstone.purgeAfter)
    /\ conflicted' = [conflicted EXCEPT ![w] = @ \cup {c}]
    /\ UNCHANGED <<pc, now, due, discovered, purged>>
    /\ UNCHANGED storeVars

\* No receipt: the tombstone is gone.
MissCandidate(w, c) ==
    /\ Take(w, c)
    /\ expired[c.recording] = NoTombstone
    /\ UNCHANGED <<pc, now, due, discovered, purged, conflicted>>
    /\ UNCHANGED storeVars

\* All candidates are classified: the report is built.
Report(w) ==
    /\ pc[w] = "purging"
    /\ remaining[w] = {}
    /\ pc' = [pc EXCEPT ![w] = "reported"]
    /\ UNCHANGED <<now, due, discovered, remaining, purged, conflicted>>
    /\ UNCHANGED storeVars

\* An unexpected adapter error propagates: no report, and what was purged so far
\* stays purged.
Abort(w) ==
    /\ pc[w] = "purging"
    /\ pc' = [pc EXCEPT ![w] = "idle"]
    /\ remaining' = [remaining EXCEPT ![w] = {}]
    /\ UNCHANGED <<now, due, discovered, purged, conflicted>>
    /\ UNCHANGED storeVars

PurgeNext(w) ==
    \E c \in remaining[w] :
       PurgeCandidate(w, c) \/ ConflictCandidate(w, c) \/ MissCandidate(w, c)

\* The other callers of the store.
Others ==
    /\ Callback \/ DeleteOrExpire \/ Purge \/ Extend \/ Hold \/ Release
    /\ UNCHANGED passVars

Advance == Tick /\ UNCHANGED passVars

WorkerStep(w) == List(w) \/ PurgeNext(w) \/ Report(w)

WorkNext ==
    \/ \E w \in Workers : WorkerStep(w) \/ Abort(w)
    \/ Others
    \/ Advance

WorkSpec == Init /\ [][WorkNext]_vars

-----------------------------------------------------------------------------
(***************************************************************************)
(* The report.                                                             *)
(***************************************************************************)
NoReceipt(w) == discovered[w] \ (purged[w] \cup conflicted[w])

\* Plausible bug: a batch that was filled exactly does not count as saturated.
OverflowOnly(w) == Cardinality(discovered[w]) > Limit[w]

LimitReached(w) == Cardinality(discovered[w]) = Limit[w]

Counts(w) ==
    [discovered   |-> Cardinality(discovered[w]),
     purged       |-> Cardinality(purged[w]),
     conflicted   |-> Cardinality(conflicted[w]),
     missing      |-> Cardinality(NoReceipt(w)),
     limitReached |-> LimitReached(w)]

FollowUpAction(w) == Action(Counts(w))

-----------------------------------------------------------------------------
(***************************************************************************)
(* Properties.                                                             *)
(***************************************************************************)

\* A receipt is for the very tombstone that was listed, and this pass removed it.
ReceiptsAreForWhatWasListed ==
    [][\A w \in Workers : \A c \in purged'[w] \ purged[w] :
         /\ c \in discovered[w]
         /\ expired[c.recording] = c.tombstone
         /\ expired'[c.recording] = NoTombstone]_vars

\* What was purged is gone for good: the recording may be recorded and expired
\* again, but never under the version of the receipt, so no two workers hold a
\* receipt for one tombstone.
PurgedIsGone ==
    \A w \in Workers : \A c \in purged[w] :
       /\ expired[c.recording].version # c.tombstone.version
       /\ \A v \in Workers \ {w} : c \notin purged[v]

\* A pass that asks for no follow-up left nothing behind of all that was due when
\* it listed, beyond its own batch too.
NoFollowUpMeansDrained ==
    \A w \in Workers :
       pc[w] = "reported" /\ FollowUpAction(w) = "none"
          => \A c \in due[w] : expired[c.recording] # c.tombstone

\* Whoever reads the worker's record, unharmed or with any one field changed on
\* its way, either refuses it or does what the worker reported.
ConsumersAreNotMisled ==
    \A w \in Workers : pc[w] = "reported" =>
       /\ Accepted(Telemetry(Counts(w)))
       /\ \A t \in Damaged(Telemetry(Counts(w)), Limit[w] + 1) :
             Accepted(t) => Restored(t) = Counts(w) /\ t.action = FollowUpAction(w)

\* Passes that keep being run, over a store that others leave alone and that does
\* not fail for ever, purge every tombstone whose deadline the clock reaches.
FairWork ==
    /\ WorkSpec
    /\ WF_vars(Advance)
    /\ \A w \in Workers :
         /\ WF_vars(List(w))
         /\ SF_vars(PurgeNext(w))
         /\ SF_vars(Report(w))

Overdue(r) ==
    /\ expired[r] # NoTombstone
    /\ expired[r].purgeAfter # NoDeadline
    /\ expired[r].purgeAfter <= MaxTime

EventuallyPurged ==
    <>[][~Others]_vars => \A r \in Recordings : []<>(~Overdue(r))
=============================================================================
