------------------------ MODULE VoicemailStatusStore ------------------------
(***************************************************************************)
(* InMemoryVoicemailStatusStore (voicemail_status_store.py): the final     *)
(* status of each voicemail recording, and the tombstone that replaces it  *)
(* once it is expired, so that a late callback cannot create it again.     *)
(* A tombstone may carry a deadline before which it must not be purged; a  *)
(* retention hold takes the deadline away, releasing the hold sets one.    *)
(*                                                                         *)
(* Every method runs under the store's lock and is one step.  Its callers  *)
(* (callbacks, retention jobs, operators) pass what they saw earlier, so a *)
(* step may be asked with any version issued so far and any deadline.  A   *)
(* call that raises, or answers None or False, changes nothing: its guard  *)
(* is false.                                                               *)
(***************************************************************************)
EXTENDS Integers, FiniteSets

CONSTANTS
    Recordings,   \* workspace/call/recording keys, numbered in their order
    Statuses,     \* final statuses of a recording
    MaxEntries,   \* max_entries, shared by statuses and tombstones
    Deadlines,    \* purge deadlines that callers choose
    MaxVersion,   \* bound on the tombstone versions that are issued
    MaxTime       \* bound on the clock

NoStatus   == "none"
NoDeadline == -1

ASSUME RecordingsAssumption == IsFiniteSet(Recordings)
ASSUME StatusesAssumption   == NoStatus \notin Statuses
ASSUME EntriesAssumption    == MaxEntries \in Nat \ {0}
ASSUME DeadlinesAssumption  == Deadlines \subseteq Nat
ASSUME BoundsAssumption     == MaxVersion \in Nat /\ MaxTime \in Nat

VARIABLES
    states,        \* states[r]: the recorded status, NoStatus if none
    expired,       \* expired[r]: the tombstone, NoTombstone if none
    nextVersion,   \* _next_expiry_version
    clock          \* the trusted clock that callers read

storeVars == <<states, expired, nextVersion, clock>>

\* VoicemailRecordingStatusSnapshot of an expired recording.
Tombstones  == [version : Nat \ {0}, purgeAfter : Nat \cup {NoDeadline}]
NoTombstone == [version |-> 0, purgeAfter |-> NoDeadline]

StoreTypeOK ==
    /\ states      \in [Recordings -> Statuses \cup {NoStatus}]
    /\ expired     \in [Recordings -> Tombstones \cup {NoTombstone}]
    /\ nextVersion \in 1..(MaxVersion + 1)
    /\ clock       \in 0..MaxTime

StoreInit ==
    /\ states      = [r \in Recordings |-> NoStatus]
    /\ expired     = [r \in Recordings |-> NoTombstone]
    /\ nextVersion = 1
    /\ clock       = 0

-----------------------------------------------------------------------------
Recorded == {r \in Recordings : states[r] # NoStatus}
Buried   == {r \in Recordings : expired[r] # NoTombstone}
Entries  == Cardinality(Recorded) + Cardinality(Buried)
Issued   == 1..(nextVersion - 1)

\* Plausible bugs: tombstones are not counted, or do not stop a callback.
CountingStatusesOnly(r, s) ==
    /\ states[r] = NoStatus
    /\ expired[r] = NoTombstone
    /\ Cardinality(Recorded) < MaxEntries
    /\ states' = [states EXCEPT ![r] = s]
    /\ UNCHANGED <<expired, nextVersion, clock>>

RecordOverTombstone(r, s) ==
    /\ states[r] = NoStatus
    /\ Entries < MaxEntries
    /\ states' = [states EXCEPT ![r] = s]
    /\ UNCHANGED <<expired, nextVersion, clock>>

\* Plausible bug: the latest final status wins.
LatestStatusWins(r, s) ==
    /\ states[r] # s
    /\ expired[r] = NoTombstone
    /\ states[r] = NoStatus => Entries < MaxEntries
    /\ states' = [states EXCEPT ![r] = s]
    /\ UNCHANGED <<expired, nextVersion, clock>>

\* record, for a callback that was authenticated and bound to r.  A redelivery
\* of the recorded status changes nothing; another status is a conflict.
Record(r, s) ==
    /\ states[r] = NoStatus
    /\ expired[r] = NoTombstone
    /\ Entries < MaxEntries
    /\ states' = [states EXCEPT ![r] = s]
    /\ UNCHANGED <<expired, nextVersion, clock>>

\* delete of exactly the status the caller loaded; it leaves no tombstone.
Delete(r, s) ==
    /\ states[r] = s
    /\ states' = [states EXCEPT ![r] = NoStatus]
    /\ UNCHANGED <<expired, nextVersion, clock>>

\* Plausible bug: versions are numbered by the tombstones that are left.
ExpireWithoutCounter(r, s, deadline) ==
    /\ nextVersion <= MaxVersion
    /\ expired[r] = NoTombstone
    /\ states[r] = s
    /\ states' = [states EXCEPT ![r] = NoStatus]
    /\ expired' = [expired EXCEPT ![r] = [version    |-> Cardinality(Buried) + 1,
                                          purgeAfter |-> deadline]]
    /\ nextVersion' = nextVersion + 1
    /\ UNCHANGED clock

\* expire and expire_and_inspect: the status gives way to a new tombstone.
Expire(r, s, deadline) ==
    /\ nextVersion <= MaxVersion
    /\ expired[r] = NoTombstone
    /\ states[r] = s
    /\ states' = [states EXCEPT ![r] = NoStatus]
    /\ expired' = [expired EXCEPT ![r] = [version    |-> nextVersion,
                                          purgeAfter |-> deadline]]
    /\ nextVersion' = nextVersion + 1
    /\ UNCHANGED clock

Bury(r, tombstone) ==
    /\ expired' = [expired EXCEPT ![r] = tombstone]
    /\ UNCHANGED <<states, nextVersion, clock>>

\* Plausible bug: the legacy purge accepts a scheduled tombstone.
PurgeAnyExpired(r, version) ==
    /\ expired[r] # NoTombstone
    /\ expired[r].version = version
    /\ Bury(r, NoTombstone)

\* purge_expired and purge_expired_and_inspect refuse a scheduled tombstone.
PurgeExpired(r, version) ==
    /\ expired[r] # NoTombstone
    /\ expired[r].version = version
    /\ expired[r].purgeAfter = NoDeadline
    /\ Bury(r, NoTombstone)

\* Plausible bug: the deadline is not part of what the caller expects.
MatchesVersionOnly(r, version, deadline) ==
    /\ expired[r] # NoTombstone
    /\ expired[r].version = version

\* The tombstone is exactly the one the caller expects.
Matches(r, version, deadline) ==
    /\ expired[r] # NoTombstone
    /\ expired[r].version = version
    /\ expired[r].purgeAfter = deadline

\* purge_expired_if_due, as the due-purge helper calls it: now is no later than
\* the clock.
PurgeExpiredIfDue(r, version, deadline, now) ==
    /\ Matches(r, version, deadline)
    /\ now >= deadline
    /\ Bury(r, NoTombstone)

\* extend_expiry_deadline
ExtendDeadline(r, version, deadline, newDeadline) ==
    /\ newDeadline > deadline
    /\ Matches(r, version, deadline)
    /\ Bury(r, [version |-> version, purgeAfter |-> newDeadline])

\* unschedule_expiry_deadline: a retention hold.
UnscheduleDeadline(r, version, deadline) ==
    /\ Matches(r, version, deadline)
    /\ Bury(r, [version |-> version, purgeAfter |-> NoDeadline])

\* Plausible bug: releasing a hold does not check that there still is one.
RescheduleDeadline(r, version, newDeadline) ==
    /\ expired[r] # NoTombstone
    /\ expired[r].version = version
    /\ Bury(r, [version |-> version, purgeAfter |-> newDeadline])

\* schedule_expiry_deadline: the release of a hold.
ScheduleDeadline(r, version, newDeadline) ==
    /\ Matches(r, version, NoDeadline)
    /\ Bury(r, [version |-> version, purgeAfter |-> newDeadline])

Tick ==
    /\ clock < MaxTime
    /\ clock' = clock + 1
    /\ UNCHANGED <<states, expired, nextVersion>>

-----------------------------------------------------------------------------
\* What the store's callers do, other than the retention worker.  Their helpers
\* check keys, adapters and answers, and make one call of the store each.
Callback == \E r \in Recordings, s \in Statuses : Record(r, s)

DeleteOrExpire ==
    \E r \in Recordings, s \in Statuses :
       \/ Delete(r, s)
       \/ \E t \in Deadlines \cup {NoDeadline} : Expire(r, s, t)

Purge ==
    \E r \in Recordings, v \in Issued :
       \/ PurgeExpired(r, v)
       \/ \E t \in Deadlines, now \in 0..clock : PurgeExpiredIfDue(r, v, t, now)

\* A longer deadline, a retention hold, and the release of one.
Extend ==
    \E r \in Recordings, v \in Issued, t, u \in Deadlines : ExtendDeadline(r, v, t, u)

Hold ==
    \E r \in Recordings, v \in Issued, t \in Deadlines : UnscheduleDeadline(r, v, t)

Release ==
    \E r \in Recordings, v \in Issued, t \in Deadlines : ScheduleDeadline(r, v, t)

Next == Callback \/ DeleteOrExpire \/ Purge \/ Extend \/ Hold \/ Release \/ Tick

Spec == StoreInit /\ [][Next]_storeVars

-----------------------------------------------------------------------------
(***************************************************************************)
(* Properties.                                                             *)
(***************************************************************************)

\* No recording is both active and expired (inspect could not answer), and both
\* dictionaries together never hold more than max_entries.
ActiveOrExpired ==
    /\ Recorded \cap Buried = {}
    /\ Entries <= MaxEntries

\* A version names one tombstone: none is issued twice while it can be seen.
VersionsAreUnique ==
    \A r \in Buried :
       /\ expired[r].version < nextVersion
       /\ \A q \in Buried \ {r} : expired[q].version # expired[r].version

\* The recreation guard: as long as a tombstone is there no callback brings the
\* status back, and nothing but a purge takes its place.
RecreationIsGuarded ==
    [][\A r \in Buried :
         /\ states'[r] = NoStatus
         /\ expired'[r] # NoTombstone => expired'[r].version = expired[r].version]_storeVars

\* A scheduled tombstone outlives its deadline, whoever purges it with whatever
\* stale version, deadline or clock reading.
NoEarlyPurge ==
    [][\A r \in Buried :
         expired[r].purgeAfter # NoDeadline /\ expired'[r] = NoTombstone
            => expired[r].purgeAfter <= clock]_storeVars

\* Only a hold takes a deadline away; no other step brings it forward.
DeadlinesOnlyMoveLater ==
    [][\A r \in Buried :
         expired[r].purgeAfter # NoDeadline /\ expired'[r] # NoTombstone
            => \/ expired'[r].purgeAfter = NoDeadline
               \/ expired'[r].purgeAfter >= expired[r].purgeAfter]_storeVars

\* The first final status wins: it is never replaced in place by another.
FirstFinalStatusWins ==
    [][\A r \in Recorded : states'[r] \in {states[r], NoStatus}]_storeVars
=============================================================================
