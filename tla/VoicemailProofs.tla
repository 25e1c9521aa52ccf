------------------------ MODULE VoicemailProofs ------------------------
(***************************************************************************)
(* Theorems about the voicemail store and the retention workers over it,   *)
(* for any finite set of recordings, any statuses, deadlines, capacity,    *)
(* workers and batch limits.                                               *)
(*                                                                         *)
(* The store: the three invariants that its run checks are inductive       *)
(* together; the action properties follow from them and the guards of each *)
(* method.  The workers: each of their steps is a step of the store, so    *)
(* all of this holds while they run; what they hold is tied to the store   *)
(* by the versions, which are never issued again.                          *)
(***************************************************************************)
EXTENDS VoicemailRetention, FiniteSetTheorems, WellFoundedInduction, TLAPS

-----------------------------------------------------------------------------
(***************************************************************************)
(* The store.                                                              *)
(***************************************************************************)
StoreInv == StoreTypeOK /\ ActiveOrExpired /\ VersionsAreUnique

\* A version below the counter, for a tombstone or for the absence of one.
LEMMA TombstoneVersions ==
    /\ NoTombstone.version = 0 /\ NoTombstone.purgeAfter = NoDeadline
    /\ NoTombstone \notin Tombstones
    /\ NoDeadline \notin Nat
    /\ \A t \in Tombstones : t.version \in Nat \ {0} /\ t.purgeAfter \in Nat \cup {NoDeadline}
  BY DEF NoTombstone, Tombstones, NoDeadline

\* Removing an element leaves no more of them.
LEMMA RemovingLeavesFewer ==
    ASSUME NEW S, IsFiniteSet(S), NEW x
    PROVE  Cardinality(S \ {x}) \in Nat /\ Cardinality(S \ {x}) <= Cardinality(S)
<1>1. IsFiniteSet(S \ {x}) /\ S \ {x} \in SUBSET S
  BY FS_RemoveElement
<1> QED BY <1>1, FS_Subset, FS_CardinalityType

\* Both kinds of entries are finitely many.
LEMMA EntriesAreFinite ==
    /\ IsFiniteSet(Recorded) /\ Cardinality(Recorded) \in Nat
    /\ IsFiniteSet(Buried)   /\ Cardinality(Buried)   \in Nat
<1>1. IsFiniteSet(Recorded) /\ IsFiniteSet(Buried)
  BY FS_Subset, RecordingsAssumption DEF Recorded, Buried
<1> QED BY <1>1, FS_CardinalityType

-----------------------------------------------------------------------------
\* The empty store satisfies the invariant.
LEMMA StoreStarts == StoreInit => StoreInv
<1> SUFFICES ASSUME StoreInit PROVE StoreInv
  OBVIOUS
<1>1. StoreTypeOK
  BY BoundsAssumption DEF StoreInit, StoreTypeOK
<1>2. Recorded = {} /\ Buried = {}
  BY DEF StoreInit, Recorded, Buried
<1>3. ActiveOrExpired
  BY <1>2, FS_EmptySet, EntriesAssumption DEF ActiveOrExpired, Entries
<1>4. VersionsAreUnique
  BY <1>2 DEF VersionsAreUnique
<1> QED BY <1>1, <1>3, <1>4 DEF StoreInv

\* record keeps the invariant: it needs room for one more entry.
LEMMA RecordKeeps ==
    ASSUME StoreInv, NEW r \in Recordings, NEW s \in Statuses, Record(r, s)
    PROVE  StoreInv'
<1>1. StoreTypeOK'
  BY DEF StoreInv, StoreTypeOK, Record
<1>2. Recorded' = Recorded \cup {r} /\ Buried' = Buried
  BY StatusesAssumption DEF StoreInv, StoreTypeOK, Record, Recorded, Buried
<1>3. r \notin Recorded /\ r \notin Buried
  BY DEF Record, Recorded, Buried
<1>4. Cardinality(Recorded') = Cardinality(Recorded) + 1
  BY <1>2, <1>3, EntriesAreFinite, FS_AddElement
<1>5. Entries' <= MaxEntries
  BY <1>2, <1>4, EntriesAreFinite, EntriesAssumption DEF Record, Entries
<1>6. ActiveOrExpired'
  BY <1>2, <1>3, <1>5 DEF StoreInv, ActiveOrExpired
<1>7. VersionsAreUnique'
  BY <1>2 DEF StoreInv, VersionsAreUnique, Record
<1> QED BY <1>1, <1>6, <1>7 DEF StoreInv

\* delete keeps the invariant.
LEMMA DeleteKeeps ==
    ASSUME StoreInv, NEW r \in Recordings, NEW s \in Statuses, Delete(r, s)
    PROVE  StoreInv'
<1>1. StoreTypeOK'
  BY DEF StoreInv, StoreTypeOK, Delete
<1>2. Recorded' = Recorded \ {r} /\ Buried' = Buried
  BY DEF StoreInv, StoreTypeOK, Delete, Recorded, Buried
<1>3. Cardinality(Recorded') <= Cardinality(Recorded) /\ Cardinality(Recorded') \in Nat
  BY <1>2, EntriesAreFinite, RemovingLeavesFewer
<1>4. Entries' <= MaxEntries
  BY <1>2, <1>3, EntriesAreFinite, EntriesAssumption DEF StoreInv, ActiveOrExpired, Entries
<1>5. ActiveOrExpired'
  BY <1>2, <1>4 DEF StoreInv, ActiveOrExpired
<1>6. VersionsAreUnique'
  BY <1>2 DEF StoreInv, VersionsAreUnique, Delete
<1> QED BY <1>1, <1>5, <1>6 DEF StoreInv

\* expire keeps the invariant: one entry takes the place of another, under a
\* version that no tombstone has.
LEMMA ExpireKeeps ==
    ASSUME StoreInv, NEW r \in Recordings, NEW s \in Statuses,
           NEW t \in Deadlines \cup {NoDeadline}, Expire(r, s, t)
    PROVE  StoreInv'
<1> DEFINE new == [version |-> nextVersion, purgeAfter |-> t]
<1>1. new \in Tombstones
  BY DeadlinesAssumption, BoundsAssumption DEF StoreInv, StoreTypeOK, Tombstones
<1>2. new # NoTombstone
  BY <1>1, TombstoneVersions
<1>3. StoreTypeOK'
  BY <1>1, BoundsAssumption DEF StoreInv, StoreTypeOK, Expire
<1>4. Recorded' = Recorded \ {r}
  BY DEF StoreInv, StoreTypeOK, Expire, Recorded
<1>5. expired' = [expired EXCEPT ![r] = new]
  BY DEF Expire
<1>6. Buried' = Buried \cup {r}
  BY <1>2, <1>5 DEF StoreInv, StoreTypeOK, Buried
<1>7. r \in Recorded /\ r \notin Buried
  BY StatusesAssumption DEF Expire, Recorded, Buried
<1>8. Entries' = Entries
  <2>1. Cardinality(Recorded') = Cardinality(Recorded) - 1
    BY <1>4, <1>7, EntriesAreFinite, FS_RemoveElement
  <2>2. Cardinality(Buried') = Cardinality(Buried) + 1
    BY <1>6, <1>7, EntriesAreFinite, FS_AddElement
  <2> QED BY <2>1, <2>2, EntriesAreFinite DEF Entries
<1>9. ActiveOrExpired'
  <2>1. Entries' <= MaxEntries
    BY <1>8, EntriesAssumption DEF StoreInv, ActiveOrExpired
  <2>2. Recorded' \cap Buried' = {}
    BY <1>4, <1>6 DEF StoreInv, ActiveOrExpired
  <2> QED BY <2>1, <2>2 DEF ActiveOrExpired
<1>10. VersionsAreUnique'
  <2>1. nextVersion \in Nat /\ nextVersion' = nextVersion + 1
    BY BoundsAssumption DEF StoreInv, StoreTypeOK, Expire
  <2>2. \A q \in Buried : /\ expired'[q] = expired[q]
                          /\ expired[q].version \in Nat
                          /\ expired[q].version < nextVersion
    BY <1>5, <1>7, TombstoneVersions DEF StoreInv, StoreTypeOK, Buried, VersionsAreUnique
  <2>3. expired'[r].version = nextVersion
    BY <1>5 DEF StoreInv, StoreTypeOK
  <2>4. \A q \in Buried' : expired'[q].version < nextVersion'
    BY <1>6, <2>1, <2>2, <2>3
  <2>5. \A p, q \in Buried' : p # q => expired'[p].version # expired'[q].version
    <3> SUFFICES ASSUME NEW p \in Buried', NEW q \in Buried', p # q
                 PROVE  expired'[p].version # expired'[q].version
      OBVIOUS
    <3>1. CASE p = r
      BY <3>1, <1>6, <2>1, <2>2, <2>3
    <3>2. CASE q = r
      BY <3>2, <1>6, <2>1, <2>2, <2>3
    <3>3. CASE p # r /\ q # r
      BY <3>3, <1>6, <2>2 DEF StoreInv, VersionsAreUnique
    <3> QED BY <3>1, <3>2, <3>3
  <2> QED BY <2>4, <2>5 DEF VersionsAreUnique
<1> QED BY <1>3, <1>9, <1>10 DEF StoreInv

\* Whatever a method does to a tombstone keeps the invariant, when it removes it
\* or leaves its version alone.
LEMMA BuryKeeps ==
    ASSUME StoreInv, NEW r \in Buried, NEW t \in Tombstones \cup {NoTombstone},
           t # NoTombstone => t.version = expired[r].version,
           Bury(r, t)
    PROVE  StoreInv'
<1>1. r \in Recordings
  BY DEF Buried
<1>2. StoreTypeOK'
  BY <1>1 DEF StoreInv, StoreTypeOK, Bury
<1>3. Recorded' = Recorded /\ Buried' = IF t = NoTombstone THEN Buried \ {r} ELSE Buried
  BY <1>1 DEF StoreInv, StoreTypeOK, Bury, Recorded, Buried
<1>4. Cardinality(Buried') <= Cardinality(Buried) /\ Cardinality(Buried') \in Nat
  <2>1. CASE t = NoTombstone
    BY <1>3, <2>1, EntriesAreFinite, RemovingLeavesFewer
  <2>2. CASE t # NoTombstone
    BY <1>3, <2>2, EntriesAreFinite
  <2> QED BY <2>1, <2>2
<1>5. ActiveOrExpired'
  <2>1. Entries' <= MaxEntries
    BY <1>3, <1>4, EntriesAreFinite, EntriesAssumption DEF StoreInv, ActiveOrExpired, Entries
  <2> QED BY <1>3, <2>1 DEF StoreInv, ActiveOrExpired
<1>6. \A q \in Buried' : q \in Buried /\ expired'[q].version = expired[q].version
  BY <1>1, <1>3 DEF StoreInv, StoreTypeOK, Bury, Buried
<1>7. VersionsAreUnique'
  BY <1>6 DEF StoreInv, VersionsAreUnique, Bury
<1> QED BY <1>2, <1>5, <1>7 DEF StoreInv

-----------------------------------------------------------------------------
\* What each method that touches a tombstone does to it, in terms of Bury.
LEMMA TombstoneMethods ==
    ASSUME StoreTypeOK, NEW r \in Recordings, NEW v \in Issued, NEW t \in Deadlines
    PROVE  /\ PurgeExpired(r, v) =>
                /\ r \in Buried /\ expired[r].purgeAfter = NoDeadline
                /\ Bury(r, NoTombstone)
           /\ \A reading \in 0..clock : PurgeExpiredIfDue(r, v, t, reading) =>
                /\ r \in Buried /\ expired[r].purgeAfter <= clock
                /\ Bury(r, NoTombstone)
           /\ UnscheduleDeadline(r, v, t) =>
                /\ r \in Buried
                /\ Bury(r, [version |-> expired[r].version, purgeAfter |-> NoDeadline])
           /\ ScheduleDeadline(r, v, t) =>
                /\ r \in Buried /\ expired[r].purgeAfter = NoDeadline
                /\ Bury(r, [version |-> expired[r].version, purgeAfter |-> t])
           /\ \A u \in Deadlines : ExtendDeadline(r, v, t, u) =>
                /\ r \in Buried /\ expired[r].purgeAfter < u
                /\ Bury(r, [version |-> expired[r].version, purgeAfter |-> u])
<1>1. \A reading \in 0..clock : reading <= clock /\ reading \in Int
  OBVIOUS
<1>2. t \in Nat /\ clock \in Nat /\ \A u \in Deadlines : u \in Nat
  BY DeadlinesAssumption DEF StoreTypeOK
<1>3. \A reading \in 0..clock : PurgeExpiredIfDue(r, v, t, reading) =>
        /\ r \in Buried /\ expired[r].purgeAfter <= clock
        /\ Bury(r, NoTombstone)
  BY <1>1, <1>2 DEF PurgeExpiredIfDue, Matches, Buried
<1> QED
  BY <1>2, <1>3 DEF PurgeExpired, UnscheduleDeadline, ScheduleDeadline,
                    ExtendDeadline, Matches, Buried

\* The tombstones that those methods leave are well typed.
LEMMA TombstonesLeft ==
    ASSUME StoreTypeOK, NEW r \in Buried, NEW t \in Deadlines \cup {NoDeadline}
    PROVE  [version |-> expired[r].version, purgeAfter |-> t] \in Tombstones
<1>1. expired[r] \in Tombstones
  BY DEF StoreTypeOK, Buried
<1> QED BY <1>1, TombstoneVersions, DeadlinesAssumption DEF Tombstones

\* The invariant is inductive.
LEMMA StoreSteps == StoreInv /\ [Next]_storeVars => StoreInv'
<1> SUFFICES ASSUME StoreInv, [Next]_storeVars PROVE StoreInv'
  OBVIOUS
<1> USE DEF StoreInv
<1>1. CASE Callback
  BY <1>1, RecordKeeps DEF Callback
<1>2. CASE DeleteOrExpire \/ Purge
  <2>1. PICK r \in Recordings :
           \/ \E s \in Statuses :
                 \/ Delete(r, s)
                 \/ \E t \in Deadlines \cup {NoDeadline} : Expire(r, s, t)
           \/ \E v \in Issued :
                 \/ PurgeExpired(r, v)
                 \/ \E t \in Deadlines, reading \in 0..clock : PurgeExpiredIfDue(r, v, t, reading)
    BY <1>2 DEF DeleteOrExpire, Purge
  <2>2. CASE \E s \in Statuses : Delete(r, s)
    BY <2>2, DeleteKeeps
  <2>3. CASE \E s \in Statuses, t \in Deadlines \cup {NoDeadline} : Expire(r, s, t)
    BY <2>3, ExpireKeeps
  <2>4. CASE \E v \in Issued : PurgeExpired(r, v)
    <3>1. r \in Buried /\ Bury(r, NoTombstone)
      BY <2>4 DEF PurgeExpired, Buried
    <3> QED BY <3>1, BuryKeeps
  <2>5. CASE \E v \in Issued, t \in Deadlines, reading \in 0..clock :
                PurgeExpiredIfDue(r, v, t, reading)
    <3>1. r \in Buried /\ Bury(r, NoTombstone)
      BY <2>5, TombstoneMethods
    <3> QED BY <3>1, BuryKeeps
  <2> QED BY <2>1, <2>2, <2>3, <2>4, <2>5
<1>3. CASE Extend \/ Hold \/ Release
  <2>1. PICK r \in Recordings, v \in Issued, t \in Deadlines :
           \/ UnscheduleDeadline(r, v, t)
           \/ ScheduleDeadline(r, v, t)
           \/ \E u \in Deadlines : ExtendDeadline(r, v, t, u)
    BY <1>3 DEF Extend, Hold, Release
  <2>2. /\ r \in Buried
        /\ \E u \in Deadlines \cup {NoDeadline} :
              Bury(r, [version |-> expired[r].version, purgeAfter |-> u])
    BY <2>1, TombstoneMethods
  <2>3. PICK u \in Deadlines \cup {NoDeadline} :
           Bury(r, [version |-> expired[r].version, purgeAfter |-> u])
    BY <2>2
  <2> DEFINE left == [version |-> expired[r].version, purgeAfter |-> u]
  <2>4. left \in Tombstones /\ left.version = expired[r].version
    BY <2>2, TombstonesLeft
  <2> HIDE DEF left
  <2>5. Bury(r, left)
    BY <2>3 DEF left
  <2> QED BY <2>2, <2>4, <2>5, BuryKeeps
<1>4. CASE Tick
  <2>1. StoreTypeOK'
    BY <1>4, BoundsAssumption DEF StoreTypeOK, Tick
  <2>2. Recorded' = Recorded /\ Buried' = Buried
    BY <1>4 DEF Tick, Recorded, Buried
  <2>3. ActiveOrExpired'
    BY <2>2 DEF ActiveOrExpired, Entries
  <2>4. VersionsAreUnique'
    BY <1>4, <2>2 DEF VersionsAreUnique, Tick
  <2> QED BY <2>1, <2>3, <2>4
<1>5. CASE UNCHANGED storeVars
  BY <1>5 DEF storeVars, StoreTypeOK, ActiveOrExpired, VersionsAreUnique, Entries,
              Recorded, Buried
<1> QED BY <1>1, <1>2, <1>3, <1>4, <1>5 DEF Next

\* The invariant holds in every state of the specification.
THEOREM StoreInvariant == Spec => []StoreInv
  BY StoreStarts, StoreSteps, PTL DEF Spec

\* The methods keep to the types.
THEOREM StoreTypeCorrect == Spec => []StoreTypeOK
  BY StoreInvariant, PTL DEF StoreInv

\* No recording is ever active and expired at once, and statuses and tombstones
\* together never outgrow max_entries.
THEOREM CapacityIsShared == Spec => []ActiveOrExpired
  BY StoreInvariant, PTL DEF StoreInv

\* No two tombstones ever have the same version.
THEOREM VersionsNameOneTombstone == Spec => []VersionsAreUnique
  BY StoreInvariant, PTL DEF StoreInv

-----------------------------------------------------------------------------
\* What one step may do to a buried recording q.
LEMMA BuriedSteps ==
    ASSUME StoreInv, Next, NEW q \in Buried
    PROVE  /\ states'[q] = NoStatus
           /\ \/ expired'[q] = expired[q]
              \/ /\ expired'[q] = NoTombstone
                 /\ \/ expired[q].purgeAfter = NoDeadline
                    \/ expired[q].purgeAfter <= clock
              \/ \E u \in Deadlines \cup {NoDeadline} :
                    /\ expired'[q] = [version |-> expired[q].version, purgeAfter |-> u]
                    /\ \/ expired[q].purgeAfter = NoDeadline
                       \/ u = NoDeadline
                       \/ expired[q].purgeAfter < u
<1> USE DEF StoreInv
<1>0. /\ q \in Recordings /\ states[q] = NoStatus
      /\ states \in [Recordings -> Statuses \cup {NoStatus}]
      /\ expired \in [Recordings -> Tombstones \cup {NoTombstone}]
      /\ expired[q] # NoTombstone
  BY DEF StoreTypeOK, ActiveOrExpired, Recorded, Buried
<1> USE <1>0
<1>1. CASE Callback
  BY <1>1 DEF Callback, Record
<1>2. CASE DeleteOrExpire \/ Purge
  <2>1. PICK r \in Recordings :
           \/ \E s \in Statuses :
                 \/ Delete(r, s)
                 \/ \E t \in Deadlines \cup {NoDeadline} : Expire(r, s, t)
           \/ \E v \in Issued :
                 \/ PurgeExpired(r, v)
                 \/ \E t \in Deadlines, reading \in 0..clock : PurgeExpiredIfDue(r, v, t, reading)
    BY <1>2 DEF DeleteOrExpire, Purge
  <2>2. CASE \E s \in Statuses : Delete(r, s)
    BY <2>2 DEF Delete
  <2>3. CASE \E s \in Statuses, t \in Deadlines \cup {NoDeadline} : Expire(r, s, t)
    BY <2>3 DEF Expire
  <2>4. CASE \E v \in Issued : PurgeExpired(r, v)
    BY <2>4 DEF PurgeExpired, Bury
  <2>5. CASE \E v \in Issued, t \in Deadlines, reading \in 0..clock :
                PurgeExpiredIfDue(r, v, t, reading)
    <3>1. expired[r].purgeAfter <= clock /\ Bury(r, NoTombstone)
      BY <2>5, TombstoneMethods
    <3> QED BY <3>1 DEF Bury
  <2> QED BY <2>1, <2>2, <2>3, <2>4, <2>5
<1>3. CASE Extend \/ Hold \/ Release
  <2>1. PICK r \in Recordings, v \in Issued, t \in Deadlines :
           \/ UnscheduleDeadline(r, v, t)
           \/ ScheduleDeadline(r, v, t)
           \/ \E u \in Deadlines : ExtendDeadline(r, v, t, u)
    BY <1>3 DEF Extend, Hold, Release
  <2>2. PICK u \in Deadlines \cup {NoDeadline} :
           /\ Bury(r, [version |-> expired[r].version, purgeAfter |-> u])
           /\ \/ expired[r].purgeAfter = NoDeadline
              \/ u = NoDeadline
              \/ expired[r].purgeAfter < u
    BY <2>1, TombstoneMethods
  <2> QED BY <2>2 DEF Bury
<1>4. CASE Tick
  BY <1>4 DEF Tick
<1> QED BY <1>1, <1>2, <1>3, <1>4 DEF Next

\* No callback ever recreates a recording that is expired.
THEOREM RecreationIsBlocked == Spec => RecreationIsGuarded
<1> DEFINE Step == \A r \in Buried :
         /\ states'[r] = NoStatus
         /\ expired'[r] # NoTombstone => expired'[r].version = expired[r].version
<1>1. ASSUME StoreInv, Next PROVE Step
  <2> SUFFICES ASSUME NEW r \in Buried
               PROVE  /\ states'[r] = NoStatus
                      /\ expired'[r] # NoTombstone
                            => expired'[r].version = expired[r].version
    OBVIOUS
  <2>1. \A u : [version |-> expired[r].version, purgeAfter |-> u].version = expired[r].version
    OBVIOUS
  <2>2. CASE \E u \in Deadlines \cup {NoDeadline} :
                expired'[r] = [version |-> expired[r].version, purgeAfter |-> u]
    BY <1>1, <2>1, <2>2, BuriedSteps
  <2>3. CASE expired'[r] \in {expired[r], NoTombstone}
    BY <1>1, <2>3, BuriedSteps
  <2> QED BY <1>1, <2>2, <2>3, BuriedSteps
<1>2. StoreInv /\ [Next]_storeVars => [Step]_storeVars
  BY <1>1
<1> QED BY <1>2, StoreInvariant, PTL DEF Spec, RecreationIsGuarded

\* No tombstone is ever purged before its deadline.
THEOREM DeadlinesAreRespected == Spec => NoEarlyPurge
<1> DEFINE Step == \A r \in Buried :
         expired[r].purgeAfter # NoDeadline /\ expired'[r] = NoTombstone
            => expired[r].purgeAfter <= clock
<1>1. ASSUME StoreInv, Next PROVE Step
  <2> SUFFICES ASSUME NEW r \in Buried,
                      expired[r].purgeAfter # NoDeadline, expired'[r] = NoTombstone
               PROVE  expired[r].purgeAfter <= clock
    OBVIOUS
  <2>1. \A u : [version |-> expired[r].version, purgeAfter |-> u].version = expired[r].version
    OBVIOUS
  <2>2. expired[r] \in Tombstones
    BY <1>1 DEF StoreInv, StoreTypeOK, Buried
  <2>3. expired[r].version # NoTombstone.version
    BY <2>2, TombstoneVersions
  <2>4. CASE \E u \in Deadlines \cup {NoDeadline} :
                expired'[r] = [version |-> expired[r].version, purgeAfter |-> u]
    BY <2>1, <2>3, <2>4
  <2>5. expired[r] # NoTombstone
    BY DEF Buried
  <2>6. CASE expired[r].purgeAfter <= clock
    BY <2>6
  <2> QED BY <1>1, <2>4, <2>5, <2>6, BuriedSteps
<1>2. StoreInv /\ [Next]_storeVars => [Step]_storeVars
  BY <1>1
<1> QED BY <1>2, StoreInvariant, PTL DEF Spec, NoEarlyPurge

\* A deadline is only ever taken away, by a hold, or put off.
THEOREM DeadlinesAreKept == Spec => DeadlinesOnlyMoveLater
<1> DEFINE Step == \A r \in Buried :
         expired[r].purgeAfter # NoDeadline /\ expired'[r] # NoTombstone
            => \/ expired'[r].purgeAfter = NoDeadline
               \/ expired'[r].purgeAfter >= expired[r].purgeAfter
<1>1. ASSUME StoreInv, Next PROVE Step
  <2> SUFFICES ASSUME NEW r \in Buried,
                      expired[r].purgeAfter # NoDeadline, expired'[r] # NoTombstone
               PROVE  \/ expired'[r].purgeAfter = NoDeadline
                      \/ expired'[r].purgeAfter >= expired[r].purgeAfter
    OBVIOUS
  <2>1. expired[r] \in Tombstones /\ expired[r].purgeAfter \in Nat
    BY <1>1, TombstoneVersions DEF StoreInv, StoreTypeOK, Buried
  <2>2. CASE expired'[r] = expired[r]
    BY <2>1, <2>2
  <2>3. CASE \E u \in Deadlines \cup {NoDeadline} :
                /\ expired'[r] = [version |-> expired[r].version, purgeAfter |-> u]
                /\ u = NoDeadline \/ expired[r].purgeAfter < u
    BY <2>1, <2>3, DeadlinesAssumption
  <2> QED BY <1>1, <2>2, <2>3, BuriedSteps
<1>2. StoreInv /\ [Next]_storeVars => [Step]_storeVars
  BY <1>1
<1> QED BY <1>2, StoreInvariant, PTL DEF Spec, DeadlinesOnlyMoveLater

\* The first final status of a recording is never replaced by another.
THEOREM FirstStatusStays == Spec => FirstFinalStatusWins
<1> DEFINE Step == \A r \in Recorded : states'[r] \in {states[r], NoStatus}
<1>1. ASSUME StoreInv, Next PROVE Step
  <2> SUFFICES ASSUME NEW q \in Recorded PROVE states'[q] \in {states[q], NoStatus}
    OBVIOUS
  <2>1. q \in Recordings /\ states[q] # NoStatus
        /\ states \in [Recordings -> Statuses \cup {NoStatus}]
    BY <1>1 DEF StoreInv, StoreTypeOK, Recorded
  <2>2. CASE \E r \in Recordings, s \in Statuses : Record(r, s)
    BY <2>1, <2>2 DEF Record
  <2>3. CASE \E r \in Recordings : states' = [states EXCEPT ![r] = NoStatus]
    BY <2>1, <2>3
  <2>4. CASE states' = states
    BY <2>4
  <2>5. DeleteOrExpire \/ Purge =>
           \/ \E r \in Recordings : states' = [states EXCEPT ![r] = NoStatus]
           \/ states' = states
    BY DEF DeleteOrExpire, Purge, Delete, Expire, PurgeExpired, PurgeExpiredIfDue, Bury
  <2>6. Extend \/ Hold \/ Release \/ Tick => states' = states
    BY DEF Extend, Hold, Release, UnscheduleDeadline, ScheduleDeadline, ExtendDeadline, Bury, Tick
  <2> QED BY <1>1, <2>2, <2>3, <2>4, <2>5, <2>6 DEF Next, Callback
<1>2. StoreInv /\ [Next]_storeVars => [Step]_storeVars
  BY <1>1
<1> QED BY <1>2, StoreInvariant, PTL DEF Spec, FirstFinalStatusWins

-----------------------------------------------------------------------------
(***************************************************************************)
(* Batches: the first candidates in discovery order.                       *)
(***************************************************************************)

\* What a listing finds: no recording has two tombstones.
OnePerRecording(D) == \A c, d \in D : c.recording = d.recording => c = d

Before(c, D) == {d \in D : Precedes(d, c)}

\* Discovery orders the candidates of different recordings strictly.
LEMMA DiscoveryOrders ==
    ASSUME NEW c \in Candidates, NEW d \in Candidates, NEW e \in Candidates
    PROVE  /\ ~Precedes(c, c)
           /\ Precedes(c, d) /\ Precedes(d, e) => Precedes(c, e)
           /\ c.recording # d.recording => Precedes(c, d) \/ Precedes(d, c)
<1>1. \A x \in Candidates : x.recording \in Int /\ x.tombstone.purgeAfter \in Int
  <2>1. \A x \in Candidates : x.recording \in Recordings /\ x.tombstone \in Tombstones
    BY DEF Candidates
  <2>2. \A t \in Tombstones : t.purgeAfter \in Int
    BY DEF Tombstones, NoDeadline
  <2> QED BY <2>1, <2>2, OrderAssumption
<1> QED BY <1>1 DEF Precedes

\* As many candidates as recordings at most.
LEMMA ListingsAreFinite ==
    ASSUME NEW D \in SUBSET Candidates, OnePerRecording(D)
    PROVE  IsFiniteSet(D)
<1> DEFINE f == [c \in D |-> c.recording]
<1>1. f \in Injection(D, Recordings)
  BY DEF OnePerRecording, Candidates, Injection, IsInjective
<1> QED BY <1>1, FS_Injection, RecordingsAssumption

\* A candidate comes after more others than every candidate before it.
LEMMA RanksGrow ==
    ASSUME NEW D \in SUBSET Candidates, OnePerRecording(D),
           NEW c \in D, NEW d \in D, Precedes(d, c)
    PROVE  /\ Cardinality(Before(d, D)) \in Nat
           /\ Cardinality(Before(c, D)) \in Nat
           /\ Cardinality(Before(d, D)) < Cardinality(Before(c, D))
<1>1. IsFiniteSet(Before(c, D)) /\ IsFiniteSet(Before(d, D))
  BY ListingsAreFinite, FS_Subset DEF Before
<1>2. d \notin Before(d, D) /\ Before(d, D) \cup {d} \subseteq Before(c, D)
  BY DiscoveryOrders DEF Before
<1>3. Cardinality(Before(d, D) \cup {d}) = Cardinality(Before(d, D)) + 1
  BY <1>1, <1>2, FS_AddElement
<1>4. Cardinality(Before(d, D) \cup {d}) <= Cardinality(Before(c, D))
  BY <1>1, <1>2, FS_Subset
<1> QED BY <1>1, <1>3, <1>4, FS_CardinalityType

\* A batch holds no more candidates than its limit.
LEMMA BatchesAreBounded ==
    ASSUME NEW D \in SUBSET Candidates, OnePerRecording(D), NEW n \in Nat \ {0}
    PROVE  /\ IsFiniteSet(Batch(D, n))
           /\ Cardinality(Batch(D, n)) \in Nat
           /\ Cardinality(Batch(D, n)) <= n
<1> DEFINE f == [c \in Batch(D, n) |-> Cardinality(Before(c, D)) + 1]
<1>1. \A c \in Batch(D, n) : /\ c \in D
                             /\ Cardinality(Before(c, D)) \in Nat
                             /\ Cardinality(Before(c, D)) < n
  <2>1. \A c \in D : IsFiniteSet(Before(c, D))
    BY ListingsAreFinite, FS_Subset DEF Before
  <2> QED BY <2>1, FS_CardinalityType DEF Batch, Before
<1>2. f \in [Batch(D, n) -> 1..n]
  BY <1>1
<1>3. ASSUME NEW c \in Batch(D, n), NEW d \in Batch(D, n), c # d
      PROVE  f[c] # f[d]
  <2>1. c.recording # d.recording
    BY <1>1, <1>3 DEF OnePerRecording
  <2>2. Precedes(c, d) \/ Precedes(d, c)
    BY <1>1, <2>1, DiscoveryOrders
  <2> QED BY <1>1, <2>2, RanksGrow
<1>4. f \in Injection(Batch(D, n), 1..n)
  BY <1>2, <1>3 DEF Injection, IsInjective
<1>5. IsFiniteSet(1..n) /\ Cardinality(1..n) = n
  BY FS_Interval
<1>6. IsFiniteSet(Batch(D, n)) /\ Cardinality(Batch(D, n)) <= n
  BY <1>4, <1>5, FS_Injection
<1> QED BY <1>6, FS_CardinalityType

\* A batch that its limit did not cut short holds everything that was due: the
\* first candidate left out would come after at least as many as the limit.
LEMMA ShortBatchesAreComplete ==
    ASSUME NEW D \in SUBSET Candidates, OnePerRecording(D), NEW n \in Nat \ {0},
           Cardinality(Batch(D, n)) < n
    PROVE  Batch(D, n) = D
<1> DEFINE rank(c) == Cardinality(Before(c, D))
           left    == D \ Batch(D, n)
           ranks   == {rank(c) : c \in left}
<1>1. \A c \in D : IsFiniteSet(Before(c, D)) /\ rank(c) \in Nat
  <2>1. \A c \in D : IsFiniteSet(Before(c, D))
    BY ListingsAreFinite, FS_Subset DEF Before
  <2> QED BY <2>1, FS_CardinalityType
<1> SUFFICES ASSUME left # {} PROVE FALSE
  BY DEF Batch
<1>2. ranks # {} /\ ranks \subseteq Nat
  BY <1>1
<1>3. PICK m \in ranks : \A k \in ranks : ~(k < m)
  <2>1. \E m \in ranks : \A k \in ranks : ~(<<k, m>> \in OpToRel(<, Nat))
    BY <1>2, NatLessThanWellFounded, WFMin
  <2> QED BY <1>2, <2>1 DEF OpToRel
<1>4. PICK c \in left : m = rank(c)
  OBVIOUS
<1>5. Before(c, D) \subseteq Batch(D, n)
  <2> SUFFICES ASSUME NEW d \in Before(c, D), d \notin Batch(D, n) PROVE FALSE
    OBVIOUS
  <2>1. d \in left /\ Precedes(d, c) /\ rank(d) \in ranks
    BY DEF Before
  <2>2. rank(d) < rank(c)
    BY <2>1, RanksGrow
  <2> QED BY <1>3, <1>4, <2>1, <2>2
<1>6. rank(c) <= Cardinality(Batch(D, n))
  BY <1>5, BatchesAreBounded, FS_Subset
<1>7. ~(rank(c) < n)
  BY DEF Batch, Before
<1> QED BY <1>1, <1>4, <1>6, <1>7, BatchesAreBounded

-----------------------------------------------------------------------------
(***************************************************************************)
(* The workers.                                                            *)
(***************************************************************************)

\* Tombstones carry deadlines that callers chose.
DeadlinesAreCallers == \A r \in Buried : expired[r].purgeAfter \in Deadlines \cup {NoDeadline}

\* What a pass listed: the batch of what was due, each under a version that has
\* been issued, and none of it later than a reading that the clock has passed.
Listed(w) ==
    /\ discovered[w] = Batch(due[w], Limit[w])
    /\ now[w] <= clock
    /\ OnePerRecording(due[w])
    /\ \A c \in due[w] :
          /\ c.tombstone.version < nextVersion
          /\ c.tombstone.purgeAfter \in Deadlines
          /\ c.tombstone.purgeAfter <= now[w]

\* What a pass did: each candidate it listed is in one class at most.
Classified(w) ==
    /\ remaining[w] \cup purged[w] \cup conflicted[w] \subseteq discovered[w]
    /\ remaining[w] \cap (purged[w] \cup conflicted[w]) = {}
    /\ purged[w] \cap conflicted[w] = {}

WorkInv ==
    /\ TypeOK /\ StoreInv /\ DeadlinesAreCallers
    /\ \A w \in Workers : Listed(w) /\ Classified(w)
    /\ PurgedIsGone

\* What a listing finds now satisfies what is kept of it.
LEMMA DueNow ==
    ASSUME StoreInv, DeadlinesAreCallers
    PROVE  /\ Due(clock) \in SUBSET Candidates
           /\ OnePerRecording(Due(clock))
           /\ \A c \in Due(clock) :
                 /\ c.tombstone.version < nextVersion
                 /\ c.tombstone.purgeAfter \in Deadlines
                 /\ c.tombstone.purgeAfter <= clock
<1>1. ASSUME NEW c \in Due(clock)
      PROVE  /\ c \in Candidates /\ c = [recording |-> c.recording, tombstone |-> c.tombstone]
             /\ c.recording \in Buried /\ c.tombstone = expired[c.recording]
             /\ c.tombstone.purgeAfter # NoDeadline /\ c.tombstone.purgeAfter <= clock
  <2>1. /\ c \in [recording : Buried, tombstone : {expired[r] : r \in Buried}]
        /\ c.tombstone = expired[c.recording]
        /\ c.tombstone.purgeAfter # NoDeadline /\ c.tombstone.purgeAfter <= clock
    BY DEF Due
  <2>2. Buried \subseteq Recordings /\ \A r \in Buried : expired[r] \in Tombstones
    BY DEF StoreInv, StoreTypeOK, Buried
  <2> QED BY <2>1, <2>2 DEF Candidates
<1>2. OnePerRecording(Due(clock))
  <2> SUFFICES ASSUME NEW c \in Due(clock), NEW d \in Due(clock), c.recording = d.recording
               PROVE  c = d
    BY DEF OnePerRecording
  <2>1. c.tombstone = d.tombstone
    BY <1>1
  <2> QED BY <1>1, <2>1
<1> QED BY <1>1, <1>2 DEF StoreInv, VersionsAreUnique, DeadlinesAreCallers

\* What a step of the store may do to versions, deadlines and the clock.
LEMMA TombstonesMove ==
    ASSUME StoreInv, DeadlinesAreCallers, [Next]_storeVars
    PROVE  /\ nextVersion' >= nextVersion /\ clock' >= clock
           /\ \A r \in Recordings :
                 expired'[r].version \in {expired[r].version, 0, nextVersion}
           /\ DeadlinesAreCallers'
<1> DEFINE Moves == /\ nextVersion' >= nextVersion /\ clock' >= clock
                    /\ \A r \in Recordings :
                          expired'[r].version \in {expired[r].version, 0, nextVersion}
                    /\ DeadlinesAreCallers'
<1>0. /\ nextVersion \in Int /\ clock \in Int
      /\ expired \in [Recordings -> Tombstones \cup {NoTombstone}]
  BY BoundsAssumption DEF StoreInv, StoreTypeOK
<1>1. ASSUME nextVersion' = nextVersion, clock' = clock,
             NEW r \in Recordings, NEW t, expired' = [expired EXCEPT ![r] = t],
             \/ t = NoTombstone
             \/ t.version = expired[r].version /\ t.purgeAfter \in Deadlines \cup {NoDeadline}
      PROVE  Moves
  BY <1>0, <1>1, TombstoneVersions DEF DeadlinesAreCallers, Buried
<1>2. CASE UNCHANGED <<expired, nextVersion>> /\ clock' >= clock
  BY <1>0, <1>2 DEF DeadlinesAreCallers, Buried
<1>3. CASE Callback
  BY <1>0, <1>2, <1>3 DEF Callback, Record
<1>4. CASE DeleteOrExpire
  <2>1. PICK r \in Recordings, s \in Statuses :
           Delete(r, s) \/ \E t \in Deadlines \cup {NoDeadline} : Expire(r, s, t)
    BY <1>4 DEF DeleteOrExpire
  <2>2. CASE Delete(r, s)
    BY <1>0, <1>2, <2>2 DEF Delete
  <2>3. CASE \E t \in Deadlines \cup {NoDeadline} : Expire(r, s, t)
    <3>1. PICK t \in Deadlines \cup {NoDeadline} : Expire(r, s, t)
      BY <2>3
    <3>2. /\ expired' = [expired EXCEPT ![r] = [version |-> nextVersion, purgeAfter |-> t]]
          /\ nextVersion' = nextVersion + 1 /\ clock' = clock
      BY <3>1 DEF Expire
    <3>3. DeadlinesAreCallers'
      BY <1>0, <3>2 DEF DeadlinesAreCallers, Buried
    <3> QED BY <1>0, <3>2, <3>3
  <2> QED BY <2>1, <2>2, <2>3
<1>5. CASE Purge
  <2>1. PICK r \in Recordings : Bury(r, NoTombstone)
    BY <1>5 DEF Purge, PurgeExpired, PurgeExpiredIfDue
  <2> QED BY <1>1, <2>1 DEF Bury
<1>6. CASE Extend \/ Hold \/ Release
  <2>1. PICK r \in Recordings, v \in Issued, t \in Deadlines :
           \/ UnscheduleDeadline(r, v, t)
           \/ ScheduleDeadline(r, v, t)
           \/ \E u \in Deadlines : ExtendDeadline(r, v, t, u)
    BY <1>6 DEF Extend, Hold, Release
  <2>2. PICK u \in Deadlines \cup {NoDeadline} :
           Bury(r, [version |-> expired[r].version, purgeAfter |-> u])
    BY <2>1, TombstoneMethods DEF StoreInv
  <2> DEFINE t0 == [version |-> expired[r].version, purgeAfter |-> u]
  <2>3. t0.version = expired[r].version /\ t0.purgeAfter = u
    OBVIOUS
  <2> HIDE DEF t0
  <2>4. expired' = [expired EXCEPT ![r] = t0] /\ nextVersion' = nextVersion /\ clock' = clock
    BY <2>2 DEF Bury, t0
  <2> QED BY <1>1, <2>3, <2>4
<1>7. CASE Tick
  BY <1>0, <1>2, <1>7 DEF Tick
<1>8. CASE UNCHANGED storeVars
  BY <1>0, <1>2, <1>8 DEF storeVars
<1> QED BY <1>3, <1>4, <1>5, <1>6, <1>7, <1>8 DEF Next

\* A purge by a worker removes the very tombstone that it listed.
LEMMA PurgeRemovesTheListed ==
    ASSUME WorkInv, NEW w \in Workers, NEW c, PurgeCandidate(w, c)
    PROVE  /\ c \in remaining[w] /\ c \in due[w] /\ c \in Candidates
           /\ c.recording \in Buried /\ expired[c.recording] = c.tombstone
           /\ expired' = [expired EXCEPT ![c.recording] = NoTombstone]
           /\ UNCHANGED <<states, nextVersion, clock>>
           /\ Purge
<1>1. c \in remaining[w] /\ c \in discovered[w] /\ c \in due[w] /\ c \in Candidates
  BY DEF WorkInv, TypeOK, Classified, Listed, PurgeCandidate, Take, Batch
<1>2. /\ Matches(c.recording, c.tombstone.version, c.tombstone.purgeAfter)
      /\ Bury(c.recording, NoTombstone)
  BY DEF PurgeCandidate, PurgeExpiredIfDue
<1>3. c.recording \in Recordings /\ c.tombstone \in Tombstones
  BY <1>1 DEF Candidates
<1>4. expired[c.recording] \in Tombstones
  BY <1>2, <1>3 DEF WorkInv, StoreInv, StoreTypeOK, Matches
<1>5. expired[c.recording] = c.tombstone
  BY <1>2, <1>3, <1>4 DEF Matches, Tombstones
<1>6. c.tombstone.version \in Issued
  BY <1>1, <1>3, BoundsAssumption
     DEF WorkInv, Listed, Issued, Tombstones, StoreInv, StoreTypeOK
<1>7. now[w] \in 0..clock /\ c.tombstone.purgeAfter \in Deadlines
  BY <1>1, BoundsAssumption DEF WorkInv, Listed, TypeOK, StoreTypeOK
<1>8. Purge
  BY <1>3, <1>6, <1>7 DEF PurgeCandidate, Purge
<1> QED BY <1>1, <1>2, <1>3, <1>5, <1>8 DEF Matches, Bury, Buried

\* Whatever the workers do, the store takes one of its own steps.
LEMMA WorkersUseTheStore == WorkInv /\ [WorkNext]_vars => [Next]_storeVars
<1> SUFFICES ASSUME WorkInv, [WorkNext]_vars PROVE [Next]_storeVars
  OBVIOUS
<1>1. ASSUME NEW w \in Workers, WorkerStep(w) \/ Abort(w)
      PROVE  Purge \/ UNCHANGED storeVars
  <2>1. CASE \E c : PurgeCandidate(w, c)
    BY <2>1, PurgeRemovesTheListed
  <2>2. CASE UNCHANGED storeVars
    BY <2>2
  <2> QED BY <1>1, <2>1, <2>2 DEF WorkerStep, PurgeNext, List, ConflictCandidate,
                                  MissCandidate, Report, Abort
<1>2. CASE Others \/ Advance
  BY <1>2 DEF Others, Advance, Next
<1>3. CASE UNCHANGED vars
  BY <1>3 DEF vars, storeVars
<1> QED BY <1>1, <1>2, <1>3 DEF WorkNext, Next

\* No worker has started.
LEMMA WorkStarts == Init => WorkInv
<1> SUFFICES ASSUME Init PROVE WorkInv
  OBVIOUS
<1>1. StoreInv
  BY StoreStarts DEF Init
<1>2. TypeOK
  BY <1>1, BoundsAssumption DEF Init, TypeOK, StoreInv
<1>3. DeadlinesAreCallers /\ now = [w \in Workers |-> 0] /\ clock = 0
  BY DEF Init, StoreInit, DeadlinesAreCallers, Buried
<1>4. ASSUME NEW w \in Workers PROVE Listed(w) /\ Classified(w)
  BY <1>3, <1>4 DEF Init, Listed, Classified, OnePerRecording, Batch
<1>5. PurgedIsGone
  BY DEF Init, PurgedIsGone
<1> QED BY <1>1, <1>2, <1>3, <1>4, <1>5 DEF WorkInv

\* The types of the passes.
LEMMA PassTypes ==
    ASSUME WorkInv, [WorkNext]_vars
    PROVE  TypeOK'
<1> USE DEF TypeOK
<1>1. StoreTypeOK'
  BY StoreSteps, WorkersUseTheStore DEF WorkInv, StoreInv
<1>2. ASSUME NEW w \in Workers, List(w) PROVE TypeOK'
  <2>1. Due(clock) \in SUBSET Candidates /\ clock \in 0..MaxTime
    BY DueNow DEF WorkInv, StoreInv, StoreTypeOK
  <2>2. Batch(Due(clock), Limit[w]) \in SUBSET Candidates
    BY <2>1 DEF Batch
  <2> QED BY <1>1, <1>2, <2>1, <2>2 DEF WorkInv, List
<1>3. ASSUME NEW w \in Workers, NEW c \in remaining[w],
             PurgeCandidate(w, c) \/ ConflictCandidate(w, c) \/ MissCandidate(w, c)
      PROVE  TypeOK'
  <2>1. c \in Candidates
    BY <1>3 DEF WorkInv
  <2> QED BY <1>1, <1>3, <2>1 DEF WorkInv, PurgeCandidate, ConflictCandidate,
                                  MissCandidate, Take
<1>4. ASSUME NEW w \in Workers, Report(w) \/ Abort(w) PROVE TypeOK'
  BY <1>1, <1>4 DEF WorkInv, Report, Abort
<1>5. CASE UNCHANGED passVars
  BY <1>1, <1>5 DEF WorkInv, passVars
<1>6. CASE UNCHANGED vars
  BY <1>5, <1>6 DEF vars, passVars
<1> QED BY <1>2, <1>3, <1>4, <1>5, <1>6 DEF WorkNext, WorkerStep, PurgeNext, Others, Advance

\* What a pass listed stays true of it, and what it did adds up.
LEMMA PassesKeep ==
    ASSUME WorkInv, [WorkNext]_vars, NEW w \in Workers
    PROVE  Listed(w)' /\ Classified(w)'
<1>1. nextVersion' >= nextVersion /\ clock' >= clock
  BY TombstonesMove, WorkersUseTheStore DEF WorkInv
<1>2. /\ nextVersion \in Int /\ nextVersion' \in Int /\ clock \in Int /\ clock' \in Int
      /\ now[w] \in Int /\ \A c \in due[w] : c.tombstone.version \in Int
  <2>1. nextVersion' \in Int /\ clock' \in Int
    BY PassTypes, BoundsAssumption DEF TypeOK, StoreTypeOK
  <2>2. nextVersion \in Int /\ clock \in Int /\ now[w] \in Int
    BY BoundsAssumption DEF WorkInv, TypeOK, StoreTypeOK
  <2>3. \A c \in due[w] : c.tombstone \in Tombstones
    BY DEF WorkInv, TypeOK, Candidates
  <2> QED BY <2>1, <2>2, <2>3, TombstoneVersions
<1>3. ASSUME due'[w] = due[w], discovered'[w] = discovered[w], now'[w] = now[w]
      PROVE  Listed(w)'
  <2>1. now'[w] <= clock'
    BY <1>1, <1>2, <1>3 DEF WorkInv, Listed
  <2>2. \A c \in due'[w] : /\ c.tombstone.version < nextVersion'
                           /\ c.tombstone.purgeAfter \in Deadlines
                           /\ c.tombstone.purgeAfter <= now'[w]
    BY <1>1, <1>2, <1>3 DEF WorkInv, Listed
  <2>3. OnePerRecording(due'[w]) /\ discovered'[w] = Batch(due'[w], Limit[w])
    BY <1>3 DEF WorkInv, Listed
  <2> QED BY <2>1, <2>2, <2>3 DEF Listed, OnePerRecording, Batch
<1>4. ASSUME remaining'[w] = remaining[w], purged'[w] = purged[w],
             conflicted'[w] = conflicted[w], discovered'[w] = discovered[w]
      PROVE  Classified(w)'
  BY <1>4 DEF WorkInv, Classified
<1> DEFINE typed == /\ due \in [Workers -> SUBSET Candidates]
                    /\ discovered \in [Workers -> SUBSET Candidates]
                    /\ remaining \in [Workers -> SUBSET Candidates]
                    /\ purged \in [Workers -> SUBSET Candidates]
                    /\ conflicted \in [Workers -> SUBSET Candidates]
                    /\ now \in [Workers -> 0..MaxTime]
<1>5. typed
  BY DEF WorkInv, TypeOK
<1>6. ASSUME NEW v \in Workers, List(v) PROVE Listed(w)' /\ Classified(w)'
  <2>1. CASE v = w
    <3>1. /\ due'[w] = Due(clock) /\ now'[w] = clock
          /\ discovered'[w] = Batch(Due(clock), Limit[w])
          /\ remaining'[w] = discovered'[w] /\ purged'[w] = {} /\ conflicted'[w] = {}
      BY <1>5, <1>6, <2>1 DEF List
    <3>2. UNCHANGED <<nextVersion, clock>>
      BY <1>6 DEF List, storeVars
    <3>3. Listed(w)'
      BY <1>2, <3>1, <3>2, DueNow DEF WorkInv, Listed, OnePerRecording, Batch, Precedes
    <3> QED BY <3>1, <3>3 DEF Classified
  <2>2. CASE v # w
    BY <1>3, <1>4, <1>5, <1>6, <2>2 DEF List
  <2> QED BY <2>1, <2>2
<1>7. ASSUME NEW v \in Workers, NEW c \in remaining[v],
             PurgeCandidate(v, c) \/ ConflictCandidate(v, c) \/ MissCandidate(v, c)
      PROVE  Listed(w)' /\ Classified(w)'
  <2>1. Listed(w)'
    BY <1>3, <1>7 DEF PurgeCandidate, ConflictCandidate, MissCandidate
  <2>2. CASE v = w
    <3>1. /\ remaining'[w] = remaining[w] \ {c} /\ discovered'[w] = discovered[w]
          /\ purged'[w] \in {purged[w], purged[w] \cup {c}}
          /\ conflicted'[w] \in {conflicted[w], conflicted[w] \cup {c}}
          /\ purged'[w] = purged[w] \/ conflicted'[w] = conflicted[w]
      BY <1>5, <1>7, <2>2 DEF PurgeCandidate, ConflictCandidate, MissCandidate, Take
    <3> QED BY <1>7, <2>1, <2>2, <3>1 DEF WorkInv, Classified
  <2>3. CASE v # w
    BY <1>4, <1>5, <1>7, <2>1, <2>3
       DEF PurgeCandidate, ConflictCandidate, MissCandidate, Take
  <2> QED BY <2>2, <2>3
<1>8. ASSUME NEW v \in Workers, Report(v) PROVE Listed(w)' /\ Classified(w)'
  BY <1>3, <1>4, <1>8 DEF Report
<1>9. ASSUME NEW v \in Workers, Abort(v) PROVE Listed(w)' /\ Classified(w)'
  <2>1. remaining'[w] \in {remaining[w], {}}
    BY <1>5, <1>9 DEF Abort
  <2> QED BY <1>3, <1>9, <2>1 DEF Abort, WorkInv, Classified
<1>10. CASE UNCHANGED passVars \/ UNCHANGED vars
  BY <1>3, <1>4, <1>10 DEF passVars, vars
<1> QED BY <1>6, <1>7, <1>8, <1>9, <1>10
        DEF WorkNext, WorkerStep, PurgeNext, Others, Advance

\* What a step does to the receipts: a new one is for a candidate that the step
\* takes out of remaining, and whose tombstone it removes.
LEMMA ReceiptSteps ==
    ASSUME WorkInv, [WorkNext]_vars, NEW w \in Workers
    PROVE  \/ purged'[w] \subseteq purged[w]
           \/ \E c : /\ PurgeCandidate(w, c)
                     /\ purged'[w] = purged[w] \cup {c}
                     /\ \A v \in Workers \ {w} : purged'[v] = purged[v]
<1>0. purged \in [Workers -> SUBSET Candidates]
  BY DEF WorkInv, TypeOK
<1>1. ASSUME NEW v \in Workers, List(v) PROVE purged'[w] \subseteq purged[w]
  BY <1>0, <1>1 DEF List
<1>2. ASSUME NEW v \in Workers, NEW c, PurgeCandidate(v, c), v # w
      PROVE  purged'[w] \subseteq purged[w]
  BY <1>0, <1>2 DEF PurgeCandidate
<1>3. ASSUME NEW c, PurgeCandidate(w, c)
      PROVE  /\ purged'[w] = purged[w] \cup {c}
             /\ \A v \in Workers \ {w} : purged'[v] = purged[v]
  BY <1>0, <1>3 DEF PurgeCandidate
<1>4. CASE UNCHANGED purged
  BY <1>4
<1> QED BY <1>1, <1>2, <1>3, <1>4
        DEF WorkNext, WorkerStep, PurgeNext, ConflictCandidate, MissCandidate, Report,
            Abort, Others, Advance, passVars, vars

\* Receipts stay true: a version that was purged is below the counter, so it is
\* never issued again; and what a worker removes no other holds a receipt for.
LEMMA ReceiptsKeep == WorkInv /\ [WorkNext]_vars => PurgedIsGone'
<1> SUFFICES ASSUME WorkInv, [WorkNext]_vars PROVE PurgedIsGone'
  OBVIOUS
<1> DEFINE Gone(c) == expired[c.recording].version # c.tombstone.version
<1>1. \A r \in Recordings : expired'[r].version \in {expired[r].version, 0, nextVersion}
  BY TombstonesMove, WorkersUseTheStore DEF WorkInv
<1>2. ASSUME NEW w \in Workers, NEW c \in discovered[w]
      PROVE  /\ c.recording \in Recordings /\ c.tombstone.version # 0
             /\ c.tombstone.version # nextVersion
  <2>1. c \in due[w] /\ c \in Candidates
    BY <1>2 DEF WorkInv, Listed, Batch, TypeOK
  <2>2. c.recording \in Recordings /\ c.tombstone.version \in Nat \ {0}
    BY <2>1, TombstoneVersions DEF Candidates
  <2>3. c.tombstone.version < nextVersion /\ nextVersion \in Int
    BY <2>1, BoundsAssumption DEF WorkInv, Listed, TypeOK, StoreTypeOK
  <2> QED BY <2>2, <2>3
<1>3. ASSUME NEW w \in Workers, NEW c \in purged[w] PROVE Gone(c)'
  <2>1. c \in discovered[w] /\ Gone(c)
    BY <1>3 DEF WorkInv, Classified, PurgedIsGone
  <2> QED BY <1>1, <1>2, <2>1
<1>4. ASSUME NEW w \in Workers, NEW c, PurgeCandidate(w, c) PROVE Gone(c)'
  <2>1. c \in discovered[w] /\ expired' = [expired EXCEPT ![c.recording] = NoTombstone]
    BY <1>4, PurgeRemovesTheListed DEF WorkInv, Classified
  <2>2. expired \in [Recordings -> Tombstones \cup {NoTombstone}]
    BY DEF WorkInv, StoreInv, StoreTypeOK
  <2>3. expired'[c.recording] = NoTombstone
    BY <1>2, <2>1, <2>2
  <2> QED BY <1>2, <2>1, <2>3, TombstoneVersions
<1>5. ASSUME NEW w \in Workers, NEW c, PurgeCandidate(w, c), NEW v \in Workers
      PROVE  c \notin purged[v]
  <2>1. expired[c.recording] = c.tombstone
    BY <1>5, PurgeRemovesTheListed
  <2> QED BY <2>1 DEF WorkInv, PurgedIsGone
<1>6. ASSUME NEW w \in Workers, NEW c \in purged'[w] PROVE Gone(c)'
  BY <1>3, <1>4, <1>6, ReceiptSteps
<1>7. ASSUME NEW w \in Workers, NEW v \in Workers \ {w}, NEW c \in purged'[w], c \in purged'[v]
      PROVE  FALSE
  <2>1. CASE purged'[w] \subseteq purged[w] /\ purged'[v] \subseteq purged[v]
    BY <1>7, <2>1 DEF WorkInv, PurgedIsGone
  <2>2. ASSUME NEW x \in Workers, NEW y \in Workers \ {x}, NEW d, PurgeCandidate(x, d),
               purged'[x] = purged[x] \cup {d}, purged'[y] = purged[y],
               c \in purged'[x], c \in purged'[y]
        PROVE  FALSE
    BY <1>5, <2>2 DEF WorkInv, PurgedIsGone
  <2> QED BY <1>7, <2>1, <2>2, ReceiptSteps
<1> QED BY <1>6, <1>7 DEF PurgedIsGone

\* The invariant of the workers is inductive.
LEMMA WorkSteps == WorkInv /\ [WorkNext]_vars => WorkInv'
<1> SUFFICES ASSUME WorkInv, [WorkNext]_vars PROVE WorkInv'
  OBVIOUS
<1>1. [Next]_storeVars
  BY WorkersUseTheStore
<1>2. StoreInv' /\ DeadlinesAreCallers'
  BY <1>1, StoreSteps, TombstonesMove DEF WorkInv
<1> QED BY <1>2, PassTypes, PassesKeep, ReceiptsKeep DEF WorkInv

\* The invariant holds in every state of the workers' specification.
THEOREM WorkInvariant == WorkSpec => []WorkInv
  BY WorkStarts, WorkSteps, PTL DEF WorkSpec

\* The workers keep to their types.
THEOREM WorkTypeCorrect == WorkSpec => []TypeOK
  BY WorkInvariant, PTL DEF WorkInv

\* The workers are callers of the store like any other: whatever they do together
\* with the other callers is a behaviour of the store, so that every theorem about
\* Spec above holds while they run.
THEOREM StoreIsKeptByWorkers == WorkSpec => Spec
<1>1. Init => StoreInit
  BY DEF Init
<1> QED BY <1>1, WorkInvariant, WorkersUseTheStore, PTL DEF WorkSpec, Spec

\* PurgedIsGone: what was purged stays gone, under one receipt only.
THEOREM PurgedStaysGone == WorkSpec => []PurgedIsGone
  BY WorkInvariant, PTL DEF WorkInv

\* ReceiptsAreForWhatWasListed: a receipt is for the listed tombstone, which this
\* very step removed.
THEOREM ReceiptsAreHonest == WorkSpec => ReceiptsAreForWhatWasListed
<1> DEFINE Step == \A w \in Workers : \A c \in purged'[w] \ purged[w] :
                     /\ c \in discovered[w]
                     /\ expired[c.recording] = c.tombstone
                     /\ expired'[c.recording] = NoTombstone
<1>1. ASSUME WorkInv, [WorkNext]_vars PROVE Step
  <2> SUFFICES ASSUME NEW w \in Workers, NEW c \in purged'[w] \ purged[w]
               PROVE  /\ c \in discovered[w]
                      /\ expired[c.recording] = c.tombstone
                      /\ expired'[c.recording] = NoTombstone
    OBVIOUS
  <2>1. PurgeCandidate(w, c)
    BY <1>1, ReceiptSteps
  <2>2. c \in discovered[w]
    BY <1>1, <2>1, PurgeRemovesTheListed DEF WorkInv, Classified
  <2>3. expired \in [Recordings -> Tombstones \cup {NoTombstone}] /\ c.recording \in Recordings
    BY <1>1, <2>1, PurgeRemovesTheListed
       DEF WorkInv, StoreInv, StoreTypeOK, Candidates
  <2> QED BY <1>1, <2>1, <2>2, <2>3, PurgeRemovesTheListed
<1>2. WorkInv /\ [WorkNext]_vars => [Step]_vars
  BY <1>1
<1> QED BY <1>2, WorkInvariant, PTL DEF WorkSpec, ReceiptsAreForWhatWasListed

-----------------------------------------------------------------------------
(***************************************************************************)
(* The report.                                                             *)
(***************************************************************************)
BatchCounts == [discovered : Nat, purged : Nat, conflicted : Nat, missing : Nat,
                limitReached : BOOLEAN]

\* The counts of a pass pass the checks of their own constructor, whatever the
\* other workers did to the candidates.
LEMMA CountsAreConsistent ==
    ASSUME WorkInv, NEW w \in Workers
    PROVE  /\ Counts(w) \in BatchCounts
           /\ Consistent(Counts(w))
           /\ Counts(w).discovered <= Limit[w]
           /\ Counts(w).missing = 0 /\ Counts(w).conflicted = 0 => discovered[w] = purged[w]
<1>1. /\ due[w] \in SUBSET Candidates /\ OnePerRecording(due[w])
      /\ Limit[w] \in Nat \ {0} /\ discovered[w] = Batch(due[w], Limit[w])
  BY LimitAssumption DEF WorkInv, TypeOK, Listed
<1>2. IsFiniteSet(discovered[w]) /\ Cardinality(discovered[w]) <= Limit[w]
  BY <1>1, BatchesAreBounded
<1>3. /\ purged[w] \subseteq discovered[w] /\ conflicted[w] \subseteq discovered[w]
      /\ purged[w] \cap conflicted[w] = {}
  BY DEF WorkInv, Classified
<1> DEFINE done == purged[w] \cup conflicted[w]
<1>4. /\ IsFiniteSet(purged[w]) /\ IsFiniteSet(conflicted[w]) /\ IsFiniteSet(done)
      /\ IsFiniteSet(NoReceipt(w))
  BY <1>2, <1>3, FS_Subset, FS_Union, FS_Difference DEF NoReceipt
<1>5. /\ Cardinality(discovered[w]) \in Nat /\ Cardinality(purged[w]) \in Nat
      /\ Cardinality(conflicted[w]) \in Nat /\ Cardinality(done) \in Nat
      /\ Cardinality(NoReceipt(w)) \in Nat
  BY <1>2, <1>4, FS_CardinalityType
<1>6. Cardinality(done) = Cardinality(purged[w]) + Cardinality(conflicted[w])
  <2>1. Cardinality(purged[w] \cap conflicted[w]) = 0
    BY <1>3, FS_EmptySet
  <2>2. Cardinality(done) = Cardinality(purged[w]) + Cardinality(conflicted[w])
                              - Cardinality(purged[w] \cap conflicted[w])
    BY <1>4, FS_Union
  <2> QED BY <1>5, <2>1, <2>2
<1>7. Cardinality(NoReceipt(w)) = Cardinality(discovered[w]) - Cardinality(done)
  <2>1. discovered[w] \cap done = done
    BY <1>3
  <2>2. NoReceipt(w) = discovered[w] \ done
    BY DEF NoReceipt
  <2> HIDE DEF done
  <2>3. Cardinality(discovered[w] \ done)
          = Cardinality(discovered[w]) - Cardinality(discovered[w] \cap done)
    BY <1>2, FS_Difference
  <2> QED BY <2>1, <2>2, <2>3
<1>8. Counts(w) \in BatchCounts
  BY <1>5 DEF Counts, BatchCounts, LimitReached
<1>9. Consistent(Counts(w))
  <2>1. Counts(w).limitReached => Counts(w).discovered > 0
    <3>1. Counts(w).limitReached <=> Cardinality(discovered[w]) = Limit[w]
      BY DEF Counts, LimitReached
    <3>2. Counts(w).discovered = Cardinality(discovered[w])
      BY DEF Counts
    <3> QED BY <1>1, <3>1, <3>2
  <2>2. Counts(w).purged + Counts(w).conflicted + Counts(w).missing = Counts(w).discovered
    BY <1>5, <1>6, <1>7 DEF Counts
  <2> QED BY <2>1, <2>2 DEF Consistent
<1>10. ASSUME Counts(w).missing = 0, Counts(w).conflicted = 0
       PROVE  discovered[w] = purged[w]
  <2>1. NoReceipt(w) = {} /\ conflicted[w] = {}
    BY <1>4, <1>10, FS_EmptySet DEF Counts
  <2> QED BY <1>3, <2>1 DEF NoReceipt
<1> QED BY <1>2, <1>8, <1>9, <1>10 DEF Counts

\* NoFollowUpMeansDrained: all that was due was in the batch, since the limit did
\* not cut it short, and all of the batch has receipts, which stay true.
THEOREM NoFollowUpIsSafe == WorkSpec => []NoFollowUpMeansDrained
<1>1. WorkInv => NoFollowUpMeansDrained
  <2> SUFFICES ASSUME WorkInv, NEW w \in Workers, FollowUpAction(w) = "none",
                      NEW c \in due[w]
               PROVE  expired[c.recording] # c.tombstone
    BY DEF NoFollowUpMeansDrained
  <2>1. /\ Counts(w) \in BatchCounts
        /\ Unconfirmed(Counts(w)) <= 0 /\ Unconfirmed(Counts(w)) \in Nat
        /\ ~Counts(w).limitReached
    <3>1. Counts(w) \in BatchCounts
      BY CountsAreConsistent
    <3>2. Unconfirmed(Counts(w)) \in Nat
      BY <3>1 DEF BatchCounts, Unconfirmed
    <3> QED BY <3>1, <3>2 DEF FollowUpAction, Action
  <2>2. Counts(w).missing = 0 /\ Counts(w).conflicted = 0
    BY <2>1 DEF BatchCounts, Unconfirmed
  <2>3. discovered[w] = purged[w]
    BY <2>2, CountsAreConsistent
  <2>4. /\ due[w] \in SUBSET Candidates /\ OnePerRecording(due[w])
        /\ Limit[w] \in Nat \ {0} /\ discovered[w] = Batch(due[w], Limit[w])
    BY LimitAssumption DEF WorkInv, TypeOK, Listed
  <2>5. Cardinality(Batch(due[w], Limit[w])) < Limit[w]
    <3>1. Cardinality(discovered[w]) # Limit[w]
      BY <2>1 DEF Counts, LimitReached
    <3> QED BY <2>4, <3>1, BatchesAreBounded
  <2>6. discovered[w] = due[w]
    BY <2>4, <2>5, ShortBatchesAreComplete
  <2> QED BY <2>3, <2>6 DEF WorkInv, PurgedIsGone
<1> QED BY <1>1, WorkInvariant, PTL

\* What is accepted as telemetry has derived fields that its own counts imply.
LEMMA AcceptedSpeaksForItsCounts ==
    ASSUME NEW t, Accepted(t)
    PROVE  /\ t.schema = Schema
           /\ Consistent(Restored(t))
           /\ t.unconfirmed = Unconfirmed(Restored(t))
           /\ t.action = Action(Restored(t))
           /\ t.recommended = (t.action # "none")
           /\ t.reasons = Reasons(Restored(t))
  BY DEF Accepted, Telemetry

\* A record that says what a consistent batch says restores that batch.
LEMMA TelemetryIsRestored ==
    ASSUME NEW c \in BatchCounts, Consistent(c)
    PROVE  Restored(Telemetry(c)) = c /\ Accepted(Telemetry(c))
<1>1. Restored(Telemetry(c)) = c
  BY DEF Restored, Telemetry, BatchCounts
<1> QED BY <1>1 DEF Accepted, Telemetry

\* One changed field is seen or says nothing else: a count no longer adds up, the
\* limit no longer agrees with the reasons, and a derived field with the counts.
LEMMA DamageIsSeen ==
    ASSUME NEW c \in BatchCounts, Consistent(c), NEW bound \in Nat,
           NEW t \in Damaged(Telemetry(c), bound), Accepted(t)
    PROVE  Restored(t) = c /\ t.action = Action(c)
<1> DEFINE T == Telemetry(c)
<1>0. PICK field \in DOMAIN T : \E v \in FieldValues(field, bound) : t = [T EXCEPT ![field] = v]
  BY DEF Damaged
<1>1. PICK v \in FieldValues(field, bound) : t = [T EXCEPT ![field] = v]
  BY <1>0
<1>2. DOMAIN T = {"schema", "discovered", "purged", "conflicted", "noReceipt",
                  "unconfirmed", "limitReached", "recommended", "action", "reasons"}
  BY DEF Telemetry
<1>3. /\ T.discovered = c.discovered /\ T.purged = c.purged
      /\ T.conflicted = c.conflicted /\ T.noReceipt = c.missing
      /\ T.limitReached = c.limitReached /\ T.reasons = Reasons(c)
  BY DEF Telemetry
<1>4. /\ c = [discovered |-> c.discovered, purged |-> c.purged,
              conflicted |-> c.conflicted, missing |-> c.missing,
              limitReached |-> c.limitReached]
      /\ c.discovered \in Nat /\ c.purged \in Nat /\ c.conflicted \in Nat
      /\ c.missing \in Nat /\ c.limitReached \in BOOLEAN
  BY DEF BatchCounts
<1>5. /\ c.purged + c.conflicted + c.missing = c.discovered
      /\ t.purged + t.conflicted + t.noReceipt = t.discovered
  BY AcceptedSpeaksForItsCounts DEF Consistent, Restored
<1> HIDE DEF T
<1>6. Restored(t) = c
  <2>1. CASE field \in {"discovered", "purged", "conflicted", "noReceipt"}
    <3>1. v \in Nat
      BY <2>1 DEF FieldValues
    <3>2. /\ t.discovered = c.discovered /\ t.purged = c.purged
          /\ t.conflicted = c.conflicted /\ t.noReceipt = c.missing
      BY <1>1, <1>2, <1>3, <1>4, <1>5, <2>1, <3>1
    <3>3. t.limitReached = c.limitReached
      BY <1>1, <1>2, <1>3, <2>1
    <3> QED BY <1>4, <3>2, <3>3 DEF Restored
  <2>2. CASE field = "limitReached"
    <3>1. v \in BOOLEAN
      BY <2>2 DEF FieldValues
    <3>2. /\ t.discovered = c.discovered /\ t.purged = c.purged
          /\ t.conflicted = c.conflicted /\ t.noReceipt = c.missing
          /\ t.limitReached = v /\ t.reasons = Reasons(c)
      BY <1>1, <1>2, <1>3, <2>2
    <3>3. Reasons(Restored(t)) = Reasons(c)
      BY <3>2, AcceptedSpeaksForItsCounts
    <3>4. /\ "discovery_limit_reached" \in Reasons(c) <=> c.limitReached
          /\ "discovery_limit_reached" \in Reasons(Restored(t)) <=> v
      BY <3>2 DEF Reasons, Restored
    <3>5. t.limitReached = c.limitReached
      BY <1>4, <3>1, <3>2, <3>3, <3>4
    <3> QED BY <1>4, <3>2, <3>5 DEF Restored
  <2>3. CASE field \in {"schema", "unconfirmed", "recommended", "action", "reasons"}
    <3>1. /\ t.discovered = c.discovered /\ t.purged = c.purged
          /\ t.conflicted = c.conflicted /\ t.noReceipt = c.missing
          /\ t.limitReached = c.limitReached
      BY <1>1, <1>2, <1>3, <2>3
    <3> QED BY <1>4, <3>1 DEF Restored
  <2> QED BY <1>1, <1>2, <2>1, <2>2, <2>3
<1> QED BY <1>6, AcceptedSpeaksForItsCounts

\* ConsumersAreNotMisled: what a worker publishes is accepted, and no change of one
\* field makes a consumer do anything else.
THEOREM ConsumersFollowTheWorker == WorkSpec => []ConsumersAreNotMisled
<1>1. WorkInv => ConsumersAreNotMisled
  <2> SUFFICES ASSUME WorkInv, NEW w \in Workers
               PROVE  /\ Accepted(Telemetry(Counts(w)))
                      /\ \A t \in Damaged(Telemetry(Counts(w)), Limit[w] + 1) :
                            Accepted(t) => Restored(t) = Counts(w)
                                           /\ t.action = Action(Counts(w))
    BY DEF ConsumersAreNotMisled, FollowUpAction
  <2>1. Counts(w) \in BatchCounts /\ Consistent(Counts(w))
    BY CountsAreConsistent
  <2>2. Limit[w] + 1 \in Nat
    BY LimitAssumption
  <2> QED BY <2>1, <2>2, TelemetryIsRestored, DamageIsSeen
<1> QED BY <1>1, WorkInvariant, PTL
=============================================================================
