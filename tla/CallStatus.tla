----------------------------- MODULE CallStatus -----------------------------
(***************************************************************************)
(* The lifecycle policy of one call leg (call_status.py) and the snapshot  *)
(* every store keeps of it (call_status_store.py).  The policy is pure; the *)
(* stores and the delivery loop that apply it concurrently are in the      *)
(* modules that extend this one.                                           *)
(***************************************************************************)
EXTENDS Naturals

Active   == {"queued", "ringing", "in-progress"}
Terminal == {"completed", "busy", "failed", "no-answer", "canceled"}
Known    == Active \cup Terminal

\* Python's None: no observation is stored for the leg.
None == "none"

ActiveProgress ==
    [s \in Active |-> IF s = "queued" THEN 0 ELSE IF s = "ringing" THEN 1 ELSE 2]

\* advance_call_status: the first terminal status wins, active ones only rise.
Supersedes(incoming, current) ==
    \/ current = None
    \/ /\ current \in Active
       /\ \/ incoming \in Terminal
          \/ ActiveProgress[incoming] > ActiveProgress[current]

Advance(current, incoming) ==
    IF Supersedes(incoming, current) THEN incoming ELSE current

-----------------------------------------------------------------------------
\* CallStatusSnapshot: a status and the number of times it changed.
Snapshots == [status : Known \cup {None}, revision : Nat]
Missing   == [status |-> None, revision |-> 0]

\* What one observation makes of a snapshot: the revision counts changes only.
Observed(snapshot, incoming) ==
    LET status == Advance(snapshot.status, incoming)
    IN  [status   |-> status,
         revision |-> snapshot.revision
                        + (IF status = snapshot.status THEN 0 ELSE 1)]

-----------------------------------------------------------------------------
(***************************************************************************)
(* How far a status is along the lifecycle; every terminal one is last.    *)
(* Used only to state properties.                                          *)
(***************************************************************************)
Progress(status) ==
    IF status = None THEN 0
    ELSE IF status \in Active THEN ActiveProgress[status] + 1
    ELSE 4

\* A snapshot that a leg which started absent can have reached.
Reachable(snapshot) ==
    /\ snapshot.status = None <=> snapshot.revision = 0
    /\ snapshot.revision <= Progress(snapshot.status)
=============================================================================
