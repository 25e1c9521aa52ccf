-------------------------- MODULE CallStatusProofs --------------------------
(***************************************************************************)
(* Facts about the lifecycle policy that every store's proof rests on.     *)
(***************************************************************************)
EXTENDS CallStatus, TLAPS

\* Progress numbers the stages of the lifecycle from 0 to 4, absence alone is 0
\* and exactly the terminal statuses are 4.
LEMMA ProgressRange ==
    ASSUME NEW s \in Known \cup {None}
    PROVE  /\ Progress(s) \in 0..4
           /\ Progress(s) = 0 <=> s = None
           /\ Progress(s) = 4 <=> s \in Terminal
  BY DEF Progress, ActiveProgress, Known, Active, Terminal, None

\* advance_call_status answers a known status that is no less advanced than
\* either of its arguments.
LEMMA AdvanceIsMonotonic ==
    ASSUME NEW c \in Known \cup {None}, NEW s \in Known
    PROVE  /\ Advance(c, s) \in Known
           /\ Progress(Advance(c, s)) >= Progress(c)
           /\ Progress(Advance(c, s)) >= Progress(s)
           /\ Advance(c, s) # c => Progress(Advance(c, s)) > Progress(c)
  BY DEF Advance, Supersedes, Progress, ActiveProgress, Known, Active,
         Terminal, None

\* advance_call_status never leaves a terminal status.
LEMMA TerminalIsFinal ==
    ASSUME NEW c \in Terminal, NEW s \in Known
    PROVE  Advance(c, s) = c
  BY DEF Advance, Supersedes, Active, Terminal, None

\* One observation of a reachable snapshot gives a reachable snapshot, at most
\* one revision later, and the same snapshot if the revision is the same.
LEMMA ObservedIsReachable ==
    ASSUME NEW p \in Snapshots, Reachable(p), NEW s \in Known
    PROVE  /\ Observed(p, s) \in Snapshots
           /\ Reachable(Observed(p, s))
           /\ Observed(p, s).revision > 0
           /\ Observed(p, s).revision \in {p.revision, p.revision + 1}
           /\ Observed(p, s).revision = p.revision => Observed(p, s) = p
           /\ Progress(Observed(p, s).status) >= Progress(p.status)
           /\ Progress(Observed(p, s).status) >= Progress(s)
  <1> DEFINE o == Observed(p, s)
             a == Advance(p.status, s)
  <1>1. /\ p.status \in Known \cup {None} /\ p.revision \in Nat
        /\ p = [status |-> p.status, revision |-> p.revision]
    BY DEF Snapshots
  <1>2. /\ a \in Known
        /\ Progress(a) >= Progress(p.status)
        /\ Progress(a) >= Progress(s)
        /\ a # p.status => Progress(a) > Progress(p.status)
    BY <1>1, AdvanceIsMonotonic
  <1>3. /\ Progress(a) \in 0..4 /\ Progress(p.status) \in 0..4
        /\ None \notin Known
    BY <1>1, <1>2, ProgressRange DEF Known, Active, Terminal, None
  <1>4. /\ o.status = a
        /\ o.revision = p.revision + (IF a = p.status THEN 0 ELSE 1)
        /\ o = [status |-> a, revision |-> o.revision]
    BY DEF Observed
  <1>5. o \in Snapshots
    BY <1>1, <1>2, <1>4 DEF Snapshots
  <1>6. CASE a = p.status
    BY <1>1, <1>2, <1>3, <1>4, <1>5, <1>6 DEF Reachable
  <1>7. CASE a # p.status
    BY <1>1, <1>2, <1>3, <1>4, <1>5, <1>7 DEF Reachable
  <1> QED
    BY <1>6, <1>7

\* The revision of a reachable snapshot is at most four.
LEMMA FourRevisions ==
    ASSUME NEW p \in Snapshots, Reachable(p)
    PROVE  p.revision \in 0..4
  BY ProgressRange DEF Reachable, Snapshots

\* An absent row is a reachable snapshot, and the only one of revision zero.
LEMMA MissingIsReachable ==
    /\ Missing \in Snapshots
    /\ Reachable(Missing)
    /\ \A p \in Snapshots : Reachable(p) /\ p.revision = 0 => p = Missing
  BY ProgressRange DEF Missing, Snapshots, Reachable, None, Known

\* What one observation changes is a Record step of the abstract register.
LEMMA ObservedIsRecord ==
    ASSUME NEW p \in Snapshots, NEW s \in Known, Observed(p, s) # p
    PROVE  Supersedes(s, p.status)
  BY DEF Observed, Advance, Snapshots
=============================================================================
