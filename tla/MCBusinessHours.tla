--------------------------- MODULE MCBusinessHours ---------------------------
(***************************************************************************)
(* Days of four minutes in weeks of two days: overnight windows that are   *)
(* split at midnight, a window that ends where another begins, overlaps,   *)
(* two invalid windows, and zones that set the clock forward or back, one  *)
(* by a whole day.                                                         *)
(***************************************************************************)
EXTENDS BusinessHours

W(s, e) == [start |-> s, end |-> e]

Plans == {{}, {W(0, 4)}, {W(1, 3)}, {W(0, 1), W(3, 4)}, {W(0, 2), W(2, 3)},
          {W(0, 3), W(1, 2)}, {W(2, 2)}, {W(1, 5)}}

MCSchedules ==
    [0..1 -> Plans] \cup [{0} -> Plans]

MCOverrideSets == [{} -> Plans] \cup [{1} -> Plans] \cup [{2} -> Plans]

MCZones == {[before |-> b, after |-> a, change |-> c] :
                b \in {-1, 2}, a \in {0, 1}, c \in {5, 7}}
           \cup {[before |-> -1, after |-> 3, change |-> 5]}
=============================================================================
