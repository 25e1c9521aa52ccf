--------------------------- MODULE MCRequestBudget ---------------------------
(***************************************************************************)
(* Small times, in which the call and the invocation end at the same time: *)
(* the wall clock may fall behind and come back, the runtime may give time *)
(* and take it back.                                                       *)
(***************************************************************************)
EXTENDS RequestBudget

MCSkews == [c \in Clocks |-> IF c = "wall" THEN {-2, 0} ELSE {0, 1}]
=============================================================================
