------------------------- MODULE CallStatusRegister -------------------------
(***************************************************************************)
(* What a CallStatusStore promises its callers, whichever way it is built: *)
(* one snapshot per leg that is changed only by one whole observation of   *)
(* the value it has at that instant.  Rows may be removed from outside     *)
(* (an operator or a table's time-to-live); nothing else lowers a status.  *)
(***************************************************************************)
EXTENDS CallStatus

CONSTANT Keys       \* workspace/call pairs

VARIABLE register   \* register[k]: the snapshot stored for leg k

Init == register = [k \in Keys |-> Missing]

Record(k, incoming) ==
    /\ Supersedes(incoming, register[k].status)
    /\ register' = [register EXCEPT ![k] = Observed(@, incoming)]

Forget(k) ==
    /\ register[k] # Missing
    /\ register' = [register EXCEPT ![k] = Missing]

Next == \E k \in Keys : Forget(k) \/ \E s \in Known : Record(k, s)

Spec == Init /\ [][Next]_register
=============================================================================
