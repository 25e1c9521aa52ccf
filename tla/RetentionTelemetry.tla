------------------------- MODULE RetentionTelemetry -------------------------
(***************************************************************************)
(* The counts that a retention pass publishes and the record they travel   *)
(* in (VoicemailExpiryPurgeBatchCounts of voicemail_retention.py).  The    *)
(* record repeats in derived fields what its counts say, and a consumer    *)
(* restores it only when both agree.  JSON's text is left out: what is not *)
(* a complete record of this version is not a record here.                 *)
(***************************************************************************)
EXTENDS Naturals

Schema == 1

\* __post_init__: the counts describe one complete batch.
Consistent(c) ==
    /\ c.limitReached => c.discovered > 0
    /\ c.purged + c.conflicted + c.missing = c.discovered

Unconfirmed(c) == c.conflicted + c.missing

\* Unconfirmed candidates come before saturation.
Action(c) ==
    IF Unconfirmed(c) > 0 THEN "retry"
    ELSE IF c.limitReached THEN "drain"
    ELSE "none"

Reasons(c) ==
    {r \in {"discovery_limit_reached", "conflicted", "no_receipt"} :
        \/ r = "discovery_limit_reached" /\ c.limitReached
        \/ r = "conflicted" /\ c.conflicted > 0
        \/ r = "no_receipt" /\ c.missing > 0}

\* as_telemetry
Telemetry(c) ==
    [schema |-> Schema, discovered |-> c.discovered, purged |-> c.purged,
     conflicted |-> c.conflicted, noReceipt |-> c.missing,
     unconfirmed |-> Unconfirmed(c), limitReached |-> c.limitReached,
     recommended |-> Action(c) # "none", action |-> Action(c),
     reasons |-> Reasons(c)]

Restored(t) ==
    [discovered |-> t.discovered, purged |-> t.purged,
     conflicted |-> t.conflicted, missing |-> t.noReceipt,
     limitReached |-> t.limitReached]

\* Plausible bug: only the counts are checked, the derived fields are taken over.
CountsAgree(t) == t.schema = Schema /\ Consistent(Restored(t))

\* from_telemetry raises nothing.
Accepted(t) ==
    /\ t.schema = Schema
    /\ Consistent(Restored(t))
    /\ t = Telemetry(Restored(t))

-----------------------------------------------------------------------------
\* The values a field of a record can be found with, its own among them; counts
\* up to a bound.
FieldValues(field, bound) ==
    CASE field = "schema"  -> {Schema, Schema + 1}
      [] field = "action"  -> {"retry", "drain", "none"}
      [] field = "reasons" -> SUBSET {"discovery_limit_reached", "conflicted",
                                      "no_receipt"}
      [] field \in {"limitReached", "recommended"} -> BOOLEAN
      [] OTHER -> 0..bound

\* The records that differ from t in one field at most.
Damaged(t, bound) ==
    UNION {{[t EXCEPT ![field] = v] : v \in FieldValues(field, bound)} :
              field \in DOMAIN t}
=============================================================================
