------------------------ MODULE MCVoicemailRetention ------------------------
\* Instances of VoicemailStatusStore and VoicemailRetention for TLC.
EXTENDS VoicemailRetention, TLC

CONSTANTS w1, w2

\* A worker whose batch hides what else is due, and one whose batch holds all.
OneAndTwo == w1 :> 1 @@ w2 :> 2

OnesOnly == [w \in Workers |-> 1]
=============================================================================
