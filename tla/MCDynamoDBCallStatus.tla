------------------------ MODULE MCDynamoDBCallStatus ------------------------
\* Instances of DynamoDBCallStatus for TLC.
EXTENDS DynamoDBCallStatus

CONSTANTS d1, d2, k1
=============================================================================
