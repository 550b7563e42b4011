----------------------------- MODULE MCJoining ------------------------------
EXTENDS Joining

AnyJoinFrame == {"ACCEPT", "BAD_ACCEPT", "FRAME", "OTHER"}
AnyDataFrame == {"FRAME", "OTHER"}
=============================================================================
