--------------------------- MODULE MCPointToPoint ---------------------------
EXTENDS PointToPoint
=============================================================================
