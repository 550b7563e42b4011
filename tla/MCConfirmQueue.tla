--------------------------- MODULE MCConfirmQueue ---------------------------
(* A queue of three slots, two request types (enough for two requests of   *)
(* the same type to be queued with another between them), two statuses.    *)
EXTENDS ConfirmQueue

MCRequests == {"MLME_JOIN", "MLME_BEACON_ACQUISITION"}
MCStatuses == {"OK", "ERROR"}
=============================================================================
