----------------------------- MODULE MCLoRaMac -----------------------------
(* Instances of LoRaMac.  Two requests are enough for the second one to    *)
(* meet what the first one left behind, two transmissions of a frame for   *)
(* the counter's reuse to be told from a new one, and counters wrap within *)
(* the run.  The configurations differ in the request types, the class and *)
(* in what the radio and the network may do; each names all of them.       *)
EXTENDS LoRaMac

OnlyUnconfirmed == {"MCPS_UNCONFIRMED"}
OnlyConfirmed == {"MCPS_CONFIRMED"}
AllDownlinks == {"ACK", "DATA", "PROPRIETARY", "INVALID"}
=============================================================================
