---------------------------- MODULE MCDutyCycle -----------------------------
(* Bands of one half and one third.  The shortest frame fits both, the    *)
(* next only the first, the longest is sent at a data rate of no channel;  *)
(* in the second band one frame more than a period grants takes the whole  *)
(* window to earn.                                                         *)
EXTENDS DutyCycle, TLC

MCBands == {"b1", "b2"}
MCDCycle == "b1" :> 2 @@ "b2" :> 3
MCUsable == 1 :> MCBands @@ 2 :> {"b1"} @@ 3 :> {}
=============================================================================
