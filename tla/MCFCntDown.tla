----------------------------- MODULE MCFCntDown -----------------------------
(* A counter of two halves of four values each: it rolls over three times  *)
(* before the session ends, with three frames on the way at once.          *)
EXTENDS FCntDown
=============================================================================
