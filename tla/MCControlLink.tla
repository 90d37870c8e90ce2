--------------------------- MODULE MCControlLink ---------------------------
(***************************************************************************)
(* Two or three packets each way are enough for a gap, its filling and a   *)
(* retransmission; two keys are enough for one renegotiation.              *)
(***************************************************************************)
EXTENDS ControlLink
=============================================================================
