-------------------------- MODULE MCLatencyCapture --------------------------
(***************************************************************************)
(* LatencyCapture with a four-entry RAM of one-digit values and a read      *)
(* pipeline and wait shortened together: in the code 17 + 2 cycles of       *)
(* pipeline against 16 + 2 cycles of read FSM, here 3 + 2 against 2 + 2.    *)
(***************************************************************************)
EXTENDS LatencyCapture
=============================================================================
