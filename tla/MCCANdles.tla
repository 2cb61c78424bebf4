----------------------------- MODULE MCCANdles -----------------------------
(***************************************************************************)
(* CANdles for TLC: two controllers.                                       *)
(***************************************************************************)
EXTENDS CANdles

CONSTANTS a, b, red, fire
=============================================================================
