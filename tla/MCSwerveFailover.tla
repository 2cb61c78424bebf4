-------------------------- MODULE MCSwerveFailover --------------------------
(***************************************************************************)
(* SwerveFailover for TLC: one wheel, asked ahead or back. Its sensor may  *)
(* be a half turn or one and a quarter turns away from zero, where the     *)
(* short way to a heading is to reach it backwards, or rounding decides.   *)
(***************************************************************************)
EXTENDS SwerveFailover

CONSTANT w
=============================================================================
