-------------------------- MODULE MCMotorRegistry --------------------------
(***************************************************************************)
(* MotorRegistry for TLC: a master and a motor that follows it.            *)
(***************************************************************************)
EXTENDS MotorRegistry

CONSTANTS m, f

MCMasterOf == [id \in Followers |-> m]
=============================================================================
