----------------------------- MODULE MCSolenoids -----------------------------
(***************************************************************************)
(* Solenoids for TLC: the messages that may come. Both types have the      *)
(* value OFF, and ON is one a double solenoid refuses. Id 65544 is channel *)
(* 8 of module 1, which a CTRE module does not have; it is commanded in    *)
(* one way only, and by every message that asks for the compressor.        *)
(***************************************************************************)
EXTENDS Solenoids

MCCommands == {[type |-> "SINGLE", value |-> "ON"], [type |-> "DOUBLE", value |-> "OFF"]}

MCMessages ==
    {msg \in Message :
       /\ \A id \in Listed(msg) \cap {65544} : msg.solenoids[id].type = "SINGLE"
       /\ msg.compressorIsEnabledForAuto => 65544 \in Listed(msg)}

MCModuleType == [id \in SolenoidIds |-> IF id = 3 THEN "REVPH" ELSE "CTREPCM"]
=============================================================================
