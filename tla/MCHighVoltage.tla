---------------------------- MODULE MCHighVoltage ----------------------------
(***************************************************************************)
(* The instance of HighVoltage that TLC checks: HighVoltage has no         *)
(* constants, and its state space, of all three supplies, is finite.       *)
(***************************************************************************)
EXTENDS HighVoltage
=============================================================================
