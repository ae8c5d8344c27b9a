-------------------------- MODULE MCTPG362Controller --------------------------
(***************************************************************************)
(* The instance of TPG362Controller that TLC checks on its own: the four   *)
(* relays of the gauge.                                                    *)
(***************************************************************************)
EXTENDS TPG362Controller

TPG362Relays == << "SP1", "SP2", "SP3", "SP4" >>
=============================================================================
