--------------------------- MODULE MCMKS946Controller ---------------------------
(***************************************************************************)
(* The instances of MKS946Controller that TLC checks.                      *)
(***************************************************************************)
EXTENDS MKS946Controller, TLC

Connection == [op : {"connect", "disconnect"}]

(* Two relay settings that differ in everything.                           *)
DeviceCalls ==
  Connection
    \cup {[op |-> "setRelay", enabled |-> "ENABLE", setpoint |-> 1, hysteresis |-> 2],
          [op |-> "setRelay", enabled |-> "SET", setpoint |-> 2, hysteresis |-> 1],
          [op |-> "configureFlow", mode |-> "OPEN", flow |-> 2],
          [op |-> "configurePressure", manometer |-> 2],
          [op |-> "zeroMFC"]}
    \cup [op : {"configurePID"}, recipe : {1, 2}, tuning : {1}]
    \cup [op : {"setPIDState"}, on : BOOLEAN]

(* The connection is also lost by failures.                                *)
InterlockCalls ==
  {[op |-> "connect"],
   [op |-> "configureFlow", mode |-> "OPEN", flow |-> 1],
   [op |-> "configureInterlock", armed |-> FALSE, limit |-> 2],
   [op |-> "configureInterlock", armed |-> TRUE, limit |-> 1],
   [op |-> "configureInterlock", armed |-> TRUE, limit |-> NaN]}
=============================================================================
