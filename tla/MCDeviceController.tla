-------------------------- MODULE MCDeviceController --------------------------
(***************************************************************************)
(* The instances of DeviceController that TLC checks.                      *)
(***************************************************************************)
EXTENDS DeviceController, TLC

CONSTANT Configured  \* the devices whose configuration names an address

OnlyMeasured == <<"measured">>
StatusAndMeasured == <<"status", "measured">>

MCConfigAddress ==
  [d \in Devices |-> IF d \in Configured THEN CHOOSE a \in Addresses : TRUE ELSE None]
=============================================================================
