--------------------------- MODULE MKS910Controller ---------------------------
(***************************************************************************)
(* The controller of the MKS910 gauge and its relays. A relay is set in    *)
(* five exchanges; an exchange that fails may have reached the gauge, and  *)
(* drops the connection with what is still to come. The gauge keeps its    *)
(* relays meanwhile.                                                       *)
(***************************************************************************)
EXTENDS Naturals, Sequences

CONSTANTS
  RelayNo,  \* the relays
  Levels,   \* the pairs << setpoint, hysteresis >> that clients set
  Unit      \* the units of pressure

VARIABLES
  mksConnected,  \* device.isConnected()
  mksRelays,     \* the gauge: the settings of each relay
  mksUnit,       \* the gauge: its unit
  mksJob,        \* what the device thread is doing
  mksStep,       \* the next exchange of setRelay
  mksCall,       \* <<>> or << the arguments of setRelay >>
  mksShown       \* the variable relay: <<>> (null) or << relays >>

mksGauge == <<mksRelays, mksUnit>>
mksJobVars == <<mksJob, mksStep, mksCall>>
mksVars == <<mksConnected, mksRelays, mksUnit, mksJob, mksStep, mksCall, mksShown>>

ASSUME MKS910Assumption ==
  /\ Levels \subseteq Nat \X Nat /\ Levels # {}
  /\ RelayNo # {}

SetRelaySteps == << "disable", "direction", "setpoint", "hysteresis", "enable" >>
Pressures == {l[1] : l \in Levels} \cup {l[2] : l \in Levels}

RelaySettings ==
  [enabled : BOOLEAN, direction : {"BELOW", "ABOVE"}, setpoint : Pressures, hysteresis : Pressures]
RelayCalls == [relay : RelayNo, enabled : BOOLEAN, level : Levels]

MKSTypeOK ==
  /\ mksConnected \in BOOLEAN
  /\ mksRelays \in [RelayNo -> RelaySettings]
  /\ mksUnit \in Unit
  /\ mksJob \in {"idle", "setRelay", "getRelay", "setUnits", "getMeasurements"}
  /\ mksStep \in 1 .. 5
  /\ mksCall \in {<<>>} \cup {<< call >> : call \in RelayCalls}
  /\ mksJob = "setRelay" => mksCall # <<>>
  /\ mksShown \in {<<>>} \cup {<< r >> : r \in [RelayNo -> RelaySettings]}

Direction(setpoint, hysteresis) == IF setpoint < hysteresis THEN "BELOW" ELSE "ABOVE"

(* The settings a call asks for.                                           *)
Asked(level, enabled) ==
  [enabled |-> enabled, direction |-> Direction(level[1], level[2]),
   setpoint |-> level[1], hysteresis |-> level[2]]

MKSInit ==
  /\ mksConnected = FALSE
  /\ \E l \in Levels : mksRelays = [r \in RelayNo |-> Asked(l, TRUE)]
  /\ mksUnit \in Unit
  /\ mksJob = "idle" /\ mksStep = 1 /\ mksCall = <<>>
  /\ mksShown = <<>>

-----------------------------------------------------------------------------
MKSEnd == mksJob' = "idle" /\ mksStep' = 1 /\ mksCall' = <<>>

(* The exchange of setRelay that is next, as the gauge carries it out.     *)
CarriedOut(s) ==
  LET call == mksCall[1]
      set(field, value) == [mksRelays EXCEPT ![call.relay] = [@ EXCEPT ![field] = value]]
  IN  CASE s = "disable" -> set("enabled", FALSE)
        [] s = "direction" -> set("direction", Direction(call.level[1], call.level[2]))
        [] s = "setpoint" -> set("setpoint", call.level[1])
        [] s = "hysteresis" -> set("hysteresis", call.level[2])
        [] s = "enable" -> set("enabled", TRUE)

(* Without disabling the relay first.                                      *)
MutFirstStep == 2

FirstStep == 1

(* The call is over after the hysteresis if the relay stays disabled.      *)
LastStep == IF mksCall[1].enabled THEN 5 ELSE 4

SetRelay ==
  /\ mksJob = "setRelay" /\ mksConnected
  /\ mksRelays' = CarriedOut(SetRelaySteps[mksStep])
  /\ IF mksStep < LastStep
       THEN mksStep' = mksStep + 1 /\ UNCHANGED <<mksJob, mksCall>>
       ELSE MKSEnd
  /\ UNCHANGED <<mksConnected, mksUnit, mksShown>>

(* An exchange that fails, whether or not the gauge has carried it out.    *)
SetRelayFails ==
  /\ mksJob = "setRelay"
  /\ mksRelays' \in {mksRelays} \cup
       (IF mksConnected THEN {CarriedOut(SetRelaySteps[mksStep])} ELSE {})
  /\ mksConnected' = FALSE
  /\ MKSEnd
  /\ UNCHANGED <<mksUnit, mksShown>>

(* The questions of getRelay, five about each relay: nobody else sets the  *)
(* relays meanwhile.                                                       *)
GetRelay ==
  /\ mksJob = "getRelay" /\ mksConnected
  /\ mksShown' = << mksRelays >>
  /\ MKSEnd
  /\ UNCHANGED <<mksConnected, mksGauge>>

SetUnits ==
  /\ mksJob = "setUnits" /\ mksConnected
  /\ mksUnit' \in Unit
  /\ MKSEnd
  /\ UNCHANGED <<mksConnected, mksRelays, mksShown>>

(* The six questions of getMeasurements have no effect.                    *)
GetMeasurements ==
  /\ mksJob = "getMeasurements" /\ mksConnected
  /\ MKSEnd
  /\ UNCHANGED <<mksConnected, mksGauge, mksShown>>

(* A question that fails, or whose answer no table knows.                  *)
MKSFails ==
  /\ mksJob \in {"getRelay", "setUnits", "getMeasurements"}
  /\ mksConnected' = FALSE
  /\ IF mksJob = "setUnits" /\ mksConnected THEN mksUnit' \in Unit ELSE UNCHANGED mksUnit
  /\ MKSEnd
  /\ UNCHANGED <<mksRelays, mksShown>>

CallSetRelay(call) ==
  /\ mksJob = "idle"
  /\ mksJob' = "setRelay" /\ mksStep' = FirstStep /\ mksCall' = << call >>
  /\ UNCHANGED <<mksConnected, mksGauge, mksShown>>

(* setunits, and the updates of relay and measurements.                    *)
MKSStart(j) ==
  /\ mksJob = "idle"
  /\ j # "setUnits" => mksConnected
  /\ mksJob' = j
  /\ UNCHANGED <<mksConnected, mksGauge, mksStep, mksCall, mksShown>>

(* An update of relay without a connection.                                *)
NoRelays ==
  /\ mksJob = "idle" /\ ~mksConnected
  /\ mksShown' = <<>>
  /\ UNCHANGED <<mksConnected, mksGauge, mksJobVars>>

(* connect and disconnect.                                                 *)
MKSConnection ==
  /\ mksJob = "idle"
  /\ mksConnected' \in BOOLEAN
  /\ UNCHANGED <<mksGauge, mksJobVars, mksShown>>

MKSNext ==
  \/ SetRelay \/ SetRelayFails \/ GetRelay \/ SetUnits \/ GetMeasurements \/ MKSFails
  \/ \E call \in RelayCalls : CallSetRelay(call)
  \/ \E j \in {"getRelay", "setUnits", "getMeasurements"} : MKSStart(j)
  \/ NoRelays \/ MKSConnection

MKSSpec == MKSInit /\ [][MKSNext]_mksVars

-----------------------------------------------------------------------------
OfOneCall(s) == s.enabled => \E l \in Levels : s = Asked(l, TRUE)

(* A relay that is enabled, in the gauge or as it is shown, has the        *)
(* setpoint, the hysteresis and the direction of one call, wherever calls  *)
(* were cut off.                                                           *)
RelayOfOneCall ==
  /\ \A r \in RelayNo : OfOneCall(mksRelays[r])
  /\ mksShown # <<>> => \A r \in RelayNo : OfOneCall(mksShown[1][r])
=============================================================================
