------------------------------- MODULE Station -------------------------------
(***************************************************************************)
(* The smaller parts of a station, side by side: the controllers of the    *)
(* TPG362, the MKS910 and the low-voltage supplies, each with a device     *)
(* thread and a device of its own, the profiles, and the windows and trace *)
(* lists of the client. In these modules none of them reads or writes what *)
(* another does, so that a behaviour of all of them is one of each. A      *)
(* behaviour of Station is one of a single part, which focus names.        *)
(***************************************************************************)
EXTENDS TPG362Controller, MKS910Controller, LowVoltage, Profiles, Panel, TraceList

VARIABLE focus

vars == <<focus, tpgVars, mksVars, lvVars, profileVars, panelVars, traceVars>>

Parts == {"TPG362", "MKS910", "LowVoltage", "Profiles", "Panel", "TraceList"}

StationTypeOK ==
  /\ focus \in Parts
  /\ TPGTypeOK /\ MKSTypeOK /\ LVTypeOK
  /\ ProfilesTypeOK /\ PanelTypeOK /\ TraceTypeOK

(* A part that is not looked at has one of its initial states.             *)
Init ==
  /\ focus \in Parts
  /\ TPGInit /\ MKSInit /\ LVInit /\ ProfilesInit /\ PanelInit /\ TraceInit

TPG362Step ==
  /\ focus = "TPG362" /\ TPGNext
  /\ UNCHANGED <<focus, mksVars, lvVars, profileVars, panelVars, traceVars>>

MKS910Step ==
  /\ focus = "MKS910" /\ MKSNext
  /\ UNCHANGED <<focus, tpgVars, lvVars, profileVars, panelVars, traceVars>>

LowVoltageStep ==
  /\ focus = "LowVoltage" /\ LVNext
  /\ UNCHANGED <<focus, tpgVars, mksVars, profileVars, panelVars, traceVars>>

ProfilesStep ==
  /\ focus = "Profiles" /\ ProfilesNext
  /\ UNCHANGED <<focus, tpgVars, mksVars, lvVars, panelVars, traceVars>>

PanelStep ==
  /\ focus = "Panel" /\ PanelNext
  /\ UNCHANGED <<focus, tpgVars, mksVars, lvVars, profileVars, traceVars>>

TraceStep ==
  /\ focus = "TraceList" /\ TraceNext
  /\ UNCHANGED <<focus, tpgVars, mksVars, lvVars, profileVars, panelVars>>

Next ==
  \/ TPG362Step \/ MKS910Step \/ LowVoltageStep
  \/ ProfilesStep \/ PanelStep \/ TraceStep

Spec == Init /\ [][Next]_vars

(* The client's loop connects whenever it is not connected, and the        *)
(* subscription reports what has changed every half a second.              *)
Fairness ==
  /\ WF_vars(PanelStep /\ LinkOpens)
  /\ \A i \in Items : WF_vars(PanelStep /\ Notify(i))

FairSpec == Spec /\ Fairness
=============================================================================
