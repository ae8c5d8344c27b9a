-------------------------------- MODULE Panel --------------------------------
(***************************************************************************)
(* A device's window of the graphical client and what it is told. The      *)
(* client subscribes to the variable status and to the one the window's    *)
(* controls follow; the server reports each only when it has changed, and  *)
(* the two in any order, and the window puts together what it was told. A  *)
(* report stands for its sample: that it is under way for some time is the *)
(* same to the window as a later sample. What becomes of the methods that  *)
(* a window calls shows in the server's variables, or does not.            *)
(***************************************************************************)
EXTENDS Windows, Sequences

VARIABLES
  panelKind,     \* the window's device
  panelUp,       \* whether the client is connected and has its subscription
  serverStatus,  \* the variable status of the server
  serverValue,   \* configuration, measurements or PIDState: <<>> (null) or << value >>
  sampled,       \* item -> <<>> or << what the subscription reported last >>
  panel,         \* the window
  panelDialog    \* the dialog that is open, or "none"

panelVars == <<panelKind, panelUp, serverStatus, serverValue, sampled, panel, panelDialog>>

Items == {"status", "value"}

(* isRemote and the channel's bit for disabled, and whether it is on.      *)
PanelValues ==
  IF panelKind \in HVKinds
    THEN [remote : BOOLEAN, disabled : BOOLEAN, on : BOOLEAN]
    ELSE [remote : {TRUE}, disabled : {FALSE}, on : BOOLEAN]

Null == <<>>
ItemValue == [i \in Items |-> IF i = "status" THEN << serverStatus >> ELSE serverValue]

PanelTypeOK ==
  /\ panelKind \in Kinds
  /\ panelUp \in BOOLEAN /\ serverStatus \in BOOLEAN
  /\ serverValue = Null \/ serverValue[1] \in PanelValues
  /\ DOMAIN sampled = Items
  /\ panel \in WindowRecords
  /\ panelDialog \in Dialogs \cup {"none"}

PanelInit ==
  /\ panelKind \in Kinds
  /\ panelUp = FALSE /\ serverStatus = FALSE /\ serverValue = Null
  /\ sampled = [i \in Items |-> <<>>]
  /\ panel \in NewWindow(panelKind)
  /\ panelDialog = "none"

-----------------------------------------------------------------------------
(* The server's side: the device connects, disconnects, and does what it   *)
(* is told to or not; updates follow, and give null without a connection.  *)
StatusChanges ==
  /\ serverStatus' = ~serverStatus
  /\ UNCHANGED <<panelKind, panelUp, serverValue, sampled, panel, panelDialog>>

ValueChanges ==
  /\ IF serverStatus
       THEN \E v \in PanelValues : serverValue' = << v >>
       ELSE serverValue' = Null
  /\ UNCHANGED <<panelKind, panelUp, serverStatus, sampled, panel, panelDialog>>

(* stateCallback: the windows, but not the dialogs, are disabled.          *)
LinkDrops ==
  /\ panelUp
  /\ panelUp' = FALSE
  /\ UNCHANGED <<panelKind, serverStatus, serverValue, sampled, panel, panelDialog>>

(* opcInit: the new subscription has reported nothing.                     *)
MonitorItems == sampled' = [i \in Items |-> <<>>]

(* iterate, stateCallback and addSubscription, taken to succeed: that a    *)
(* subscription or an item could not be created is only logged.            *)
LinkOpens ==
  /\ ~panelUp
  /\ panelUp' = TRUE
  /\ MonitorItems
  /\ UNCHANGED <<panelKind, serverStatus, serverValue, panel, panelDialog>>

(* DCSMonitoredItem::callback: a null is not passed on. An open dialog     *)
(* does not keep reports from the window.                                  *)
Notify(i) ==
  /\ panelUp
  /\ sampled[i] # << ItemValue[i] >>
  /\ sampled' = [sampled EXCEPT ![i] = << ItemValue[i] >>]
  /\ panel' = IF ItemValue[i] = Null THEN panel
              ELSE IF i = "status" THEN UpdateStatus(panelKind, panel, ItemValue[i][1])
              ELSE UpdateValue(panelKind, panel, ItemValue[i][1])
  /\ UNCHANGED <<panelKind, panelUp, serverStatus, serverValue, panelDialog>>

(* A radio button is pressed and calls setchannel; it is checked at once,  *)
(* whatever becomes of the call.                                           *)
Press(on) ==
  /\ panelKind \in HVKinds /\ panelUp /\ panelDialog = "none"
  /\ (IF on THEN "on" ELSE "off") \in panel.offers
  /\ panel' = [panel EXCEPT !.radio = on]
  /\ UNCHANGED <<panelKind, panelUp, serverStatus, serverValue, sampled, panelDialog>>

(* A dialog is opened, and accepted or not at any later time.              *)
OpenDialog(d) ==
  /\ panelUp /\ panelDialog = "none" /\ d \in panel.offers
  /\ panelDialog' = d
  /\ UNCHANGED <<panelKind, panelUp, serverStatus, serverValue, sampled, panel>>

CloseDialog ==
  /\ panelDialog # "none"
  /\ panelDialog' = "none"
  /\ UNCHANGED <<panelKind, panelUp, serverStatus, serverValue, sampled, panel>>

PanelWorld == StatusChanges \/ ValueChanges \/ LinkDrops
PanelNext ==
  \/ PanelWorld \/ LinkOpens
  \/ \E i \in Items : Notify(i)
  \/ \E on \in BOOLEAN : Press(on)
  \/ \E d \in Dialogs : OpenDialog(d)
  \/ CloseDialog

PanelSpec == PanelInit /\ [][PanelNext]_panelVars

-----------------------------------------------------------------------------
(* The buttons of the PID control of an MKS946 are the only controls of a  *)
(* device that may be enabled while it is known to be disconnected.        *)
Dark(w) ==
  /\ ~w.led
  /\ w.offers \subseteq {"connect", "change"} \cup (IF panelKind = "MKS946" THEN Switches ELSE {})

(* In whatever order status and values are reported, a window that has     *)
(* been told its device is disconnected offers, of the controls that a     *)
(* status or a value enables and disables, those to connect it and no      *)
(* other, and shows no channel on. The buttons of relays, of the interlock *)
(* and of profiles, the MKS910's box of units and names are always         *)
(* enabled, whatever the connection, and are not among the controls.       *)
DisconnectedIsDark == panel.told /\ ~panel.conn => Dark(panel)

(* The controls that a window should offer of a device that is connected.  *)
Change(v) == IF v.on THEN "off" ELSE "on"
Offered(v) ==
  {"disconnect"} \cup
    CASE panelKind \in HVKinds -> {"kill"} \cup (IF v.remote THEN {"all"} ELSE {})
                                  \cup (IF v.remote /\ ~v.disabled THEN HVControls ELSE {})
      [] panelKind \in LVKinds -> {"setV", "setI", Change(v)}
      [] panelKind = "TPG362" -> {Change(v)}
      [] panelKind = "MKS910" -> {}
      [] panelKind = "MKS946" -> MKS946Dialogs \cup {Change(v)}

PanelAgrees ==
  panelUp =>
    /\ panel.conn = serverStatus
    /\ ~serverStatus => Dark(panel)
    /\ serverStatus /\ serverValue # Null =>
         /\ panel.offers = Offered(serverValue[1])
         /\ panel.led = (panelKind \in HVKinds /\ serverValue[1].on)

(* Whenever the subscription has reported both variables as they are, the  *)
(* window agrees: nothing that was reported before, in whatever order, and *)
(* no value that the window began with, is left in its controls.           *)
ReportedIsShown ==
  (\A i \in Items : sampled[i] = << ItemValue[i] >>) => PanelAgrees

(* When the device and the link are left alone, every window comes to show *)
(* what is, also if only one of the variables is reported again.           *)
PanelCatchesUp == <>[][~PanelWorld]_panelVars => <>[]PanelAgrees
=============================================================================
