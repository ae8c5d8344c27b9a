------------------------------- MODULE Windows -------------------------------
(***************************************************************************)
(* What the windows of the graphical client do with what is reported to    *)
(* them: a window is a record, and its slots are functions of it. A window *)
(* is that of one channel or sensor (the general output of a low-voltage   *)
(* supply is like a channel), with the controls that are ever disabled;    *)
(* those of relays, of the interlock, of profiles and of names never are.  *)
(* Numbers and texts that are only shown are left out.                     *)
(***************************************************************************)
EXTENDS Naturals

(* The dialogs in which settings are entered: each is modal, and calls a   *)
(* method of the server when it is accepted.                               *)
HVDialogs == {"setV", "setVMAX", "setIset", "setRUP", "setRDWN"}
LVDialogs == {"setV", "setI"}
LV4Dialogs == {"setV", "setI"}
MKS946Dialogs == {"flow", "manometer", "PID", "zeroMFC"}
TCPDialog == {"change"}
Dialogs == HVDialogs \cup LVDialogs \cup LV4Dialogs \cup MKS946Dialogs \cup TCPDialog

Switches == {"on", "off"}
HVControls == Switches \cup HVDialogs
Controls == Switches \cup Dialogs \cup {"all", "kill", "connect", "disconnect"}

HVKinds == {"DT1415ET", "DT1470ET", "N1471"}
LVKinds == {"HMP2020", "HMP4040"}

(* loadWidgets: the windows of the devices the client is configured for.   *)
Kinds == HVKinds \cup LVKinds \cup {"TPG362", "MKS910", "MKS946"}

(* told: history, a status has been reported; conn, enabled, on, remote:   *)
(* members (connectionState, enabled[i], ON[i] or deviceSettings,          *)
(* isRemote); known: PIDStateLabel has a text; offers: the controls that   *)
(* are enabled; led: the LED is lit; radio: the radio button "ON" is       *)
(* checked, and not "OFF".                                                 *)
WindowRecords ==
  [told : BOOLEAN, known : BOOLEAN, conn : BOOLEAN, enabled : BOOLEAN, on : BOOLEAN,
   remote : BOOLEAN, offers : SUBSET Controls, led : BOOLEAN, radio : BOOLEAN]

Window(conn, on, remote, offers) ==
  [told |-> FALSE, known |-> FALSE, conn |-> conn, enabled |-> FALSE, on |-> on,
   remote |-> remote, offers |-> offers, led |-> FALSE, radio |-> FALSE]

(* setEnabled of each of some controls.                                    *)
Enable(w, controls, cond) ==
  [w EXCEPT !.offers = IF cond THEN @ \cup controls ELSE @ \ controls]

-----------------------------------------------------------------------------
(* New windows. Members that no constructor sets have any value, and       *)
(* controls that it does not disable are enabled.                          *)
TCPWidget == {"connect", "change"}
AllChannelsTab == {"all"}
ChannelTab == {"setIset"}
NewHV ==
  UNION {{Window(conn, FALSE, remote, TCPWidget \cup AllChannelsTab \cup ChannelTab) :
            remote \in BOOLEAN} : conn \in BOOLEAN}
NewLV ==
  UNION {{Window(conn, on, FALSE, TCPWidget \cup LVDialogs) : on \in BOOLEAN} : conn \in BOOLEAN}
TPG362CTab == {"on"}
NewTPG362 == {[Window(conn, FALSE, FALSE, TCPWidget \cup TPG362CTab) EXCEPT !.enabled = TRUE] :
                conn \in BOOLEAN}
NewMKS910 == {Window(conn, FALSE, FALSE, TCPWidget) : conn \in BOOLEAN}
MKS946CTab == {"flow", "zeroMFC", "manometer"}
MKS946PIDTab == Switches \cup {"PID"}
NewMKS946 == {Window(conn, FALSE, FALSE, TCPWidget \cup MKS946CTab \cup MKS946PIDTab) :
                conn \in BOOLEAN}

NewWindow(kind) ==
  CASE kind \in HVKinds -> NewHV
    [] kind \in LVKinds -> NewLV
    [] kind = "TPG362" -> NewTPG362
    [] kind = "MKS910" -> NewMKS910
    [] kind = "MKS946" -> NewMKS946

-----------------------------------------------------------------------------
(* setStatus of the connection's controls.                                 *)
SetStatus(w, c) == Enable(Enable(w, {"disconnect"}, c), {"connect", "change"}, ~c)

(* A status that disables the controls, and leaves it to the configuration *)
(* to enable them.                                                         *)
MutHVStatus(w, c) ==
  LET v == Enable(Enable(w, HVControls \cup {"all"}, c /\ w.conn /\ w.enabled), {"kill"}, c)
  IN  [v EXCEPT !.conn = c, !.led = c /\ w.on, !.radio = IF c THEN w.on ELSE @]

(* The windows of the high-voltage supplies. A radio button is unchecked   *)
(* only by checking the other.                                             *)
HVStatus(w, c) ==
  LET v == Enable(Enable(Enable(w, HVControls, c /\ w.enabled), {"all"}, c /\ w.remote),
                  {"kill"}, c)
  IN  [v EXCEPT !.conn = c, !.led = c /\ w.on, !.radio = IF c THEN w.on ELSE @]

(* Controls that follow the configuration alone.                           *)
MutDT1415ETConfiguration(w, value) ==
  LET enabled == value.remote /\ ~value.disabled
      v == Enable(Enable(w, HVControls, enabled), {"all"}, value.remote)
  IN  [v EXCEPT !.enabled = enabled, !.on = value.on, !.remote = value.remote,
                !.led = w.conn /\ value.on, !.radio = IF w.conn THEN value.on ELSE @]

DT1415ETConfiguration(w, value) ==
  LET enabled == value.remote /\ ~value.disabled
      v == Enable(Enable(w, HVControls, w.conn /\ enabled), {"all"}, w.conn /\ value.remote)
  IN  [v EXCEPT !.enabled = enabled, !.on = value.on, !.remote = value.remote,
                !.led = w.conn /\ value.on, !.radio = IF w.conn THEN value.on ELSE @]

(* These read the bits of another status word.                             *)
N1471Configuration(w, value) == DT1415ETConfiguration(w, value)
DT1470ETConfiguration(w, value) == DT1415ETConfiguration(w, value)

(* The windows of the low-voltage supplies offer only the button that      *)
(* changes something.                                                      *)
LVStatus(w, c) ==
  LET v == Enable(Enable(Enable(w, {"on"}, c /\ ~w.on), {"off"}, c /\ w.on), LVDialogs, c)
  IN  [v EXCEPT !.conn = c]

(* Measurements that are not kept for the next connection.                 *)
MutLVMeasurements(w, value) ==
  Enable(Enable(w, {"on"}, w.conn /\ ~value.on), {"off"}, w.conn /\ value.on)

LVMeasurements(w, value) ==
  LET v == Enable(Enable(w, {"on"}, w.conn /\ ~value.on), {"off"}, w.conn /\ value.on)
  IN  [v EXCEPT !.on = value.on]

(* The window with four channels does the same for each.                   *)
LV4Status(w, c) == LVStatus(w, c)
LV4Measurements(w, value) == LVMeasurements(w, value)

(* DCSTwoStateButton: the buttons of a widget that is disabled stay so.    *)
TwoState(w, enabled, on) ==
  LET v == Enable(Enable(w, {"on"}, enabled /\ ~on), {"off"}, enabled /\ on)
  IN  [v EXCEPT !.enabled = enabled, !.on = on]

TPG362Status(w, c) == TwoState([w EXCEPT !.conn = c], c, w.on)
TPG362Measurements(w, value) == TwoState(w, w.enabled, value.on)

(* A change of units is only sent while connected.                         *)
MKS910Status(w, c) == [w EXCEPT !.conn = c]

(* The buttons of the PID control follow the text beside them, which is    *)
(* empty at first.                                                         *)
MKS946Status(w, c) ==
  LET v == Enable(Enable(Enable(w, MKS946Dialogs, c), {"off"}, c /\ w.known /\ w.on),
                  {"on"}, c /\ w.known /\ ~w.on)
  IN  [v EXCEPT !.conn = c]

(* updatePIDState, which does not look at the connection.                  *)
PIDState(w, value) ==
  LET v == Enable(Enable(w, {"off"}, value.on), {"on"}, ~value.on)
  IN  [v EXCEPT !.on = value.on, !.known = TRUE]

UpdateStatus(kind, w, c) ==
  LET v == [SetStatus(w, c) EXCEPT !.told = TRUE]
  IN  CASE kind \in HVKinds -> HVStatus(v, c)
        [] kind = "HMP2020" -> LVStatus(v, c)
        [] kind = "HMP4040" -> LV4Status(v, c)
        [] kind = "TPG362" -> TPG362Status(v, c)
        [] kind = "MKS910" -> MKS910Status(v, c)
        [] kind = "MKS946" -> MKS946Status(v, c)

(* Measurements of an MKS910 change no control's state; that they select   *)
(* the unit in its box, which then calls setUnits once more, is left out.  *)
UpdateValue(kind, w, value) ==
  CASE kind = "DT1415ET" -> DT1415ETConfiguration(w, value)
    [] kind = "DT1470ET" -> DT1470ETConfiguration(w, value)
    [] kind = "N1471" -> N1471Configuration(w, value)
    [] kind = "HMP2020" -> LVMeasurements(w, value)
    [] kind = "HMP4040" -> LV4Measurements(w, value)
    [] kind = "TPG362" -> TPG362Measurements(w, value)
    [] kind = "MKS910" -> w
    [] kind = "MKS946" -> PIDState(w, value)
=============================================================================
