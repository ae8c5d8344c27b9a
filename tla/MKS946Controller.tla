--------------------------- MODULE MKS946Controller ---------------------------
(***************************************************************************)
(* DCSMKS946Controller: gas flow, pressure, PID recipe and relays of one   *)
(* MKS 946 vacuum controller, its methods and variable updates on the      *)
(* device thread, and the software interlock. A method is a list of        *)
(* exchanges with the device; each may fail, before or after the device    *)
(* obeyed, and a failed one abandons the rest and drops the connection.    *)
(* The connection itself is that of DeviceController, after the start.     *)
(***************************************************************************)
EXTENDS Naturals, Sequences

CONSTANTS
  Values,    \* of pressures, setpoints, hystereses, limits and parameters
  NaN,       \* the limit that is not a number
  None,      \* no job; the null of a variable
  Calls,     \* the method calls that clients make
  Updates,   \* the variables whose update is modelled
  ConfigArmed, ConfigLimit,  \* the interlock in the server's configuration
  MaxCalls   \* bound: method calls of the clients

VARIABLES
  connected,  \* isConnected()
  device,     \* the settings of the device, by item
  pressure,   \* the pressure that the device measures
  armed,      \* variable interlockEnabled
  limit,      \* variable interlockLimit
  shown,      \* the variables that are read from the device
  commands,   \* bufferPriority of the device thread
  updates,    \* its buffer
  job,        \* what the device thread is doing
  step,       \* the exchange of job that comes next
  calls       \* history: number of calls

vars == <<connected, device, pressure, armed, limit, shown, commands, updates,
          job, step, calls>>

Modes == {"OPEN", "CLOSE", "SETPOINT", "PCTRL"}
Enablings == {"CLEAR", "SET", "ENABLE"}

(* The settings of the device: of a relay (enabled to hysteresis), of the  *)
(* flow controller (mode, and flow for setpoint, range and scale factor),  *)
(* of the gauge (manometer for its three), of PID control (pid for on,     *)
(* tuning for the four parameters that may change meanwhile, recipe for    *)
(* the others), and whether user calibration is enabled.                   *)
Parameters == {"setpoint", "hysteresis", "flow", "manometer", "recipe", "tuning"}
Items == Parameters \cup {"enabled", "direction", "mode", "pid", "calibration"}

Variables == {"measurements", "relay", "configuration", "PID", "PIDState", "interlockState"}

(* The calls of the methods; configureInterlock and the two of the base    *)
(* class are not lists of exchanges.                                       *)
Call ==
  [op : {"connect", "disconnect", "zeroMFC"}]
    \cup [op : {"setRelay"}, enabled : Enablings, setpoint : Values, hysteresis : Values]
    \cup [op : {"configurePID"}, recipe : Values, tuning : Values]
    \cup [op : {"configureFlow"}, mode : Modes \ {"PCTRL"}, flow : Values]
    \cup [op : {"configurePressure"}, manometer : Values]
    \cup [op : {"setPIDState"}, on : BOOLEAN]
    \cup [op : {"configureInterlock"}, armed : BOOLEAN, limit : Values \cup {NaN}]

ASSUME MKS946Assumption ==
  /\ Values \subseteq Nat /\ Values # {}
  /\ NaN \notin Values
  /\ Calls \subseteq Call
  /\ Updates \subseteq Variables
  /\ ConfigArmed \in BOOLEAN /\ ConfigLimit \in Values \cup {NaN}
  /\ MaxCalls \in Nat

-----------------------------------------------------------------------------
(* The exchanges of each method, in the order of the code.                 *)

Set(i, v) == [do |-> "set", item |-> i, value |-> v]
Read(v) == [do |-> "read", variable |-> v]
Do(what) == [do |-> what]

(* A relay switches below its setpoint if that is less than its hysteresis. *)
Direction(setpoint, hysteresis) == IF setpoint < hysteresis THEN "BELOW" ELSE "ABOVE"

(* setRelay without switching the relay off first.                         *)
MutSetRelay(j) ==
  << Set("direction", Direction(j.setpoint, j.hysteresis)),
     Set("setpoint", j.setpoint),
     Set("hysteresis", j.hysteresis),
     Set("enabled", j.enabled) >>

setRelay(j) ==
  << Set("enabled", "CLEAR"),
     Set("direction", Direction(j.setpoint, j.hysteresis)),
     Set("setpoint", j.setpoint),
     Set("hysteresis", j.hysteresis),
     Set("enabled", j.enabled) >>

(* configurePID reads PIDState first and goes on with one of these two.    *)
configureAll(j) == << Set("recipe", j.recipe), Set("tuning", j.tuning), Read("PID") >>
configureTuning(j) == << Set("tuning", j.tuning), Read("PID") >>

configureFlow(j) == << Set("mode", j.mode), Set("flow", j.flow), Read("configuration") >>
configurePressure(j) == << Set("manometer", j.manometer), Read("configuration") >>

(* setPIDState without reading the configuration again.                    *)
MutSetPIDState(j) == << Set("pid", j.on) >>

setPIDState(j) == << Set("pid", j.on), Read("configuration") >>

zeroMFC == << Set("calibration", "Enable"), Do("zero"), Set("calibration", "Disable") >>
postConnect == << Read("PID"), Read("configuration") >>

(* The rest of interlockAction when the pressure is over the limit.        *)
trip == << Set("mode", "CLOSE"), Read("configuration"), Do("tell") >>

Program(j) ==
  CASE j.op = "setRelay" -> setRelay(j)
    [] j.op = "configurePID" -> << Do("readPIDState") >>
    [] j.op = "configureAll" -> configureAll(j)
    [] j.op = "configureTuning" -> configureTuning(j)
    [] j.op = "configureFlow" -> configureFlow(j)
    [] j.op = "configurePressure" -> configurePressure(j)
    [] j.op = "setPIDState" -> setPIDState(j)
    [] j.op = "zeroMFC" -> zeroMFC
    [] j.op = "connect" -> postConnect
    [] j.op = "update" -> << Read(j.variable) >>
    [] j.op = "interlock" -> << Do("readPressure") >>
    [] j.op = "trip" -> trip

(* What the device thread may be doing.                                    *)
Job ==
  {c \in Call : c.op \notin {"disconnect", "configureInterlock"}}
    \cup [op : {"configureAll", "configureTuning"}, recipe : Values, tuning : Values]
    \cup [op : {"update"}, variable : Variables \ {"interlockState"}]
    \cup [op : {"interlock"}, limit : Values]
    \cup [op : {"trip"}, pressure : Values]

ASSUME NoneAssumption == None \notin Job

(* The values of the variables that are read from the device.              *)
Value(v) ==
  CASE v = "measurements" -> pressure
    [] v = "relay" -> << device["enabled"], device["direction"], device["setpoint"],
                         device["hysteresis"] >>
    [] v = "configuration" -> << device["mode"], device["flow"], device["manometer"] >>
    [] v = "PID" -> << device["recipe"], device["tuning"] >>
    [] v = "PIDState" -> device["pid"]

Idle == job = None

DeviceTypeOK ==
  /\ device = [i \in Items |-> device[i]]
  /\ \A i \in Parameters : device[i] \in Values
  /\ device["enabled"] \in Enablings
  /\ device["direction"] \in {"BELOW", "ABOVE"}
  /\ device["mode"] \in Modes
  /\ device["pid"] \in BOOLEAN
  /\ device["calibration"] \in {"Enable", "Disable"}

TypeOK ==
  /\ connected \in BOOLEAN
  /\ DeviceTypeOK
  /\ pressure \in Values
  /\ armed \in BOOLEAN
  /\ limit \in Values \cup {NaN}
  /\ shown = [v \in Variables |-> shown[v]]
  /\ commands \in Seq(Calls)
  /\ updates \in Seq(Updates)
  /\ calls \in 0 .. MaxCalls
  /\ \/ job = None /\ step = 0
     \/ job \in Job /\ step \in 1 .. Len(Program(job))

(* A relay that is off, PID off, and any other settings; the interlock as  *)
(* the configuration has it.                                               *)
Init ==
  /\ connected = FALSE
  /\ \E v \in Values, m \in Modes \ {"PCTRL"} :
       device = [i \in Items |->
                   CASE i = "enabled" -> "CLEAR"
                     [] i = "direction" -> "ABOVE"
                     [] i = "mode" -> m
                     [] i = "pid" -> FALSE
                     [] i = "calibration" -> "Disable"
                     [] OTHER -> v]
  /\ pressure \in Values
  /\ armed = ConfigArmed
  /\ limit = ConfigLimit
  /\ shown = [v \in Variables |-> None]
  /\ commands = <<>>
  /\ updates = <<>>
  /\ job = None
  /\ step = 0
  /\ calls = 0

-----------------------------------------------------------------------------
(* The clients, the timers, and what happens to the device by itself.      *)

environmentVars == <<device, pressure>>
interlockVars == <<armed, limit>>
queueVars == <<commands, updates, calls>>
jobVars == <<job, step>>

Invoke(c) ==
  /\ calls < MaxCalls
  /\ calls' = calls + 1
  /\ commands' = Append(commands, c)
  /\ UNCHANGED <<connected, environmentVars, interlockVars, shown, updates, jobVars>>

(* A timer pushes its update; bound: one that waits is not pushed again.   *)
Tick(u) ==
  /\ \A k \in DOMAIN updates : updates[k] # u
  /\ updates' = Append(updates, u)
  /\ UNCHANGED <<connected, environmentVars, interlockVars, shown, commands, calls, jobVars>>

PressureChange(p) ==
  /\ p # pressure
  /\ pressure' = p
  /\ UNCHANGED <<connected, device, interlockVars, shown, queueVars, jobVars>>

(* Somebody operates the panel of the device while it is not connected.    *)
Panel(m, r) ==
  /\ ~connected
  /\ Idle
  /\ device' = [device EXCEPT !["mode"] = m, !["recipe"] = r]
  /\ UNCHANGED <<connected, pressure, interlockVars, shown, queueVars, jobVars>>

-----------------------------------------------------------------------------
(* The device thread takes the oldest command, or update if there is none. *)

NextCommand(op) ==
  /\ Idle
  /\ commands # <<>>
  /\ Head(commands).op = op
  /\ commands' = Tail(commands)
  /\ UNCHANGED <<updates, calls>>

NextUpdate(u) ==
  /\ Idle
  /\ commands = <<>>
  /\ updates # <<>>
  /\ Head(updates) = u
  /\ updates' = Tail(updates)
  /\ UNCHANGED <<commands, calls>>

Begin(j) == job' = j /\ step' = 1

(* connectDevice goes on to postConnect when the device is connected, be   *)
(* it by this attempt or, if this one failed, from before.                 *)
Connect ==
  /\ NextCommand("connect")
  /\ \/ connected' = TRUE /\ Begin(Head(commands))
     \/ ~connected /\ UNCHANGED <<connected, jobVars>>
  /\ UNCHANGED <<environmentVars, interlockVars, shown>>

Disconnect ==
  /\ NextCommand("disconnect")
  /\ connected' = FALSE
  /\ UNCHANGED <<environmentVars, interlockVars, shown, jobVars>>

(* configureInterlock on the event loop, in the middle of another job.     *)
MutConfigureInterlock ==
  /\ commands # <<>>
  /\ Head(commands).op = "configureInterlock"
  /\ commands' = Tail(commands)
  /\ armed' = Head(commands).armed
  /\ limit' = Head(commands).limit
  /\ UNCHANGED <<connected, environmentVars, shown, updates, calls, jobVars>>

(* configureInterlock needs no device.                                     *)
ConfigureInterlock ==
  /\ NextCommand("configureInterlock")
  /\ armed' = Head(commands).armed
  /\ limit' = Head(commands).limit
  /\ UNCHANGED <<connected, environmentVars, shown, jobVars>>

Method(op) ==
  /\ op \notin {"connect", "disconnect", "configureInterlock"}
  /\ NextCommand(op)
  /\ Begin(Head(commands))
  /\ UNCHANGED <<connected, environmentVars, interlockVars, shown>>

(* An update of a device that is not connected shows null.                 *)
UpdateNull(u) ==
  /\ NextUpdate(u)
  /\ ~connected
  /\ shown' = [shown EXCEPT ![u] = None]
  /\ UNCHANGED <<connected, environmentVars, interlockVars, jobVars>>

Update(u) ==
  /\ u # "interlockState"
  /\ NextUpdate(u)
  /\ connected
  /\ Begin([op |-> "update", variable |-> u])
  /\ UNCHANGED <<connected, environmentVars, interlockVars, shown>>

(* interlockAction up to its exchange.                                     *)
InterlockAction ==
  /\ NextUpdate("interlockState")
  /\ connected
  /\ \/ /\ armed /\ limit # NaN
        /\ Begin([op |-> "interlock", limit |-> limit])
        /\ UNCHANGED shown
     \/ /\ ~armed \/ limit = NaN
        /\ shown' = [shown EXCEPT !["interlockState"] = FALSE]
        /\ UNCHANGED jobVars
  /\ UNCHANGED <<connected, environmentVars, interlockVars>>

-----------------------------------------------------------------------------
(* The exchanges of the job.                                               *)

Upcoming == Program(job)[step]  \* the exchange that comes next

Finish == job' = None /\ step' = 0

(* A job that goes on after its last exchange.                             *)
MutAdvance ==
  IF step > Len(Program(job)) THEN Finish ELSE step' = step + 1 /\ UNCHANGED job

Advance ==
  IF step = Len(Program(job)) THEN Finish ELSE step' = step + 1 /\ UNCHANGED job

(* What the device makes of a setting: switching PID control on or off     *)
(* may also change the mode of the flow controller.                        *)
Obeys(s) ==
  \/ device' = [device EXCEPT ![s.item] = s.value]
  \/ /\ s.item = "pid"
     /\ \E m \in Modes : device' = [device EXCEPT !["pid"] = s.value, !["mode"] = m]

SetStep ==
  /\ ~Idle /\ Upcoming.do = "set"
  /\ connected
  /\ Obeys(Upcoming)
  /\ Advance
  /\ UNCHANGED <<connected, pressure, interlockVars, shown, queueVars>>

(* Setting the user calibration to zero changes no setting.                *)
ZeroStep ==
  /\ ~Idle /\ Upcoming.do = "zero"
  /\ connected
  /\ Advance
  /\ UNCHANGED <<connected, environmentVars, interlockVars, shown, queueVars>>

ReadStep ==
  /\ ~Idle /\ Upcoming.do = "read"
  /\ connected
  /\ shown' = [shown EXCEPT ![Upcoming.variable] = Value(Upcoming.variable)]
  /\ Advance
  /\ UNCHANGED <<connected, environmentVars, interlockVars, queueVars>>

(* configurePID without its test of PIDState.                              *)
MutReadPIDState ==
  /\ ~Idle /\ Upcoming.do = "readPIDState"
  /\ connected
  /\ Begin([op |-> "configureAll", recipe |-> job.recipe, tuning |-> job.tuning])
  /\ UNCHANGED <<connected, environmentVars, interlockVars, shown, queueVars>>

(* configurePID leaves most of the recipe alone while PID control is on.   *)
ReadPIDState ==
  /\ ~Idle /\ Upcoming.do = "readPIDState"
  /\ connected
  /\ Begin([op |-> IF device["pid"] THEN "configureTuning" ELSE "configureAll",
            recipe |-> job.recipe, tuning |-> job.tuning])
  /\ UNCHANGED <<connected, environmentVars, interlockVars, shown, queueVars>>

(* interlockAction with its comparison the wrong way round.                *)
MutReadPressure ==
  /\ ~Idle /\ Upcoming.do = "readPressure"
  /\ connected
  /\ \/ /\ pressure < job.limit
        /\ Begin([op |-> "trip", pressure |-> pressure])
        /\ UNCHANGED shown
     \/ /\ ~(pressure < job.limit)
        /\ shown' = [shown EXCEPT !["interlockState"] = FALSE]
        /\ Finish
  /\ UNCHANGED <<connected, environmentVars, interlockVars, queueVars>>

(* The interlock compares the pressure with the limit that it has read.    *)
ReadPressure ==
  /\ ~Idle /\ Upcoming.do = "readPressure"
  /\ connected
  /\ \/ /\ job.limit < pressure
        /\ Begin([op |-> "trip", pressure |-> pressure])
        /\ UNCHANGED shown
     \/ /\ ~(job.limit < pressure)
        /\ shown' = [shown EXCEPT !["interlockState"] = FALSE]
        /\ Finish
  /\ UNCHANGED <<connected, environmentVars, interlockVars, queueVars>>

Tell ==
  /\ ~Idle /\ Upcoming.do = "tell"
  /\ shown' = [shown EXCEPT !["interlockState"] = TRUE]
  /\ Advance
  /\ UNCHANGED <<connected, environmentVars, interlockVars, queueVars>>

(* An exchange fails: no device, no answer or a negative one, or an answer *)
(* that is lost after the device obeyed. The wrapper of the method or of   *)
(* the update drops the connection.                                        *)
Fail ==
  /\ ~Idle /\ Upcoming.do # "tell"
  /\ \/ UNCHANGED device
     \/ connected /\ Upcoming.do = "set" /\ Obeys(Upcoming)
  /\ connected' = FALSE
  /\ Finish
  /\ UNCHANGED <<pressure, interlockVars, shown, queueVars>>

Exchange ==
  SetStep \/ ZeroStep \/ ReadStep \/ ReadPIDState \/ ReadPressure \/ Tell \/ Fail

DeviceThread ==
  \/ Connect \/ Disconnect \/ ConfigureInterlock
  \/ \E c \in Calls : Method(c.op)
  \/ \E u \in Updates : UpdateNull(u) \/ Update(u)
  \/ "interlockState" \in Updates /\ InterlockAction
  \/ Exchange

Next ==
  \/ DeviceThread
  \/ \E c \in Calls : Invoke(c)
  \/ \E u \in Updates : Tick(u)
  \/ \E p \in Values : PressureChange(p)
  \/ \E m \in Modes, r \in Values : Panel(m, r)

Spec == Init /\ [][Next]_vars

(* The timers fire and the device thread runs; an exchange ends, since the *)
(* socket has timeouts. Nothing forces a client or the device to act.      *)
FairSpec ==
  /\ Spec
  /\ WF_vars(DeviceThread)
  /\ \A u \in Updates : WF_vars(Tick(u))

-----------------------------------------------------------------------------
(* A relay that is on has the direction, the setpoint and the hysteresis   *)
(* of one call of setRelay, whichever exchanges of whichever calls failed  *)
(* and wherever the connection was lost.                                   *)
RelayCoherent ==
  device["enabled"] # "CLEAR" =>
    \E c \in Calls :
      /\ c.op = "setRelay"
      /\ device["setpoint"] = c.setpoint
      /\ device["hysteresis"] = c.hysteresis
      /\ device["direction"] = Direction(c.setpoint, c.hysteresis)

(* The interlock closes the flow only while it is armed and the pressure   *)
(* it has read is over the limit in force: no configureInterlock that has  *)
(* been executed is ignored by an update under way.                        *)
TripIsJustified ==
  job # None /\ job.op = "trip" => armed /\ limit # NaN /\ limit < job.pressure

(* Between jobs, the variables configuration and PID of a connected device *)
(* are those of the device, after all methods, trips of the interlock,     *)
(* failures and reconnections.                                             *)
ShownIsDevice ==
  Idle /\ connected =>
    /\ shown["configuration"] = Value("configuration")
    /\ shown["PID"] = Value("PID")

(* configurePID changes no recipe under a running PID control, although it *)
(* has asked for the state before.                                         *)
RecipeUntouched ==
  [][connected /\ device["pid"] /\ device'["pid"] => device'["recipe"] = device["recipe"]]_vars

(* While the armed interlock measures a pressure over its limit, it closes *)
(* the flow, unless the pressure falls, the interlock is reconfigured or   *)
(* the connection is lost.                                                 *)
Danger == connected /\ armed /\ limit # NaN /\ limit < pressure
InterlockCloses == Danger ~> (~Danger \/ device["mode"] = "CLOSE")
=============================================================================
