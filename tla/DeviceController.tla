--------------------------- MODULE DeviceController ---------------------------
(***************************************************************************)
(* DCSDeviceController: the connection of each device, its worker thread   *)
(* with the two queues, the monitored variables that follow the            *)
(* connection, and the recovery file that lets a restarted server          *)
(* reconnect. The worker's queues are those of JobExecutor: one step takes *)
(* the oldest command, or the oldest update when no command waits.         *)
(***************************************************************************)
EXTENDS Naturals, Sequences, FiniteSets, Functions, Recovery

CONSTANTS
  Updates,        \* the updates that have a timer, in the order of their creation
  ConfigAddress,  \* the address of each device in the server's configuration
  MaxCalls,       \* bound: method calls of the clients
  MaxCrashes,     \* bound: crashes of the server
  MaxBacklog      \* bound: waiting jobs of one update of one device

ASSUME ControllerAssumption ==
  /\ Updates \in Seq({"status", "measured"})
  /\ ConfigAddress \in Entries
  /\ MaxCalls \in Nat /\ MaxCrashes \in Nat /\ MaxBacklog \in Nat

VARIABLES
  life,       \* of the server process
  objects,    \* the controllers that exist
  pc,         \* where each thread is
  building,   \* the device whose controller Main constructs
  target,     \* the local copy of the address in connectDevice
  stream,     \* the address each device is connected to
  params,     \* variable connectionParameters
  status,     \* variable status
  measured,   \* a variable read from the device
  commands,   \* bufferPriority of each device thread
  updates,    \* buffer of each device thread
  wish,       \* history: what the operators last had done to the connection
  calls,      \* history: number of calls
  crashes     \* history: number of crashes

vars == <<recoveryVars, life, objects, pc, building, target, stream, params,
          status, measured, commands, updates, wish, calls, crashes>>

Ops == {"connect", "disconnect", "setConnectionParameters", "operate"}
Job ==
  {j \in [op : Ops, address : Addresses \cup {None}] :
     j.address # None => j.op = "setConnectionParameters"}

(* The steps of connectDevice and of disconnectDevice, the exchange of a   *)
(* device-specific command and that of an update.                          *)
ConnectPcs == {"connect", "check", "enable", "enableWrite", "postConnect"}
DisconnectPcs == {"disable", "disableWrite"}
Pcs == {"idle", "get", "operate", "measure"} \cup ConnectPcs \cup DisconnectPcs

TypeOK ==
  /\ RecoveryTypeOK
  /\ life \in {"down", "starting", "running", "stopping", "released", "crashed"}
  /\ objects \subseteq Devices
  /\ pc \in [Threads -> Pcs]
  /\ building \in Devices \cup {None}
  /\ target \in [Threads -> Addresses \cup {None}]
  /\ stream \in Entries
  /\ params \in Entries
  /\ status \in [Devices -> {"unset", "up", "down"}]
  /\ measured \in [Devices -> {"null", "value"}]
  /\ commands \in [Devices -> Seq(Job)]
  /\ updates \in [Devices -> Seq({"status", "measured"})]
  /\ wish \in [Devices -> {"none", "connected", "disconnected"}]
  /\ calls \in 0 .. MaxCalls
  /\ crashes \in 0 .. MaxCrashes
  /\ \A t \in Threads : pc[t] \in {"check", "enable"} => target[t] # None

(* What a process has in memory before it has built anything.              *)
Empty ==
  /\ objects' = {}
  /\ pc' = [t \in Threads |-> "idle"]
  /\ building' = None
  /\ target' = [t \in Threads |-> None]
  /\ stream' = NoEntries
  /\ params' = NoEntries
  /\ status' = [d \in Devices |-> "unset"]
  /\ measured' = [d \in Devices |-> "null"]
  /\ commands' = [d \in Devices |-> <<>>]
  /\ updates' = [d \in Devices |-> <<>>]

Init ==
  /\ RecoveryInit
  /\ life = "down"
  /\ objects = {}
  /\ pc = [t \in Threads |-> "idle"]
  /\ building = None
  /\ target = [t \in Threads |-> None]
  /\ stream = NoEntries
  /\ params = NoEntries
  /\ status = [d \in Devices |-> "unset"]
  /\ measured = [d \in Devices |-> "null"]
  /\ commands = [d \in Devices |-> <<>>]
  /\ updates = [d \in Devices |-> <<>>]
  /\ wish = [d \in Devices |-> "none"]
  /\ calls = 0
  /\ crashes = 0

(* Groups of variables that most actions leave alone.                      *)
serverVars == <<life, objects, building>>
monitorVars == <<status, measured>>
queueVars == <<commands, updates>>
historyVars == <<wish, calls, crashes>>

(* The device a thread works for, and a step of a thread.                  *)
dev(t) == IF t = Main THEN building ELSE t
Goto(t, p) == pc' = [pc EXCEPT ![t] = p]

(* A communication error: the wrapper of addControllerMethod, or of        *)
(* addVariableUpdate, resets the stream. Otherwise the exchange succeeds.  *)
MayFail(d) == stream' \in {stream, [stream EXCEPT ![d] = None]}

-----------------------------------------------------------------------------
(* connectDevice, on a device thread or, from finalizeInit, on Main.       *)

(* connectDevice without its test for an empty address.                    *)
MutTcpConnect(t) ==
  /\ pc[t] = "connect"
  /\ LET a == params[dev(t)] IN
       /\ target' = [target EXCEPT ![t] = a]
       /\ Goto(t, "check")
       /\ stream' \in {stream, [stream EXCEPT ![dev(t)] = a]}
  /\ UNCHANGED <<recoveryVars, serverVars, params, monitorVars, queueVars, historyVars>>

(* connectDevice without its test of isConnected().                        *)
MutCheckConnected(t) ==
  /\ pc[t] = "check"
  /\ Goto(t, "enable")
  /\ UNCHANGED <<recoveryVars, serverVars, target, stream, params, monitorVars,
                 queueVars, historyVars>>

(* The connection attempt. When it fails the exception is caught, and a    *)
(* device that was connected keeps its old stream. Without an address      *)
(* nothing happens (empty) or the wrapper resets the stream (never set),   *)
(* which is none: a connected device has an address.                       *)
TcpConnect(t) ==
  /\ pc[t] = "connect"
  /\ LET a == params[dev(t)] IN
       \/ /\ a = None
          /\ Goto(t, "idle")
          /\ UNCHANGED <<target, stream>>
       \/ /\ a # None
          /\ target' = [target EXCEPT ![t] = a]
          /\ Goto(t, "check")
          /\ stream' \in {stream, [stream EXCEPT ![dev(t)] = a]}
  /\ UNCHANGED <<recoveryVars, serverVars, params, monitorVars, queueVars, historyVars>>

CheckConnected(t) ==
  /\ pc[t] = "check"
  /\ Goto(t, IF stream[dev(t)] = None THEN "idle" ELSE "enable")
  /\ UNCHANGED <<recoveryVars, serverVars, target, stream, params, monitorVars,
                 queueVars, historyVars>>

Enable(t) ==
  /\ pc[t] = "enable"
  /\ EnableOpen(t, dev(t), target[t])
  /\ Goto(t, "enableWrite")
  /\ UNCHANGED <<serverVars, target, stream, params, monitorVars, queueVars, historyVars>>

EnableWrite(t) ==
  /\ pc[t] = "enableWrite"
  /\ WriteBack(t)
  /\ Goto(t, "postConnect")
  /\ UNCHANGED <<serverVars, target, stream, params, monitorVars, queueVars, historyVars>>

(* getDeviceInfo, postConnect and applyProfile exchange with the device.   *)
PostConnect(t) ==
  /\ pc[t] = "postConnect"
  /\ MayFail(dev(t))
  /\ Goto(t, "idle")
  /\ UNCHANGED <<recoveryVars, serverVars, target, params, monitorVars, queueVars,
                 historyVars>>

Connecting(t) ==
  TcpConnect(t) \/ CheckConnected(t) \/ Enable(t) \/ EnableWrite(t) \/ PostConnect(t)

-----------------------------------------------------------------------------
(* The jobs of the device threads.                                         *)

Ready(d) == d \in objects /\ pc[d] = "idle"

NextCommand(d, op) ==
  /\ Ready(d)
  /\ commands[d] # <<>>
  /\ Head(commands[d]).op = op
  /\ commands' = [commands EXCEPT ![d] = Tail(@)]
  /\ UNCHANGED updates

(* workerLoop taking either queue's head.                                  *)
MutNextUpdate(d, u) ==
  /\ Ready(d)
  /\ updates[d] # <<>>
  /\ Head(updates[d]) = u
  /\ updates' = [updates EXCEPT ![d] = Tail(@)]
  /\ UNCHANGED commands

NextUpdate(d, u) ==
  /\ Ready(d)
  /\ commands[d] = <<>>
  /\ updates[d] # <<>>
  /\ Head(updates[d]) = u
  /\ updates' = [updates EXCEPT ![d] = Tail(@)]
  /\ UNCHANGED commands

Connect(d) ==
  /\ NextCommand(d, "connect")
  /\ Goto(d, "connect")
  /\ wish' = [wish EXCEPT ![d] = "connected"]
  /\ UNCHANGED <<recoveryVars, serverVars, target, stream, params, monitorVars,
                 calls, crashes>>

(* disconnectDevice: reset the stream, then disable the recovery.          *)
Disconnect(d) ==
  /\ NextCommand(d, "disconnect")
  /\ stream' = [stream EXCEPT ![d] = None]
  /\ Goto(d, "disable")
  /\ UNCHANGED <<recoveryVars, serverVars, target, params, monitorVars, historyVars>>

(* disconnectDevice without recovery->disable.                             *)
MutDisable(d) ==
  /\ pc[d] = "disable"
  /\ Goto(d, "idle")
  /\ wish' = [wish EXCEPT ![d] = "disconnected"]
  /\ UNCHANGED <<recoveryVars, serverVars, target, stream, params, monitorVars,
                 queueVars, calls, crashes>>

Disable(d) ==
  /\ pc[d] = "disable"
  /\ \/ /\ DisableOpen(d, d)
        /\ Goto(d, "disableWrite")
        /\ UNCHANGED wish
     \/ /\ DisableAbsent(d)
        /\ Goto(d, "idle")
        /\ wish' = [wish EXCEPT ![d] = "disconnected"]
  /\ UNCHANGED <<serverVars, target, stream, params, monitorVars, queueVars, calls,
                 crashes>>

DisableWrite(d) ==
  /\ pc[d] = "disableWrite"
  /\ WriteBack(d)
  /\ Goto(d, "idle")
  /\ wish' = [wish EXCEPT ![d] = "disconnected"]
  /\ UNCHANGED <<serverVars, target, stream, params, monitorVars, queueVars, calls,
                 crashes>>

(* setConnectionParameters without its test of isConnected().              *)
MutSetConnectionParameters(d) ==
  /\ NextCommand(d, "setConnectionParameters")
  /\ params' = [params EXCEPT ![d] = Head(commands[d]).address]
  /\ UNCHANGED <<recoveryVars, serverVars, pc, target, stream, monitorVars, historyVars>>

(* setConnectionParameters: refused while the device is connected.         *)
SetConnectionParameters(d) ==
  /\ NextCommand(d, "setConnectionParameters")
  /\ params' = IF stream[d] = None
               THEN [params EXCEPT ![d] = Head(commands[d]).address]
               ELSE params
  /\ UNCHANGED <<recoveryVars, serverVars, pc, target, stream, monitorVars, historyVars>>

(* A device-specific method: an exchange, in two steps.                    *)
Operate(d) ==
  /\ NextCommand(d, "operate")
  /\ Goto(d, "operate")
  /\ UNCHANGED <<recoveryVars, serverVars, target, stream, params, monitorVars,
                 historyVars>>

OperateEnd(d) ==
  /\ pc[d] = "operate"
  /\ MayFail(d)
  /\ Goto(d, "idle")
  /\ UNCHANGED <<recoveryVars, serverVars, target, params, monitorVars, queueVars,
                 historyVars>>

(* The update of status, with Protection::None.                            *)
UpdateStatus(d) ==
  /\ NextUpdate(d, "status")
  /\ status' = [status EXCEPT ![d] = IF stream[d] = None THEN "down" ELSE "up"]
  /\ UNCHANGED <<recoveryVars, serverVars, pc, target, stream, params, measured,
                 historyVars>>

(* The protected update without setNull.                                   *)
MutUpdateMeasured(d) ==
  /\ NextUpdate(d, "measured")
  /\ Goto(d, IF stream[d] = None THEN "idle" ELSE "measure")
  /\ UNCHANGED <<recoveryVars, serverVars, target, stream, params, monitorVars,
                 historyVars>>

(* An update with Protection::Connection: null, or an exchange.            *)
UpdateMeasured(d) ==
  /\ NextUpdate(d, "measured")
  /\ \/ /\ stream[d] = None
        /\ measured' = [measured EXCEPT ![d] = "null"]
        /\ UNCHANGED pc
     \/ /\ stream[d] # None
        /\ Goto(d, "measure")
        /\ UNCHANGED measured
  /\ UNCHANGED <<recoveryVars, serverVars, target, stream, params, status, historyVars>>

UpdateMeasuredEnd(d) ==
  /\ pc[d] = "measure"
  /\ \/ /\ measured' = [measured EXCEPT ![d] = "value"]
        /\ UNCHANGED stream
     \/ /\ stream' = [stream EXCEPT ![d] = None]
        /\ UNCHANGED measured
  /\ Goto(d, "idle")
  /\ UNCHANGED <<recoveryVars, serverVars, target, params, status, queueVars, historyVars>>

Worker(d) ==
  \/ Connect(d) \/ Connecting(d)
  \/ Disconnect(d) \/ Disable(d) \/ DisableWrite(d)
  \/ SetConnectionParameters(d)
  \/ Operate(d) \/ OperateEnd(d)
  \/ UpdateStatus(d) \/ UpdateMeasured(d) \/ UpdateMeasuredEnd(d)

-----------------------------------------------------------------------------
(* The server's main thread: start, event loop, stop; and the crash.       *)

Start ==
  /\ life \in {"down", "crashed"}
  /\ life' = "starting"
  /\ UNCHANGED <<recoveryVars, objects, pc, building, target, stream, params,
                 monitorVars, queueVars, historyVars>>

(* init of one controller: addConnection and addVariableUpdate, which      *)
(* pushes each update once at once.                                        *)
Build(d) ==
  /\ life = "starting"
  /\ pc[Main] = "idle"
  /\ d \notin objects
  /\ objects' = objects \cup {d}
  /\ building' = d
  /\ params' = [params EXCEPT ![d] = ConfigAddress[d]]
  /\ updates' = [updates EXCEPT ![d] = Updates]
  /\ Goto(Main, "get")
  /\ UNCHANGED <<recoveryVars, life, target, stream, monitorVars, commands, historyVars>>

(* finalizeInit that does not overwrite the configured parameters.         *)
MutRecover ==
  /\ pc[Main] = "get"
  /\ \E a \in Addresses \cup {None} :
       /\ Found(building, a)
       /\ Goto(Main, IF a = None THEN "idle" ELSE "connect")
  /\ UNCHANGED <<recoveryVars, serverVars, target, stream, params, monitorVars,
                 queueVars, historyVars>>

(* finalizeInit: with an entry, its address becomes the connection         *)
(* parameters and the connect method runs, on this thread.                 *)
Recover ==
  /\ pc[Main] = "get"
  /\ \/ /\ Found(building, None)
        /\ Goto(Main, "idle")
        /\ UNCHANGED params
     \/ \E a \in Addresses :
          /\ Found(building, a)
          /\ params' = [params EXCEPT ![building] = a]
          /\ Goto(Main, "connect")
  /\ UNCHANGED <<recoveryVars, serverVars, target, stream, monitorVars, queueVars,
                 historyVars>>

Run ==
  /\ life = "starting"
  /\ pc[Main] = "idle"
  /\ objects = Devices
  /\ life' = "running"
  /\ UNCHANGED <<recoveryVars, objects, pc, building, target, stream, params,
                 monitorVars, queueVars, historyVars>>

(* A timer of a variable fires: timedCallback pushes the update again.     *)
Tick(d, u) ==
  /\ life = "running"
  /\ Cardinality({i \in DOMAIN updates[d] : updates[d][i] = u}) < MaxBacklog
  /\ updates' = [updates EXCEPT ![d] = Append(@, u)]
  /\ UNCHANGED <<recoveryVars, serverVars, pc, target, stream, params, monitorVars,
                 commands, historyVars>>

(* A client's call has reached the device thread (ServerCalls models how). *)
Call(d, j) ==
  /\ life = "running"
  /\ calls < MaxCalls
  /\ calls' = calls + 1
  /\ commands' = [commands EXCEPT ![d] = Append(@, j)]
  /\ UNCHANGED <<recoveryVars, serverVars, pc, target, stream, params, monitorVars,
                 updates, wish, crashes>>

(* SIGINT or SIGTERM ends the event loop.                                  *)
StopRunning ==
  /\ life = "running"
  /\ life' = "stopping"
  /\ UNCHANGED <<recoveryVars, objects, pc, building, target, stream, params,
                 monitorVars, queueVars, historyVars>>

(* ~DCSServer deletes a controller: its thread finishes the job it runs,   *)
(* the queued ones are dropped.                                            *)
Delete(d) ==
  /\ life \in {"stopping", "released"}
  /\ Ready(d)
  /\ objects' = objects \ {d}
  /\ stream' = [stream EXCEPT ![d] = None]
  /\ params' = [params EXCEPT ![d] = None]
  /\ status' = [status EXCEPT ![d] = "unset"]
  /\ measured' = [measured EXCEPT ![d] = "null"]
  /\ commands' = [commands EXCEPT ![d] = <<>>]
  /\ updates' = [updates EXCEPT ![d] = <<>>]
  /\ UNCHANGED <<recoveryVars, life, pc, building, target, historyVars>>

(* ~DCSServer with the recovery released before the controllers.           *)
MutRelease ==
  /\ life = "stopping"
  /\ RecoveryClear
  /\ life' = "released"
  /\ UNCHANGED <<objects, pc, building, target, stream, params, monitorVars, queueVars,
                 historyVars>>

(* The recovery is destroyed after the controllers.                        *)
Release ==
  /\ life = "stopping"
  /\ objects = {}
  /\ RecoveryClear
  /\ life' = "released"
  /\ UNCHANGED <<objects, pc, building, target, stream, params, monitorVars, queueVars,
                 historyVars>>

(* main returns.                                                           *)
Exit ==
  /\ life = "released"
  /\ objects = {}
  /\ life' = "down"
  /\ Empty
  /\ UNCHANGED <<recoveryVars, historyVars>>

Crash ==
  /\ life \in {"starting", "running", "stopping", "released"}
  /\ crashes < MaxCrashes
  /\ crashes' = crashes + 1
  /\ life' = "crashed"
  /\ RecoveryCrash
  /\ Empty
  /\ UNCHANGED <<wish, calls>>

Next ==
  \/ \E d \in Devices : Worker(d)
  \/ Start
  \/ \E d \in Devices : Build(d)
  \/ Recover
  \/ Connecting(Main)
  \/ Run
  \/ \E d \in Devices, u \in Range(Updates) : Tick(d, u)
  \/ \E d \in Devices, j \in Job : Call(d, j)
  \/ StopRunning
  \/ \E d \in Devices : Delete(d)
  \/ Release
  \/ Exit
  \/ Crash

Spec == Init /\ [][Next]_vars

(* Threads that can run do, timers keep firing and a server that is down   *)
(* is started again; clients need not call and nothing has to stop or      *)
(* crash.                                                                  *)
Fairness ==
  /\ \A d \in Devices : WF_vars(Worker(d))
  /\ \A d \in Devices, u \in Range(Updates) : WF_vars(Tick(d, u))
  /\ WF_vars(Start)
  /\ WF_vars(\E d \in Devices : Build(d))
  /\ WF_vars(Recover \/ Connecting(Main) \/ Run)
  /\ WF_vars(\E d \in Devices : Delete(d))
  /\ WF_vars(Release) /\ WF_vars(Exit)

FairSpec == Spec /\ Fairness

-----------------------------------------------------------------------------
(* A thread changes the connection of d: connect or disconnect under way.  *)
Switching(d) ==
  \/ pc[d] \in ConnectPcs \cup DisconnectPcs
  \/ building = d /\ pc[Main] \in ConnectPcs

(* A connected device that nobody is connecting or disconnecting is        *)
(* recorded under the address it is connected to, which is also the one    *)
(* its connectionParameters show: a crash at any such moment, even while   *)
(* another device's entry is changed, costs no more than the connection.   *)
ConnectedIsRecorded ==
  \A d \in Devices :
    stream[d] # None /\ ~Switching(d) =>
      Recorded[d] = stream[d] /\ params[d] = stream[d]

(* A device that an operator disconnected, and has not connected again, is *)
(* not connected and not recorded: no crash and no restart, and no change  *)
(* of another device's entry, connects it again.                           *)
DisconnectedStays ==
  \A d \in Devices :
    wish[d] = "disconnected" => stream[d] = None /\ Recorded[d] = None /\ file[d] = None

(* After a shutdown that was not a crash nothing is recorded.              *)
CleanExitForgets == life = "down" => file = NoEntries

(* A server that enters its event loop has gone, for every device with an  *)
(* entry, by the address in that entry.                                    *)
StartRecovers ==
  [][Run => \A d \in Devices : file[d] # None => params[d] = file[d]]_vars

(* The monitored variables of a device that stays disconnected end up      *)
(* saying so: status false, measured values null.                          *)
MonitoringTellsDisconnect ==
  \A d \in Devices :
    <>[](life = "running" /\ stream[d] = None) =>
      <>[]( /\ "status" \in Range(Updates) => status[d] = "down"
            /\ "measured" \in Range(Updates) => measured[d] = "null")

(* A queued disconnect disconnects the device, however much monitoring is  *)
(* queued, unless the server stops first.                                  *)
DisconnectHappens ==
  \A d \in Devices :
    (\E i \in DOMAIN commands[d] : commands[d][i].op = "disconnect")
      ~> stream[d] = None \/ life # "running"

(* What the comment on addControllerMethod says of every method of a       *)
(* device ("will be wrapped for execution in device worker thread"): no    *)
(* other thread exchanges with a device while its own one does.            *)
OneThreadExchanges ==
  \A d \in Devices :
    ~(/\ pc[d] \in {"measure", "operate", "postConnect"}
      /\ pc[Main] = "postConnect" /\ building = d)
=============================================================================
