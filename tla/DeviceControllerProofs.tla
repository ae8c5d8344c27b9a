------------------------ MODULE DeviceControllerProofs ------------------------
(***************************************************************************)
(* DeviceController for all sets of devices and addresses: connections,    *)
(* parameters and recovery file agree through crashes and restarts.        *)
(***************************************************************************)
EXTENDS DeviceController, TLAPS

(* Main works for a controller it has built, and only before the server    *)
(* runs.                                                                   *)
MainOK ==
  /\ pc[Main] \in {"idle", "get"} \cup ConnectPcs
  /\ pc[Main] # "idle" => life = "starting" /\ building \in objects
  /\ pc[Main] = "get" => stream[building] = None

(* A device thread exists as long as its controller, and has no command    *)
(* before the server runs.                                                 *)
DevicesOK ==
  /\ life \in {"down", "crashed", "released"} => objects = {}
  /\ \A d \in Devices :
       /\ pc[d] # "get"
       /\ d \notin objects => pc[d] = "idle" /\ stream[d] = None
       /\ life \in {"down", "crashed", "starting"} =>
            commands[d] = <<>> /\ pc[d] \in {"idle", "measure"}

(* The mutex is held exactly inside enable and disable.                    *)
MutexOK ==
  /\ \A t \in Threads : mutex = t <=> pc[t] \in {"enableWrite", "disableWrite"}
  /\ \A t \in Threads : pc[t] = "enableWrite" => pending[dev(t)] = target[t]
  /\ \A d \in Devices : pc[d] = "disableWrite" => pending[d] = None
  /\ mutex # None => file = NoEntries

(* The address does not change while a thread connects to it.              *)
TargetOK ==
  \A t \in Threads :
    pc[t] \in {"check", "enable", "enableWrite", "postConnect"} =>
      target[t] = params[dev(t)] /\ target[t] # None

StreamOK == \A d \in Devices : stream[d] # None => stream[d] = params[d]

(* ConnectedIsRecorded, and what establishes it at the end of a connect.   *)
RecordedOK ==
  /\ \A d \in Devices : stream[d] # None /\ ~Switching(d) => Recorded[d] = stream[d]
  /\ \A t \in Threads : pc[t] = "postConnect" => Recorded[dev(t)] = params[dev(t)]

(* DisconnectedStays, and that no thread is about to connect.              *)
WishOK ==
  \A d \in Devices :
    /\ pc[d] \in DisconnectPcs => stream[d] = None
    /\ wish[d] = "disconnected" =>
         /\ stream[d] = None /\ Recorded[d] = None /\ file[d] = None
         /\ pc[d] \notin ConnectPcs
         /\ building = d => pc[Main] \notin ConnectPcs

ExitOK == life \in {"released", "down"} => file = NoEntries

(* While the server starts, a controller that was built has the address in *)
(* the file, if there is one.                                              *)
StartOK ==
  life = "starting" =>
    \A d \in objects :
      \/ building = d /\ pc[Main] = "get"
      \/ Recorded[d] \in {None, params[d]}

IndInv ==
  /\ TypeOK
  /\ MainOK
  /\ DevicesOK
  /\ MutexOK
  /\ TargetOK
  /\ StreamOK
  /\ RecordedOK
  /\ WishOK
  /\ ExitOK
  /\ StartOK

-----------------------------------------------------------------------------
(* What the queues give and take, and the values a step can write.         *)
LEMMA SeqFacts ==
  ASSUME NEW S, NEW q \in Seq(S)
  PROVE  /\ q # <<>> => Head(q) \in S /\ Tail(q) \in Seq(S)
         /\ \A e \in S : Append(q, e) \in Seq(S)
         /\ \A e \in Range(q) : e \in S
  BY DEF Range

LEMMA PcsFacts ==
  /\ "idle" \in Pcs /\ "get" \in Pcs /\ "operate" \in Pcs /\ "measure" \in Pcs
  /\ "connect" \in Pcs /\ "check" \in Pcs /\ "enable" \in Pcs /\ "enableWrite" \in Pcs
  /\ "postConnect" \in Pcs /\ "disable" \in Pcs /\ "disableWrite" \in Pcs
  BY DEF Pcs, ConnectPcs, DisconnectPcs

LEMMA JobFacts ==
  ASSUME NEW j \in Job
  PROVE  j.address \in Addresses \cup {None}
  BY DEF Job

(* A thread that connects works for a device.                              *)
LEMMA ConnectingDevice ==
  ASSUME TypeOK, MainOK, NEW t \in Threads, pc[t] \in ConnectPcs
  PROVE  dev(t) \in Devices
  BY DEF TypeOK, MainOK, Threads, dev, ConnectPcs

LEMMA TakesCommand ==
  ASSUME TypeOK, NEW d \in Devices, NEW op, NextCommand(d, op)
  PROVE  /\ Head(commands[d]) \in Job
         /\ commands' \in [Devices -> Seq(Job)]
         /\ UNCHANGED updates
         /\ pc[d] = "idle" /\ d \in objects /\ commands[d] # <<>>
  <1>1. commands[d] \in Seq(Job) /\ commands[d] # <<>>
    BY DEF TypeOK, NextCommand
  <1>2. Head(commands[d]) \in Job /\ Tail(commands[d]) \in Seq(Job)
    BY <1>1, SeqFacts
  <1> QED
    BY <1>1, <1>2 DEF TypeOK, NextCommand, Ready

LEMMA TakesUpdate ==
  ASSUME TypeOK, NEW d \in Devices, NEW u, NextUpdate(d, u)
  PROVE  /\ updates' \in [Devices -> Seq({"status", "measured"})]
         /\ UNCHANGED commands
         /\ pc[d] = "idle" /\ d \in objects
  <1>1. updates[d] \in Seq({"status", "measured"}) /\ updates[d] # <<>>
    BY DEF TypeOK, NextUpdate
  <1>2. Tail(updates[d]) \in Seq({"status", "measured"})
    BY <1>1, SeqFacts
  <1> QED
    BY <1>1, <1>2 DEF TypeOK, NextUpdate, Ready

-----------------------------------------------------------------------------
(* Steps of several actions. A step that touches neither threads nor       *)
(* connections nor the file, and no queue of commands before the server    *)
(* runs, keeps the invariant.                                              *)
LEMMA QuietStep ==
  ASSUME IndInv, TypeOK', commands' = commands \/ life = "running",
         UNCHANGED <<recoveryVars, serverVars, pc, target, stream, params, wish>>
  PROVE  IndInv'
  <1>1. /\ UNCHANGED <<file, pending, mutex, life, objects, building>>
        /\ UNCHANGED <<pc, target, stream, params, wish>>
        /\ \A s : dev(s)' = dev(s)
    BY DEF recoveryVars, serverVars, dev
  <1>2. MainOK' /\ DevicesOK'
    BY <1>1 DEF IndInv, MainOK, DevicesOK
  <1>3. MutexOK' /\ TargetOK' /\ StreamOK'
    BY <1>1 DEF IndInv, MutexOK, TargetOK, StreamOK
  <1>4. RecordedOK' /\ WishOK' /\ ExitOK' /\ StartOK'
    BY <1>1 DEF IndInv, RecordedOK, WishOK, ExitOK, StartOK, Recorded, Switching
  <1> QED
    BY <1>2, <1>3, <1>4 DEF IndInv

(* The life of the process goes on: nothing else changes.                  *)
LEMMA LifeStep ==
  ASSUME IndInv, TypeOK', pc[Main] = "idle",
         \/ life \in {"down", "crashed"} /\ life' = "starting"
         \/ life = "starting" /\ life' = "running"
         \/ life = "running" /\ life' = "stopping",
         UNCHANGED <<recoveryVars, objects, pc, building, target, stream, params,
                     commands, wish>>
  PROVE  IndInv'
  <1>1. /\ UNCHANGED <<file, pending, mutex, objects, building, commands>>
        /\ UNCHANGED <<pc, target, stream, params, wish>>
        /\ \A s : dev(s)' = dev(s)
    BY DEF recoveryVars, dev
  <1>2. MainOK' /\ DevicesOK'
    BY <1>1 DEF IndInv, MainOK, DevicesOK
  <1>3. MutexOK' /\ TargetOK' /\ StreamOK'
    BY <1>1 DEF IndInv, MutexOK, TargetOK, StreamOK
  <1>4. RecordedOK' /\ WishOK'
    BY <1>1 DEF IndInv, RecordedOK, WishOK, Recorded, Switching
  <1>5. ExitOK' /\ StartOK'
    BY <1>1 DEF IndInv, ExitOK, StartOK, Recorded, DevicesOK
  <1> QED
    BY <1>2, <1>3, <1>4, <1>5 DEF IndInv

(* A device thread goes from p to q outside enable and disable; it may     *)
(* reset its stream.                                                       *)
LEMMA DeviceStep ==
  ASSUME IndInv, TypeOK', NEW d \in Devices, d \in objects,
         NEW q, q \in {"idle", "operate", "measure", "connect", "disable"},
         pc[d] \in {"idle", "operate", "measure", "postConnect"},
         pc' = [pc EXCEPT ![d] = q],
         life \in {"down", "crashed", "starting"} =>
           commands' = commands /\ q \in {"idle", "measure"},
         stream' \in {stream, [stream EXCEPT ![d] = None]},
         q = "disable" => stream'[d] = None,
         q # "connect" => UNCHANGED wish,
         q = "connect" => wish' = [wish EXCEPT ![d] = "connected"],
         UNCHANGED <<recoveryVars, serverVars, target, params>>
  PROVE  IndInv'
  <1>1. /\ UNCHANGED <<file, pending, mutex, life, objects, building, target, params>>
        /\ \A s : dev(s)' = dev(s)
        /\ UNCHANGED Recorded
    BY DEF recoveryVars, serverVars, dev, Recorded
  <1>2. /\ \A s \in Threads \ {d} : pc'[s] = pc[s]
        /\ pc'[d] = q
        /\ d \in Threads /\ d # Main /\ Main \in Threads
    BY RecoveryAssumption DEF IndInv, TypeOK, Threads
  <1>3. \A e \in Devices : stream'[e] = stream[e] \/ stream'[e] = None
    BY DEF IndInv, TypeOK, RecoveryTypeOK, Entries
  <1>4. \A e \in Devices \ {d} : wish'[e] = wish[e] /\ stream'[e] = stream[e]
    BY DEF IndInv, TypeOK, Entries
  <1>5. MainOK' /\ DevicesOK'
    <2>1. MainOK'
      <3>1. pc'[Main] = pc[Main]
        BY <1>2
      <3>2. pc[Main] = "get" => stream'[building] = None
        <4>1. pc[Main] = "get" => building \in Devices
          BY DEF IndInv, TypeOK, MainOK
        <4> QED
          BY <4>1, <1>3 DEF IndInv, MainOK
      <3> QED
        BY <3>1, <3>2, <1>1 DEF IndInv, MainOK
    <2>2. life' \in {"down", "crashed", "released"} => objects' = {}
      BY <1>1 DEF IndInv, DevicesOK
    <2>3. ASSUME NEW e \in Devices
          PROVE  /\ pc'[e] # "get"
                 /\ e \notin objects' => pc'[e] = "idle" /\ stream'[e] = None
                 /\ life' \in {"down", "crashed", "starting"} =>
                      commands'[e] = <<>> /\ pc'[e] \in {"idle", "measure"}
      <3>1. /\ pc[e] # "get"
            /\ e \notin objects => pc[e] = "idle" /\ stream[e] = None
            /\ life \in {"down", "crashed", "starting"} =>
                 commands[e] = <<>> /\ pc[e] \in {"idle", "measure"}
        BY DEF IndInv, DevicesOK
      <3>2. CASE e = d
        BY <3>1, <3>2, <1>1, <1>2
      <3>3. CASE e # d
        <4>1. pc'[e] = pc[e] /\ (stream'[e] = stream[e] \/ stream'[e] = None)
          BY <3>3, <1>2, <1>3 DEF Threads
        <4> QED
          BY <4>1, <3>1, <1>1
      <3> QED
        BY <3>2, <3>3
    <2> QED
      BY <2>1, <2>2, <2>3 DEF DevicesOK
  <1>6. MutexOK' /\ TargetOK' /\ StreamOK'
    BY <1>1, <1>2, <1>3 DEF IndInv, MutexOK, TargetOK, StreamOK, Threads
  <1>7. RecordedOK'
    <2>1. ASSUME NEW e \in Devices, stream'[e] # None, ~Switching(e)'
          PROVE  Recorded'[e] = stream'[e]
      <3>1. CASE pc[d] = "postConnect" /\ e = d
        BY <2>1, <3>1, <1>1, <1>2, <1>3 DEF IndInv, RecordedOK, StreamOK, dev
      <3>2. CASE pc[d] # "postConnect" \/ e # d
        BY <2>1, <3>2, <1>1, <1>2, <1>3
           DEF IndInv, RecordedOK, Switching, ConnectPcs, DisconnectPcs, Threads
      <3> QED
        BY <3>1, <3>2
    <2>2. \A s \in Threads : pc'[s] = "postConnect" => Recorded'[dev(s)'] = params'[dev(s)']
      BY <1>1, <1>2 DEF IndInv, RecordedOK
    <2> QED
      BY <2>1, <2>2 DEF RecordedOK
  <1>8. WishOK'
    <2>1. pc'[Main] = pc[Main] /\ (d \in Threads /\ pc'[d] = q)
      BY <1>2
    <2>2. ASSUME NEW e \in Devices
          PROVE  /\ pc'[e] \in DisconnectPcs => stream'[e] = None
                 /\ wish'[e] = "disconnected" =>
                      /\ stream'[e] = None /\ Recorded'[e] = None /\ file'[e] = None
                      /\ pc'[e] \notin ConnectPcs
                      /\ building' = e => pc'[Main] \notin ConnectPcs
      <3>1. /\ pc[e] \in DisconnectPcs => stream[e] = None
            /\ wish[e] = "disconnected" =>
                 /\ stream[e] = None /\ Recorded[e] = None /\ file[e] = None
                 /\ pc[e] \notin ConnectPcs
                 /\ building = e => pc[Main] \notin ConnectPcs
        BY DEF IndInv, WishOK
      <3>2. CASE e = d
        <4>1. q = "connect" => wish'[d] = "connected"
          BY DEF IndInv, TypeOK
        <4>2. q # "connect" => wish'[d] = wish[d] /\ q \notin ConnectPcs
          BY DEF ConnectPcs
        <4>3. q \in DisconnectPcs => q = "disable"
          BY DEF DisconnectPcs
        <4>4. stream[d] = None => stream'[d] = None
          BY <1>3
        <4> QED
          BY <4>1, <4>2, <4>3, <4>4, <3>1, <3>2, <2>1, <1>1
      <3>3. CASE e # d
        <4>1. pc'[e] = pc[e]
          BY <3>3, <1>2 DEF Threads
        <4> QED
          BY <4>1, <3>1, <3>3, <2>1, <1>1, <1>4
      <3> QED
        BY <3>2, <3>3
    <2> QED
      BY <2>2 DEF WishOK
  <1>9. ExitOK' /\ StartOK'
    BY <1>1, <1>2 DEF IndInv, ExitOK, StartOK
  <1> QED
    BY <1>5, <1>6, <1>7, <1>8, <1>9 DEF IndInv

-----------------------------------------------------------------------------
(* connectDevice.                                                          *)
LEMMA TcpConnectStep ==
  ASSUME IndInv, NEW t \in Threads, TcpConnect(t)
  PROVE  IndInv'
  <1>1. dev(t) \in Devices /\ pc[t] = "connect"
    BY ConnectingDevice DEF IndInv, TcpConnect, ConnectPcs
  <1>2. params[dev(t)] \in Addresses \cup {None}
    BY <1>1 DEF IndInv, TypeOK, Entries
  <1>3. /\ \A s \in Threads \ {t} : pc'[s] = pc[s] /\ target'[s] = target[s]
        /\ \/ /\ params[dev(t)] = None /\ stream' = stream
              /\ pc'[t] = "idle" /\ target'[t] = target[t]
           \/ /\ params[dev(t)] # None
              /\ pc'[t] = "check" /\ target'[t] = params[dev(t)]
    BY DEF IndInv, TcpConnect, TypeOK, Goto
  <1>4. \A e \in Devices :
          \/ stream'[e] = stream[e]
          \/ e = dev(t) /\ stream'[e] = params[e] /\ pc'[t] = "check"
    <2>1. \/ stream' = stream
          \/ stream' = [stream EXCEPT ![dev(t)] = params[dev(t)]] /\ pc'[t] = "check"
      BY <1>3 DEF TcpConnect
    <2>2. stream \in [Devices -> Addresses \cup {None}]
      BY DEF IndInv, TypeOK, Entries
    <2>3. CASE stream' = stream
      BY <2>3
    <2>4. CASE stream' # stream
      BY <1>1, <2>1, <2>2, <2>4
    <2> QED
      BY <2>3, <2>4
  <1>5. /\ UNCHANGED <<building, life, objects, params, mutex, file, pending, commands, wish>>
        /\ UNCHANGED <<status, measured, updates, calls, crashes, Recorded>>
        /\ \A s : dev(s)' = dev(s)
    BY DEF TcpConnect, dev, Recorded, recoveryVars, serverVars, monitorVars, queueVars,
           historyVars
  <1>6. TypeOK'
    <2>1. pc' \in [Threads -> Pcs]
      BY PcsFacts DEF IndInv, TcpConnect, Goto, TypeOK
    <2>2. target' \in [Threads -> Addresses \cup {None}] /\ stream' \in Entries
      BY <1>1, <1>2 DEF IndInv, TcpConnect, TypeOK, Entries
    <2> QED
      BY <2>1, <2>2, <1>3, <1>5 DEF IndInv, TypeOK, RecoveryTypeOK
  <1>7. MainOK' /\ DevicesOK'
    <2>1. t # Main => life \notin {"down", "crashed", "starting"} /\ t \in objects
      BY <1>1 DEF IndInv, DevicesOK, Threads
    <2>2. t = Main => life = "starting" /\ building \in objects /\ dev(t) = building
      BY <1>1 DEF IndInv, MainOK, dev
    <2>3. t # Main => dev(t) = t
      BY DEF dev
    <2>4. MainOK'
      BY <1>1, <1>3, <1>4, <1>5, <2>1, <2>2 DEF IndInv, MainOK, ConnectPcs, Threads
    <2>5. DevicesOK'
      BY <1>1, <1>3, <1>4, <1>5, <2>1, <2>2, <2>3, RecoveryAssumption
         DEF IndInv, DevicesOK, Threads
    <2> QED
      BY <2>4, <2>5
  <1>8. MutexOK' /\ TargetOK' /\ StreamOK'
    <2>1. MutexOK'
      BY <1>1, <1>3, <1>5 DEF IndInv, MutexOK, Threads
    <2>2. TargetOK'
      BY <1>1, <1>3, <1>5 DEF IndInv, TargetOK
    <2>3. StreamOK'
      BY <1>4, <1>5 DEF IndInv, StreamOK
    <2> QED
      BY <2>1, <2>2, <2>3
  <1>9. RecordedOK'
    BY <1>1, <1>3, <1>4, <1>5, RecoveryAssumption
       DEF IndInv, RecordedOK, Switching, ConnectPcs, DisconnectPcs, dev, Threads,
           MainOK, StreamOK
  <1>10. WishOK'
    <2>1. \A e \in Devices : stream'[e] # stream[e] =>
            wish[e] # "disconnected" /\ pc'[e] \notin DisconnectPcs
      BY <1>1, <1>3, <1>4
         DEF IndInv, WishOK, DevicesOK, MainOK, ConnectPcs, DisconnectPcs, dev, Threads
    <2> QED
      BY <1>1, <1>3, <1>5, <2>1, RecoveryAssumption
         DEF IndInv, WishOK, ConnectPcs, DisconnectPcs, Threads
  <1>11. ExitOK' /\ StartOK'
    BY <1>1, <1>3, <1>5 DEF IndInv, ExitOK, StartOK, Threads
  <1> QED
    BY <1>6, <1>7, <1>8, <1>9, <1>10, <1>11 DEF IndInv

LEMMA CheckConnectedStep ==
  ASSUME IndInv, NEW t \in Threads, CheckConnected(t)
  PROVE  IndInv'
  <1>1. /\ dev(t) \in Devices /\ pc[t] = "check"
        /\ \A s \in Threads \ {t} : pc'[s] = pc[s]
        /\ pc'[t] = IF stream[dev(t)] = None THEN "idle" ELSE "enable"
    BY ConnectingDevice DEF IndInv, CheckConnected, TypeOK, Goto, ConnectPcs
  <1>2. /\ UNCHANGED <<building, life, objects, params, mutex, file, pending, commands, wish>>
        /\ UNCHANGED <<target, stream, status, measured, updates, calls, crashes, Recorded>>
        /\ \A s : dev(s)' = dev(s)
    BY DEF CheckConnected, dev, Recorded, recoveryVars, serverVars, monitorVars, queueVars,
           historyVars
  <1>3. TypeOK'
    <2>1. pc' \in [Threads -> Pcs]
      BY PcsFacts DEF IndInv, CheckConnected, Goto, TypeOK
    <2> QED
      BY <2>1, <1>1, <1>2 DEF IndInv, TypeOK, RecoveryTypeOK
  <1>4. MainOK' /\ DevicesOK'
    BY <1>1, <1>2, RecoveryAssumption DEF IndInv, MainOK, DevicesOK, ConnectPcs, Threads
  <1>5. MutexOK' /\ TargetOK' /\ StreamOK'
    BY <1>1, <1>2 DEF IndInv, MutexOK, TargetOK, StreamOK, Threads
  <1>6. RecordedOK'
    BY <1>1, <1>2, RecoveryAssumption
       DEF IndInv, RecordedOK, Switching, ConnectPcs, DisconnectPcs, dev, Threads
  <1>7. WishOK'
    BY <1>1, <1>2, RecoveryAssumption
       DEF IndInv, WishOK, ConnectPcs, DisconnectPcs, Threads
  <1>8. ExitOK' /\ StartOK'
    BY <1>1, <1>2 DEF IndInv, ExitOK, StartOK, Threads
  <1> QED
    BY <1>3, <1>4, <1>5, <1>6, <1>7, <1>8 DEF IndInv

(* The last step of connectDevice on Main; on a device it is a DeviceStep. *)
LEMMA PostConnectStep ==
  ASSUME IndInv, NEW t \in Threads, PostConnect(t)
  PROVE  IndInv'
  <1>1. /\ dev(t) \in Devices /\ pc[t] = "postConnect"
        /\ pc' = [pc EXCEPT ![t] = "idle"]
        /\ stream' \in {stream, [stream EXCEPT ![dev(t)] = None]}
    BY ConnectingDevice DEF IndInv, PostConnect, MayFail, Goto, ConnectPcs
  <1>2. /\ UNCHANGED <<building, life, objects, params, mutex, file, pending, commands, wish>>
        /\ UNCHANGED <<target, status, measured, updates, calls, crashes, Recorded>>
        /\ \A s : dev(s)' = dev(s)
    BY DEF PostConnect, dev, Recorded, recoveryVars, serverVars, monitorVars, queueVars,
           historyVars
  <1>3. TypeOK'
    <2>1. pc' \in [Threads -> Pcs] /\ stream' \in Entries
      BY PcsFacts, <1>1 DEF IndInv, TypeOK, Entries
    <2>2. \A s \in Threads : pc'[s] \in {"check", "enable"} => target'[s] # None
      BY <1>1, <1>2 DEF IndInv, TypeOK
    <2> QED
      BY <2>1, <2>2, <1>2 DEF IndInv, TypeOK, RecoveryTypeOK
  <1>4. CASE t \in Devices
    <2>1. dev(t) = t /\ t \in objects /\ life \notin {"down", "crashed", "starting"}
      BY <1>1, <1>4, RecoveryAssumption DEF IndInv, DevicesOK, dev
    <2>2. UNCHANGED <<recoveryVars, serverVars, target, params, commands, wish>>
      BY DEF PostConnect, queueVars, historyVars
    <2> QED
      BY <1>1, <1>3, <1>4, <2>1, <2>2, DeviceStep
  <1>5. CASE t = Main
    <2>1. /\ dev(t) = building
          /\ \A s \in Threads \ {Main} : pc'[s] = pc[s]
          /\ pc'[Main] = "idle" /\ pc[Main] = "postConnect"
      BY <1>1, <1>5 DEF IndInv, TypeOK, dev
    <2>2. \A e \in Devices : stream'[e] = stream[e] \/ stream'[e] = None
      BY <1>1 DEF IndInv, TypeOK, Entries
    <2>3. MainOK' /\ DevicesOK'
      BY <1>2, <2>1, <2>2, RecoveryAssumption DEF IndInv, MainOK, DevicesOK, Threads
    <2>4. MutexOK' /\ TargetOK' /\ StreamOK'
      BY <1>2, <2>1, <2>2 DEF IndInv, MutexOK, TargetOK, StreamOK, Threads
    <2>5. Recorded[building] = params[building]
      BY <1>1, <1>5, <2>1 DEF IndInv, RecordedOK
    <2>6. RecordedOK'
      BY <1>1, <1>2, <2>1, <2>2, <2>5, RecoveryAssumption
         DEF IndInv, RecordedOK, StreamOK, Switching, ConnectPcs, Threads
    <2>7. WishOK'
      BY <1>2, <2>1, <2>2, RecoveryAssumption DEF IndInv, WishOK, ConnectPcs, Threads
    <2>8. ExitOK' /\ StartOK'
      BY <1>2, <2>1 DEF IndInv, ExitOK, StartOK
    <2> QED
      BY <1>3, <2>3, <2>4, <2>6, <2>7, <2>8 DEF IndInv
  <1> QED
    BY <1>4, <1>5 DEF Threads

-----------------------------------------------------------------------------
(* enable and disable, which hold the mutex from the truncation of the     *)
(* file to the end of its writing.                                         *)
LEMMA EnableStep ==
  ASSUME IndInv, NEW t \in Threads, Enable(t)
  PROVE  IndInv'
  <1>1. /\ dev(t) \in Devices /\ pc[t] = "enable" /\ t # None
        /\ \A s \in Threads \ {t} : pc'[s] = pc[s]
        /\ pc'[t] = "enableWrite"
    BY ConnectingDevice, RecoveryAssumption
       DEF IndInv, Enable, TypeOK, Goto, ConnectPcs, Threads
  <1>2. /\ mutex = None /\ mutex' = t /\ file' = NoEntries
        /\ pending' = [file EXCEPT ![dev(t)] = target[t]]
        /\ pending'[dev(t)] = target[t]
        /\ \A e \in Devices \ {dev(t)} : pending'[e] = file[e]
    BY <1>1 DEF Enable, EnableOpen, IndInv, TypeOK, RecoveryTypeOK, Entries
  <1>3. /\ UNCHANGED <<building, life, objects, params, commands, wish>>
        /\ UNCHANGED <<target, stream, status, measured, updates, calls, crashes>>
        /\ \A s : dev(s)' = dev(s)
    BY DEF Enable, dev, serverVars, monitorVars, queueVars, historyVars
  <1>4. /\ \A e \in Devices \ {dev(t)} : Recorded'[e] = Recorded[e]
        /\ Recorded'[dev(t)] = params[dev(t)]
        /\ params[dev(t)] # None
    BY <1>1, <1>2 DEF Recorded, IndInv, TargetOK
  <1>5. TypeOK'
    <2>1. pc' \in [Threads -> Pcs]
      BY PcsFacts DEF IndInv, Enable, Goto, TypeOK
    <2>2. target[t] \in Addresses \cup {None}
      BY DEF IndInv, TypeOK
    <2>3. RecoveryTypeOK'
      BY <1>1, <1>2, <2>2 DEF IndInv, TypeOK, RecoveryTypeOK, Entries, NoEntries
    <2> QED
      BY <2>1, <2>3, <1>1, <1>3 DEF IndInv, TypeOK
  <1>6. MainOK' /\ DevicesOK'
    BY <1>1, <1>3, RecoveryAssumption DEF IndInv, MainOK, DevicesOK, ConnectPcs, Threads
  <1>7. MutexOK' /\ TargetOK' /\ StreamOK'
    <2>1. MutexOK'
      BY <1>1, <1>2, <1>3, RecoveryAssumption DEF IndInv, MutexOK, Threads
    <2>2. TargetOK' /\ StreamOK'
      BY <1>1, <1>3 DEF IndInv, TargetOK, StreamOK
    <2> QED
      BY <2>1, <2>2
  <1>8. RecordedOK'
    BY <1>1, <1>3, <1>4, RecoveryAssumption
       DEF IndInv, RecordedOK, Switching, ConnectPcs, DisconnectPcs, dev, Threads, MainOK,
           DevicesOK
  <1>9. WishOK'
    <2>1. wish[dev(t)] # "disconnected"
      BY <1>1 DEF IndInv, WishOK, ConnectPcs, dev, Threads
    <2>2. \A e \in Devices : NoEntries[e] = None
      BY DEF NoEntries
    <2> QED
      BY <1>1, <1>2, <1>3, <1>4, <2>1, <2>2, RecoveryAssumption
         DEF IndInv, WishOK, ConnectPcs, DisconnectPcs, Threads
  <1>10. ExitOK'
    BY <1>2 DEF ExitOK
  <1>11. StartOK'
    <2>1. \A e \in objects : building = e /\ pc[Main] = "get" => pc'[Main] = "get"
      BY <1>1 DEF Threads
    <2> QED
      BY <1>3, <1>4, <2>1 DEF IndInv, TypeOK, StartOK
  <1> QED
    BY <1>5, <1>6, <1>7, <1>8, <1>9, <1>10, <1>11 DEF IndInv

LEMMA DisableStep ==
  ASSUME IndInv, NEW d \in Devices, Disable(d)
  PROVE  IndInv'
  <1>1. /\ \A s \in Threads \ {d} : pc'[s] = pc[s]
        /\ pc[d] = "disable" /\ mutex = None /\ d # None /\ d # Main /\ d \in Threads
        /\ \/ pc'[d] = "idle" /\ UNCHANGED <<file, pending, mutex>> /\ file[d] = None
           \/ /\ pc'[d] = "disableWrite" /\ wish' = wish
              /\ mutex' = d /\ file' = NoEntries
              /\ pending' = [file EXCEPT ![d] = None]
    BY RecoveryAssumption
       DEF IndInv, Disable, TypeOK, Goto, DisableOpen, DisableAbsent, recoveryVars, Threads
  <1>2. /\ UNCHANGED <<building, life, objects, params, commands, target, stream>>
        /\ UNCHANGED <<status, measured, updates, calls, crashes>>
        /\ \A s : dev(s)' = dev(s)
        /\ \A e \in Devices \ {d} : wish'[e] = wish[e]
    BY DEF IndInv, TypeOK, Disable, dev, serverVars, monitorVars, queueVars
  <1>3. /\ \A e \in Devices \ {d} : Recorded'[e] = Recorded[e]
        /\ Recorded'[d] = None
    BY <1>1, RecoveryAssumption
       DEF IndInv, TypeOK, RecoveryTypeOK, Recorded, Entries
  <1>4. TypeOK'
    <2>1. pc' \in [Threads -> Pcs]
      BY PcsFacts DEF IndInv, Disable, Goto, TypeOK
    <2>2. wish' \in [Devices -> {"none", "connected", "disconnected"}]
      BY DEF IndInv, Disable, TypeOK
    <2>3. RecoveryTypeOK'
      BY <1>1 DEF IndInv, TypeOK, RecoveryTypeOK, Entries, NoEntries
    <2> QED
      BY <2>1, <2>2, <2>3, <1>1, <1>2 DEF IndInv, TypeOK
  <1>5. life \notin {"down", "crashed", "starting"} /\ d \in objects /\ stream[d] = None
    BY <1>1 DEF IndInv, DevicesOK, WishOK, DisconnectPcs
  <1>6. MainOK' /\ DevicesOK'
    BY <1>1, <1>2, <1>5 DEF IndInv, MainOK, DevicesOK, Threads
  <1>7. MutexOK'
    <2>1. CASE pc'[d] = "idle"
      BY <1>1, <1>2, <2>1 DEF IndInv, MutexOK, Threads
    <2>2. CASE pc'[d] = "disableWrite"
      <3>1. pending'[d] = None /\ mutex' = d /\ file' = NoEntries
        BY <1>1, <2>2 DEF IndInv, TypeOK, RecoveryTypeOK, Entries
      <3>2. \A s \in Threads : pc[s] \notin {"enableWrite", "disableWrite"}
        BY <1>1, RecoveryAssumption DEF IndInv, MutexOK, Threads
      <3> QED
        BY <1>1, <1>2, <2>2, <3>1, <3>2 DEF MutexOK, Threads
    <2> QED
      BY <1>1, <2>1, <2>2
  <1>8. TargetOK' /\ StreamOK'
    BY <1>1, <1>2 DEF IndInv, TargetOK, StreamOK
  <1>9. RecordedOK'
    <2>1. ASSUME NEW e \in Devices, stream'[e] # None, ~Switching(e)'
          PROVE  Recorded'[e] = stream'[e]
      BY <2>1, <1>1, <1>2, <1>3, <1>5
         DEF IndInv, RecordedOK, Switching, ConnectPcs, DisconnectPcs, Threads
    <2>2. ASSUME NEW s \in Threads, pc'[s] = "postConnect"
          PROVE  Recorded'[dev(s)'] = params'[dev(s)']
      <3>1. dev(s) \in Devices \ {d}
        BY <2>2, <1>1, <1>5 DEF dev, IndInv, MainOK, Threads
      <3> QED
        BY <3>1, <2>2, <1>1, <1>2, <1>3 DEF IndInv, RecordedOK
    <2> QED
      BY <2>1, <2>2 DEF RecordedOK
  <1>10. WishOK'
    <2>1. file'[d] = None /\ \A e \in Devices : file[e] = None => file'[e] = None
      BY <1>1 DEF NoEntries
    <2>2. pc[Main] = "idle"
      BY <1>5 DEF IndInv, MainOK
    <2> QED
      BY <1>1, <1>2, <1>3, <1>5, <2>1, <2>2
         DEF IndInv, WishOK, ConnectPcs, DisconnectPcs, Threads
  <1>11. ExitOK' /\ StartOK'
    BY <1>1, <1>2, <1>5 DEF IndInv, ExitOK, StartOK
  <1> QED
    BY <1>4, <1>6, <1>7, <1>8, <1>9, <1>10, <1>11 DEF IndInv

(* Writing the file completes what was recorded already.                   *)
LEMMA WriteBackKeepsRecorded ==
  ASSUME IndInv, NEW t \in Threads, WriteBack(t)
  PROVE  /\ UNCHANGED Recorded
         /\ file' = Recorded /\ mutex = t /\ mutex' = None /\ pending' = pending
         /\ RecoveryTypeOK'
  BY RecoveryAssumption
     DEF IndInv, TypeOK, RecoveryTypeOK, WriteBack, Recorded, Threads

LEMMA EnableWriteStep ==
  ASSUME IndInv, NEW t \in Threads, EnableWrite(t)
  PROVE  IndInv'
  <1>1. /\ dev(t) \in Devices /\ pc[t] = "enableWrite" /\ t # None
        /\ \A s \in Threads \ {t} : pc'[s] = pc[s]
        /\ pc'[t] = "postConnect"
    BY ConnectingDevice, RecoveryAssumption
       DEF IndInv, EnableWrite, TypeOK, Goto, ConnectPcs, Threads
  <1>2. /\ UNCHANGED Recorded
        /\ file' = Recorded /\ mutex = t /\ mutex' = None /\ pending' = pending
        /\ RecoveryTypeOK'
    BY WriteBackKeepsRecorded DEF EnableWrite
  <1>3. /\ UNCHANGED <<building, life, objects, params, commands, wish>>
        /\ UNCHANGED <<target, stream, status, measured, updates, calls, crashes>>
        /\ \A s : dev(s)' = dev(s)
    BY DEF EnableWrite, dev, serverVars, monitorVars, queueVars, historyVars
  <1>4. Recorded[dev(t)] = params[dev(t)] /\ params[dev(t)] # None
    BY <1>1, <1>2 DEF IndInv, Recorded, MutexOK, TargetOK
  <1>5. TypeOK'
    <2>1. pc' \in [Threads -> Pcs]
      BY PcsFacts DEF IndInv, EnableWrite, Goto, TypeOK
    <2> QED
      BY <2>1, <1>1, <1>2, <1>3 DEF IndInv, TypeOK
  <1>6. MainOK' /\ DevicesOK'
    BY <1>1, <1>3, RecoveryAssumption DEF IndInv, MainOK, DevicesOK, ConnectPcs, Threads
  <1>7. MutexOK' /\ TargetOK' /\ StreamOK'
    <2>1. MutexOK'
      BY <1>1, <1>2, <1>3, RecoveryAssumption DEF IndInv, MutexOK, Threads
    <2>2. TargetOK' /\ StreamOK'
      BY <1>1, <1>3 DEF IndInv, TargetOK, StreamOK
    <2> QED
      BY <2>1, <2>2
  <1>8. RecordedOK'
    BY <1>1, <1>2, <1>3, <1>4, RecoveryAssumption
       DEF IndInv, RecordedOK, Switching, ConnectPcs, DisconnectPcs, dev, Threads
  <1>9. WishOK'
    BY <1>1, <1>2, <1>3, RecoveryAssumption
       DEF IndInv, WishOK, ConnectPcs, DisconnectPcs, Threads
  <1>10. ExitOK' /\ StartOK'
    BY <1>1, <1>2, <1>3 DEF IndInv, ExitOK, StartOK, DevicesOK, MainOK, Threads
  <1> QED
    BY <1>5, <1>6, <1>7, <1>8, <1>9, <1>10 DEF IndInv

LEMMA DisableWriteStep ==
  ASSUME IndInv, NEW d \in Devices, DisableWrite(d)
  PROVE  IndInv'
  <1>1. /\ pc[d] = "disableWrite" /\ d # None /\ d # Main /\ d \in Threads
        /\ \A s \in Threads \ {d} : pc'[s] = pc[s]
        /\ pc'[d] = "idle"
        /\ wish'[d] = "disconnected" /\ \A e \in Devices \ {d} : wish'[e] = wish[e]
    BY RecoveryAssumption DEF IndInv, DisableWrite, TypeOK, Goto, Threads
  <1>2. /\ UNCHANGED Recorded
        /\ file' = Recorded /\ mutex = d /\ mutex' = None /\ pending' = pending
        /\ RecoveryTypeOK'
    BY <1>1, WriteBackKeepsRecorded DEF DisableWrite
  <1>3. /\ UNCHANGED <<building, life, objects, params, commands, target, stream>>
        /\ UNCHANGED <<status, measured, updates, calls, crashes>>
        /\ \A s : dev(s)' = dev(s)
    BY DEF DisableWrite, dev, serverVars, monitorVars, queueVars
  <1>4. Recorded[d] = None /\ stream[d] = None
    BY <1>1, <1>2 DEF IndInv, Recorded, MutexOK, WishOK, DisconnectPcs
  <1>5. TypeOK'
    <2>1. pc' \in [Threads -> Pcs]
      BY PcsFacts DEF IndInv, DisableWrite, Goto, TypeOK
    <2>2. wish' \in [Devices -> {"none", "connected", "disconnected"}]
      BY DEF IndInv, DisableWrite, TypeOK
    <2> QED
      BY <2>1, <2>2, <1>1, <1>2, <1>3 DEF IndInv, TypeOK
  <1>6. life \notin {"down", "crashed", "starting", "released"} /\ pc[Main] = "idle"
    BY <1>1 DEF IndInv, DevicesOK, MainOK
  <1>7. MainOK' /\ DevicesOK'
    BY <1>1, <1>3, <1>6 DEF IndInv, MainOK, DevicesOK, Threads
  <1>8. MutexOK' /\ TargetOK' /\ StreamOK'
    <2>1. MutexOK'
      BY <1>1, <1>2, <1>3, RecoveryAssumption DEF IndInv, MutexOK, Threads
    <2>2. TargetOK' /\ StreamOK'
      BY <1>1, <1>3 DEF IndInv, TargetOK, StreamOK
    <2> QED
      BY <2>1, <2>2
  <1>9. RecordedOK'
    BY <1>1, <1>2, <1>3, <1>4
       DEF IndInv, RecordedOK, Switching, ConnectPcs, DisconnectPcs, Threads
  <1>10. WishOK'
    BY <1>1, <1>2, <1>3, <1>4, <1>6
       DEF IndInv, WishOK, ConnectPcs, DisconnectPcs, Threads
  <1>11. ExitOK' /\ StartOK'
    BY <1>3, <1>6 DEF IndInv, ExitOK, StartOK
  <1> QED
    BY <1>5, <1>7, <1>8, <1>9, <1>10, <1>11 DEF IndInv

-----------------------------------------------------------------------------
(* The steps of a device thread that are a DeviceStep.                     *)
LEMMA CommandBeforeRun ==
  ASSUME IndInv, NEW d \in Devices, NEW op, NextCommand(d, op)
  PROVE  life \notin {"down", "crashed", "starting"}
  BY TakesCommand DEF IndInv, DevicesOK

LEMMA ConnectStep ==
  ASSUME IndInv, NEW d \in Devices, Connect(d)
  PROVE  IndInv'
  <1>1. NextCommand(d, "connect")
    BY DEF Connect
  <1>2. TypeOK'
    BY <1>1, TakesCommand, PcsFacts, RecoveryAssumption
       DEF IndInv, Connect, Goto, TypeOK, RecoveryTypeOK, Threads, recoveryVars, serverVars,
           monitorVars
  <1>3. /\ pc[d] = "idle" /\ d \in objects
        /\ life \notin {"down", "crashed", "starting"}
    BY <1>1, TakesCommand, CommandBeforeRun DEF IndInv
  <1>4. /\ pc' = [pc EXCEPT ![d] = "connect"]
        /\ wish' = [wish EXCEPT ![d] = "connected"]
        /\ UNCHANGED stream
        /\ UNCHANGED <<recoveryVars, serverVars, target, params>>
    BY DEF Connect, Goto
  <1> DEFINE q == "connect"
  <1>5. /\ q \in {"idle", "operate", "measure", "connect", "disable"}
        /\ pc' = [pc EXCEPT ![d] = q]
        /\ q = "disable" => stream'[d] = None
        /\ q # "connect" => UNCHANGED wish
        /\ q = "connect" => wish' = [wish EXCEPT ![d] = "connected"]
    BY <1>4
  <1> HIDE DEF q
  <1> QED
    BY <1>2, <1>3, <1>4, <1>5, DeviceStep

LEMMA DisconnectStep ==
  ASSUME IndInv, NEW d \in Devices, Disconnect(d)
  PROVE  IndInv'
  <1>1. NextCommand(d, "disconnect")
    BY DEF Disconnect
  <1>2. stream' = [stream EXCEPT ![d] = None] /\ stream'[d] = None
    BY DEF IndInv, TypeOK, Entries, Disconnect
  <1>3. TypeOK'
    BY <1>1, <1>2, TakesCommand, PcsFacts, RecoveryAssumption
       DEF IndInv, Disconnect, Goto, TypeOK, RecoveryTypeOK, Entries, Threads, recoveryVars,
           serverVars, monitorVars, historyVars
  <1>4. /\ pc[d] = "idle" /\ d \in objects
        /\ life \notin {"down", "crashed", "starting"}
    BY <1>1, TakesCommand, CommandBeforeRun DEF IndInv
  <1>5. /\ pc' = [pc EXCEPT ![d] = "disable"]
        /\ UNCHANGED wish
        /\ UNCHANGED <<recoveryVars, serverVars, target, params>>
    BY DEF Disconnect, Goto, historyVars
  <1> DEFINE q == "disable"
  <1>6. /\ q \in {"idle", "operate", "measure", "connect", "disable"}
        /\ pc' = [pc EXCEPT ![d] = q]
        /\ q = "disable" => stream'[d] = None
        /\ q # "connect" => UNCHANGED wish
        /\ q = "connect" => wish' = [wish EXCEPT ![d] = "connected"]
    BY <1>2, <1>5
  <1> HIDE DEF q
  <1> QED
    BY <1>2, <1>3, <1>4, <1>5, <1>6, DeviceStep

LEMMA OperateStep ==
  ASSUME IndInv, NEW d \in Devices, Operate(d)
  PROVE  IndInv'
  <1>1. NextCommand(d, "operate")
    BY DEF Operate
  <1>2. TypeOK'
    BY <1>1, TakesCommand, PcsFacts, RecoveryAssumption
       DEF IndInv, Operate, Goto, TypeOK, RecoveryTypeOK, Threads, recoveryVars, serverVars,
           monitorVars, historyVars
  <1> QED
    BY <1>1, <1>2, TakesCommand, CommandBeforeRun, DeviceStep
       DEF Operate, Goto, IndInv, historyVars

LEMMA OperateEndStep ==
  ASSUME IndInv, NEW d \in Devices, OperateEnd(d)
  PROVE  IndInv'
  <1>1. TypeOK'
    BY PcsFacts, RecoveryAssumption
       DEF IndInv, OperateEnd, MayFail, Goto, TypeOK, RecoveryTypeOK, Entries, Threads,
           recoveryVars, serverVars, monitorVars, queueVars, historyVars
  <1>2. d \in objects
    BY DEF IndInv, DevicesOK, OperateEnd
  <1> QED
    BY <1>1, <1>2, DeviceStep DEF OperateEnd, MayFail, Goto, queueVars, historyVars

LEMMA UpdateMeasuredStep ==
  ASSUME IndInv, NEW d \in Devices, UpdateMeasured(d)
  PROVE  IndInv'
  <1>1. NextUpdate(d, "measured")
    BY DEF UpdateMeasured
  <1>2. /\ pc[d] = "idle" /\ d \in objects /\ UNCHANGED commands
        /\ updates' \in [Devices -> Seq({"status", "measured"})]
    BY <1>1, TakesUpdate DEF IndInv
  <1>3. \E q \in {"idle", "measure"} : pc' = [pc EXCEPT ![d] = q]
    BY <1>2 DEF UpdateMeasured, Goto, IndInv, TypeOK, Threads
  <1>4. TypeOK'
    <2>1. pc' \in [Threads -> Pcs]
      BY <1>3, PcsFacts DEF IndInv, TypeOK
    <2>2. measured' \in [Devices -> {"null", "value"}]
      BY DEF IndInv, TypeOK, UpdateMeasured
    <2>3. \A t \in Threads : pc'[t] \in {"check", "enable"} => target[t] # None
      BY <1>3 DEF IndInv, TypeOK
    <2> QED
      BY <1>2, <2>1, <2>2, <2>3
         DEF IndInv, UpdateMeasured, TypeOK, RecoveryTypeOK, recoveryVars, serverVars,
             historyVars
  <1> QED
    BY <1>2, <1>3, <1>4, DeviceStep DEF UpdateMeasured, historyVars

LEMMA UpdateMeasuredEndStep ==
  ASSUME IndInv, NEW d \in Devices, UpdateMeasuredEnd(d)
  PROVE  IndInv'
  <1>1. TypeOK'
    BY PcsFacts, RecoveryAssumption
       DEF IndInv, UpdateMeasuredEnd, Goto, TypeOK, RecoveryTypeOK, Entries, Threads,
           recoveryVars, serverVars, queueVars, historyVars
  <1>2. d \in objects
    BY DEF IndInv, DevicesOK, UpdateMeasuredEnd
  <1> QED
    BY <1>1, <1>2, DeviceStep DEF UpdateMeasuredEnd, Goto, queueVars, historyVars

(* setConnectionParameters changes the address of an unconnected device.   *)
LEMMA SetConnectionParametersStep ==
  ASSUME IndInv, NEW d \in Devices, SetConnectionParameters(d)
  PROVE  IndInv'
  <1>1. /\ pc[d] = "idle" /\ d \in objects
        /\ life \notin {"down", "crashed", "starting"}
        /\ pc[Main] = "idle"
    BY TakesCommand, CommandBeforeRun DEF IndInv, SetConnectionParameters, MainOK
  <1>2. /\ UNCHANGED <<building, life, objects, mutex, file, pending, pc, target, stream>>
        /\ UNCHANGED <<wish, Recorded>>
        /\ \A s : dev(s)' = dev(s)
    BY DEF SetConnectionParameters, dev, Recorded, recoveryVars, serverVars, historyVars
  <1>3. /\ \A e \in Devices \ {d} : params'[e] = params[e]
        /\ stream[d] # None => params' = params
    BY DEF IndInv, TypeOK, SetConnectionParameters, Entries
  <1>4. TypeOK'
    BY TakesCommand, JobFacts
       DEF IndInv, SetConnectionParameters, TypeOK, RecoveryTypeOK, Entries, recoveryVars,
           serverVars, monitorVars, historyVars
  <1>5. \A s \in Threads : pc[s] # "idle" => dev(s) \in Devices \ {d}
    BY <1>1 DEF dev, Threads
  <1>6. MainOK' /\ DevicesOK'
    BY <1>1, <1>2 DEF IndInv, MainOK, DevicesOK
  <1>7. MutexOK' /\ TargetOK' /\ StreamOK'
    <2>1. MutexOK'
      BY <1>2 DEF IndInv, MutexOK
    <2>2. TargetOK'
      BY <1>2, <1>3, <1>5 DEF IndInv, TargetOK
    <2>3. StreamOK'
      BY <1>2, <1>3 DEF IndInv, StreamOK
    <2> QED
      BY <2>1, <2>2, <2>3
  <1>8. RecordedOK' /\ WishOK'
    <2>1. RecordedOK'
      BY <1>2, <1>3, <1>5 DEF IndInv, RecordedOK, Switching
    <2>2. WishOK'
      BY <1>2 DEF IndInv, WishOK
    <2> QED
      BY <2>1, <2>2
  <1>9. ExitOK' /\ StartOK'
    BY <1>1, <1>2 DEF IndInv, ExitOK, StartOK
  <1> QED
    BY <1>4, <1>6, <1>7, <1>8, <1>9 DEF IndInv

(* Updates, timers and clients.                                            *)
LEMMA UpdateStatusStep ==
  ASSUME IndInv, NEW d \in Devices, UpdateStatus(d)
  PROVE  IndInv'
  <1>1. NextUpdate(d, "status")
    BY DEF UpdateStatus
  <1>2. TypeOK'
    BY <1>1, TakesUpdate
       DEF IndInv, UpdateStatus, TypeOK, RecoveryTypeOK, recoveryVars, serverVars,
           historyVars
  <1> QED
    BY <1>1, <1>2, TakesUpdate, QuietStep DEF UpdateStatus, historyVars, IndInv

LEMMA TickStep ==
  ASSUME IndInv, NEW d \in Devices, NEW u \in Range(Updates), Tick(d, u)
  PROVE  IndInv'
  <1>1. Append(updates[d], u) \in Seq({"status", "measured"})
    BY SeqFacts, ControllerAssumption DEF IndInv, TypeOK
  <1>2. TypeOK'
    BY <1>1
       DEF IndInv, Tick, TypeOK, RecoveryTypeOK, recoveryVars, serverVars, monitorVars,
           historyVars
  <1> QED
    BY <1>2, QuietStep DEF Tick, historyVars

LEMMA CallStep ==
  ASSUME IndInv, NEW d \in Devices, NEW j \in Job, Call(d, j)
  PROVE  IndInv'
  <1>1. Append(commands[d], j) \in Seq(Job)
    BY SeqFacts DEF IndInv, TypeOK
  <1>2. calls' \in 0 .. MaxCalls
    BY ControllerAssumption DEF IndInv, TypeOK, Call
  <1>3. TypeOK'
    BY <1>1, <1>2
       DEF IndInv, Call, TypeOK, RecoveryTypeOK, recoveryVars, serverVars, monitorVars
  <1> QED
    BY <1>3, QuietStep DEF Call

-----------------------------------------------------------------------------
(* The main thread.                                                        *)
LEMMA StartStep ==
  ASSUME IndInv, Start
  PROVE  IndInv'
  <1>1. TypeOK'
    BY DEF IndInv, Start, TypeOK, RecoveryTypeOK, recoveryVars, monitorVars, queueVars,
           historyVars
  <1>2. pc[Main] = "idle"
    BY DEF IndInv, MainOK, Start
  <1> QED
    BY <1>1, <1>2, LifeStep DEF Start, queueVars, historyVars

LEMMA RunStep ==
  ASSUME IndInv, Run
  PROVE  IndInv'
  <1>1. TypeOK'
    BY DEF IndInv, Run, TypeOK, RecoveryTypeOK, recoveryVars, monitorVars, queueVars,
           historyVars
  <1> QED
    BY <1>1, LifeStep DEF Run, queueVars, historyVars

LEMMA StopRunningStep ==
  ASSUME IndInv, StopRunning
  PROVE  IndInv'
  <1>1. TypeOK'
    BY DEF IndInv, StopRunning, TypeOK, RecoveryTypeOK, recoveryVars, monitorVars,
           queueVars, historyVars
  <1>2. pc[Main] = "idle"
    BY DEF IndInv, MainOK, StopRunning
  <1> QED
    BY <1>1, <1>2, LifeStep DEF StopRunning, queueVars, historyVars

LEMMA BuildStep ==
  ASSUME IndInv, NEW d \in Devices, Build(d)
  PROVE  IndInv'
  <1>1. /\ pc[d] = "idle" /\ stream[d] = None /\ d \notin objects
        /\ pc[Main] = "idle" /\ pc'[Main] = "get" /\ \A e \in Devices : pc'[e] = pc[e]
        /\ life = "starting" /\ building' = d /\ objects' = objects \cup {d}
    BY RecoveryAssumption DEF IndInv, DevicesOK, TypeOK, Build, Goto, Threads
  <1>2. /\ UNCHANGED <<life, mutex, file, pending, target, stream, commands, wish>>
        /\ UNCHANGED <<status, measured, calls, crashes, Recorded>>
        /\ \A e \in Devices : dev(e)' = dev(e)
    BY RecoveryAssumption
       DEF Build, dev, Recorded, recoveryVars, monitorVars, historyVars
  <1>3. \A e \in Devices \ {d} : params'[e] = params[e]
    BY DEF IndInv, TypeOK, Build, Entries
  <1>4. TypeOK'
    <2>1. params' \in Entries
      BY ControllerAssumption DEF IndInv, TypeOK, Build, Entries
    <2>2. updates' \in [Devices -> Seq({"status", "measured"})]
      BY ControllerAssumption DEF IndInv, TypeOK, Build
    <2>3. pc' \in [Threads -> Pcs]
      BY PcsFacts DEF IndInv, TypeOK, Build, Goto
    <2> QED
      BY <1>1, <1>2, <2>1, <2>2, <2>3 DEF IndInv, TypeOK, RecoveryTypeOK, Threads
  <1>5. \A e \in Devices : pc[e] \in {"idle", "measure"}
    BY <1>1 DEF IndInv, DevicesOK
  <1>6. MainOK' /\ DevicesOK'
    BY <1>1, <1>2 DEF IndInv, MainOK, DevicesOK
  <1>7. MutexOK' /\ TargetOK' /\ StreamOK'
    <2>1. MutexOK'
      BY <1>1, <1>2, <1>5 DEF IndInv, MutexOK, Threads
    <2>2. TargetOK'
      BY <1>1, <1>5 DEF TargetOK, Threads
    <2>3. StreamOK'
      BY <1>1, <1>2, <1>3 DEF IndInv, StreamOK
    <2> QED
      BY <2>1, <2>2, <2>3
  <1>8. RecordedOK' /\ WishOK'
    <2>1. RecordedOK'
      BY <1>1, <1>2, <1>5
         DEF IndInv, RecordedOK, Switching, ConnectPcs, DisconnectPcs, Threads
    <2>2. WishOK'
      BY <1>1, <1>2, <1>5 DEF IndInv, WishOK, ConnectPcs, DisconnectPcs
    <2> QED
      BY <2>1, <2>2
  <1>9. ExitOK' /\ StartOK'
    <2>1. ExitOK'
      BY <1>1, <1>2 DEF ExitOK
    <2>2. \A e \in objects : e # d /\ Recorded[e] \in {None, params[e]}
      BY <1>1 DEF IndInv, StartOK
    <2>3. StartOK'
      BY <1>1, <1>2, <1>3, <2>2 DEF IndInv, TypeOK, StartOK
    <2> QED
      BY <2>1, <2>3
  <1> QED
    BY <1>4, <1>6, <1>7, <1>8, <1>9 DEF IndInv

LEMMA RecoverStep ==
  ASSUME IndInv, Recover
  PROVE  IndInv'
  <1>1. /\ building \in Devices /\ building \in objects /\ building # Main
        /\ pc[Main] = "get" /\ life = "starting" /\ stream[building] = None
        /\ mutex = None
    BY RecoveryAssumption DEF IndInv, MainOK, TypeOK, Recover, Found
  <1>2. /\ \A e \in Devices : pc'[e] = pc[e]
        /\ \A e \in Devices \ {building} : params'[e] = params[e]
        /\ \/ pc'[Main] = "idle" /\ file[building] = None /\ params' = params
           \/ /\ pc'[Main] = "connect" /\ file[building] # None
              /\ params'[building] = file[building]
    <2>1. /\ params \in [Devices -> Addresses \cup {None}]
          /\ pc \in [Threads -> Pcs] /\ Main \in Threads /\ Main \notin Devices
          /\ Devices \subseteq Threads
      BY RecoveryAssumption DEF IndInv, TypeOK, Entries, Threads
    <2>2. CASE Found(building, None) /\ Goto(Main, "idle") /\ UNCHANGED params
      BY <2>1, <2>2 DEF Found, Goto
    <2>3. ASSUME NEW a \in Addresses, Found(building, a),
                 params' = [params EXCEPT ![building] = a], Goto(Main, "connect")
          PROVE  <1>2!1 /\ <1>2!2 /\ <1>2!3
      BY <1>1, <2>1, <2>3, RecoveryAssumption DEF Found, Goto
    <2> QED
      BY <2>2, <2>3 DEF Recover
  <1>3. /\ UNCHANGED <<building, life, objects, mutex, file, pending, target, stream>>
        /\ UNCHANGED <<commands, updates, wish, status, measured, calls, crashes, Recorded>>
        /\ \A s : dev(s)' = dev(s)
    BY DEF Recover, dev, Recorded, recoveryVars, serverVars, monitorVars, queueVars,
           historyVars
  <1>4. TypeOK'
    <2>1. pc' \in [Threads -> Pcs]
      BY PcsFacts DEF IndInv, TypeOK, Recover, Goto
    <2>2. params' \in Entries
      BY <1>1 DEF IndInv, TypeOK, Recover, Entries
    <2> QED
      BY <1>2, <1>3, <2>1, <2>2 DEF IndInv, TypeOK, RecoveryTypeOK, Threads
  <1>5. \A e \in Devices : pc[e] \in {"idle", "measure"}
    BY <1>1 DEF IndInv, DevicesOK
  <1>6. MainOK' /\ DevicesOK'
    BY <1>1, <1>2, <1>3 DEF IndInv, MainOK, DevicesOK, ConnectPcs
  <1>7. MutexOK' /\ TargetOK' /\ StreamOK'
    <2>1. MutexOK'
      BY <1>1, <1>2, <1>3, <1>5 DEF IndInv, MutexOK, Threads
    <2>2. TargetOK'
      BY <1>2, <1>5 DEF TargetOK, Threads
    <2>3. StreamOK'
      BY <1>1, <1>2, <1>3 DEF IndInv, StreamOK
    <2> QED
      BY <2>1, <2>2, <2>3
  <1>8. RecordedOK' /\ WishOK'
    <2>1. RecordedOK'
      BY <1>1, <1>2, <1>3, <1>5
         DEF IndInv, RecordedOK, Switching, ConnectPcs, DisconnectPcs, Threads
    <2>2. WishOK'
      BY <1>1, <1>2, <1>3, <1>5 DEF IndInv, WishOK, ConnectPcs, DisconnectPcs
    <2> QED
      BY <2>1, <2>2
  <1>9. ExitOK' /\ StartOK'
    <2>1. Recorded = file
      BY <1>1 DEF Recorded
    <2> QED
      BY <1>1, <1>2, <1>3, <2>1 DEF IndInv, TypeOK, ExitOK, StartOK
  <1> QED
    BY <1>4, <1>6, <1>7, <1>8, <1>9 DEF IndInv

-----------------------------------------------------------------------------
(* The end of the process.                                                 *)
LEMMA DeleteStep ==
  ASSUME IndInv, NEW d \in Devices, Delete(d)
  PROVE  IndInv'
  <1>1. /\ pc[d] = "idle" /\ d \in objects /\ pc[Main] = "idle"
        /\ life \in {"stopping", "released"} /\ objects' = objects \ {d}
    BY DEF IndInv, MainOK, Delete, Ready
  <1>2. /\ UNCHANGED <<life, building, mutex, file, pending, pc, target, wish>>
        /\ UNCHANGED <<calls, crashes, Recorded>>
        /\ \A s : dev(s)' = dev(s)
    BY DEF Delete, dev, Recorded, recoveryVars, historyVars
  <1>3. /\ \A e \in Devices \ {d} : stream'[e] = stream[e] /\ params'[e] = params[e]
        /\ stream'[d] = None
    BY DEF IndInv, TypeOK, Delete, Entries
  <1>4. TypeOK'
    <2>1. /\ stream' \in Entries /\ params' \in Entries
          /\ status' \in [Devices -> {"unset", "up", "down"}]
          /\ measured' \in [Devices -> {"null", "value"}]
      BY DEF IndInv, TypeOK, Delete, Entries
    <2>2. /\ commands' \in [Devices -> Seq(Job)]
          /\ updates' \in [Devices -> Seq({"status", "measured"})]
      BY DEF IndInv, TypeOK, Delete
    <2> QED
      BY <1>1, <1>2, <2>1, <2>2 DEF IndInv, TypeOK, RecoveryTypeOK
  <1>5. \A s \in Threads : pc[s] # "idle" => dev(s) \in Devices \ {d}
    BY <1>1 DEF dev, Threads
  <1>6. MainOK' /\ DevicesOK'
    <2>1. MainOK'
      BY <1>1, <1>2 DEF IndInv, MainOK
    <2>2. DevicesOK'
      BY <1>1, <1>2, <1>3 DEF IndInv, DevicesOK
    <2> QED
      BY <2>1, <2>2
  <1>7. MutexOK' /\ TargetOK' /\ StreamOK'
    <2>1. MutexOK'
      BY <1>2 DEF IndInv, MutexOK
    <2>2. TargetOK'
      BY <1>2, <1>3, <1>5 DEF IndInv, TargetOK
    <2>3. StreamOK'
      BY <1>2, <1>3 DEF IndInv, StreamOK
    <2> QED
      BY <2>1, <2>2, <2>3
  <1>8. RecordedOK' /\ WishOK'
    <2>1. RecordedOK'
      BY <1>2, <1>3, <1>5 DEF IndInv, RecordedOK, Switching
    <2>2. WishOK'
      BY <1>2, <1>3 DEF IndInv, WishOK
    <2> QED
      BY <2>1, <2>2
  <1>9. ExitOK' /\ StartOK'
    BY <1>1, <1>2 DEF IndInv, ExitOK, StartOK
  <1> QED
    BY <1>4, <1>6, <1>7, <1>8, <1>9 DEF IndInv

LEMMA ReleaseStep ==
  ASSUME IndInv, Release
  PROVE  IndInv'
  <1>1. /\ \A t \in Threads : pc[t] = "idle"
        /\ \A d \in Devices : stream[d] = None
        /\ objects = {} /\ life' = "released" /\ file' = NoEntries /\ mutex = None
    BY DEF IndInv, MainOK, DevicesOK, Release, RecoveryClear, Threads
  <1>2. /\ UNCHANGED <<objects, building, mutex, pending, pc, target, stream, params>>
        /\ UNCHANGED <<status, measured, commands, updates, wish, calls, crashes>>
        /\ Recorded' = NoEntries
    BY <1>1 DEF Release, RecoveryClear, Recorded, monitorVars, queueVars, historyVars
  <1>3. \A d \in Devices : NoEntries[d] = None
    BY DEF NoEntries
  <1>4. TypeOK'
    BY <1>1, <1>2 DEF IndInv, TypeOK, RecoveryTypeOK, NoEntries, Entries
  <1>5. MainOK' /\ DevicesOK'
    BY <1>1, <1>2 DEF IndInv, MainOK, DevicesOK
  <1>6. MutexOK' /\ TargetOK' /\ StreamOK'
    BY <1>1, <1>2 DEF IndInv, MutexOK, TargetOK, StreamOK, Threads
  <1>7. RecordedOK' /\ WishOK'
    <2>1. RecordedOK'
      BY <1>1, <1>2 DEF RecordedOK
    <2>2. WishOK'
      BY <1>1, <1>2, <1>3 DEF IndInv, WishOK
    <2> QED
      BY <2>1, <2>2
  <1>8. ExitOK' /\ StartOK'
    BY <1>1 DEF ExitOK, StartOK
  <1> QED
    BY <1>4, <1>5, <1>6, <1>7, <1>8 DEF IndInv

(* A process that is gone, or is not started yet, keeps nothing but the    *)
(* file: what is left to show is what the file says.                       *)
Gone ==
  /\ TypeOK
  /\ life \in {"down", "crashed"} /\ mutex = None /\ objects = {} /\ building = None
  /\ stream = NoEntries
  /\ \A t \in Threads : pc[t] = "idle"
  /\ \A d \in Devices : commands[d] = <<>>
  /\ life = "down" => file = NoEntries
  /\ \A d \in Devices : wish[d] = "disconnected" => file[d] = None

LEMMA EmptyProcess == Gone => IndInv
  <1> SUFFICES ASSUME Gone PROVE IndInv
    OBVIOUS
  <1>1. \A d \in Devices : stream[d] = None
    BY DEF Gone, NoEntries
  <1>2. \A d \in Devices : d \in Threads /\ pc[d] = "idle"
    BY DEF Gone, Threads
  <1>3. Main \in Threads /\ pc[Main] = "idle"
    BY DEF Gone, Threads
  <1>4. MainOK /\ DevicesOK
    BY <1>1, <1>2, <1>3 DEF Gone, MainOK, DevicesOK
  <1>5. MutexOK /\ TargetOK /\ StreamOK
    BY <1>1, <1>2, RecoveryAssumption DEF Gone, MutexOK, TargetOK, StreamOK, Threads
  <1>6. RecordedOK /\ WishOK
    BY <1>1, <1>2, <1>3 DEF Gone, RecordedOK, WishOK, Recorded, ConnectPcs, DisconnectPcs
  <1>7. ExitOK /\ StartOK
    BY DEF Gone, ExitOK, StartOK
  <1> QED
    BY <1>4, <1>5, <1>6, <1>7 DEF Gone, IndInv

(* Empty leaves nothing of the process.                                    *)
LEMMA EmptyFacts ==
  ASSUME Empty
  PROVE  /\ objects' = {} /\ building' = None /\ stream' = NoEntries
         /\ \A t \in Threads : pc'[t] = "idle"
         /\ \A d \in Devices : commands'[d] = <<>>
         /\ pc' \in [Threads -> Pcs]
         /\ target' \in [Threads -> Addresses \cup {None}]
         /\ stream' \in Entries /\ params' \in Entries
         /\ status' \in [Devices -> {"unset", "up", "down"}]
         /\ measured' \in [Devices -> {"null", "value"}]
         /\ commands' \in [Devices -> Seq(Job)]
         /\ updates' \in [Devices -> Seq({"status", "measured"})]
  <1>1. NoEntries \in Entries
    BY DEF NoEntries, Entries
  <1>2. <<>> \in Seq(Job) /\ <<>> \in Seq({"status", "measured"})
    OBVIOUS
  <1> QED
    BY <1>1, <1>2, PcsFacts DEF Empty

LEMMA InitInv ==
  ASSUME Init
  PROVE  IndInv
  <1>1. <<>> \in Seq(Job) /\ <<>> \in Seq({"status", "measured"})
    OBVIOUS
  <1>2. NoEntries \in Entries /\ \A d \in Devices : NoEntries[d] = None
    BY DEF NoEntries, Entries
  <1>3. /\ \A t \in Threads : pc[t] = "idle"
        /\ \A d \in Devices : commands[d] = <<>>
    BY DEF Init
  <1>4. TypeOK
    BY <1>1, <1>2, <1>3, PcsFacts, ControllerAssumption
       DEF Init, RecoveryInit, TypeOK, RecoveryTypeOK
  <1> QED
    BY <1>2, <1>3, <1>4, EmptyProcess DEF Init, RecoveryInit, Gone

-----------------------------------------------------------------------------
LEMMA ExitStep ==
  ASSUME IndInv, Exit
  PROVE  IndInv'
  <1>1. /\ pc[Main] = "idle" /\ \A t \in Threads : pc[t] = "idle"
        /\ life = "released" /\ life' = "down" /\ file = NoEntries /\ objects = {}
    BY DEF IndInv, MainOK, DevicesOK, ExitOK, Exit, Threads
  <1>2. UNCHANGED <<file, pending, mutex, wish, calls, crashes>> /\ Empty
    BY DEF Exit, recoveryVars, historyVars
  <1>3. mutex' = None
    BY <1>1, <1>2 DEF IndInv, MutexOK, TypeOK, RecoveryTypeOK, Threads
  <1>4. \A d \in Devices : file'[d] = None
    BY <1>1, <1>2 DEF NoEntries
  <1>5. TypeOK'
    BY <1>1, <1>2, EmptyFacts DEF IndInv, TypeOK, RecoveryTypeOK
  <1>6. Gone'
    BY <1>1, <1>2, <1>3, <1>4, <1>5, EmptyFacts DEF Gone
  <1> QED
    BY <1>6, EmptyProcess, PTL

(* A crash inside enable or disable leaves the empty file or the whole of  *)
(* what was to be written: either way nothing an operator disconnected. *)
LEMMA CrashStep ==
  ASSUME IndInv, Crash
  PROVE  IndInv'
  <1>1. /\ life' = "crashed" /\ mutex' = None /\ pending' = NoEntries
        /\ UNCHANGED wish /\ Empty
        /\ file' = file \/ (mutex # None /\ file' = pending)
    BY DEF Crash, RecoveryCrash
  <1>2. \A d \in Devices : wish'[d] = "disconnected" => file'[d] = None
    BY <1>1 DEF IndInv, WishOK, Recorded
  <1>3. TypeOK'
    <2>1. NoEntries \in Entries
      BY DEF NoEntries, Entries
    <2>2. crashes' \in 0 .. MaxCrashes /\ UNCHANGED calls
      BY ControllerAssumption DEF IndInv, TypeOK, Crash
    <2>3. file' \in Entries
      BY <1>1 DEF IndInv, TypeOK, RecoveryTypeOK
    <2> QED
      BY <1>1, <2>1, <2>2, <2>3, EmptyFacts DEF IndInv, TypeOK, RecoveryTypeOK
  <1>4. Gone'
    BY <1>1, <1>2, <1>3, EmptyFacts DEF Gone
  <1> QED
    BY <1>4, EmptyProcess, PTL

-----------------------------------------------------------------------------
LEMMA WorkerStep ==
  ASSUME IndInv, NEW d \in Devices, Worker(d)
  PROVE  IndInv'
  <1>1. CASE Connect(d) \/ Disconnect(d) \/ Disable(d) \/ DisableWrite(d)
    BY <1>1, ConnectStep, DisconnectStep, DisableStep, DisableWriteStep
  <1>2. CASE Connecting(d)
    BY <1>2, TcpConnectStep, CheckConnectedStep, EnableStep, EnableWriteStep, PostConnectStep
       DEF Connecting, Threads
  <1>3. CASE SetConnectionParameters(d) \/ Operate(d) \/ OperateEnd(d)
    BY <1>3, SetConnectionParametersStep, OperateStep, OperateEndStep
  <1>4. CASE UpdateStatus(d) \/ UpdateMeasured(d) \/ UpdateMeasuredEnd(d)
    BY <1>4, UpdateStatusStep, UpdateMeasuredStep, UpdateMeasuredEndStep
  <1> QED
    BY <1>1, <1>2, <1>3, <1>4 DEF Worker

LEMMA StutterStep ==
  ASSUME IndInv, UNCHANGED vars
  PROVE  IndInv'
  <1>1. TypeOK'
    BY DEF IndInv, TypeOK, RecoveryTypeOK, vars, recoveryVars
  <1> QED
    BY <1>1, QuietStep DEF vars, recoveryVars, serverVars

LEMMA Inductive ==
  ASSUME IndInv, [Next]_vars
  PROVE  IndInv'
  <1>1. CASE \E d \in Devices : Worker(d)
    BY <1>1, WorkerStep
  <1>2. CASE Start \/ Run \/ StopRunning \/ Recover
    BY <1>2, StartStep, RunStep, StopRunningStep, RecoverStep
  <1>3. CASE \E d \in Devices : Build(d) \/ Delete(d)
    BY <1>3, BuildStep, DeleteStep
  <1>4. CASE Connecting(Main)
    BY <1>4, TcpConnectStep, CheckConnectedStep, EnableStep, EnableWriteStep, PostConnectStep
       DEF Connecting, Threads
  <1>5. CASE \E d \in Devices, u \in Range(Updates) : Tick(d, u)
    BY <1>5, TickStep
  <1>6. CASE \E d \in Devices, j \in Job : Call(d, j)
    BY <1>6, CallStep
  <1>7. CASE Release \/ Exit \/ Crash
    BY <1>7, ReleaseStep, ExitStep, CrashStep
  <1>8. CASE UNCHANGED vars
    BY <1>8, StutterStep
  <1> QED
    BY <1>1, <1>2, <1>3, <1>4, <1>5, <1>6, <1>7, <1>8 DEF Next

LEMMA SpecIndInv == Spec => []IndInv
  <1>1. Init => IndInv
    BY InitInv
  <1>2. IndInv /\ [Next]_vars => IndInv'
    BY Inductive
  <1> QED
    BY <1>1, <1>2, PTL DEF Spec

(* Every reachable state has the types of TypeOK, and a thread past the    *)
(* connection attempt holds an address.                                    *)
THEOREM SpecTypeOK == Spec => []TypeOK
  <1>1. IndInv => TypeOK
    BY DEF IndInv
  <1> QED
    BY <1>1, SpecIndInv, PTL

(* Whatever the threads of all devices do to the shared file, and however  *)
(* often the server crashes and starts again, a connected device that      *)
(* nobody is connecting or disconnecting has its address in the file and   *)
(* in connectionParameters.                                                *)
THEOREM SpecConnectedIsRecorded == Spec => []ConnectedIsRecorded
  <1>1. IndInv => ConnectedIsRecorded
    BY DEF IndInv, RecordedOK, StreamOK, ConnectedIsRecorded
  <1> QED
    BY <1>1, SpecIndInv, PTL

(* No crash, restart or change of another device's entry reconnects a      *)
(* device that an operator has disconnected.                               *)
THEOREM SpecDisconnectedStays == Spec => []DisconnectedStays
  <1>1. IndInv => DisconnectedStays
    BY DEF IndInv, WishOK, DisconnectedStays
  <1> QED
    BY <1>1, SpecIndInv, PTL

(* The file is empty once the server has exited without a crash: no device *)
(* thread can write it after the recovery's destructor did.                *)
THEOREM SpecCleanExitForgets == Spec => []CleanExitForgets
  <1>1. IndInv => CleanExitForgets
    BY DEF IndInv, ExitOK, CleanExitForgets
  <1> QED
    BY <1>1, SpecIndInv, PTL

(* When the event loop starts, every device that has an entry in the file  *)
(* has been given that entry's address.                                    *)
THEOREM SpecStartRecovers == Spec => StartRecovers
  <1>1. IndInv /\ [Next]_vars =>
          [Run => \A d \in Devices : file[d] # None => params[d] = file[d]]_vars
    <2> SUFFICES ASSUME IndInv, Run
                 PROVE  \A d \in Devices : file[d] # None => params[d] = file[d]
      OBVIOUS
    <2>1. /\ \A t \in Threads : pc[t] \notin {"enableWrite", "disableWrite"}
          /\ pc[Main] = "idle" /\ life = "starting" /\ objects = Devices
      BY DEF IndInv, DevicesOK, Run, Threads
    <2>2. Recorded = file
      BY <2>1 DEF IndInv, MutexOK, TypeOK, RecoveryTypeOK, Recorded
    <2> QED
      BY <2>1, <2>2 DEF IndInv, StartOK
  <1> QED
    BY <1>1, SpecIndInv, PTL DEF Spec, StartRecovers

=============================================================================
