# ELITPCdcs: verification of the detector control system

TLA+ specifications of ELITPCdcs (OPC UA detector control for the ELITPC detector),
its server and the windows of its client, their TLC runs and TLAPS proofs. Paths are relative to the
repository, `CORE` stands for `src/COREdcs/server`, `ELITPC` for `src/ELITPCdcs`.

## The system

One process, `dcsServer`, runs an OPC UA server (open62541) and one *controller*
per device. Threads: the **main** thread builds all controllers, then runs the
event loop (network, timers, synchronous methods); a **dispatcher** thread takes
asynchronous method calls out of open62541's queue; every controller has one
**device thread**, where its asynchronous methods and its variable updates
execute; the history backend has a thread that writes batches to InfluxDB.
Devices are reached over TCP. Clients (GUI, checks, others) are OPC UA clients.

| component | state | operations | interacts through |
|---|---|---|---|
| worker thread (`CORE/include/DCSWorkerThread.h`) | two queues, `terminate`, thread | `push_back`, `push_front`, worker loop, destructor | mutex and condition variable |
| recovery (`DCSRecovery.h`) | a JSON file, a mutex | `enable`, `disable`, `get`, destructor | the file, which outlives the process |
| device controller (`DCSDeviceController.h`) | stream, variables, methods, device thread | connect, disconnect, setConnectionParameters, device methods, updates, profiles, recovery at start | device thread, recovery, variables |
| variable (`DCSVariable.h`) | value, update timer | setValue, setNull, timed update, historizing | open62541 (serialises reads and writes) |
| server (`DCSServer.*`) | objects, dispatcher thread | run, stop, `asyncCallback`, build and destroy objects | open62541's operation queue, all device threads |
| base device, streams (`DCSBaseDevice.cpp`, `ConnectionStream.cpp`, `TCPConnector.cpp`) | TCP stream | send, send with (delayed) response, connect with timeout | device |
| history (`ELITPC/server/src/DCSHistoryBackendInflux.cpp`) | bucket of lines | set data, flush, periodic write | own thread, HTTP |
| device drivers and controllers (TPG362, MKS910, MKS946, DT1415ET, DT1470ET, N1471, HMP, PiWeather) | variables | enquiry protocols, setters, interlock | base device |
| profiles (`DCSDeviceController.h:340-430`) | a file per type of controller, each controller's copy | read at start, `saveProfile`, `setProfile`, `applyProfile` | the file, shared by the controllers of a type |
| client's windows (`ELITPC/clientGUI/src/*widget.cpp`) | members and controls of each window, dialogs, trace list | reports of variables, buttons, dialogs, timers | the client's subscription, method calls |
| state object, version comparison, checks client | | | |

What is hard here: pushes and destruction race with the worker's sleep; a method
call crosses three queues and two threads before it runs; the connection of a
device is switched by its own thread and, after a restart, by the main thread;
the recovery file is rewritten by all device threads and read after a crash;
updates, which follow the connection, queue behind commands; devices answer late
or not at all; windows put together what is reported to them variable by variable, in
any order and over several connections. `PROJECT.json` lists these hazards line by line.

What makes each component correct:

* worker: no lost wake-up; commands before updates, each queue in order, no job
  lost or run twice; the destructor returns.
* recovery and controller: what is connected is recorded; what an operator
  disconnected stays so through crashes; a regular exit records nothing; a
  restart uses the recorded address; monitored variables never go on showing
  values of a device that is gone.
* server: calls are executed once, in order per device, and answered; one
  device cannot delay another.
* history: every recorded value is written at most once, in order, and a failed
  transfer loses no more than its batch and does not end the writing.
* protocols: an answer belongs to the question before it, however late others come.
* TPG362: a relay is shown from the answers to its own questions. The code does not achieve it
  on a stream that is four answers late (finding 3); it does on one that is three late at most.
* MKS910: a relay that is enabled has the settings of one call, wherever calls were cut off.
* low voltage: what is shown of a channel, or set, is of that channel, whichever was active.
* profiles: controllers that save in turn do not lose each other's profiles.
* windows: what a window offers follows the device, in every order of reports; a list of
  faults shows what it holds.
* MKS 946: a relay that is on is set coherently whatever failed; the variables show
  the device; a running PID keeps its recipe; the interlock closes the flow whenever,
  and only when, a measured pressure is over the limit in force.

## Modules

| module | models |
|---|---|
| `JobExecutor` | abstract: what a worker thread promises |
| `WorkerThread` | `DCSWorkerThread`; its section under `qMutex` split where it tests, sleeps and takes |
| `WorkerThreadProofs` | inductive invariant, type correctness, no lost wake-up, refinement of `JobExecutor` |
| `Recovery` | `DCSRecovery`: operators over `file`, `pending`, `mutex` |
| `DeviceController` | extends `Recovery`: controllers, device threads, main thread, crash, restart |
| `DeviceControllerProofs` | inductive invariant of the controllers and the recovery file |
| `CallService` | abstract: what the server promises about method calls |
| `ServerCalls` | the event loop, `asyncCallback`, the dispatcher, the device threads |
| `ServerCallsProofs` | type correctness, the balance of jobs and operations, refinement of `CallService` |
| `HistoryLog` | abstract: what the history backend promises about recorded values |
| `HistoryInflux` | `DCSHistoryBackendInflux`: bucket, timer, jobs, transfers, destruction |
| `HistoryInfluxProofs` | one round of writing, and the refinement of `HistoryLog` |
| `MKS946Controller` | `DCSMKS946Controller`: methods as programs of exchanges, updates, interlock |
| `MKS946Proofs` | inductive invariant of the settings, the variables and the interlock |
| `HighVoltage` | `DT1470ET`, `DT1415ET`, `N1471` and their controllers: questions, late answers, reconnection |
| `HighVoltageProofs` | inductive invariant of the exchanges |
| `TPG362Controller` | `DCSTPG362Controller`: acknowledgement and enquiry, loops that try again, late answers |
| `MKS910Controller` | `DCSMKS910Controller`: a relay set in five exchanges, each of which may fail |
| `LowVoltage` | `HMP` and its controller (`HMP2020`, `HMP4040`): the active channel, profiles |
| `InstrumentProofs` | inductive invariants of `TPG362Controller`, `MKS910Controller` and `LowVoltage` |
| `Profiles` | the file of profiles and the controllers' copies of it; crash, full disk, restart |
| `Windows` | the slots of the client's windows, as functions of a window |
| `Panel` | a window and what the subscription reports to it; dialogs, buttons, lost connections |
| `TraceList` | the list of faults of a high-voltage window |
| `Station` | composes the six parts above |
| `StationProofs` | inductive invariants of `Profiles`, `Panel` and `TraceList`; what each part keeps, the station keeps |
| `MC*` | instances for TLC |

**WorkerThread.** A job is a number; `buffer`, `bufferPriority`, `terminate`, `job` are
the code's. `workerPc` is the program point of `workerLoop`. A pusher's critical
section is one action, enabled while the worker does not hold the mutex. The
wait releases the mutex and blocks in one step and may wake spuriously. The
destructor sets `terminate` under the mutex, notifies and joins in three steps.
The destructor and a pusher may overlap, as the code does not exclude it.

**Recovery and DeviceController.** The file is a function from devices to
addresses. A change reads it, truncates it (`EnableOpen`, `DisableOpen`) and writes it
(`WriteBack`): between the two the file on disk is empty, and a crash there leaves it
empty, or written. A file cut off in the middle is not JSON, which `parseFile` treats
as empty. `pc[t]` is where a thread is in `connectDevice` or `disconnectDevice`; the main
thread goes through the same actions in `finalizeInit`, with `building` as its device.
`stream` is the address a device is connected to, `params` the variable
`connectionParameters`, `target` the local copy of it in `connectDevice`. An exchange of
a method or an update (`operate`, `postConnect`, `measure`) takes two steps and may fail,
upon which the wrapper resets the stream. `NextCommand` and `NextUpdate` are the worker of
`JobExecutor`, with its queues inlined; the `worker` run and its proofs justify that.
`wish` is history: what operators last had done. Exit and crash clear what a process
has in memory. The server is assumed to be configured with a recovery file.

**ServerCalls.** A call is a number with a device and a kind. The order in which
open62541 puts an operation into its queue and calls `asyncCallback` is left open
(`toEnqueue`, `toNotify`), as the polling loop of `asyncCallback` suggests. The jobs of the
dispatcher are all alike, so a counter is their queue. The model ends when the
event loop does.

**HistoryInflux.** A line is the number of its recording; values that make no line (null,
NaN, empty) are left out. `Write` is the section of `write` under `bucketMutex`, `PushJob` the
rest of it, also when the constructor calls it. The worker of `JobExecutor` takes the
jobs in order; its destructor drops those that wait. A transfer stores the lines or not
and is reported to have succeeded or not, in every combination but one: lines that
were reported as written are.

**MKS946Controller.** `device` holds the settings of the device itself, `shown` the variables
of the server. A job of the device thread is a `Program`: the list of its exchanges in
the order of the code. `step` is the next one, so clients, timers and the pressure move
between any two. An exchange succeeds, or fails (`Fail`: no connection, no answer, an
answer without `ACK`, or an argument that `map::at` rejects) before or after the device
obeyed; then the wrapper drops the connection and the rest of the program is lost.
`readPIDState` and `readPressure` are the exchanges after which the code decides how to go
on. Settings written one after the other and read back together are one item
(`recipe`, `tuning`, `flow`, `manometer`), one relay stands for all, and the queries of one
`get...` function are one `Read`, as only that thread changes the device: somebody may use
the device's panel only while it is not connected (`Panel`). Switching PID control may
change the flow mode, which is why the code reads the configuration again.
`DeviceController` already has the recovery on the main thread, so that this module begins
after it. The default profile that a connect applies is not modelled.

**HighVoltage.** Nothing in an answer of these supplies tells its question, so an answer
is represented by the question it belongs to, and `wire` holds answers that were not
received. A job of the device thread asks the questions of `Program` one by one; `got`
is what it received. `receive` returns what the stream has: a chunk of the answers that
are due, up to that to the last question or not. An exchange that times out or a
conversion that throws (`Fits`: `stod` and `stoi` look at the beginning only) ends the job
in the wrapper, which drops the stream (`Fail`). The exception is `GreetFails`: `connectDevice`
catches the exception of `setConnectionStream` itself and keeps the stream. Names,
numbers and texts are not distinguished further: a variable shows the chunks that were
converted. `greeted` is history. `Greets` is false for the N1471, which does not ask for
its version at connection. Answers are assumed to arrive whole, and what a setting
changes in the device is left out; its control mode may be switched at any time. `supply` tells the three supplies apart: what
each is asked in `getConfiguration`, and which settings it makes only after `isRemote`.

**TPG362Controller.** `tpgWire` holds the answers that are late, each "ACK" or the question
whose data it is. `SendCommand` and `Enquire` are the halves of `sendWithEnquiry`; either
receives any prefix of what the stream has. `Accepts` is what the regular expressions of
the conversions let through; those of the relays do not tell one relay from another.
`Retry` is the catch of the loops in `getMeasurements` and `getRelay`, which begin again on
the same stream; `GiveUp` is any other exception, upon which the wrapper drops the stream.
Nothing in the code limits how many answers are late; `MaxLate` bounds them for TLC. `tpgMostLate`
is history: the most that were late at a time on the present stream (`NoneLate` begins
anew with each stream). `RelayIsReal`, that a relay is shown from its own answer, is violated as soon as
four are late, and is the subject of a run that shows it (`MCTPG362Relays.cfg`): received in
pairs, they let the loop run one answer behind and show each relay with its neighbour's settings,
which no pattern notices. `RelayInTime` says what the loop and the patterns do achieve:
an update that ends on a stream that was three answers late at most shows each relay's own
settings. States beyond three are in the model of either run. That no relay
is named like a job is part of `TPG362Assumption`, since `tpgJob` holds either.

**MKS910Controller.** `mksStep` is the next of the five exchanges of `setRelay`. An exchange
that fails (`SetRelayFails`) may have been carried out, and drops the connection; the gauge
keeps the relay as it is. Questions that are only asked are one action for a job.

**LowVoltage.** An answer is represented by the channel that was active when it was given.
Commands are not answered, so with `lvGone` they have no effect and nobody notices before
a question times out. A profile is the jobs `profileCurrent` and `profileVoltage`.

**Profiles.** Between `SaveProfile` and `WriteFile` the file on disk is truncated; a crash or a
full disk leaves it so, and a server does not start with a file that is no JSON. Synchronous
methods run on the event loop, so that only one profile is saved at a time, while
`applyProfile` and updates run on device threads. `savedProfiles` is history.

**Windows and Panel.** A window is one channel (or sensor) of a window class: a record with
the members its slots read (`conn`, `enabled`, `on`, `remote`) and the controls that are
enabled (`offers`). Members that no constructor initialises have any value at first. `Panel`
lets the server change, reports a variable when it differs from what was
reported last, loses the link and opens it again, upon which everything is
reported once more. Null values are not passed on (`DCSMonitoredItem::callback`).

**TraceList.** `traces` is the member list, `traceShown` what the list widget shows:
`clearItems` deletes what `remove_if` left behind the items to keep, which is what it should
delete only because the items are ordered by time. `Kept` is `remove_if`, item by item.

**Station.** None of its parts reads what another writes, so that one behaviour of a part is
chosen by `focus` and the others stand still. A run of every part's own would ask the
same; the composition lets `StationProofs` state that what holds of a part holds of the whole.

## Runs

| run | instance | shows |
|---|---|---|
| `worker` | 4 jobs | `TypeOK`, `NoLostWakeup`; the refinement `Implements`; `ShutdownCompletes`, `JobsServed` |
| `controller_recovery` | 2 devices, 2 addresses, 3 calls, 1 crash, 1 waiting update each | `ConnectedIsRecorded`, `DisconnectedStays`, `CleanExitForgets`, `StartRecovers` |
| `controller_monitoring` | 1 device, both kinds of update, backlog of 2, 2 calls, 1 crash | `MonitoringTellsDisconnect`, `DisconnectHappens` under fairness |
| `controller_threads` (violation) | 1 device, 1 call, 1 crash | `OneThreadExchanges` fails at the recovery after a restart |
| `server_calls` | 2 devices, one of them stuck, 4 calls | `JobsMatchOperations`, the refinement `Implements`, `CallsAnswered` |
| `history` | 5 lines | `OneRound`, the refinement `Implements`, `LinesLeave` |
| `mks946_settings` | 10 kinds of call with 2 values, 3 calls, update of `configuration` | `RelayCoherent`, `ShownIsDevice`, `RecipeUntouched` |
| `mks946_interlock` | 2 pressures, armed with limit 1, 3 calls, update of `interlockState` | `TripIsJustified`, `InterlockCloses` under fairness |
| `high_voltage` | each of the three supplies | `InStep`, `ConfigurationIsReal`, `NewsIsReal`; `OutOfStepEnds` under fairness |
| `high_voltage_connect` (violation) | the DT1470ET | `ModelIsShown` fails after a greeting that timed out |
| `station` | each part in turn, see below | `RelayInTime`, `RelayOfOneCall`, `ReadingsOfChannel`, `SettingsOfChannel`, `NoProfileLost`, `DisconnectedIsDark`, `ReportedIsShown`, `HeldIsShown`; `PanelCatchesUp` under fairness |
| `tpg362_relays` (violation) | four relays, 15 tries, four answers late | `RelayIsReal` fails: a relay is shown with its neighbour's settings |

**Bounds.** Four jobs let both queues hold two while one runs and let the order of
each be wrong. Two devices are what one device's change of the file can hurt;
three calls make connect, disconnect and another device's connect overlap, or
connect, fail and change parameters; four calls passed as well (4.2 million
states) but would make the run slow. One crash between any two steps, then a
restart, is what the recovery is for. Backlog 1 or 2 shows an update before and
behind commands. Four calls give each of two devices two calls in either order
and a synchronous one among them. Five lines fill two rounds and the bucket behind
them; all transfers may fail. Three calls of the MKS 946 are a connect, a method that
breaks off and a reconnect or a second method after it, so that the settings of two calls
mix; two values make them differ and put a pressure at and over the limit.
`HighVoltage` has no bound: it is finite, with jobs in any order and number.
`station` takes the 15 tries of the code and four relays for the TPG362, with up to five late
answers, two more than `RelayInTime` admits and one more than `RelayIsReal` needs to fail; one relay with setpoints below, at and above the hysteresis for the MKS910; two
channels (the active one and another) and two values of a setting for low voltage; two
controllers and two names, so that one saves what the other did not know; all eight
kinds of window; five instants and four faults, so that some of a list are
cleared and others kept, with either interval. A window treats each of its channels alike
and none looks at another, so one channel is enough.

**Fairness.** A thread that can take a step takes it eventually (weak fairness of
each thread: the operating system's scheduling), a job ends (every socket
operation of the code times out), a condition variable's notified waiter runs,
timers fire, and a server that is down is started again by its operators. Nothing
is assumed of clients, of the network, of spurious wake-ups or of crashes; in
`ServerCalls` the methods of a device in `Stuck` need not return. Commands are
finitely many in a run, so that updates are served although commands overtake
them; in the program an unbroken stream of commands would starve updates,
the interlock among them: `InterlockCloses` says that the interlock acts once clients
pause, and counts the loss of the connection as an end of its duty, since the code then
cannot reach the device. `OutOfStepEnds` assumes for each update that it is run again and
again as long as it is possible at times between other jobs (strong fairness): timers
push it every second, the worker takes updates in order, and the clients' commands
leave room. `PanelCatchesUp` assumes that the client, whose timer tries to connect whenever
there is no connection, succeeds eventually (`LinkOpens`), and that the subscription, which
publishes every half second, reports a variable that has changed (`Notify`); it speaks of the
behaviours in which device and link are left alone in the end.

**Findings.** (1) `finalizeInit` (`DCSDeviceController.h:528`) executes `connect`, with
`postConnect` and `applyProfile`, on the main thread while the device thread may
already execute the first updates, against the comment at line 25: two threads then
exchange on one stream without a lock. The other properties of `DeviceController` are checked
with that overlap in the model, and they hold. (2) `connectDevice` (`DCSDeviceController.h:112`)
keeps a stream whose greeting timed out, since `connected` is set before the greeting: the
device info is then read one answer late and shows the firmware version as the model,
where `test/DCSDT1470etTest.cpp:18` expects the model of a connected device; every other
failed exchange disconnects. `ConfigurationIsReal` and `OutOfStepEnds` hold even then: the
control mode is taken for the status, `stoi` throws and the stream is dropped. (3) The loop of
`getRelay` (`DCSTPG362Controller.cpp:145`) tries up to 15 times on the stream that failed. Once four
answers are late it can read the setting of each relay as that of the next, where `TPG362.h:23`
says that `getSwitchingFunction(f)` returns the setting of `f`: the pattern that is meant to
refuse an invalid response fits every relay.

No run shows a fourth, which concerns a comment alone: `DCSWorkerThread.h:37` says `push_front` schedules
"for first position"; it appends to the queue of commands (line 67). The order of arrival is
what `JobExecutor` promises of commands and what `ServerCalls` relies on.

## Proofs

`WorkerThreadProofs` proves for every number of jobs `SpecTypeOK`, `SpecNoLostWakeup` and
`SpecImplements`. The inductive invariant `IndInv` adds to `TypeOK`: the queues hold
submitted jobs of their class in increasing order and without the running one
(`QueuesOK`), a job is held exactly while the worker runs (`JobOK`), the worker is in
`sleep` or `take` only with the predicate tested under the mutex (`SectionOK`), and where
the destructor is (`OwnerOK`). `NoLostWakeup` is inductive only together with `SectionOK`:
between test and sleep the mutex keeps the predicate false. The refinement maps each
step to the abstract step or a stutter; the order of the abstract `Start` follows from
the sorted queues. The only assumption is that `MaxJobs` is a natural number.

`DeviceControllerProofs` proves for all sets of devices and addresses, and any number
of calls and crashes, `SpecTypeOK`, `SpecConnectedIsRecorded`, `SpecDisconnectedStays`,
`SpecCleanExitForgets` and `SpecStartRecovers`, from `RecoveryAssumption` (the main thread
is no device, no address is an address) and `ControllerAssumption` (types of the
configuration). None of them is inductive. `IndInv` says what the threads may be doing
when another one moves: `MainOK` and `DevicesOK` (the main thread connects only while the
server starts, when device threads at most run an update; a deleted controller's
thread is idle), `MutexOK` (who holds the mutex, what the holder is about to write, and
that the file is empty meanwhile), `TargetOK` (the address a thread connects to is still
in `connectionParameters`: why `setConnectionParameters` refuses while connected),
`StreamOK`, `RecordedOK`, `WishOK`, `ExitOK` and `StartOK` (the properties with what
establishes them). They speak of `Recorded`, what the file will say once the write
under way is complete, since the file itself is empty during every change. One lemma per
action shows that it keeps `IndInv`; `QuietStep`, `LifeStep` and `DeviceStep` are shared
by the actions that change little, `EmptyProcess` by initial state, exit and crash.

`ServerCallsProofs` proves `SpecTypeOK`, `SpecJobsMatchOperations` and `SpecImplements` for any
number of devices and calls, from `CallsAssumption` (the stuck devices are devices).
`JobsMatchOperations` is inductive together with `TypeOK`. The refinement of `CallService`
needs `IInv`: a call that has arrived is in one place (`PlaceOK`), which depends on its kind and
device (`MethodOK`, `DeviceOK`), and the places from the event loop to a device's thread
hold calls in the order of their arrival (`OrderOK`). Why the abstract service can demand that
a device executes the earliest of its waiting calls is then one fact: `commands` is increasing,
and all that is further back has arrived later. Steps between the queues are
stutters; the arrival, the beginning, the end and the answer of a call are steps of `CallService`.

`HistoryInfluxProofs` proves `SpecTypeOK`, `SpecOneRound` and `SpecImplements` for any number
of lines; no run repeats the types. `OneRound` is why the proof is short: since only one of timer, `write`, queue
and worker has the round, the lines that are not settled are those of the round and
then those of the bucket, numbered consecutively (`LinesOK`), so that a transfer appends
exactly the oldest of them. `HeldOK` says where lines are kept.

`MKS946Proofs` proves `SpecTypeOK`, `SpecRelayCoherent`, `SpecTripIsJustified`, `SpecShownIsDevice`
and `SpecRecipeUntouched` for any sets of values and calls and any number of calls, from
`MKS946Assumption` (types of the configuration) and `NoneAssumption` (null is no job).
`IInv` adds to these where in its program a job is and what that means: `RelayStage` (from
the second exchange of `setRelay` on the relay is off, and what was already sent is on the
device), `ShownStage` (a connected device and `shown` differ only while a job that will
read the variable again is under way), `PIDStage` (a job that writes the recipe has found
PID control off, and only that thread switches it on) and `LimitStage` (an interlock
update holds the limit in force). The action property follows from `PIDStage`.

`HighVoltageProofs` proves `SpecTypeOK`, `SpecInStep`, `SpecConfigurationIsReal` and
`SpecNewsIsReal` for any list of questions of the configuration, greeted or not, from
`HighVoltageAssumption` (its first question is answered by a number). `IInv` adds that a
stream whose greeting succeeded is in step (`GreetedInStep`), also within a job, that a
greeting is the first to use its stream (`GreetFirst`), that a job on such a stream
received its own answers (`GotReal`), and for the others `ConfigurationStage`: out of step,
the answer to be taken for the first number is the control mode, so that a configuration
that passes its first number is in step from there. `ReceiveCases` says what one exchange
can return.

`InstrumentProofs` has the invariants of three instruments. `TPGInv`, for any list of relays,
any number of tries and any bound on late answers, adds to the types that the gauge has the
question it is enquired about, and that whatever is late behind a command ends with an
acknowledgement (`Exchange`). `RelayInTime` needs more: while at most three answers were late on the
stream (`tpgMostLate <= 3`; only a new stream begins the count again), `RelayWire` lists what can
be late once the status of the relays was taken: at most one other answer before the
acknowledgement and the status of its last question. The next is only taken when the answer of a relay is
alone at the front of the stream, and none in these lists gets there; so that it is the answer
just asked for, and from then on nothing is late at all. With four late answers an old answer of a relay
fits between two acknowledgements, which is the behaviour TLC shows. `MKSInv` adds to
`RelayOfOneCall` that a relay is disabled from the second exchange of `setRelay` on and has
what was already sent (`BeingSet`): why the order of the exchanges matters. `LVInv` (`LVSpecTypeOK`,
`LVSpecReadingsOfChannel`, `LVSpecSettingsOfChannel`, for any number of channels and any settings)
needs that a job past its first step has its channel selected, unless the peer is gone
(`lvGone`), when neither a command has an effect nor a question an answer.

`StationProofs` proves `SpecStationTypeOK`, `SpecRelayInTime`, `SpecRelayOfOneCall`, `SpecNoProfileLost`,
`SpecDisconnectedIsDark`, `SpecReportedIsShown`, `SpecHeldIsShown` and `SpecChannels` of `Station`, for any
relays, levels, controllers, names, channels and intervals. `ProfilesInv` says that
a file being saved will be what was saved. `PanelInv` says of each kind of window which
controls it has, and that one whose device is known to be disconnected offers none but to
connect it (`WindowOK`); one lemma per slot shows that the slot keeps `WindowOK`. `ShownInv` adds what
has been reported: a window that was told a status gives each group of controls by its
members (`GivenOf`), and its members are those of the last value that was not null (`Holds`).
That is what makes the order of the two reports irrelevant: the slot of the status reads
the members the value left, and the slot of the value the connection the status left; one lemma
per slot again (`HVStatusGives` to `ValueGives`). `TraceInv` adds that the list has the latest item first
(`LatestFirst`): the obsolete items are then the last ones (`KeptPlaces`), so that what `remove_if`
keeps is a front of the list (`KeptIs`) and what it leaves behind is what is to be deleted. The
parts are lifted with `StepsOfParts` (a step of the station is a step of each part or leaves it
alone) and `BehavioursOfParts`.

Where an argument needs induction (`KeptIs`: what a recursive function has at each place), the
proof takes the least place where it fails (`LeastNumber`, from the well-foundedness of the
natural numbers), since theorems with an operator as their parameter cannot be used.

Every safety property and both kinds of refinement that a passing run checks are proved, without a
hypothesis on the bounds. Only model-checked: the liveness properties and the runs that find a
violation. Liveness under fairness is beyond TLAPS's reach here.

## Not modelled

* open62541's own timeouts of asynchronous operations, and sessions beyond what a window is
  told; a recovery file that cannot be written, or a server without one; what happens to
  dispatcher jobs while the server is destroyed (listed as a hazard).
* Answers that arrive in pieces: every protocol reads what one `receive` gives, and the models
  have whole answers.
* The HTTP device and PiWeather (one request, one answer); the state object, one assignment to
  a variable, which the client does not subscribe to; the comparison of firmware versions,
  which is small enough to be read; the status checks client; logging, configuration, events.
* In the devices: the unit that an MKS910 reports back, and a channel number an HMP does not
  have: no method checks its channel (`HMP2020.cpp:10`), and such a call would set the channel
  that was active before. Clients are assumed to name channels there are.
* In the windows: numbers and texts that are only shown, names, the buttons, dialogs and tables of
  relays and profiles, and the tab of the interlock. All of these stay enabled without a
  connection, so that `DisconnectedIsDark` is about the others. The tab's buttons send the limit
  that is displayed (`mks946widget.cpp:578`). What a low-voltage window displays is zeroed on a
  disconnect and, if the next report is no different, stays so (`lv4psuwidget.cpp:103`); a
  radio button that was pressed without effect stays checked until the next report.
* What the windows send by themselves: measurements of an MKS910 select the unit in its box, which
  then calls `setUnits` (`mks910widget.cpp:65`), so that a late report takes a change of units back.
* A subscription or an item that could not be created, which is only logged
  (`opc_client_gui.cpp:60`, `opcQObject.cpp:28`): `LinkOpens` takes both to succeed.
* The buttons of the PID control of an MKS946 are modelled, and follow the reported state and not the
  connection (`mks946widget.cpp:93`): `DisconnectedIsDark` excepts them. Nothing in the repository says
  that they should, so this is listed as a hazard and not as a finding.

## Plan

What was planned is done: the threads, the controllers with their recovery file, method
calls, history, every device controller but PiWeather, the profiles and the client's
windows, and the proofs of all safety properties and refinements. What would come next is to
say of the first two findings under which condition the violated statement holds (a recovery
that no update overtakes, a greeting that is answered), and to prove that.
