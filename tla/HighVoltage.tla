----------------------------- MODULE HighVoltage -----------------------------
(***************************************************************************)
(* The controllers of the CAEN supplies DT1470ET, DT1415ET and N1471: the  *)
(* device thread asks the device questions over a stream. An answer does   *)
(* not say which question it belongs to, so one that comes after its       *)
(* question has been given up would be taken for the answer to the next.   *)
(* An answer is represented by its question, that to the control mode by   *)
(* the mode; answers are assumed to arrive whole. What a stream delivers   *)
(* at once is a chunk, a sequence of answers. The order of methods and     *)
(* updates is left open. The three supplies differ in the greeting, in     *)
(* the questions of getConfiguration and in what a setting asks first.     *)
(***************************************************************************)
EXTENDS Naturals, Sequences

VARIABLES
  supply,     \* which of the supplies it is
  connected,  \* isConnected()
  remote,     \* whether the device is controlled remotely
  wire,       \* answers that have not been received from the stream
  greeted,    \* history: this stream's setConnectionStream succeeded
  job,        \* what the device thread is doing
  got,        \* the chunks it has received in this job
  shown       \* the variables: None or the chunks they show

vars == <<supply, connected, remote, wire, greeted, job, got, shown>>

None == <<>>
Variables == {"deviceInfo", "measurements", "configuration"}
Jobs == Variables \cup {"idle", "greet", "set"}

(* Questions whose answers are converted by stod or stoi, and answers that *)
(* a conversion accepts. Neither the model, the polarity, the control mode *)
(* nor the answer to a SET begins with a number.                           *)
Converted == {"VMON", "IMON", "STAT", "VSET", "ISET", "RUP", "RDW", "MAXV"}
Numeric == Converted \cup {"BDFREL", "BDSNUM"}
Answers == Numeric \cup {"BDNAME", "POL", "REMOTE", "LOCAL", "SET"}

Supplies == {"DT1470ET", "DT1415ET", "N1471"}

(* Whether setConnectionStream asks for the firmware version.              *)
Greets(s) == s # "N1471"

DeviceInfo == << "BDNAME", "BDSNUM", "BDFREL" >>
Measurements == << "VMON", "IMON" >>

(* What getConfiguration asks of each supply: all of them the control mode *)
(* and then the status; the DT1415ET is not asked for its polarity.        *)
DT1470ETQuestions == << "BDCTR", "STAT", "VSET", "ISET", "RUP", "RDW", "MAXV", "POL" >>
DT1415ETQuestions == << "BDCTR", "STAT", "VSET", "ISET", "RUP", "RDW", "MAXV" >>
N1471Questions == << "BDCTR", "STAT", "VSET", "ISET", "RUP", "RDW", "MAXV", "POL" >>

Configuration(s) ==
  CASE s = "DT1470ET" -> DT1470ETQuestions
    [] s = "DT1415ET" -> DT1415ETQuestions
    [] s = "N1471" -> N1471Questions

Program(s, v) ==
  CASE v = "deviceInfo" -> DeviceInfo
    [] v = "measurements" -> Measurements
    [] v = "configuration" -> Configuration(s)

(* What can be set, and which of it each supply sets only after isRemote;  *)
(* the N1471 sets the highest voltage without asking.                      *)
Settings == {"ON", "OFF", "VSET", "ISET", "MAXV", "RUP", "RDW", "BDCLR"}
DT1470ETGuarded == Settings
DT1415ETGuarded == Settings
N1471Guarded == Settings \ {"MAXV"}

Guarded(s) ==
  CASE s = "DT1470ET" -> DT1470ETGuarded
    [] s = "DT1415ET" -> DT1415ETGuarded
    [] s = "N1471" -> N1471Guarded

Answer(q) ==
  IF q = "BDCTR" THEN IF remote THEN "REMOTE" ELSE "LOCAL" ELSE q

(* A conversion that takes anything for a number.                          *)
MutFits(q, chunk) == TRUE

(* A conversion looks at the beginning of what was received.               *)
Fits(q, chunk) == q \in Converted => Head(chunk) \in Numeric

TypeOK ==
  /\ supply \in Supplies
  /\ connected \in BOOLEAN /\ remote \in BOOLEAN /\ greeted \in BOOLEAN
  /\ wire \in Seq(Answers) /\ Len(wire) < 2
  /\ job \in Jobs
  /\ got \in Seq(Seq(Answers))
  /\ job \in Variables => Len(got) < Len(Program(supply, job))
  /\ shown = [v \in Variables |-> shown[v]]
  /\ \A v \in Variables : shown[v] = None \/ Len(shown[v]) = Len(Program(supply, v))

Init ==
  /\ supply \in Supplies
  /\ connected = FALSE
  /\ remote \in BOOLEAN
  /\ wire = <<>>
  /\ greeted = FALSE
  /\ job = "idle"
  /\ got = <<>>
  /\ shown = [v \in Variables |-> None]

-----------------------------------------------------------------------------
(* One exchange: the device answers q, and the stream delivers a chunk of  *)
(* what there is, up to q's own answer or not.                             *)

Due(q) == Append(wire, Answer(q))
Chunks(q) == {SubSeq(Due(q), 1, k) : k \in 1 .. Len(wire) + 1}
Receive(q, chunk) == wire' = SubSeq(Due(q), Len(chunk) + 1, Len(wire) + 1)

Begin(j) == job' = j /\ got' = <<>>
End == Begin("idle")

(* Somebody turns the key of the device between local and remote.          *)
Panel ==
  /\ remote' = ~remote
  /\ UNCHANGED <<supply, connected, wire, greeted, job, got, shown>>

(* A stream replaced without dropping what is left in the old one.         *)
MutOpen ==
  /\ connected' = TRUE
  /\ greeted' = ~Greets(supply)
  /\ UNCHANGED wire

Open ==
  /\ connected' = TRUE
  /\ greeted' = ~Greets(supply)
  /\ wire' = <<>>

(* connectDevice with a new stream; or, if none could be opened, with the  *)
(* one there is, or not at all.                                            *)
Connect ==
  /\ job = "idle"
  /\ \/ Open /\ Begin(IF Greets(supply) THEN "greet" ELSE "deviceInfo")
     \/ /\ IF connected THEN Begin("deviceInfo") ELSE End
        /\ UNCHANGED <<connected, wire, greeted>>
  /\ UNCHANGED <<supply, remote, shown>>

(* setConnectionStream on the new stream.                                  *)
Greet ==
  /\ job = "greet"
  /\ \E chunk \in Chunks("BDFREL") : Receive("BDFREL", chunk)
  /\ greeted' = TRUE
  /\ Begin("deviceInfo")
  /\ UNCHANGED <<supply, connected, remote, shown>>

(* connectDevice catches what setConnectionStream throws, and goes on with *)
(* the stream. The answer may still come.                                  *)
GreetFails ==
  /\ job = "greet"
  /\ wire' \in {<<>>, <<Answer("BDFREL")>>}
  /\ Begin("deviceInfo")
  /\ UNCHANGED <<supply, connected, remote, greeted, shown>>

(* An update of a variable, or null if the device is not connected.        *)
Update(v) ==
  /\ job = "idle"
  /\ \/ connected /\ Begin(v) /\ UNCHANGED shown
     \/ ~connected /\ shown' = [shown EXCEPT ![v] = None] /\ UNCHANGED <<job, got>>
  /\ UNCHANGED <<supply, connected, remote, wire, greeted>>

(* The variable is set after one answer too many.                          *)
MutLastQuestion == Len(got) = Len(Program(supply, job))

LastQuestion == Len(got) + 1 = Len(Program(supply, job))

(* The next question of getDeviceInfo, getMeasurements or getConfiguration. *)
Query ==
  /\ job \in Variables
  /\ connected
  /\ LET q == Program(supply, job)[Len(got) + 1]
     IN  \E chunk \in Chunks(q) :
           /\ Receive(q, chunk)
           /\ Fits(q, chunk)
           /\ IF LastQuestion
                THEN shown' = [shown EXCEPT ![job] = Append(got, chunk)] /\ End
                ELSE got' = Append(got, chunk) /\ UNCHANGED <<job, shown>>
  /\ UNCHANGED <<supply, connected, remote, greeted>>

(* setON, setOFF, setVoltageSet, ... and clearAlarmSignal. A setting that  *)
(* is not guarded goes on as if the device had been asked.                 *)
Set(x) ==
  /\ job = "idle"
  /\ job' = "set"
  /\ got' = IF x \in Guarded(supply) THEN <<>> ELSE << <<>> >>
  /\ UNCHANGED <<supply, connected, remote, wire, greeted, shown>>

(* isRemote: nothing is sent and nobody is told if it is not.              *)
IsRemote ==
  /\ job = "set" /\ got = <<>>
  /\ connected
  /\ \E chunk \in Chunks("BDCTR") :
       /\ Receive("BDCTR", chunk)
       /\ IF chunk = << "REMOTE" >> THEN got' = << chunk >> /\ UNCHANGED job ELSE End
  /\ UNCHANGED <<supply, connected, remote, greeted, shown>>

(* The answer to a SET is not looked at.                                   *)
SendSet ==
  /\ job = "set" /\ got # <<>>
  /\ connected
  /\ \E chunk \in Chunks("SET") : Receive("SET", chunk)
  /\ End
  /\ UNCHANGED <<supply, connected, remote, greeted, shown>>

Reset ==
  /\ connected' = FALSE
  /\ wire' = <<>>
  /\ greeted' = FALSE

Disconnect ==
  /\ job = "idle"
  /\ Reset
  /\ UNCHANGED <<supply, remote, job, got, shown>>

(* An exchange that fails without dropping the connection: the answer may  *)
(* still come.                                                             *)
MutFail ==
  /\ job \notin {"idle", "greet"}
  /\ wire' \in {wire, <<Answer("BDCTR")>>}
  /\ End
  /\ UNCHANGED <<supply, connected, remote, greeted, shown>>

(* No connection, no answer or one that cannot be converted: the wrapper   *)
(* of the method or the update drops the connection.                       *)
Fail ==
  /\ job \notin {"idle", "greet"}
  /\ Reset
  /\ End
  /\ UNCHANGED <<supply, remote, shown>>

DeviceThread ==
  \/ Greet \/ GreetFails \/ Query \/ IsRemote \/ SendSet \/ Fail

Next ==
  \/ DeviceThread
  \/ Connect \/ Disconnect
  \/ \E x \in Settings : Set(x)
  \/ \E v \in {"measurements", "configuration"} : Update(v)
  \/ Panel

Spec == Init /\ [][Next]_vars

(* An exchange ends by its timeout, and an update is run some time, as the *)
(* calls of the clients leave room for it.                                 *)
FairSpec ==
  /\ Spec
  /\ WF_vars(DeviceThread)
  /\ \A v \in {"measurements", "configuration"} : SF_vars(Update(v))

-----------------------------------------------------------------------------
(* What was received is nothing but the answer to the question.            *)
Own(q) == IF q = "BDCTR" THEN {<< "REMOTE" >>, << "LOCAL" >>} ELSE {<< q >>}
RealFrom(n, v, chunks) ==
  \A i \in n .. Len(Program(supply, v)) : chunks[i] \in Own(Program(supply, v)[i])

(* Between two jobs no answer is outstanding, whatever timed out, failed   *)
(* or was reconnected before, unless the greeting of this stream failed.   *)
InStep == job = "idle" /\ greeted => wire = <<>>

(* Every number of the configuration is the answer to its own question,    *)
(* also when the greeting failed: an answer out of step makes stoi throw   *)
(* before the variable is set.                                             *)
ConfigurationIsReal ==
  shown["configuration"] # None => RealFrom(2, "configuration", shown["configuration"])

(* After a greeting that succeeded, everything that is newly shown is what *)
(* the device answered to that question.                                   *)
NewsIsReal ==
  [][\A v \in Variables :
       greeted /\ shown'[v] # shown[v] /\ shown'[v] # None => RealFrom(1, v, shown'[v])]_vars

(* A connection out of step does not last.                                 *)
OutOfStepEnds == connected /\ wire # <<>> ~> ~connected \/ wire = <<>>

(* The model that is shown of a device is its model.                       *)
ModelIsShown == shown["deviceInfo"] # None => shown["deviceInfo"][1] = << "BDNAME" >>
=============================================================================
