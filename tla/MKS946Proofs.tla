----------------------------- MODULE MKS946Proofs -----------------------------
(***************************************************************************)
(* What holds of DCSMKS946Controller for every set of values, calls and    *)
(* updates: a relay that is on has the settings of one call, the interlock *)
(* acts on the limit in force, a running PID control keeps its recipe, and *)
(* the variables show what the device does.                                *)
(***************************************************************************)
EXTENDS MKS946Controller, TLAPS

(* How far setRelay has come tells which settings are those of its call.   *)
RelayStage ==
  job # None /\ job.op = "setRelay" =>
    /\ job \in Calls
    /\ step > 1 => device["enabled"] = "CLEAR"
    /\ step > 2 => device["direction"] = Direction(job.setpoint, job.hysteresis)
    /\ step > 3 => device["setpoint"] = job.setpoint
    /\ step > 4 => device["hysteresis"] = job.hysteresis

ConfigurationFresh == shown["configuration"] = Value("configuration")
PIDFresh == shown["PID"] = Value("PID")

(* Only the jobs that end by reading a variable may leave it behind.       *)
ShownStage ==
  connected =>
    /\ \/ job # None /\ job.op \in {"configureFlow", "configurePressure", "setPIDState", "connect"}
       \/ job # None /\ job.op = "trip" /\ step < 3
       \/ ConfigurationFresh
    /\ \/ job # None /\ job.op \in {"configureAll", "configureTuning"}
       \/ job # None /\ job.op = "connect" /\ step = 1
       \/ PIDFresh

(* PID control does not start while its whole recipe is being written.     *)
PIDStage == job # None /\ job.op = "configureAll" => device["pid"] = FALSE

(* The limit of an update of the interlock is the one in force.            *)
LimitStage ==
  job # None /\ job.op = "interlock" => armed /\ limit # NaN /\ job.limit = limit

IInv ==
  /\ TypeOK
  /\ RelayStage /\ RelayCoherent
  /\ ShownStage
  /\ PIDStage
  /\ LimitStage /\ TripIsJustified

-----------------------------------------------------------------------------
(* The exchange that comes next, by job and step.                          *)

Doing(op) == job # None /\ job.op = op
At(op, k, n, s) ==
  Doing(op) /\ step = k /\ Len(Program(job)) = n /\ Upcoming = s

SetRelayAt ==
  \/ At("setRelay", 1, 5, Set("enabled", "CLEAR"))
  \/ At("setRelay", 2, 5, Set("direction", Direction(job.setpoint, job.hysteresis)))
  \/ At("setRelay", 3, 5, Set("setpoint", job.setpoint))
  \/ At("setRelay", 4, 5, Set("hysteresis", job.hysteresis))
  \/ At("setRelay", 5, 5, Set("enabled", job.enabled))

ConfigureAt ==
  \/ At("configurePID", 1, 1, Do("readPIDState"))
  \/ At("configureAll", 1, 3, Set("recipe", job.recipe))
  \/ At("configureAll", 2, 3, Set("tuning", job.tuning))
  \/ At("configureAll", 3, 3, Read("PID"))
  \/ At("configureTuning", 1, 2, Set("tuning", job.tuning))
  \/ At("configureTuning", 2, 2, Read("PID"))
  \/ At("configureFlow", 1, 3, Set("mode", job.mode))
  \/ At("configureFlow", 2, 3, Set("flow", job.flow))
  \/ At("configureFlow", 3, 3, Read("configuration"))
  \/ At("configurePressure", 1, 2, Set("manometer", job.manometer))
  \/ At("configurePressure", 2, 2, Read("configuration"))
  \/ At("setPIDState", 1, 2, Set("pid", job.on))
  \/ At("setPIDState", 2, 2, Read("configuration"))
  \/ At("zeroMFC", 1, 3, Set("calibration", "Enable"))
  \/ At("zeroMFC", 2, 3, Do("zero"))
  \/ At("zeroMFC", 3, 3, Set("calibration", "Disable"))

OtherAt ==
  \/ At("connect", 1, 2, Read("PID"))
  \/ At("connect", 2, 2, Read("configuration"))
  \/ At("update", 1, 1, Read(job.variable))
  \/ At("interlock", 1, 1, Do("readPressure"))
  \/ At("trip", 1, 3, Set("mode", "CLOSE"))
  \/ At("trip", 2, 3, Read("configuration"))
  \/ At("trip", 3, 3, Do("tell"))

(* The fields of a job of each kind.                                       *)
JobFields ==
  /\ Doing("setRelay") =>
       job.enabled \in Enablings /\ job.setpoint \in Values /\ job.hysteresis \in Values
  /\ Doing("configurePID") \/ Doing("configureAll") \/ Doing("configureTuning") =>
       job.recipe \in Values /\ job.tuning \in Values
  /\ Doing("configureFlow") => job.mode \in Modes /\ job.flow \in Values
  /\ Doing("configurePressure") => job.manometer \in Values
  /\ Doing("setPIDState") => job.on \in BOOLEAN
  /\ Doing("update") => job.variable \in Variables \ {"interlockState"}
  /\ Doing("interlock") => job.limit \in Values
  /\ Doing("trip") => job.pressure \in Values

Ops == {"setRelay", "configurePID", "configureAll", "configureTuning", "configureFlow",
        "configurePressure", "setPIDState", "zeroMFC", "connect", "update", "interlock",
        "trip"}

(* A job is of one of these kinds and has its fields.                      *)
LEMMA JobKinds ==
  ASSUME job \in Job, job # None
  PROVE  job.op \in Ops /\ JobFields
BY DEF Job, Call, Ops, JobFields, Doing, Modes

(* Each job of the device thread is at one of the exchanges of its program. *)
LEMMA StepCases ==
  ASSUME TypeOK, ~Idle
  PROVE  JobFields /\ (SetRelayAt \/ ConfigureAt \/ OtherAt)
<1>1. job # None /\ job \in Job /\ step \in 1 .. Len(Program(job))
  BY DEF TypeOK, Idle
<1>2. job.op \in Ops /\ JobFields
  BY <1>1, JobKinds
<1>3. CASE job.op = "setRelay"
  <2>1. Program(job) = setRelay(job)
    BY <1>3 DEF Program
  <2>2. Len(Program(job)) = 5 /\ (step = 1 \/ step = 2 \/ step = 3 \/ step = 4 \/ step = 5)
    BY <1>1, <2>1 DEF setRelay
  <2> QED
    BY <1>1, <1>2, <1>3, <2>1, <2>2 DEF SetRelayAt, At, Doing, Upcoming, setRelay
<1>4. CASE job.op = "configurePID"
  <2>1. Program(job) = << Do("readPIDState") >>
    BY <1>4 DEF Program
  <2>2. Len(Program(job)) = 1 /\ (step = 1)
    BY <1>1, <2>1
  <2> QED
    BY <1>1, <1>2, <1>4, <2>1, <2>2 DEF ConfigureAt, At, Doing, Upcoming
<1>5. CASE job.op = "configureAll"
  <2>1. Program(job) = configureAll(job)
    BY <1>5 DEF Program
  <2>2. Len(Program(job)) = 3 /\ (step = 1 \/ step = 2 \/ step = 3)
    BY <1>1, <2>1 DEF configureAll
  <2> QED
    BY <1>1, <1>2, <1>5, <2>1, <2>2 DEF ConfigureAt, At, Doing, Upcoming, configureAll
<1>6. CASE job.op = "configureTuning"
  <2>1. Program(job) = configureTuning(job)
    BY <1>6 DEF Program
  <2>2. Len(Program(job)) = 2 /\ (step = 1 \/ step = 2)
    BY <1>1, <2>1 DEF configureTuning
  <2> QED
    BY <1>1, <1>2, <1>6, <2>1, <2>2 DEF ConfigureAt, At, Doing, Upcoming, configureTuning
<1>7. CASE job.op = "configureFlow"
  <2>1. Program(job) = configureFlow(job)
    BY <1>7 DEF Program
  <2>2. Len(Program(job)) = 3 /\ (step = 1 \/ step = 2 \/ step = 3)
    BY <1>1, <2>1 DEF configureFlow
  <2> QED
    BY <1>1, <1>2, <1>7, <2>1, <2>2 DEF ConfigureAt, At, Doing, Upcoming, configureFlow
<1>8. CASE job.op = "configurePressure"
  <2>1. Program(job) = configurePressure(job)
    BY <1>8 DEF Program
  <2>2. Len(Program(job)) = 2 /\ (step = 1 \/ step = 2)
    BY <1>1, <2>1 DEF configurePressure
  <2> QED
    BY <1>1, <1>2, <1>8, <2>1, <2>2 DEF ConfigureAt, At, Doing, Upcoming, configurePressure
<1>9. CASE job.op = "setPIDState"
  <2>1. Program(job) = setPIDState(job)
    BY <1>9 DEF Program
  <2>2. Len(Program(job)) = 2 /\ (step = 1 \/ step = 2)
    BY <1>1, <2>1 DEF setPIDState
  <2> QED
    BY <1>1, <1>2, <1>9, <2>1, <2>2 DEF ConfigureAt, At, Doing, Upcoming, setPIDState
<1>10. CASE job.op = "zeroMFC"
  <2>1. Program(job) = zeroMFC
    BY <1>10 DEF Program
  <2>2. Len(Program(job)) = 3 /\ (step = 1 \/ step = 2 \/ step = 3)
    BY <1>1, <2>1 DEF zeroMFC
  <2> QED
    BY <1>1, <1>2, <1>10, <2>1, <2>2 DEF ConfigureAt, At, Doing, Upcoming, zeroMFC
<1>11. CASE job.op = "connect"
  <2>1. Program(job) = postConnect
    BY <1>11 DEF Program
  <2>2. Len(Program(job)) = 2 /\ (step = 1 \/ step = 2)
    BY <1>1, <2>1 DEF postConnect
  <2> QED
    BY <1>1, <1>2, <1>11, <2>1, <2>2 DEF OtherAt, At, Doing, Upcoming, postConnect
<1>12. CASE job.op = "update"
  <2>1. Program(job) = << Read(job.variable) >>
    BY <1>12 DEF Program
  <2>2. Len(Program(job)) = 1 /\ (step = 1)
    BY <1>1, <2>1
  <2> QED
    BY <1>1, <1>2, <1>12, <2>1, <2>2 DEF OtherAt, At, Doing, Upcoming
<1>13. CASE job.op = "interlock"
  <2>1. Program(job) = << Do("readPressure") >>
    BY <1>13 DEF Program
  <2>2. Len(Program(job)) = 1 /\ (step = 1)
    BY <1>1, <2>1
  <2> QED
    BY <1>1, <1>2, <1>13, <2>1, <2>2 DEF OtherAt, At, Doing, Upcoming
<1>14. CASE job.op = "trip"
  <2>1. Program(job) = trip
    BY <1>14 DEF Program
  <2>2. Len(Program(job)) = 3 /\ (step = 1 \/ step = 2 \/ step = 3)
    BY <1>1, <2>1 DEF trip
  <2> QED
    BY <1>1, <1>2, <1>14, <2>1, <2>2 DEF OtherAt, At, Doing, Upcoming, trip
<1> QED
  BY <1>2, <1>3, <1>4, <1>5, <1>6, <1>7, <1>8, <1>9, <1>10, <1>11, <1>12, <1>13, <1>14 DEF Ops

-----------------------------------------------------------------------------
(* What a setting may change.                                              *)

RelayKept ==
  \A i \in {"enabled", "direction", "setpoint", "hysteresis"} : device'[i] = device[i]
FlowKept == \A i \in {"mode", "flow", "manometer"} : device'[i] = device[i]
RecipeKept == \A i \in {"recipe", "tuning"} : device'[i] = device[i]

SetEffects ==
  /\ DeviceTypeOK'
  /\ Doing("setRelay") =>
       /\ step = 1 => device'["enabled"] = "CLEAR"
       /\ step = 2 => device'["direction"] = Direction(job.setpoint, job.hysteresis)
       /\ step = 3 => device'["setpoint"] = job.setpoint
       /\ step = 4 => device'["hysteresis"] = job.hysteresis
       /\ step \notin {1, 5} => device'["enabled"] = device["enabled"]
       /\ step # 2 => device'["direction"] = device["direction"]
       /\ step # 3 => device'["setpoint"] = device["setpoint"]
       /\ step # 4 => device'["hysteresis"] = device["hysteresis"]
  /\ Doing("setRelay") \/ RelayKept
  /\ \/ Doing("configureFlow") \/ Doing("configurePressure") \/ Doing("setPIDState") \/ Doing("trip")
     \/ FlowKept
  /\ Doing("configureAll") \/ Doing("configureTuning") \/ RecipeKept
  /\ Doing("configureAll") \/ device'["recipe"] = device["recipe"]
  /\ Doing("setPIDState") \/ device'["pid"] = device["pid"]
  /\ Doing("trip") => step = 1
  /\ ~Doing("connect") /\ ~Doing("interlock")
  /\ step < Len(Program(job)) \/ Doing("setRelay") \/ Doing("zeroMFC")

(* The effect of one setting on the device, whose other settings it keeps. *)
LEMMA OneSetting ==
  ASSUME DeviceTypeOK, NEW i \in Items, NEW v, device' = [device EXCEPT ![i] = v]
  PROVE  device' = [j \in Items |-> IF j = i THEN v ELSE device[j]]
BY DEF DeviceTypeOK

(* Every setting of a job has the effects above.                           *)
LEMMA SettingEffects ==
  ASSUME TypeOK, ~Idle, Upcoming.do = "set", Obeys(Upcoming)
  PROVE  SetEffects
<1> USE DEF Items, Parameters
<1>1. JobFields /\ (SetRelayAt \/ ConfigureAt \/ OtherAt)
  BY StepCases
<1>2. DeviceTypeOK
  BY DEF TypeOK
<1>3. CASE At("setRelay", 1, 5, Set("enabled", "CLEAR"))
  <2>1. device' = [j \in Items |-> IF j = "enabled" THEN "CLEAR" ELSE device[j]]
    BY <1>2, <1>3, OneSetting DEF At, Set, Obeys
  <2> QED
    BY <1>1, <1>2, <1>3, <2>1 DEF SetEffects, DeviceTypeOK, JobFields, At, Doing,
      RelayKept, FlowKept, RecipeKept, Enablings, Modes, Direction
<1>4. CASE At("setRelay", 2, 5, Set("direction", Direction(job.setpoint, job.hysteresis)))
  <2>1. device' = [j \in Items |->
                     IF j = "direction" THEN Direction(job.setpoint, job.hysteresis) ELSE device[j]]
    BY <1>2, <1>4, OneSetting DEF At, Set, Obeys
  <2> QED
    BY <1>1, <1>2, <1>4, <2>1 DEF SetEffects, DeviceTypeOK, JobFields, At, Doing,
      RelayKept, FlowKept, RecipeKept, Enablings, Modes, Direction
<1>5. CASE At("setRelay", 3, 5, Set("setpoint", job.setpoint))
  <2>1. device' = [j \in Items |-> IF j = "setpoint" THEN job.setpoint ELSE device[j]]
    BY <1>2, <1>5, OneSetting DEF At, Set, Obeys
  <2> QED
    BY <1>1, <1>2, <1>5, <2>1 DEF SetEffects, DeviceTypeOK, JobFields, At, Doing,
      RelayKept, FlowKept, RecipeKept, Enablings, Modes, Direction
<1>6. CASE At("setRelay", 4, 5, Set("hysteresis", job.hysteresis))
  <2>1. device' = [j \in Items |-> IF j = "hysteresis" THEN job.hysteresis ELSE device[j]]
    BY <1>2, <1>6, OneSetting DEF At, Set, Obeys
  <2> QED
    BY <1>1, <1>2, <1>6, <2>1 DEF SetEffects, DeviceTypeOK, JobFields, At, Doing,
      RelayKept, FlowKept, RecipeKept, Enablings, Modes, Direction
<1>7. CASE At("setRelay", 5, 5, Set("enabled", job.enabled))
  <2>1. device' = [j \in Items |-> IF j = "enabled" THEN job.enabled ELSE device[j]]
    BY <1>2, <1>7, OneSetting DEF At, Set, Obeys
  <2> QED
    BY <1>1, <1>2, <1>7, <2>1 DEF SetEffects, DeviceTypeOK, JobFields, At, Doing,
      RelayKept, FlowKept, RecipeKept, Enablings, Modes, Direction
<1>8. CASE At("configureAll", 1, 3, Set("recipe", job.recipe))
  <2>1. device' = [j \in Items |-> IF j = "recipe" THEN job.recipe ELSE device[j]]
    BY <1>2, <1>8, OneSetting DEF At, Set, Obeys
  <2> QED
    BY <1>1, <1>2, <1>8, <2>1 DEF SetEffects, DeviceTypeOK, JobFields, At, Doing,
      RelayKept, FlowKept, RecipeKept, Enablings, Modes, Direction
<1>9. CASE At("configureAll", 2, 3, Set("tuning", job.tuning))
  <2>1. device' = [j \in Items |-> IF j = "tuning" THEN job.tuning ELSE device[j]]
    BY <1>2, <1>9, OneSetting DEF At, Set, Obeys
  <2> QED
    BY <1>1, <1>2, <1>9, <2>1 DEF SetEffects, DeviceTypeOK, JobFields, At, Doing,
      RelayKept, FlowKept, RecipeKept, Enablings, Modes, Direction
<1>10. CASE At("configureTuning", 1, 2, Set("tuning", job.tuning))
  <2>1. device' = [j \in Items |-> IF j = "tuning" THEN job.tuning ELSE device[j]]
    BY <1>2, <1>10, OneSetting DEF At, Set, Obeys
  <2> QED
    BY <1>1, <1>2, <1>10, <2>1 DEF SetEffects, DeviceTypeOK, JobFields, At, Doing,
      RelayKept, FlowKept, RecipeKept, Enablings, Modes, Direction
<1>11. CASE At("configureFlow", 1, 3, Set("mode", job.mode))
  <2>1. device' = [j \in Items |-> IF j = "mode" THEN job.mode ELSE device[j]]
    BY <1>2, <1>11, OneSetting DEF At, Set, Obeys
  <2> QED
    BY <1>1, <1>2, <1>11, <2>1 DEF SetEffects, DeviceTypeOK, JobFields, At, Doing,
      RelayKept, FlowKept, RecipeKept, Enablings, Modes, Direction
<1>12. CASE At("configureFlow", 2, 3, Set("flow", job.flow))
  <2>1. device' = [j \in Items |-> IF j = "flow" THEN job.flow ELSE device[j]]
    BY <1>2, <1>12, OneSetting DEF At, Set, Obeys
  <2> QED
    BY <1>1, <1>2, <1>12, <2>1 DEF SetEffects, DeviceTypeOK, JobFields, At, Doing,
      RelayKept, FlowKept, RecipeKept, Enablings, Modes, Direction
<1>13. CASE At("configurePressure", 1, 2, Set("manometer", job.manometer))
  <2>1. device' = [j \in Items |-> IF j = "manometer" THEN job.manometer ELSE device[j]]
    BY <1>2, <1>13, OneSetting DEF At, Set, Obeys
  <2> QED
    BY <1>1, <1>2, <1>13, <2>1 DEF SetEffects, DeviceTypeOK, JobFields, At, Doing,
      RelayKept, FlowKept, RecipeKept, Enablings, Modes, Direction
<1>14. CASE At("zeroMFC", 1, 3, Set("calibration", "Enable"))
  <2>1. device' = [j \in Items |-> IF j = "calibration" THEN "Enable" ELSE device[j]]
    BY <1>2, <1>14, OneSetting DEF At, Set, Obeys
  <2> QED
    BY <1>1, <1>2, <1>14, <2>1 DEF SetEffects, DeviceTypeOK, JobFields, At, Doing,
      RelayKept, FlowKept, RecipeKept, Enablings, Modes, Direction
<1>15. CASE At("zeroMFC", 3, 3, Set("calibration", "Disable"))
  <2>1. device' = [j \in Items |-> IF j = "calibration" THEN "Disable" ELSE device[j]]
    BY <1>2, <1>15, OneSetting DEF At, Set, Obeys
  <2> QED
    BY <1>1, <1>2, <1>15, <2>1 DEF SetEffects, DeviceTypeOK, JobFields, At, Doing,
      RelayKept, FlowKept, RecipeKept, Enablings, Modes, Direction
<1>16. CASE At("trip", 1, 3, Set("mode", "CLOSE"))
  <2>1. device' = [j \in Items |-> IF j = "mode" THEN "CLOSE" ELSE device[j]]
    BY <1>2, <1>16, OneSetting DEF At, Set, Obeys
  <2> QED
    BY <1>1, <1>2, <1>16, <2>1 DEF SetEffects, DeviceTypeOK, JobFields, At, Doing,
      RelayKept, FlowKept, RecipeKept, Enablings, Modes, Direction
<1>17. CASE At("setPIDState", 1, 2, Set("pid", job.on))
  <2>1. PICK m \in Modes \cup {device["mode"]} :
          device' = [j \in Items |-> IF j = "pid" THEN job.on
                                    ELSE IF j = "mode" THEN m ELSE device[j]]
    BY <1>2, <1>17 DEF At, Set, Obeys, DeviceTypeOK
  <2> QED
    BY <1>1, <1>2, <1>17, <2>1 DEF SetEffects, DeviceTypeOK, JobFields, At, Doing,
      RelayKept, FlowKept, RecipeKept
<1>18. ASSUME NEW v
       PROVE  Read(v).do = "read" /\ Do(v).do = v
  BY DEF Read, Do
<1>19. ASSUME NEW op, NEW k, NEW n, NEW v
       PROVE  ~At(op, k, n, Read(v))
  BY <1>18 DEF At
<1>20. ASSUME NEW op, NEW k, NEW n, NEW v, v # "set"
       PROVE  ~At(op, k, n, Do(v))
  BY <1>18, <1>20, Zenon DEF At
<1> QED
  BY <1>1, <1>19, <1>20, <1>3, <1>4, <1>5, <1>6, <1>7, <1>8, <1>9, <1>10, <1>11,
     <1>12, <1>13, <1>14, <1>15, <1>16, <1>17, Zenon
  DEF SetRelayAt, ConfigureAt, OtherAt

-----------------------------------------------------------------------------
(* The steps of the device thread.                                         *)

JobOK ==
  \/ job = None /\ step = 0
  \/ job \in Job /\ step \in 1 .. Len(Program(job))

(* A job goes on to its next exchange or ends.                             *)
LEMMA AdvanceCases ==
  ASSUME TypeOK, ~Idle, Advance
  PROVE  /\ JobOK'
         /\ \/ step = Len(Program(job)) /\ job' = None /\ step' = 0
            \/ step < Len(Program(job)) /\ job' = job /\ step' = step + 1
<1>1. job \in Job /\ step \in 1 .. Len(Program(job))
  BY DEF TypeOK, Idle
<1>2. Len(Program(job)) \in 1 .. 5
  BY StepCases DEF SetRelayAt, ConfigureAt, OtherAt, At
<1>3. CASE step = Len(Program(job))
  BY <1>3 DEF Advance, Finish, JobOK
<1>4. CASE step # Len(Program(job))
  <2>1. job' = job /\ step' = step + 1
    BY <1>4 DEF Advance
  <2>2. step < Len(Program(job)) /\ step' \in 1 .. Len(Program(job))
    BY <1>1, <1>2, <1>4, <2>1
  <2> QED
    BY <1>1, <2>1, <2>2 DEF JobOK
<1> QED
  BY <1>3, <1>4

(* Every job has a first exchange.                                         *)
LEMMA BeginJob ==
  ASSUME NEW j \in Job, Begin(j)
  PROVE  JobOK' /\ job' = j /\ step' = 1 /\ job' # None
<1>1. job' = j /\ step' = 1
  BY DEF Begin
<1>2. j.op \in Ops
  BY DEF Job, Call, Ops
<1>3. Len(Program(j)) \in 1 .. 5
  <2>1. CASE j.op = "setRelay"
    <3>1. Program(j) = setRelay(j)
      BY <2>1 DEF Program
    <3> QED
      BY <3>1 DEF setRelay
  <2>2. CASE j.op = "configurePID"
    <3>1. Program(j) = << Do("readPIDState") >>
      BY <2>2 DEF Program
    <3> QED
      BY <3>1
  <2>3. CASE j.op = "configureAll"
    <3>1. Program(j) = configureAll(j)
      BY <2>3 DEF Program
    <3> QED
      BY <3>1 DEF configureAll
  <2>4. CASE j.op = "configureTuning"
    <3>1. Program(j) = configureTuning(j)
      BY <2>4 DEF Program
    <3> QED
      BY <3>1 DEF configureTuning
  <2>5. CASE j.op = "configureFlow"
    <3>1. Program(j) = configureFlow(j)
      BY <2>5 DEF Program
    <3> QED
      BY <3>1 DEF configureFlow
  <2>6. CASE j.op = "configurePressure"
    <3>1. Program(j) = configurePressure(j)
      BY <2>6 DEF Program
    <3> QED
      BY <3>1 DEF configurePressure
  <2>7. CASE j.op = "setPIDState"
    <3>1. Program(j) = setPIDState(j)
      BY <2>7 DEF Program
    <3> QED
      BY <3>1 DEF setPIDState
  <2>8. CASE j.op = "zeroMFC"
    <3>1. Program(j) = zeroMFC
      BY <2>8 DEF Program
    <3> QED
      BY <3>1 DEF zeroMFC
  <2>9. CASE j.op = "connect"
    <3>1. Program(j) = postConnect
      BY <2>9 DEF Program
    <3> QED
      BY <3>1 DEF postConnect
  <2>10. CASE j.op = "update"
    <3>1. Program(j) = << Read(j.variable) >>
      BY <2>10 DEF Program
    <3> QED
      BY <3>1
  <2>11. CASE j.op = "interlock"
    <3>1. Program(j) = << Do("readPressure") >>
      BY <2>11 DEF Program
    <3> QED
      BY <3>1
  <2>12. CASE j.op = "trip"
    <3>1. Program(j) = trip
      BY <2>12 DEF Program
    <3> QED
      BY <3>1 DEF trip
  <2> QED
    BY <1>2, <2>1, <2>2, <2>3, <2>4, <2>5, <2>6, <2>7, <2>8, <2>9, <2>10, <2>11, <2>12 DEF Ops
<1> QED
  BY <1>1, <1>3, NoneAssumption DEF JobOK

-----------------------------------------------------------------------------
(* The invariant holds initially and in every step.                        *)

LEMMA InitIInv == Init => IInv
<1> SUFFICES ASSUME Init
             PROVE  IInv
  OBVIOUS
<1> USE MKS946Assumption
<1>1. DeviceTypeOK
  BY DEF Init, DeviceTypeOK, Items, Parameters, Enablings, Modes
<1>2. TypeOK
  <2>1. shown = [v \in Variables |-> shown[v]]
    BY DEF Init
  <2>2. connected \in BOOLEAN /\ armed \in BOOLEAN /\ limit \in Values \cup {NaN}
    BY DEF Init
  <2>3. commands \in Seq(Calls) /\ updates \in Seq(Updates) /\ calls \in 0 .. MaxCalls
    BY DEF Init
  <2> QED
    BY <1>1, <2>1, <2>2, <2>3 DEF Init, TypeOK
<1>3. RelayStage /\ ShownStage /\ PIDStage /\ LimitStage /\ TripIsJustified
  BY DEF Init, RelayStage, ShownStage, PIDStage, LimitStage, TripIsJustified
<1>4. RelayCoherent
  BY DEF Init, RelayCoherent, Items
<1> QED
  BY <1>2, <1>3, <1>4 DEF IInv

(* A state with the same device, job and interlock keeps what the          *)
(* invariant says of them.                                                 *)
LEMMA SameDevice ==
  ASSUME IInv, UNCHANGED <<device, armed, limit, job, step>>
  PROVE  /\ RelayStage' /\ RelayCoherent' /\ PIDStage' /\ LimitStage' /\ TripIsJustified'
         /\ DeviceTypeOK' /\ JobOK'
         /\ UNCHANGED <<connected, shown>> => ShownStage'
<1>1. RelayStage' /\ RelayCoherent' /\ PIDStage' /\ LimitStage' /\ TripIsJustified'
  BY DEF IInv, RelayStage, RelayCoherent, PIDStage, LimitStage, TripIsJustified
<1>2. DeviceTypeOK' /\ JobOK'
  BY DEF IInv, TypeOK, DeviceTypeOK, JobOK
<1>3. ASSUME UNCHANGED <<connected, shown>>
      PROVE  ShownStage'
  BY <1>3 DEF IInv, ShownStage, ConfigurationFresh, PIDFresh, Value
<1> QED
  BY <1>1, <1>2, <1>3

(* A job of the thread that begins with the device untouched. j says which *)
(* of the stages it has to bring along.                                    *)
LEMMA NewJob ==
  ASSUME IInv, Idle \/ ~connected \/ (ConfigurationFresh /\ PIDFresh),
         NEW j \in Job, Begin(j), UNCHANGED <<device, armed, limit, shown>>,
         connected' => connected \/ j.op = "connect",
         j.op = "setRelay" => j \in Calls,
         j.op = "configureAll" => device["pid"] = FALSE,
         j.op = "interlock" => armed /\ limit # NaN /\ j.limit = limit,
         j.op = "trip" => armed /\ limit # NaN /\ limit < j.pressure
  PROVE  /\ RelayStage' /\ RelayCoherent' /\ PIDStage' /\ LimitStage' /\ TripIsJustified'
         /\ DeviceTypeOK' /\ JobOK' /\ ShownStage'
<1>1. JobOK' /\ job' = j /\ step' = 1 /\ job' # None
  BY BeginJob
<1>2. RelayStage' /\ RelayCoherent' /\ PIDStage' /\ LimitStage' /\ TripIsJustified'
  <2>1. RelayStage'
    BY <1>1 DEF RelayStage
  <2>2. RelayCoherent'
    BY DEF IInv, RelayCoherent
  <2>3. PIDStage'
    BY <1>1 DEF PIDStage
  <2>4. LimitStage'
    BY <1>1 DEF LimitStage
  <2>5. TripIsJustified'
    BY <1>1 DEF TripIsJustified
  <2> QED
    BY <2>1, <2>2, <2>3, <2>4, <2>5
<1>3. DeviceTypeOK'
  BY DEF IInv, TypeOK, DeviceTypeOK
<1>4. ASSUME j.op = "connect"
      PROVE  ShownStage'
  BY <1>1, <1>4 DEF ShownStage
<1>5. ASSUME j.op # "connect"
      PROVE  ShownStage'
  <2>1. Idle /\ connected => ConfigurationFresh /\ PIDFresh
    BY DEF IInv, ShownStage, Idle
  <2>2. connected' => ConfigurationFresh /\ PIDFresh
    BY <1>5, <2>1
  <2>3. ConfigurationFresh /\ PIDFresh => ConfigurationFresh' /\ PIDFresh'
    BY DEF ConfigurationFresh, PIDFresh, Value
  <2> QED
    BY <2>2, <2>3 DEF ShownStage
<1> QED
  BY <1>1, <1>2, <1>3, <1>4, <1>5

(* TypeOK without the parts that most steps leave alone.                   *)
LEMMA TypeParts ==
  ASSUME TypeOK, DeviceTypeOK', JobOK', connected' \in BOOLEAN,
         shown' = [v \in Variables |-> shown'[v]],
         UNCHANGED <<pressure, armed, limit>>,
         \/ UNCHANGED <<calls, commands>>
         \/ calls' \in 0 .. MaxCalls /\ commands' \in Seq(Calls),
         UNCHANGED updates \/ updates' \in Seq(Updates)
  PROVE  TypeOK'
<1>1. armed' \in BOOLEAN /\ limit' \in Values \cup {NaN} /\ pressure' \in Values
  BY DEF TypeOK
<1>2. calls' \in 0 .. MaxCalls /\ commands' \in Seq(Calls) /\ updates' \in Seq(Updates)
  BY DEF TypeOK
<1> QED
  BY <1>1, <1>2 DEF TypeOK, JobOK

(* What taking the oldest command or update yields.                        *)
LEMMA TakenCommand ==
  ASSUME TypeOK, NEW op, NextCommand(op)
  PROVE  /\ Head(commands) \in Calls /\ Head(commands).op = op /\ Idle
         /\ commands' \in Seq(Calls) /\ calls' \in 0 .. MaxCalls /\ UNCHANGED updates
<1>1. commands \in Seq(Calls) /\ commands # <<>>
  BY DEF TypeOK, NextCommand
<1>2. Head(commands) \in Calls /\ Tail(commands) \in Seq(Calls)
  BY <1>1
<1> QED
  BY <1>2 DEF NextCommand, TypeOK

LEMMA TakenUpdate ==
  ASSUME TypeOK, NEW u, NextUpdate(u)
  PROVE  /\ u \in Updates /\ Idle
         /\ updates' \in Seq(Updates) /\ UNCHANGED <<calls, commands>>
<1>1. updates \in Seq(Updates) /\ updates # <<>>
  BY DEF TypeOK, NextUpdate
<1>2. Head(updates) \in Updates /\ Tail(updates) \in Seq(Updates)
  BY <1>1
<1> QED
  BY <1>2 DEF NextUpdate

(* interlockState is none of the variables that show settings.             *)
LEMMA InterlockShown ==
  ASSUME TypeOK, NEW x, shown' = [shown EXCEPT !["interlockState"] = x], UNCHANGED device
  PROVE  /\ shown' = [v \in Variables |-> shown'[v]]
         /\ ConfigurationFresh => ConfigurationFresh'
         /\ PIDFresh => PIDFresh'
<1>1. shown' = [v \in Variables |-> IF v = "interlockState" THEN x ELSE shown[v]]
  BY DEF TypeOK
<1>2. shown'["configuration"] = shown["configuration"] /\ shown'["PID"] = shown["PID"]
  BY <1>1 DEF Variables
<1>3. shown' = [v \in Variables |-> shown'[v]]
  BY <1>1
<1> QED
  BY <1>2, <1>3 DEF ConfigurationFresh, PIDFresh, Value

LEMMA ShownSame ==
  ASSUME TypeOK, UNCHANGED shown
  PROVE  shown' = [v \in Variables |-> shown'[v]]
BY DEF TypeOK

(* What the clients, the timers and the device's surroundings do.          *)
LEMMA EnvironmentIInv ==
  ASSUME IInv,
         \/ \E c \in Calls : Invoke(c)
         \/ \E u \in Updates : Tick(u)
         \/ \E p \in Values : PressureChange(p)
         \/ \E m \in Modes, r \in Values : Panel(m, r)
  PROVE  IInv'
<1> USE DEF environmentVars, interlockVars, queueVars, jobVars
<1>1. TypeOK
  BY DEF IInv
<1>2. CASE \E c \in Calls : Invoke(c)
  <2>1. PICK c \in Calls : Invoke(c)
    BY <1>2
  <2>2. calls' \in 0 .. MaxCalls
    BY <1>1, <2>1, MKS946Assumption DEF Invoke, TypeOK
  <2>3. commands' \in Seq(Calls)
    BY <1>1, <2>1 DEF Invoke, TypeOK
  <2>4. UNCHANGED <<connected, device, pressure, armed, limit, shown, updates, job, step>>
    BY <2>1 DEF Invoke
  <2>5. TypeOK'
    BY <1>1, <2>2, <2>3, <2>4, SameDevice, ShownSame, TypeParts DEF TypeOK
  <2> QED
    BY <2>4, <2>5, SameDevice DEF IInv
<1>3. CASE \E u \in Updates : Tick(u)
  <2>1. PICK u \in Updates : Tick(u)
    BY <1>3
  <2>2. updates' \in Seq(Updates)
    BY <1>1, <2>1 DEF Tick, TypeOK
  <2>3. UNCHANGED <<connected, device, pressure, armed, limit, shown, commands, calls, job, step>>
    BY <2>1 DEF Tick
  <2>4. TypeOK'
    BY <1>1, <2>2, <2>3, SameDevice, ShownSame, TypeParts DEF TypeOK
  <2> QED
    BY <2>3, <2>4, SameDevice DEF IInv
<1>4. CASE \E p \in Values : PressureChange(p)
  <2>1. pressure' \in Values
    BY <1>4 DEF PressureChange
  <2>2. UNCHANGED <<connected, device, armed, limit, shown, commands, updates, calls, job, step>>
    BY <1>4 DEF PressureChange
  <2>3. DeviceTypeOK' /\ JobOK'
    BY <2>2, SameDevice
  <2>4. shown' = [v \in Variables |-> shown'[v]]
    BY <1>1, <2>2, ShownSame
  <2>5. connected' \in BOOLEAN /\ armed' \in BOOLEAN /\ limit' \in Values \cup {NaN}
    BY <1>1, <2>2 DEF TypeOK
  <2>6. commands' \in Seq(Calls) /\ updates' \in Seq(Updates) /\ calls' \in 0 .. MaxCalls
    BY <1>1, <2>2 DEF TypeOK
  <2>7. TypeOK'
    BY <2>1, <2>3, <2>4, <2>5, <2>6, Zenon DEF TypeOK, JobOK
  <2> QED
    BY <2>2, <2>7, SameDevice DEF IInv
<1>5. CASE \E m \in Modes, r \in Values : Panel(m, r)
  <2>1. PICK m \in Modes, r \in Values : Panel(m, r)
    BY <1>5
  <2>2. device' = [i \in Items |-> IF i = "mode" THEN m ELSE IF i = "recipe" THEN r ELSE device[i]]
    BY <1>1, <2>1 DEF Panel, TypeOK, DeviceTypeOK, Items, Parameters
  <2>3. DeviceTypeOK'
    BY <1>1, <2>2 DEF TypeOK, DeviceTypeOK, Items, Parameters, Modes
  <2>4. connected' = FALSE /\ job = None /\ job' = None /\ step' = step
    BY <1>1, <2>1 DEF Panel, Idle, TypeOK
  <2>5. UNCHANGED <<pressure, armed, limit, shown, commands, updates, calls>>
    BY <2>1 DEF Panel
  <2>6. JobOK'
    BY <1>1, <2>4, NoneAssumption DEF TypeOK, JobOK
  <2>7. TypeOK'
    <3>1. connected' \in BOOLEAN /\ shown' = [v \in Variables |-> shown'[v]]
      BY <1>1, <2>4, <2>5, ShownSame
    <3>2. UNCHANGED <<pressure, armed, limit>> /\ UNCHANGED <<calls, commands>> /\ UNCHANGED updates
      BY <2>5
    <3> QED
      BY <1>1, <2>3, <2>6, <3>1, <3>2, TypeParts DEF TypeOK
  <2>8. RelayCoherent'
    BY <2>2 DEF IInv, RelayCoherent, Items, Parameters
  <2> QED
    BY <2>4, <2>7, <2>8 DEF IInv, RelayStage, ShownStage, PIDStage, LimitStage, TripIsJustified
<1> QED
  BY <1>2, <1>3, <1>4, <1>5

(* What the device thread does when it takes a command or an update.       *)
LEMMA TakeIInv ==
  ASSUME IInv,
         \/ Connect \/ Disconnect \/ ConfigureInterlock
         \/ \E c \in Calls : Method(c.op)
         \/ \E u \in Updates : UpdateNull(u) \/ Update(u)
         \/ "interlockState" \in Updates /\ InterlockAction
  PROVE  IInv'
<1> USE DEF environmentVars, interlockVars, jobVars
<1>1. TypeOK
  BY DEF IInv
<1>2. CASE Connect
  <2>1. Head(commands) \in Calls /\ Head(commands).op = "connect" /\ Idle
        /\ commands' \in Seq(Calls) /\ calls' \in 0 .. MaxCalls /\ UNCHANGED updates
    BY <1>1, <1>2, TakenCommand DEF Connect
  <2>2. UNCHANGED <<device, pressure, armed, limit, shown>>
    BY <1>2 DEF Connect
  <2>3. CASE connected' = TRUE /\ Begin(Head(commands))
    <3>1. Head(commands) \in Job
      BY <2>1, MKS946Assumption DEF Job
    <3>2. /\ RelayStage' /\ RelayCoherent' /\ PIDStage' /\ LimitStage' /\ TripIsJustified'
          /\ DeviceTypeOK' /\ JobOK' /\ ShownStage'
      BY <2>1, <2>2, <2>3, <3>1, NewJob
    <3>3. TypeOK'
      BY <1>1, <2>1, <2>2, <2>3, <3>2, ShownSame, TypeParts
    <3> QED
      BY <3>2, <3>3 DEF IInv
  <2>4. CASE ~connected /\ UNCHANGED <<connected, job, step>>
    <3>1. TypeOK'
      BY <1>1, <2>1, <2>2, <2>4, SameDevice, ShownSame, TypeParts DEF TypeOK
    <3> QED
      BY <2>2, <2>4, <3>1, SameDevice DEF IInv
  <2> QED
    BY <1>2, <2>3, <2>4 DEF Connect
<1>3. CASE Disconnect
  <2>1. commands' \in Seq(Calls) /\ calls' \in 0 .. MaxCalls /\ UNCHANGED updates
    BY <1>1, <1>3, TakenCommand DEF Disconnect
  <2>2. connected' = FALSE /\ UNCHANGED <<device, pressure, armed, limit, shown, job, step>>
    BY <1>3 DEF Disconnect
  <2>3. TypeOK'
    BY <1>1, <2>1, <2>2, SameDevice, ShownSame, TypeParts
  <2>4. ShownStage'
    BY <2>2 DEF ShownStage
  <2> QED
    BY <2>2, <2>3, <2>4, SameDevice DEF IInv
<1>4. CASE ConfigureInterlock
  <2>1. Head(commands) \in Calls /\ Head(commands).op = "configureInterlock" /\ Idle
        /\ commands' \in Seq(Calls) /\ calls' \in 0 .. MaxCalls /\ UNCHANGED updates
    BY <1>1, <1>4, TakenCommand DEF ConfigureInterlock
  <2>2. armed' = Head(commands).armed /\ limit' = Head(commands).limit
        /\ UNCHANGED <<connected, device, pressure, shown, job, step>>
    BY <1>4 DEF ConfigureInterlock
  <2>3. Head(commands) \in Call
    BY <2>1, MKS946Assumption
  <2>4. armed' \in BOOLEAN /\ limit' \in Values \cup {NaN}
    BY <2>1, <2>2, <2>3 DEF Call
  <2>5. TypeOK'
    BY <1>1, <2>1, <2>2, <2>4 DEF TypeOK, DeviceTypeOK
  <2>6. job' = None
    BY <2>1, <2>2 DEF Idle
  <2>7. RelayCoherent' /\ ShownStage'
    BY <2>2 DEF IInv, RelayCoherent, ShownStage, ConfigurationFresh, PIDFresh, Value
  <2> QED
    BY <2>5, <2>6, <2>7 DEF IInv, RelayStage, PIDStage, LimitStage, TripIsJustified
<1>5. CASE \E c \in Calls : Method(c.op)
  <2>1. PICK op : Method(op)
    BY <1>5
  <2>2. Head(commands) \in Calls /\ Head(commands).op = op /\ Idle
        /\ commands' \in Seq(Calls) /\ calls' \in 0 .. MaxCalls /\ UNCHANGED updates
    BY <1>1, <2>1, TakenCommand DEF Method
  <2>3. op \notin {"connect", "disconnect", "configureInterlock"} /\ Begin(Head(commands))
        /\ UNCHANGED <<connected, device, pressure, armed, limit, shown>>
    BY <2>1 DEF Method
  <2>4. Head(commands) \in Job
    BY <2>2, <2>3, MKS946Assumption DEF Job
  <2>5. op \notin {"configureAll", "interlock", "trip"}
    BY <2>2, MKS946Assumption DEF Call
  <2>6. /\ RelayStage' /\ RelayCoherent' /\ PIDStage' /\ LimitStage' /\ TripIsJustified'
        /\ DeviceTypeOK' /\ JobOK' /\ ShownStage'
    BY <2>2, <2>3, <2>4, <2>5, NewJob
  <2>7. TypeOK'
    BY <1>1, <2>2, <2>3, <2>6, ShownSame, TypeParts DEF TypeOK
  <2> QED
    BY <2>6, <2>7 DEF IInv
<1>6. ASSUME NEW u \in Updates, UpdateNull(u)
      PROVE  IInv'
  <2>1. Idle /\ updates' \in Seq(Updates) /\ UNCHANGED <<calls, commands>>
    BY <1>1, <1>6, TakenUpdate DEF UpdateNull
  <2>2. ~connected /\ shown' = [shown EXCEPT ![u] = None]
        /\ UNCHANGED <<connected, device, pressure, armed, limit, job, step>>
    BY <1>6 DEF UpdateNull
  <2>3. shown' = [v \in Variables |-> shown'[v]]
    BY <1>1, <2>2 DEF TypeOK
  <2>4. TypeOK'
    BY <1>1, <2>1, <2>2, <2>3, SameDevice, TypeParts DEF TypeOK
  <2>5. ShownStage'
    BY <2>2 DEF ShownStage
  <2> QED
    BY <2>2, <2>4, <2>5, SameDevice DEF IInv
<1>7. ASSUME NEW u \in Updates, Update(u)
      PROVE  IInv'
  <2>1. Idle /\ updates' \in Seq(Updates) /\ UNCHANGED <<calls, commands>>
    BY <1>1, <1>7, TakenUpdate DEF Update
  <2>2. u # "interlockState" /\ Begin([op |-> "update", variable |-> u])
        /\ UNCHANGED <<connected, device, pressure, armed, limit, shown>>
    BY <1>7 DEF Update
  <2>3. [op |-> "update", variable |-> u] \in Job
    BY <2>2, MKS946Assumption DEF Job
  <2>4. /\ RelayStage' /\ RelayCoherent' /\ PIDStage' /\ LimitStage' /\ TripIsJustified'
        /\ DeviceTypeOK' /\ JobOK' /\ ShownStage'
    BY <2>1, <2>2, <2>3, NewJob
  <2>5. TypeOK'
    BY <1>1, <2>1, <2>2, <2>4, ShownSame, TypeParts DEF TypeOK
  <2> QED
    BY <2>4, <2>5 DEF IInv
<1>8. CASE InterlockAction
  <2>1. Idle /\ updates' \in Seq(Updates) /\ UNCHANGED <<calls, commands>>
    BY <1>1, <1>8, TakenUpdate DEF InterlockAction
  <2>2. UNCHANGED <<connected, device, pressure, armed, limit>>
    BY <1>8 DEF InterlockAction
  <2>3. CASE armed /\ limit # NaN /\ Begin([op |-> "interlock", limit |-> limit]) /\ UNCHANGED shown
    <3>1. [op |-> "interlock", limit |-> limit] \in Job
      BY <1>1, <2>3 DEF Job, TypeOK
    <3>2. /\ RelayStage' /\ RelayCoherent' /\ PIDStage' /\ LimitStage' /\ TripIsJustified'
          /\ DeviceTypeOK' /\ JobOK' /\ ShownStage'
      BY <2>1, <2>2, <2>3, <3>1, NewJob
    <3>3. TypeOK'
      BY <1>1, <2>1, <2>2, <2>3, <3>2, ShownSame, TypeParts DEF TypeOK
    <3> QED
      BY <3>2, <3>3 DEF IInv
  <2>4. CASE shown' = [shown EXCEPT !["interlockState"] = FALSE] /\ UNCHANGED <<job, step>>
    <3>1. /\ shown' = [v \in Variables |-> shown'[v]]
          /\ ConfigurationFresh => ConfigurationFresh'
          /\ PIDFresh => PIDFresh'
      BY <1>1, <2>2, <2>4, InterlockShown
    <3>2. ShownStage'
      BY <2>2, <2>4, <3>1 DEF IInv, ShownStage
    <3>3. TypeOK'
      BY <1>1, <2>1, <2>2, <2>4, <3>1, SameDevice, TypeParts DEF TypeOK
    <3> QED
      BY <2>2, <2>4, <3>2, <3>3, SameDevice DEF IInv
  <2> QED
    BY <1>8, <2>3, <2>4 DEF InterlockAction
<1> QED
  BY <1>2, <1>3, <1>4, <1>5, <1>6, <1>7, <1>8

(* However far setRelay comes, the relay is off or has its settings.       *)
LEMMA SettingRelay ==
  ASSUME IInv, ~Idle, Upcoming.do = "set", Obeys(Upcoming)
  PROVE  RelayCoherent' /\ SetEffects
<1> USE DEF Idle
<1>1. SetEffects
  BY SettingEffects DEF IInv
<1>2. job.op = "setRelay" => step \in 1 .. 5 /\ Len(Program(job)) = 5
  BY StepCases DEF IInv, SetRelayAt, ConfigureAt, OtherAt, At, Doing
<1>3. RelayCoherent'
  <2>1. CASE ~Doing("setRelay")
    BY <1>1, <2>1 DEF IInv, RelayCoherent, SetEffects, RelayKept
  <2>2. CASE Doing("setRelay")
    <3>1. step \in 1 .. 5
      BY <1>2, <2>2 DEF Doing
    <3>2. CASE step \in 1 .. 4
      <4>1. device'["enabled"] = "CLEAR"
        BY <1>1, <2>2, <3>2 DEF IInv, RelayStage, Doing, SetEffects
      <4> QED
        BY <4>1 DEF RelayCoherent
    <3>3. CASE step = 5
      <4>1. /\ job \in Calls /\ job.op = "setRelay"
            /\ device'["setpoint"] = job.setpoint
            /\ device'["hysteresis"] = job.hysteresis
            /\ device'["direction"] = Direction(job.setpoint, job.hysteresis)
        BY <1>1, <2>2, <3>3 DEF IInv, RelayStage, Doing, SetEffects
      <4> QED
        BY <4>1 DEF RelayCoherent
    <3> QED
      BY <3>1, <3>2, <3>3
  <2> QED
    BY <2>1, <2>2
<1> QED
  BY <1>1, <1>3

(* What an exchange that succeeds does to the settings.                    *)
LEMMA SetIInv ==
  ASSUME IInv, SetStep
  PROVE  IInv'
<1>1. TypeOK /\ ~Idle /\ job # None
  BY DEF IInv, SetStep, Idle
<1>2. SetEffects
  BY <1>1, SettingEffects DEF SetStep
<1>3. /\ JobOK'
      /\ \/ step = Len(Program(job)) /\ job' = None /\ step' = 0
         \/ step < Len(Program(job)) /\ job' = job /\ step' = step + 1
  BY <1>1, AdvanceCases DEF SetStep
<1>4. UNCHANGED <<connected, pressure, armed, limit, shown, commands, updates, calls>>
  BY DEF SetStep, interlockVars, queueVars
<1>5. JobFields /\ (SetRelayAt \/ ConfigureAt \/ OtherAt)
  BY <1>1, StepCases
<1>6. TypeOK'
  BY <1>1, <1>2, <1>3, <1>4, ShownSame, TypeParts DEF TypeOK, SetEffects
<1>7. step \in 1 .. 5 /\ Len(Program(job)) \in 1 .. 5
  BY <1>5 DEF SetRelayAt, ConfigureAt, OtherAt, At
<1>8. job.op = "setRelay" => step \in 1 .. 5 /\ Len(Program(job)) = 5
  BY <1>5 DEF SetRelayAt, ConfigureAt, OtherAt, At, Doing
<1>9. RelayStage'
  <2>1. ASSUME job' # None, job'.op = "setRelay"
        PROVE  RelayStage'
    <3>1. job' = job /\ step' = step + 1 /\ step < Len(Program(job))
      BY <1>3, <2>1
    <3>2. Doing("setRelay")
      BY <1>1, <2>1, <3>1 DEF Doing
    <3>3. step \in 1 .. 5 /\ Len(Program(job)) = 5
      BY <1>8, <3>2 DEF Doing
    <3>4. job' = job /\ step' = step + 1 /\ Doing("setRelay") /\ step \in 1 .. 4
      BY <3>1, <3>2, <3>3
    <3>5. job \in Calls
      BY <3>4 DEF IInv, RelayStage, Doing
    <3>6. device'["enabled"] = "CLEAR"
      BY <1>2, <3>4 DEF IInv, RelayStage, Doing, SetEffects
    <3>7. step > 1 => device'["direction"] = Direction(job.setpoint, job.hysteresis)
      BY <1>2, <3>4 DEF IInv, RelayStage, Doing, SetEffects
    <3>8. step > 2 => device'["setpoint"] = job.setpoint
      BY <1>2, <3>4 DEF IInv, RelayStage, Doing, SetEffects
    <3>9. step > 3 => device'["hysteresis"] = job.hysteresis
      BY <1>2, <3>4 DEF IInv, RelayStage, Doing, SetEffects
    <3> QED
      BY <3>4, <3>5, <3>6, <3>7, <3>8, <3>9 DEF RelayStage
  <2> QED
    BY <2>1 DEF RelayStage
<1>10. RelayCoherent'
  BY <1>1, SettingRelay DEF SetStep
<1>11. ShownStage'
  <2>1. ASSUME connected'
        PROVE  /\ \/ job' # None /\ job'.op \in {"configureFlow", "configurePressure", "setPIDState", "connect"}
                  \/ job' # None /\ job'.op = "trip" /\ step' < 3
                  \/ ConfigurationFresh'
    <3>1. CASE \/ Doing("configureFlow") \/ Doing("configurePressure") \/ Doing("setPIDState")
      BY <1>1, <1>2, <1>3, <3>1 DEF SetEffects, Doing
    <3>2. CASE Doing("trip")
      <4>1. step = 1 /\ step < Len(Program(job))
        BY <1>2, <3>2 DEF SetEffects, Doing
      <4>2. job' = job /\ step' = 2
        BY <1>3, <1>7, <4>1
      <4> QED
        BY <3>2, <4>2 DEF Doing
    <3>3. CASE FlowKept /\ ~Doing("trip") /\ ~Doing("configureFlow")
               /\ ~Doing("configurePressure") /\ ~Doing("setPIDState")
      <4>1. ConfigurationFresh
        BY <1>1, <1>2, <1>4, <2>1, <3>3 DEF IInv, ShownStage, SetEffects, Doing
      <4> QED
        BY <1>4, <3>3, <4>1 DEF ConfigurationFresh, Value, FlowKept
    <3> QED
      BY <1>2, <3>1, <3>2, <3>3 DEF SetEffects
  <2>2. ASSUME connected'
        PROVE  /\ \/ job' # None /\ job'.op \in {"configureAll", "configureTuning"}
                  \/ job' # None /\ job'.op = "connect" /\ step' = 1
                  \/ PIDFresh'
    <3>1. CASE Doing("configureAll") \/ Doing("configureTuning")
      BY <1>1, <1>2, <1>3, <3>1 DEF SetEffects, Doing
    <3>2. CASE RecipeKept /\ ~Doing("configureAll") /\ ~Doing("configureTuning")
      <4>1. PIDFresh
        BY <1>1, <1>2, <1>4, <2>2, <3>2 DEF IInv, ShownStage, SetEffects, Doing
      <4> QED
        BY <1>4, <3>2, <4>1 DEF PIDFresh, Value, RecipeKept
    <3> QED
      BY <1>2, <3>1, <3>2 DEF SetEffects
  <2> QED
    BY <2>1, <2>2 DEF ShownStage
<1>12. PIDStage'
  BY <1>1, <1>2, <1>3 DEF IInv, PIDStage, SetEffects, Doing
<1>13. LimitStage' /\ TripIsJustified'
  BY <1>1, <1>3, <1>4 DEF IInv, LimitStage, TripIsJustified
<1> QED
  BY <1>6, <1>9, <1>10, <1>11, <1>12, <1>13 DEF IInv

(* What reading a variable makes of those that show settings, by job.      *)
ReadEffects ==
  /\ ~Doing("setRelay")
  /\ Doing("configureFlow") \/ Doing("configurePressure") \/ Doing("setPIDState") \/ Doing("trip") =>
       Upcoming.variable = "configuration"
  /\ Doing("configureAll") \/ Doing("configureTuning") => Upcoming.variable = "PID"
  /\ Doing("connect") /\ step = 1 => Upcoming.variable = "PID" /\ Len(Program(job)) = 2
  /\ Doing("connect") /\ step # 1 => Upcoming.variable = "configuration"
  /\ Doing("trip") => step = 2
  /\ step \in 1 .. 5 /\ Len(Program(job)) \in 1 .. 5
  /\ Upcoming.variable \in Variables

LEMMA ReadingEffects ==
  ASSUME TypeOK, ~Idle, Upcoming.do = "read"
  PROVE  ReadEffects
<1>1. JobFields /\ (SetRelayAt \/ ConfigureAt \/ OtherAt)
  BY StepCases
<1>2. ASSUME NEW i, NEW v
      PROVE  Set(i, v).do = "set"
  BY DEF Set
<1>3. ASSUME NEW v
      PROVE  Do(v).do = v
  BY DEF Do
<1>4. ASSUME NEW v
      PROVE  Read(v).variable = v
  BY DEF Read
<1>5. ASSUME NEW op, NEW k, NEW n, NEW i, NEW v
      PROVE  ~At(op, k, n, Set(i, v))
  BY <1>2, Zenon DEF At
<1>6. ASSUME NEW op, NEW k, NEW n, NEW v, v # "read"
      PROVE  ~At(op, k, n, Do(v))
  BY <1>3, <1>6, Zenon DEF At
<1>7. \/ At("configureAll", 3, 3, Read("PID"))
      \/ At("configureTuning", 2, 2, Read("PID"))
      \/ At("configureFlow", 3, 3, Read("configuration"))
      \/ At("configurePressure", 2, 2, Read("configuration"))
      \/ At("setPIDState", 2, 2, Read("configuration"))
      \/ At("connect", 1, 2, Read("PID"))
      \/ At("connect", 2, 2, Read("configuration"))
      \/ At("update", 1, 1, Read(job.variable))
      \/ At("trip", 2, 3, Read("configuration"))
  BY <1>1, <1>5, <1>6, Zenon DEF SetRelayAt, ConfigureAt, OtherAt
<1> QED
  BY <1>1, <1>4, <1>7 DEF ReadEffects, At, Doing, JobFields, Variables

(* Reading a variable makes it fresh and keeps the other one.              *)
LEMMA ReadFresh ==
  ASSUME TypeOK, NEW w \in Variables, shown' = [shown EXCEPT ![w] = Value(w)],
         UNCHANGED device
  PROVE  /\ shown' = [v \in Variables |-> shown'[v]]
         /\ ConfigurationFresh \/ w = "configuration" => ConfigurationFresh'
         /\ PIDFresh \/ w = "PID" => PIDFresh'
<1>1. shown' = [v \in Variables |-> IF v = w THEN Value(w) ELSE shown[v]]
  BY DEF TypeOK
<1>2. shown' = [v \in Variables |-> shown'[v]]
  BY <1>1
<1>3. /\ w = "configuration" => shown'["configuration"] = Value("configuration")
      /\ w # "configuration" => shown'["configuration"] = shown["configuration"]
      /\ w = "PID" => shown'["PID"] = Value("PID")
      /\ w # "PID" => shown'["PID"] = shown["PID"]
  BY <1>1 DEF Variables
<1>4. Value("configuration")' = Value("configuration") /\ Value("PID")' = Value("PID")
  BY DEF Value
<1> QED
  BY <1>2, <1>3, <1>4 DEF ConfigurationFresh, PIDFresh

LEMMA ReadIInv ==
  ASSUME IInv, ReadStep
  PROVE  IInv'
<1>1. TypeOK /\ ~Idle /\ job # None
  BY DEF IInv, ReadStep, Idle
<1>2. ReadEffects
  BY <1>1, ReadingEffects DEF ReadStep
<1>3. /\ JobOK'
      /\ \/ step = Len(Program(job)) /\ job' = None /\ step' = 0
         \/ step < Len(Program(job)) /\ job' = job /\ step' = step + 1
  BY <1>1, AdvanceCases DEF ReadStep
<1>4. UNCHANGED <<connected, device, pressure, armed, limit, commands, updates, calls>>
  BY DEF ReadStep, environmentVars, interlockVars, queueVars
<1> DEFINE w == Upcoming.variable
<1>6. w \in Variables /\ shown' = [shown EXCEPT ![w] = Value(w)]
  BY <1>2 DEF ReadStep, ReadEffects
<1>7. /\ shown' = [v \in Variables |-> shown'[v]]
      /\ ConfigurationFresh \/ w = "configuration" => ConfigurationFresh'
      /\ PIDFresh \/ w = "PID" => PIDFresh'
  BY <1>1, <1>4, <1>6, ReadFresh
<1>8. DeviceTypeOK'
  BY <1>1, <1>4 DEF TypeOK, DeviceTypeOK
<1>9. TypeOK'
  BY <1>1, <1>3, <1>4, <1>7, <1>8, TypeParts DEF TypeOK
<1>10. RelayStage'
  BY <1>1, <1>2, <1>3 DEF ReadEffects, RelayStage, Doing
<1>11. RelayCoherent' /\ PIDStage' /\ LimitStage' /\ TripIsJustified'
  BY <1>3, <1>4 DEF IInv, RelayCoherent, PIDStage, LimitStage, TripIsJustified
<1>12. ShownStage'
  <2>1. CASE Doing("connect") /\ step = 1
    <3>1. step < Len(Program(job)) /\ w = "PID"
      BY <1>2, <2>1 DEF ReadEffects
    <3>2. job' = job
      BY <1>2, <1>3, <3>1 DEF ReadEffects
    <3> QED
      BY <1>7, <2>1, <3>1, <3>2 DEF ShownStage, Doing
  <2>2. CASE Doing("connect") /\ step # 1
    BY <1>1, <1>2, <1>4, <1>7, <2>2 DEF IInv, ShownStage, ReadEffects, Doing
  <2>3. CASE ~Doing("connect")
    <3>1. connected => ConfigurationFresh'
      BY <1>1, <1>2, <1>7, <2>3 DEF IInv, ShownStage, ReadEffects, Doing
    <3>2. connected => PIDFresh'
      BY <1>1, <1>2, <1>7, <2>3 DEF IInv, ShownStage, ReadEffects, Doing
    <3> QED
      BY <1>4, <3>1, <3>2 DEF ShownStage
  <2> QED
    BY <2>1, <2>2, <2>3
<1> QED
  BY <1>9, <1>10, <1>11, <1>12 DEF IInv

(* The jobs whose next exchange is none of the two above.                  *)
LEMMA DoCases ==
  ASSUME TypeOK, ~Idle, Upcoming.do \notin {"set", "read"}
  PROVE  /\ JobFields
         /\ Upcoming.do = "zero" => Doing("zeroMFC")
         /\ Upcoming.do = "readPIDState" => Doing("configurePID")
         /\ Upcoming.do = "readPressure" => Doing("interlock")
         /\ Upcoming.do = "tell" => Doing("trip") /\ step = 3 /\ Len(Program(job)) = 3
<1>1. JobFields /\ (SetRelayAt \/ ConfigureAt \/ OtherAt)
  BY StepCases
<1>2. ASSUME NEW op, NEW k, NEW n, NEW i, NEW v
      PROVE  ~At(op, k, n, Set(i, v)) /\ ~At(op, k, n, Read(v))
  <2>1. Set(i, v).do = "set" /\ Read(v).do = "read"
    BY DEF Set, Read
  <2> QED
    BY <2>1 DEF At
<1>3. ASSUME NEW v
      PROVE  Do(v).do = v
  BY DEF Do
<1>4. \/ At("configurePID", 1, 1, Do("readPIDState"))
      \/ At("zeroMFC", 2, 3, Do("zero"))
      \/ At("interlock", 1, 1, Do("readPressure"))
      \/ At("trip", 3, 3, Do("tell"))
  BY <1>1, <1>2, Zenon DEF SetRelayAt, ConfigureAt, OtherAt
<1> QED
  BY <1>1, <1>3, <1>4 DEF At, Doing

(* A job during which the variables stay fresh.                            *)
LEMMA FreshJob ==
  ASSUME IInv, connected,
         Doing("zeroMFC") \/ Doing("configurePID") \/ Doing("interlock")
           \/ (Doing("trip") /\ step = 3)
  PROVE  ConfigurationFresh /\ PIDFresh
BY DEF IInv, ShownStage, Doing

LEMMA ZeroIInv ==
  ASSUME IInv, ZeroStep
  PROVE  IInv'
<1>1. TypeOK /\ ~Idle /\ connected
  BY DEF IInv, ZeroStep
<1>2. Doing("zeroMFC")
  BY <1>1, DoCases DEF ZeroStep
<1>3. JobOK' /\ (job' = None \/ job' = job)
  BY <1>1, AdvanceCases DEF ZeroStep
<1>4. UNCHANGED <<connected, device, pressure, armed, limit, shown, commands, updates, calls>>
  BY DEF ZeroStep, environmentVars, interlockVars, queueVars
<1>5. DeviceTypeOK'
  BY <1>1, <1>4 DEF TypeOK, DeviceTypeOK
<1>6. TypeOK'
  BY <1>1, <1>3, <1>4, <1>5, ShownSame, TypeParts DEF TypeOK
<1>7. RelayStage' /\ PIDStage' /\ LimitStage' /\ TripIsJustified'
  BY <1>2, <1>3 DEF RelayStage, PIDStage, LimitStage, TripIsJustified, Doing
<1>8. RelayCoherent'
  BY <1>4 DEF IInv, RelayCoherent
<1>9. ConfigurationFresh' /\ PIDFresh'
  BY <1>1, <1>2, <1>4, FreshJob DEF ConfigurationFresh, PIDFresh, Value
<1> QED
  BY <1>6, <1>7, <1>8, <1>9 DEF IInv, ShownStage

LEMMA ReadPIDStateIInv ==
  ASSUME IInv, ReadPIDState
  PROVE  IInv'
<1>1. TypeOK /\ ~Idle /\ connected
  BY DEF IInv, ReadPIDState
<1>2. Doing("configurePID") /\ JobFields
  BY <1>1, DoCases DEF ReadPIDState
<1> DEFINE j == [op |-> IF device["pid"] THEN "configureTuning" ELSE "configureAll",
                 recipe |-> job.recipe, tuning |-> job.tuning]
<1>3. Begin(j) /\ UNCHANGED <<connected, device, pressure, armed, limit, shown, commands,
                               updates, calls>>
  BY DEF ReadPIDState, environmentVars, interlockVars, queueVars
<1>4. j \in Job
  BY <1>2 DEF Job, JobFields
<1>5. device["pid"] \in BOOLEAN
  BY <1>1 DEF TypeOK, DeviceTypeOK
<1>6. j.op = "configureAll" => device["pid"] = FALSE
  BY <1>5
<1>7. j.op \notin {"connect", "setRelay", "interlock", "trip"}
  OBVIOUS
<1>8. ConfigurationFresh /\ PIDFresh
  BY <1>1, <1>2, FreshJob
<1> HIDE DEF j
<1>9. /\ RelayStage' /\ RelayCoherent' /\ PIDStage' /\ LimitStage' /\ TripIsJustified'
      /\ DeviceTypeOK' /\ JobOK' /\ ShownStage'
  BY <1>3, <1>4, <1>6, <1>7, <1>8, NewJob
<1>10. TypeOK'
  BY <1>1, <1>3, <1>9, ShownSame, TypeParts DEF TypeOK
<1> QED
  BY <1>9, <1>10 DEF IInv

LEMMA ReadPressureIInv ==
  ASSUME IInv, ReadPressure
  PROVE  IInv'
<1>1. TypeOK /\ ~Idle /\ connected
  BY DEF IInv, ReadPressure
<1>2. Doing("interlock") /\ JobFields
  BY <1>1, DoCases DEF ReadPressure
<1>3. armed /\ limit # NaN /\ job.limit = limit
  BY <1>2 DEF IInv, LimitStage, Doing
<1>4. ConfigurationFresh /\ PIDFresh
  BY <1>1, <1>2, FreshJob
<1>5. UNCHANGED <<connected, device, pressure, armed, limit, commands, updates, calls>>
  BY DEF ReadPressure, environmentVars, interlockVars, queueVars
<1>6. CASE job.limit < pressure /\ Begin([op |-> "trip", pressure |-> pressure]) /\ UNCHANGED shown
  <2>1. [op |-> "trip", pressure |-> pressure] \in Job
    BY <1>1 DEF Job, TypeOK
  <2>2. /\ RelayStage' /\ RelayCoherent' /\ PIDStage' /\ LimitStage' /\ TripIsJustified'
        /\ DeviceTypeOK' /\ JobOK' /\ ShownStage'
    BY <1>3, <1>4, <1>5, <1>6, <2>1, NewJob
  <2>3. TypeOK'
    BY <1>1, <1>5, <1>6, <2>2, ShownSame, TypeParts DEF TypeOK
  <2> QED
    BY <2>2, <2>3 DEF IInv
<1>7. CASE shown' = [shown EXCEPT !["interlockState"] = FALSE] /\ Finish
  <2>1. /\ shown' = [v \in Variables |-> shown'[v]]
        /\ ConfigurationFresh' /\ PIDFresh'
    BY <1>1, <1>4, <1>5, <1>7, InterlockShown
  <2>2. JobOK' /\ job' = None
    BY <1>7 DEF Finish, JobOK
  <2>3. DeviceTypeOK'
    BY <1>1, <1>5 DEF TypeOK, DeviceTypeOK
  <2>4. TypeOK'
    BY <1>1, <1>5, <2>1, <2>2, <2>3, TypeParts DEF TypeOK
  <2>5. RelayCoherent'
    BY <1>5 DEF IInv, RelayCoherent
  <2> QED
    BY <2>1, <2>2, <2>4, <2>5
      DEF IInv, ShownStage, RelayStage, PIDStage, LimitStage, TripIsJustified
<1> QED
  BY <1>6, <1>7 DEF ReadPressure

LEMMA TellIInv ==
  ASSUME IInv, Tell
  PROVE  IInv'
<1>1. TypeOK /\ ~Idle
  BY DEF IInv, Tell
<1>2. Doing("trip") /\ step = 3 /\ Len(Program(job)) = 3
  BY <1>1, DoCases DEF Tell
<1>3. JobOK' /\ job' = None
  BY <1>1, <1>2, AdvanceCases DEF Tell
<1>4. UNCHANGED <<connected, device, pressure, armed, limit, commands, updates, calls>>
      /\ shown' = [shown EXCEPT !["interlockState"] = TRUE]
  BY DEF Tell, environmentVars, interlockVars, queueVars
<1>5. /\ shown' = [v \in Variables |-> shown'[v]]
      /\ ConfigurationFresh => ConfigurationFresh'
      /\ PIDFresh => PIDFresh'
  BY <1>1, <1>4, InterlockShown
<1>6. DeviceTypeOK'
  BY <1>1, <1>4 DEF TypeOK, DeviceTypeOK
<1>7. TypeOK'
  BY <1>1, <1>3, <1>4, <1>5, <1>6, TypeParts DEF TypeOK
<1>8. RelayCoherent'
  BY <1>4 DEF IInv, RelayCoherent
<1>9. connected => ConfigurationFresh' /\ PIDFresh'
  BY <1>2, <1>5, FreshJob
<1> QED
  BY <1>3, <1>4, <1>7, <1>8, <1>9
    DEF IInv, ShownStage, RelayStage, PIDStage, LimitStage, TripIsJustified

LEMMA FailIInv ==
  ASSUME IInv, Fail
  PROVE  IInv'
<1>1. TypeOK /\ ~Idle
  BY DEF IInv, Fail
<1>2. JobOK' /\ job' = None /\ connected' = FALSE
  BY DEF Fail, Finish, JobOK
<1>3. UNCHANGED <<pressure, armed, limit, shown, commands, updates, calls>>
  BY DEF Fail, interlockVars, queueVars
<1>4. RelayCoherent' /\ DeviceTypeOK'
  <2>1. CASE UNCHANGED device
    BY <1>1, <2>1 DEF IInv, RelayCoherent, TypeOK, DeviceTypeOK
  <2>2. CASE Upcoming.do = "set" /\ Obeys(Upcoming)
    BY <1>1, <2>2, SettingRelay DEF SetEffects
  <2> QED
    BY <2>1, <2>2 DEF Fail
<1>5. TypeOK'
  BY <1>1, <1>2, <1>3, <1>4, ShownSame, TypeParts DEF TypeOK
<1> QED
  BY <1>2, <1>4, <1>5
    DEF IInv, ShownStage, RelayStage, PIDStage, LimitStage, TripIsJustified

LEMMA NextIInv == IInv /\ [Next]_vars => IInv'
<1> SUFFICES ASSUME IInv, [Next]_vars
             PROVE  IInv'
  OBVIOUS
<1>1. CASE DeviceThread
  BY <1>1, TakeIInv, SetIInv, ZeroIInv, ReadIInv, ReadPIDStateIInv, ReadPressureIInv,
     TellIInv, FailIInv DEF DeviceThread, Exchange
<1>2. CASE Next /\ ~DeviceThread
  BY <1>2, EnvironmentIInv DEF Next
<1>3. CASE UNCHANGED vars
  <2>1. UNCHANGED <<connected, device, pressure, armed, limit, shown, commands, updates, job,
                    step, calls>>
    BY <1>3 DEF vars
  <2>2. TypeOK'
    BY <2>1, SameDevice, ShownSame, TypeParts DEF IInv, TypeOK
  <2> QED
    BY <2>1, <2>2, SameDevice DEF IInv
<1> QED
  BY <1>1, <1>2, <1>3

(* The inductive invariant holds of every behaviour of the controller of   *)
(* the MKS946: what a method or interlockAction has done up to each of its *)
(* exchanges is what the gauge has.                                        *)
THEOREM SpecIInv == Spec => []IInv
BY InitIInv, NextIInv, PTL DEF Spec

-----------------------------------------------------------------------------
(* Every variable of the controller has its type, and the device thread is *)
(* always at an exchange of its job.                                       *)
THEOREM SpecTypeOK == Spec => []TypeOK
<1>1. IInv => TypeOK
  BY DEF IInv
<1> QED
  BY SpecIInv, <1>1, PTL

(* setRelay: a relay that is on has the settings of one call, whatever the *)
(* calls are and wherever an exchange fails.                               *)
THEOREM SpecRelayCoherent == Spec => []RelayCoherent
<1>1. IInv => RelayCoherent
  BY DEF IInv
<1> QED
  BY SpecIInv, <1>1, PTL

(* interlockAction: the flow is closed only by an armed interlock and for  *)
(* a pressure over the limit in force.                                     *)
THEOREM SpecTripIsJustified == Spec => []TripIsJustified
<1>1. IInv => TripIsJustified
  BY DEF IInv
<1> QED
  BY SpecIInv, <1>1, PTL

(* Between jobs, configuration and PID of a connected device are shown as  *)
(* they are.                                                               *)
THEOREM SpecShownIsDevice == Spec => []ShownIsDevice
<1>1. IInv => ShownIsDevice
  BY DEF IInv, ShownStage, ShownIsDevice, Idle, ConfigurationFresh, PIDFresh
<1> QED
  BY SpecIInv, <1>1, PTL

(* A setting of the recipe is only made while PID control is off.          *)
LEMMA RecipeSetting ==
  ASSUME IInv, ~Idle, Upcoming.do = "set", Obeys(Upcoming), device["pid"]
  PROVE  device'["recipe"] = device["recipe"]
<1>1. SetEffects
  BY SettingEffects DEF IInv
<1>2. ~Doing("configureAll")
  BY DEF IInv, PIDStage, Doing
<1> QED
  BY <1>1, <1>2 DEF SetEffects

(* configurePID: the recipe of a running PID control never changes, from   *)
(* the code's test of PIDState to its last exchange.                       *)
THEOREM SpecRecipeUntouched == Spec => RecipeUntouched
<1> DEFINE Untouched ==
      connected /\ device["pid"] /\ device'["pid"] => device'["recipe"] = device["recipe"]
<1>1. IInv /\ [Next]_vars => [Untouched]_vars
  <2> SUFFICES ASSUME IInv, Next, connected, device["pid"]
               PROVE  device'["recipe"] = device["recipe"]
    OBVIOUS
  <2>1. CASE SetStep
    BY <2>1, RecipeSetting DEF SetStep
  <2>2. CASE Fail
    BY <2>2, RecipeSetting DEF Fail
  <2>3. CASE \E m \in Modes, r \in Values : Panel(m, r)
    BY <2>3 DEF Panel
  <2>4. CASE UNCHANGED device
    BY <2>4
  <2>5. UNCHANGED device \/ SetStep \/ Fail \/ \E m \in Modes, r \in Values : Panel(m, r)
    BY DEF Next, DeviceThread, Exchange, Connect, Disconnect, ConfigureInterlock, Method,
      UpdateNull, Update, InterlockAction, ZeroStep, ReadStep, ReadPIDState, ReadPressure,
      Tell, Invoke, Tick, PressureChange, environmentVars
  <2> QED
    BY <2>1, <2>2, <2>3, <2>4, <2>5
<1> QED
  BY SpecIInv, <1>1, PTL DEF Spec, RecipeUntouched
=============================================================================
