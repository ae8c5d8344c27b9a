------------------------------ MODULE LowVoltage ------------------------------
(***************************************************************************)
(* The controller of the low-voltage supplies HMP2020 and HMP4040. The     *)
(* supply has one active channel: a command selects it, and the commands   *)
(* and questions that follow are about it. A command is not answered: once *)
(* the peer is gone it has no effect, and nobody is told before a question *)
(* times out. Answers cannot get out of step, since a question that fails  *)
(* drops the stream. An answer is represented by the channel it is about.  *)
(***************************************************************************)
EXTENDS Naturals, Sequences

CONSTANTS
  Size,     \* channels: 2 (HMP2020) or 4 (HMP4040)
  Settings  \* values of a voltage, a current or an output

VARIABLES
  lvConnected,  \* device.isConnected()
  lvGone,       \* the peer of the stream is gone, and nothing has failed yet
  lvActive,     \* the supply's active channel
  lvSet,        \* the supply: what is set, for each channel
  lvOutput,     \* the supply: the general output
  lvJob,        \* what the device thread is doing
  lvStep,       \* the job's next command or question
  lvChannel,    \* the channel it is for
  lvLast,       \* the last channel of the job
  lvRead,       \* the answers this job has, for each channel
  lvShown       \* the variables: <<>> (null) or << answers >>

lvSupply == <<lvActive, lvSet, lvOutput>>
lvJobVars == <<lvJob, lvStep, lvChannel, lvLast, lvRead>>
lvVars == <<lvConnected, lvGone, lvActive, lvSet, lvOutput,
            lvJob, lvStep, lvChannel, lvLast, lvRead, lvShown>>

Channels == 1 .. Size
Parameters == {"OUTP:SEL", "SOUR:VOLT", "SOUR:CURR"}
LVUpdates == {"measurements", "configuration"}

ASSUME LowVoltageAssumption == Size \in Nat \ {0} /\ Settings # {}

(* What a job does for a channel. A profile sets the currents, and then    *)
(* the voltages.                                                           *)
LVProgram(j) ==
  CASE j = "measurements" -> << "select", "OUTP:SEL?", "MEAS:CURR?", "MEAS:VOLT?" >>
    [] j = "configuration" -> << "select", "CURR?", "VOLT?" >>
    [] j \in {"setOutputSel"} -> << "select", "OUTP:SEL" >>
    [] j \in {"setVoltage", "profileVoltage"} -> << "select", "SOUR:VOLT" >>
    [] j \in {"setCurrent", "profileCurrent"} -> << "select", "SOUR:CURR" >>

SetJobs == {"setOutputSel", "setVoltage", "setCurrent"}
LVJobs == LVUpdates \cup SetJobs \cup {"profileCurrent", "profileVoltage"}

LVTypeOK ==
  /\ lvConnected \in BOOLEAN /\ lvGone \in BOOLEAN
  /\ lvActive \in Channels
  /\ lvSet \in [Channels -> [Parameters -> Settings]]
  /\ lvOutput \in Settings
  /\ lvJob \in LVJobs \cup {"idle"}
  /\ lvStep \in 0 .. 4
  /\ lvJob \in LVJobs => lvStep <= Len(LVProgram(lvJob))
  /\ lvChannel \in Channels /\ lvLast \in Channels
  /\ lvRead \in [Channels -> SUBSET Channels]
  /\ lvShown \in [LVUpdates -> {<<>>} \cup {<< r >> : r \in [Channels -> SUBSET Channels]}]

Nothing == [c \in Channels |-> {}]

LVInit ==
  /\ lvConnected = FALSE /\ lvGone = FALSE
  /\ lvActive \in Channels
  /\ \E s \in Settings :
       /\ lvSet = [c \in Channels |-> [p \in Parameters |-> s]]
       /\ lvOutput = s
  /\ lvJob = "idle" /\ lvStep = 1 /\ lvChannel = 1 /\ lvLast = 1
  /\ lvRead = Nothing
  /\ lvShown = [v \in LVUpdates |-> <<>>]

-----------------------------------------------------------------------------
Step == LVProgram(lvJob)[lvStep]

LVBegin(j, step, first, last) ==
  /\ lvJob' = j /\ lvStep' = step /\ lvChannel' = first /\ lvLast' = last
  /\ lvRead' = Nothing

LVEnd == LVBegin("idle", 1, 1, 1)

(* The loops over the channels select the first one only.                  *)
MutNextChannel ==
  lvStep' = 2 /\ lvChannel' = lvChannel + 1 /\ UNCHANGED <<lvJob, lvLast>>

NextChannel ==
  lvStep' = 1 /\ lvChannel' = lvChannel + 1 /\ UNCHANGED <<lvJob, lvLast>>

(* The currents of a profile are followed by its voltages.                 *)
Done(read) ==
  IF lvJob = "profileCurrent"
    THEN \E last \in Channels : LVBegin("profileVoltage", 1, 1, last) /\ UNCHANGED lvShown
    ELSE /\ LVEnd
         /\ lvShown' = IF lvJob \in LVUpdates THEN [lvShown EXCEPT ![lvJob] = << read >>]
                       ELSE lvShown

(* After the last step for a channel comes the next channel.               *)
Proceed(read) ==
  IF lvStep < Len(LVProgram(lvJob))
    THEN lvStep' = lvStep + 1 /\ lvRead' = read /\ UNCHANGED <<lvJob, lvChannel, lvLast, lvShown>>
    ELSE IF lvChannel < lvLast
           THEN NextChannel /\ lvRead' = read /\ UNCHANGED lvShown
           ELSE Done(read)

(* setActiveChannel.                                                       *)
Select ==
  /\ lvJob # "idle" /\ lvStep > 0 /\ Step = "select"
  /\ lvConnected
  /\ lvActive' = IF lvGone THEN lvActive ELSE lvChannel
  /\ Proceed(lvRead)
  /\ UNCHANGED <<lvConnected, lvGone, lvSet, lvOutput>>

(* The command of setOutputSel, setVoltage or setCurrent.                  *)
Command ==
  /\ lvJob # "idle" /\ lvStep > 0 /\ Step \in Parameters
  /\ lvConnected
  /\ \E value \in Settings :
       lvSet' = IF lvGone THEN lvSet ELSE [lvSet EXCEPT ![lvActive][Step] = value]
  /\ Proceed(lvRead)
  /\ UNCHANGED <<lvConnected, lvGone, lvActive, lvOutput>>

(* getOutputSel, getCurrent, ... and getOutputGen before the channels.     *)
Ask ==
  /\ lvJob \in LVUpdates
  /\ lvConnected /\ ~lvGone
  /\ \/ /\ lvStep = 0
        /\ lvStep' = 1 /\ UNCHANGED <<lvJob, lvChannel, lvLast, lvRead, lvShown>>
     \/ /\ lvStep > 0 /\ Step \notin Parameters \cup {"select"}
        /\ Proceed([lvRead EXCEPT ![lvChannel] = @ \cup {lvActive}])
  /\ UNCHANGED <<lvConnected, lvGone, lvSupply>>

Drop == lvConnected' = FALSE /\ lvGone' = FALSE

(* An exchange or a send fails: the wrapper drops the connection.          *)
LVFail ==
  /\ lvJob # "idle"
  /\ Drop /\ LVEnd
  /\ UNCHANGED <<lvSupply, lvShown>>

(* The supply is switched off, or the network is cut.                      *)
PeerGone ==
  /\ lvConnected /\ ~lvGone
  /\ lvGone' = TRUE
  /\ UNCHANGED <<lvConnected, lvSupply, lvJobVars, lvShown>>

(* An update, or null if there is no connection.                           *)
LVUpdate(v) ==
  /\ lvJob = "idle"
  /\ \/ /\ lvConnected
        /\ LVBegin(v, IF v = "measurements" THEN 0 ELSE 1, 1, Size)
        /\ UNCHANGED lvShown
     \/ /\ ~lvConnected
        /\ lvShown' = [lvShown EXCEPT ![v] = <<>>]
        /\ UNCHANGED lvJobVars
  /\ UNCHANGED <<lvConnected, lvGone, lvSupply>>

(* setChannel, setVoltage or setCurrent of one channel.                    *)
LVSetChannel(j, c) ==
  /\ lvJob = "idle"
  /\ LVBegin(j, 1, c, c)
  /\ UNCHANGED <<lvConnected, lvGone, lvSupply, lvShown>>

(* setOutput is one command for all channels; without a connection it does *)
(* nothing.                                                                *)
SetOutput ==
  /\ lvJob = "idle" /\ lvConnected
  /\ \E value \in Settings : lvOutput' = IF lvGone THEN lvOutput ELSE value
  /\ UNCHANGED <<lvConnected, lvGone, lvActive, lvSet, lvJobVars, lvShown>>

(* applyProfile: parseProfile of a profile for the channels up to last.    *)
LVProfile(last) ==
  /\ lvJob = "idle"
  /\ LVBegin("profileCurrent", 1, 1, last)
  /\ UNCHANGED <<lvConnected, lvGone, lvSupply, lvShown>>

(* connectDevice with a new stream, where the questions for the device     *)
(* info succeed; LVDisconnect is also where one of them fails. The active  *)
(* channel stays what it was, and applyProfile may follow.                 *)
LVConnect ==
  /\ lvJob = "idle"
  /\ lvConnected' = TRUE /\ lvGone' = FALSE
  /\ UNCHANGED <<lvSupply, lvJobVars, lvShown>>

LVDisconnect ==
  /\ lvJob = "idle"
  /\ Drop
  /\ UNCHANGED <<lvSupply, lvJobVars, lvShown>>

LVNext ==
  \/ Select \/ Command \/ Ask \/ LVFail
  \/ PeerGone \/ LVConnect \/ LVDisconnect \/ SetOutput
  \/ \E v \in LVUpdates : LVUpdate(v)
  \/ \E j \in SetJobs, c \in Channels : LVSetChannel(j, c)
  \/ \E last \in Channels : LVProfile(last)

LVSpec == LVInit /\ [][LVNext]_lvVars

-----------------------------------------------------------------------------
(* Whatever job was given up half way, and on whatever stream: every       *)
(* number that is shown of a channel is the answer for that channel.       *)
ReadingsOfChannel ==
  \A v \in LVUpdates : lvShown[v] # <<>> => \A c \in Channels : lvShown[v][1][c] \subseteq {c}

(* No job changes the settings of a channel it is not for, such as the one *)
(* that the job before had selected.                                       *)
SettingsOfChannel ==
  [][\A c \in Channels : lvSet'[c] # lvSet[c] => lvJob \in LVJobs \ LVUpdates /\ lvChannel = c]_lvVars
=============================================================================
