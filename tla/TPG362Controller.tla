--------------------------- MODULE TPG362Controller ---------------------------
(***************************************************************************)
(* The controller of the TPG362 vacuum gauge. Every question is put in two *)
(* steps: the gauge acknowledges the command, and gives its data when it   *)
(* is enquired of. Pressures and relays are read in a loop that begins     *)
(* again when an exchange fails, on the same stream: what comes late is    *)
(* still received. An answer is "ACK" or the question whose data it is;    *)
(* answers arrive whole, but several may be received at once. Nothing the  *)
(* controller asks is refused.                                             *)
(***************************************************************************)
EXTENDS Naturals, Sequences

CONSTANTS
  SwitchingFunctions,  \* the questions for the relays, in their order
  MaxTries,            \* the times a loop tries
  MaxLate              \* bound: answers that are late at a time

VARIABLES
  tpgConnected,  \* device.isConnected()
  tpgWire,       \* answers of the gauge that have not been received
  tpgAsked,      \* the command that the gauge has received last
  tpgJob,        \* what the device thread is doing
  tpgPhase,      \* the step of the exchange that is next
  tpgTries,      \* tries left
  tpgGot,        \* the answers that this job has taken
  tpgRelay,      \* the variable relay: <<>> or what it was made of
  tpgMostLate    \* history: the most answers late at a time on this stream

tpgVars ==
  <<tpgConnected, tpgWire, tpgAsked, tpgJob, tpgPhase, tpgTries, tpgGot, tpgRelay, tpgMostLate>>

Relays == {SwitchingFunctions[i] : i \in DOMAIN SwitchingFunctions}
Questions == {"AYT", "PNR", "HDW", "TID", "PRX", "SPS", "SEN"} \cup Relays

ASSUME TPG362Assumption ==
  /\ SwitchingFunctions \in Seq(STRING)
  /\ Relays \cap {"ACK", "AYT", "PNR", "HDW", "TID", "PRX", "SPS", "SEN"} = {}
  /\ Relays \cap {"idle", "connect", "measurements", "relay", "setStatus"} = {}
  /\ MaxTries \in Nat \ {0} /\ MaxLate \in Nat

TPGProgram(j) ==
  CASE j = "connect" -> << "AYT", "AYT", "AYT", "PNR", "HDW", "TID" >>
    [] j = "measurements" -> << "PRX" >>
    [] j = "relay" -> << "SPS" >> \o SwitchingFunctions
    [] j = "setStatus" -> << "SEN", "PRX" >>
    [] j \in Relays -> << j >>

TPGJobs == {"connect", "measurements", "relay", "setStatus"} \cup Relays

TPGTypeOK ==
  /\ tpgConnected \in BOOLEAN
  /\ tpgWire \in Seq(Questions \cup {"ACK"}) /\ Len(tpgWire) <= tpgMostLate
  /\ tpgMostLate \in 0 .. MaxLate
  /\ tpgAsked \in Questions \cup {"ACK"}
  /\ tpgJob \in TPGJobs \cup {"idle"}
  /\ tpgPhase \in {"command", "enquiry"}
  /\ tpgTries \in 1 .. MaxTries
  /\ tpgGot \in Seq(Questions \cup {"ACK"})
  /\ tpgJob \in TPGJobs => Len(tpgGot) < Len(TPGProgram(tpgJob))
  /\ tpgRelay \in Seq(Questions \cup {"ACK"})

TPGInit ==
  /\ tpgConnected = FALSE
  /\ tpgWire = <<>> /\ tpgMostLate = 0
  /\ tpgAsked = "ACK"
  /\ tpgJob = "idle" /\ tpgPhase = "command" /\ tpgTries = MaxTries /\ tpgGot = <<>>
  /\ tpgRelay = <<>>

-----------------------------------------------------------------------------
Question == TPGProgram(tpgJob)[Len(tpgGot) + 1]

(* What the conversion of the relays would accept without its pattern.     *)
MutAccepts(q, chunk) ==
  CASE q = "PRX" -> chunk = << "PRX" >>
    [] OTHER -> TRUE

(* The patterns of the pressures and the relays' status take no other      *)
(* answer; that of a relay takes the answer of any. The rest is not looked *)
(* at.                                                                     *)
Accepts(q, chunk) ==
  CASE q \in {"PRX", "SPS"} -> chunk = << q >>
    [] q \in Relays /\ tpgJob = "relay" -> chunk \in {<< r >> : r \in Relays}
    [] OTHER -> TRUE

Late(answer) == Append(tpgWire, answer)

(* A stream that is new, or that is dropped.                               *)
NoneLate == tpgWire' = <<>> /\ tpgMostLate' = 0

(* The stream delivers what there is, or less, or nothing in time.         *)
Reads(answer, chunk) ==
  /\ chunk \in {SubSeq(Late(answer), 1, k) : k \in 0 .. Len(tpgWire) + 1}
  /\ tpgWire' = SubSeq(Late(answer), Len(chunk) + 1, Len(tpgWire) + 1)
  /\ Len(tpgWire') <= MaxLate
  /\ tpgMostLate' = IF Len(tpgWire') > tpgMostLate THEN Len(tpgWire') ELSE tpgMostLate

TPGBegin(j) ==
  /\ tpgJob' = j /\ tpgPhase' = "command" /\ tpgTries' = MaxTries /\ tpgGot' = <<>>

TPGEnd == TPGBegin("idle")

(* The loops of getMeasurements and getRelay, and where they begin.        *)
Loops == tpgJob \in {"measurements", "relay"} \/ (tpgJob = "setStatus" /\ tpgGot # <<>>)
LoopStart == IF tpgJob = "setStatus" THEN << "SEN" >> ELSE <<>>

(* A loop that goes on where it failed.                                    *)
MutRetry ==
  /\ Loops /\ tpgTries > 1
  /\ tpgTries' = tpgTries - 1
  /\ tpgPhase' = "command"
  /\ UNCHANGED <<tpgConnected, tpgJob, tpgGot>>

(* A loop that tries once more than it should.                             *)
MutTries ==
  /\ Loops /\ tpgTries > 0
  /\ tpgTries' = tpgTries - 1
  /\ tpgPhase' = "command" /\ tpgGot' = LoopStart
  /\ UNCHANGED <<tpgConnected, tpgJob>>

Retry ==
  /\ Loops /\ tpgTries > 1
  /\ tpgTries' = tpgTries - 1
  /\ tpgPhase' = "command" /\ tpgGot' = LoopStart
  /\ UNCHANGED <<tpgConnected, tpgJob>>

(* The exception leaves the job, and its wrapper drops the stream.         *)
GiveUp ==
  /\ ~(Loops /\ tpgTries > 1)
  /\ tpgConnected' = FALSE
  /\ TPGEnd

(* The first half of sendWithEnquiry.                                      *)
SendCommand ==
  /\ tpgJob # "idle" /\ tpgPhase = "command" /\ tpgConnected
  /\ tpgAsked' = Question
  /\ \E chunk \in {SubSeq(Late("ACK"), 1, k) : k \in 0 .. Len(tpgWire) + 1} :
       IF chunk # <<>> /\ Head(chunk) = "ACK"
         THEN /\ Reads("ACK", chunk)
              /\ tpgPhase' = "enquiry"
              /\ UNCHANGED <<tpgConnected, tpgJob, tpgTries, tpgGot>>
         ELSE \/ Reads("ACK", chunk) /\ Retry
              \/ NoneLate /\ GiveUp
  /\ UNCHANGED tpgRelay

(* The second half: the answer that is taken ends the job or leads to the  *)
(* next question.                                                          *)
Enquire ==
  /\ tpgJob # "idle" /\ tpgPhase = "enquiry" /\ tpgConnected
  /\ \E chunk \in {SubSeq(Late(tpgAsked), 1, k) : k \in 0 .. Len(tpgWire) + 1} :
       IF chunk # <<>> /\ Accepts(Question, chunk)
         THEN /\ Reads(tpgAsked, chunk)
              /\ LET got == Append(tpgGot, Head(chunk))
                 IN  IF Len(got) = Len(TPGProgram(tpgJob))
                       THEN /\ TPGEnd
                            /\ tpgRelay' = IF tpgJob = "relay" THEN got ELSE tpgRelay
                       ELSE /\ tpgGot' = got /\ tpgPhase' = "command"
                            /\ UNCHANGED <<tpgJob, tpgTries, tpgRelay>>
              /\ UNCHANGED tpgConnected
         ELSE /\ \/ Reads(tpgAsked, chunk) /\ Retry
                 \/ NoneLate /\ GiveUp
              /\ UNCHANGED tpgRelay
  /\ UNCHANGED tpgAsked

(* The peer has closed the connection: nothing can be sent any more.       *)
StreamBreaks ==
  /\ tpgJob # "idle" /\ tpgConnected
  /\ tpgConnected' = FALSE /\ NoneLate
  /\ TPGEnd
  /\ UNCHANGED <<tpgAsked, tpgRelay>>

(* connectDevice, getDeviceInfo and postConnect, with a new stream or, if  *)
(* there is none, with the one there is.                                   *)
TPGConnect ==
  /\ tpgJob = "idle"
  /\ \/ tpgConnected' = TRUE /\ NoneLate
     \/ tpgConnected /\ UNCHANGED <<tpgConnected, tpgWire, tpgMostLate>>
  /\ TPGBegin("connect")
  /\ UNCHANGED <<tpgAsked, tpgRelay>>

TPGDisconnect ==
  /\ tpgJob = "idle"
  /\ tpgConnected' = FALSE /\ NoneLate
  /\ UNCHANGED <<tpgAsked, tpgJob, tpgPhase, tpgTries, tpgGot, tpgRelay>>

(* An update of measurements or relay, setRelay, or setStatus; setStatus   *)
(* of an unknown gauge only measures.                                      *)
TPGStart(j) ==
  /\ tpgJob = "idle" /\ tpgConnected
  /\ TPGBegin(j)
  /\ UNCHANGED <<tpgConnected, tpgWire, tpgMostLate, tpgAsked, tpgRelay>>

(* An update without a connection.                                         *)
NoRelay ==
  /\ tpgJob = "idle" /\ ~tpgConnected
  /\ tpgRelay' = <<>>
  /\ UNCHANGED <<tpgConnected, tpgWire, tpgMostLate, tpgAsked, tpgJob, tpgPhase, tpgTries, tpgGot>>

TPGNext ==
  \/ SendCommand \/ Enquire \/ StreamBreaks
  \/ TPGConnect \/ TPGDisconnect \/ NoRelay
  \/ \E j \in TPGJobs \ {"connect"} : TPGStart(j)

TPGSpec == TPGInit /\ [][TPGNext]_tpgVars

-----------------------------------------------------------------------------
(* What getSwitchingFunction is said to return: a relay that is shown is   *)
(* made of the answers to its own questions. It is not: the loop goes on   *)
(* with a stream on which answers are late, and when four of them are, a   *)
(* relay can be shown with the settings of its neighbour, which no pattern *)
(* notices.                                                                *)
RelayIsReal == tpgRelay # <<>> => tpgRelay = TPGProgram("relay")

(* What the patterns and the loops achieve: on a stream on which no more   *)
(* than three answers were ever late at a time, an update of the relays    *)
(* that ends has shown each relay's own settings, however often it was     *)
(* tried, and whatever other jobs left unread.                             *)
RelayInTime ==
  [][(tpgJob = "relay" /\ tpgJob' = "idle" /\ tpgConnected' /\ tpgMostLate' <= 3)
       => tpgRelay' = TPGProgram("relay")]_tpgVars
=============================================================================
