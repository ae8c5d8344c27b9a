--------------------------- MODULE InstrumentProofs ---------------------------
(***************************************************************************)
(* What is proved of the instruments of a station with the controllers     *)
(* that are a module each: on a stream that was never more than three      *)
(* answers late, a TPG362 takes no late answer for that of a relay; a      *)
(* relay of an MKS910 has the settings of one call; and what a low-voltage *)
(* supply reads and sets is of the channel it is about.                    *)
(***************************************************************************)
EXTENDS TPG362Controller, MKS910Controller, LowVoltage, Integers, TLAPS

-----------------------------------------------------------------------------
(* The TPG362: between the exchanges of the update of the relays, late     *)
(* answers are few, and those of its first question only.                  *)

Answers == Questions \cup {"ACK"}

(* The gauge has the question that it is enquired about, and what is late  *)
(* is followed by its acknowledgement.                                     *)
Exchange ==
  tpgPhase = "enquiry" =>
    /\ tpgJob # "idle" /\ tpgAsked = Question
    /\ tpgWire = <<>> \/ tpgWire[Len(tpgWire)] = "ACK"

(* What can be late when the status of the relays has been taken.          *)
LateCommand == {<<>>, << "ACK", "SPS" >>} \cup {<< y, "ACK", "SPS" >> : y \in Questions \cup {"ACK"}}
LateEnquiry == {<<>>, << "ACK" >>, << "SPS", "ACK" >>, << "ACK", "SPS", "ACK" >>}

(* The answers of a job that reads the relays are those to its questions;  *)
(* once a relay is among them, nothing is late.                            *)
RelayWire ==
  tpgJob = "relay" =>
    /\ \A i \in 1 .. Len(tpgGot) : tpgGot[i] = TPGProgram("relay")[i]
    /\ Len(tpgGot) = 1 => tpgWire \in IF tpgPhase = "command" THEN LateCommand ELSE LateEnquiry
    /\ Len(tpgGot) >= 2 => tpgWire = <<>>

(* The inductive invariant of the controller. What it says of the relays   *)
(* is true of a stream on which few answers are late: with four, theirs    *)
(* are among them.                                                         *)
TPGInv ==
  /\ TPGTypeOK
  /\ Exchange
  /\ tpgMostLate <= 3 => RelayWire

(* What the stream delivers, and what stays behind.                        *)
LEMMA Delivery ==
  ASSUME NEW w \in Seq(Answers), NEW a \in Answers, NEW k \in 0 .. Len(w) + 1
  PROVE  LET all == Append(w, a)
             chunk == SubSeq(all, 1, k)
             rest == SubSeq(all, k + 1, Len(w) + 1)
         IN  /\ Len(chunk) = k /\ chunk \in Seq(Answers)
             /\ k > 0 => Head(chunk) = IF w = <<>> THEN a ELSE w[1]
             /\ Len(rest) = Len(w) + 1 - k /\ rest \in Seq(Answers)
             /\ \A i \in 1 .. Len(w) + 1 - k : rest[i] = all[k + i]
             /\ rest = <<>> \/ rest[Len(rest)] = a
<1> DEFINE all == Append(w, a)
           chunk == SubSeq(all, 1, k)
           rest == SubSeq(all, k + 1, Len(w) + 1)
<1>1. /\ Len(w) \in Nat /\ k \in Nat /\ all \in Seq(Answers) /\ Len(all) = Len(w) + 1
      /\ all[Len(w) + 1] = a
      /\ all[1] = IF w = <<>> THEN a ELSE w[1]
  OBVIOUS
<1> HIDE DEF all
<1>2. Len(chunk) = k /\ chunk \in Seq(Answers) /\ (k > 0 => Head(chunk) = all[1])
  BY <1>1
<1>3. /\ Len(rest) = Len(w) + 1 - k /\ rest \in Seq(Answers)
      /\ \A i \in 1 .. Len(w) + 1 - k : rest[i] = all[k + i]
  BY <1>1
<1>4. rest = <<>> \/ rest[Len(rest)] = a
  <2>1. CASE k = Len(w) + 1
    <3>1. Len(rest) = 0
      BY <1>1, <1>3, <2>1
    <3> HIDE DEF rest
    <3> QED
      BY <1>3, <3>1
  <2>2. CASE k # Len(w) + 1
    <3>1. Len(w) + 1 - k \in 1 .. Len(w) + 1 - k /\ k + (Len(w) + 1 - k) = Len(w) + 1
      BY <1>1, <2>2
    <3> HIDE DEF rest
    <3> QED
      BY <1>1, <1>3, <3>1
  <2> QED
    BY <2>1, <2>2
<1> QED
  BY <1>1, <1>2, <1>3, <1>4 DEF all

(* The programs of the jobs.                                               *)
LEMMA TPGPrograms ==
  /\ SwitchingFunctions \in Seq(Relays)
  /\ TPGProgram("relay") = << "SPS" >> \o SwitchingFunctions
  /\ TPGProgram("setStatus") = << "SEN", "PRX" >>
  /\ \A j \in TPGJobs : TPGProgram(j) \in Seq(Questions) /\ Len(TPGProgram(j)) \in Nat \ {0}
<1>0. SwitchingFunctions \in Seq(STRING)
  BY TPG362Assumption
<1>1. SwitchingFunctions \in Seq(Relays)
  BY <1>0 DEF Relays
<1>2. /\ Relays \cap {"idle", "connect", "measurements", "relay", "setStatus"} = {}
      /\ Relays \subseteq Questions
  BY TPG362Assumption DEF Questions
<1>3. TPGProgram("relay") = << "SPS" >> \o SwitchingFunctions
  BY <1>2 DEF TPGProgram
<1>4. TPGProgram("setStatus") = << "SEN", "PRX" >>
  BY <1>2 DEF TPGProgram
<1>5. TPGProgram("connect") = << "AYT", "AYT", "AYT", "PNR", "HDW", "TID" >>
  BY <1>2 DEF TPGProgram
<1>6. TPGProgram("measurements") = << "PRX" >>
  BY <1>2 DEF TPGProgram
<1>7. \A j \in Relays : TPGProgram(j) = << j >>
  BY <1>2 DEF TPGProgram
<1>8. {"AYT", "PNR", "HDW", "TID", "PRX", "SPS", "SEN"} \subseteq Questions
  BY DEF Questions
<1>9. << "SPS" >> \o SwitchingFunctions \in Seq(Questions) /\ Len(<< "SPS" >> \o SwitchingFunctions) \in Nat \ {0}
  BY <1>1, <1>2, <1>8
<1>10. ASSUME NEW j \in TPGJobs
       PROVE  TPGProgram(j) \in Seq(Questions) /\ Len(TPGProgram(j)) \in Nat \ {0}
  <2>1. CASE j = "connect"
    <3>1. << "AYT", "AYT", "AYT", "PNR", "HDW", "TID" >> \in Seq(Questions)
      BY <1>8
    <3>2. Len(TPGProgram(j)) = 6
      BY <1>5, <2>1
    <3>3. TPGProgram(j) \in Seq(Questions)
      BY <1>5, <2>1, <3>1, Zenon
    <3> QED
      BY <3>2, <3>3
  <2>2. CASE j = "measurements"
    <3>1. << "PRX" >> \in Seq(Questions)
      BY <1>8
    <3>2. Len(TPGProgram(j)) = 1
      BY <1>6, <2>2
    <3>3. TPGProgram(j) \in Seq(Questions)
      BY <1>6, <2>2, <3>1, Zenon
    <3> QED
      BY <3>2, <3>3
  <2>3. CASE j = "relay"
    BY <1>3, <1>9, <2>3
  <2>4. CASE j = "setStatus"
    <3>1. << "SEN", "PRX" >> \in Seq(Questions)
      BY <1>8
    <3>2. Len(TPGProgram(j)) = 2
      BY <1>4, <2>4
    <3>3. TPGProgram(j) \in Seq(Questions)
      BY <1>4, <2>4, <3>1, Zenon
    <3> QED
      BY <3>2, <3>3
  <2>5. CASE j \in Relays
    <3>1. j \in Questions /\ TPGProgram(j) = << j >>
      BY <1>2, <1>7, <2>5
    <3> QED
      BY <3>1
  <2> QED
    BY <2>1, <2>2, <2>3, <2>4, <2>5 DEF TPGJobs
<1> QED
  BY <1>1, <1>3, <1>4, <1>10

(* The question of a job is one that the gauge knows.                      *)
LEMMA QuestionType ==
  ASSUME TPGTypeOK, tpgJob # "idle"
  PROVE  /\ tpgJob \in TPGJobs /\ Question \in Questions
         /\ Len(tpgGot) \in Nat /\ Len(tpgGot) + 1 \in 1 .. Len(TPGProgram(tpgJob))
<1>1. tpgJob \in TPGJobs /\ tpgGot \in Seq(Answers) /\ Len(tpgGot) < Len(TPGProgram(tpgJob))
  BY DEF TPGTypeOK, Answers
<1>2. TPGProgram(tpgJob) \in Seq(Questions) /\ Len(TPGProgram(tpgJob)) \in Nat
  BY <1>1, TPGPrograms
<1>3. Len(tpgGot) \in Nat /\ Len(tpgGot) + 1 \in 1 .. Len(TPGProgram(tpgJob))
  BY <1>1, <1>2
<1> QED
  BY <1>1, <1>2, <1>3 DEF Question

(* A job begins with nothing received, and ends so.                        *)
LEMMA BeginType ==
  ASSUME NEW j \in TPGJobs \cup {"idle"}, TPGBegin(j)
  PROVE  /\ tpgJob' = j /\ tpgPhase' = "command" /\ tpgTries' \in 1 .. MaxTries
         /\ tpgGot' = <<>> /\ Len(tpgGot') = 0 /\ tpgGot' \in Seq(Answers)
         /\ tpgJob' \in TPGJobs => Len(tpgGot') < Len(TPGProgram(tpgJob'))
<1>1. /\ tpgJob' = j /\ tpgPhase' = "command" /\ tpgTries' \in 1 .. MaxTries
      /\ tpgGot' = <<>>
  BY TPG362Assumption DEF TPGBegin
<1>2. j \in TPGJobs => Len(TPGProgram(j)) \in Nat \ {0}
  BY TPGPrograms
<1>3. Len(tpgGot') = 0 /\ tpgGot' \in Seq(Answers)
  BY <1>1
<1> QED
  BY <1>1, <1>2, <1>3

(* A loop begins again with what comes before it.                          *)
LEMMA RetryType ==
  ASSUME TPGTypeOK, tpgJob # "idle", Retry
  PROVE  /\ tpgJob' = tpgJob /\ tpgPhase' = "command" /\ tpgTries' \in 1 .. MaxTries
         /\ tpgGot' \in Seq(Answers) /\ Len(tpgGot') < Len(TPGProgram(tpgJob'))
         /\ tpgJob # "setStatus" => tpgGot' = <<>> /\ Len(tpgGot') = 0
         /\ UNCHANGED tpgConnected
<1>1. /\ tpgJob' = tpgJob /\ tpgPhase' = "command" /\ tpgTries' = tpgTries - 1 /\ tpgTries > 1
      /\ tpgGot' = LoopStart /\ UNCHANGED tpgConnected
  BY DEF Retry
<1>2. tpgTries' \in 1 .. MaxTries
  BY <1>1, TPG362Assumption DEF TPGTypeOK
<1>3. CASE tpgJob = "setStatus"
  <2>1. Len(TPGProgram(tpgJob)) = 2
    BY <1>3, TPGPrograms
  <2>2. "SEN" \in Answers /\ tpgGot' = << "SEN" >>
    BY <1>1, <1>3 DEF LoopStart, Answers, Questions
  <2> QED
    BY <1>1, <1>2, <1>3, <2>1, <2>2
<1>4. CASE tpgJob # "setStatus"
  <2>1. tpgGot' = <<>> /\ Len(tpgGot') = 0 /\ tpgGot' \in Seq(Answers)
    BY <1>1, <1>4 DEF LoopStart
  <2>2. Len(TPGProgram(tpgJob)) \in Nat \ {0}
    BY QuestionType, TPGPrograms
  <2> QED
    BY <1>1, <1>2, <1>4, <2>1, <2>2
<1> QED
  BY <1>3, <1>4

(* What has been received, and what is late after it.                      *)
LEMMA ReadsFacts ==
  ASSUME TPGTypeOK, NEW a \in Answers, NEW k \in 0 .. Len(tpgWire) + 1,
         NEW chunk, chunk = SubSeq(Late(a), 1, k), Reads(a, chunk)
  PROVE  /\ Len(tpgWire') = Len(tpgWire) + 1 - k /\ Len(tpgWire') <= tpgMostLate'
         /\ tpgMostLate' \in 0 .. MaxLate /\ tpgMostLate \in Nat /\ tpgMostLate <= tpgMostLate'
         /\ tpgWire' \in Seq(Answers)
         /\ \A i \in 1 .. Len(tpgWire) + 1 - k :
              tpgWire'[i] = IF k + i <= Len(tpgWire) THEN tpgWire[k + i] ELSE a
         /\ tpgWire' = <<>> \/ tpgWire'[Len(tpgWire')] = a
<1>0. tpgWire \in Seq(Answers) /\ Len(tpgWire) \in Nat
  BY DEF TPGTypeOK, Answers
<1>1. Len(chunk) = k
  BY <1>0, Delivery DEF Late
<1>2. /\ tpgWire' = SubSeq(Append(tpgWire, a), k + 1, Len(tpgWire) + 1)
      /\ Len(tpgWire') <= MaxLate
      /\ tpgMostLate' = IF Len(tpgWire') > tpgMostLate THEN Len(tpgWire') ELSE tpgMostLate
  BY <1>1 DEF Reads, Late
<1>3. /\ Len(tpgWire') = Len(tpgWire) + 1 - k /\ tpgWire' \in Seq(Answers)
      /\ \A i \in 1 .. Len(tpgWire) + 1 - k : tpgWire'[i] = Append(tpgWire, a)[k + i]
      /\ tpgWire' = <<>> \/ tpgWire'[Len(tpgWire')] = a
  BY <1>0, <1>2, Delivery
<1>4. ASSUME NEW i \in 1 .. Len(tpgWire) + 1 - k
      PROVE  Append(tpgWire, a)[k + i] = IF k + i <= Len(tpgWire) THEN tpgWire[k + i] ELSE a
  BY <1>0
<1>5. /\ Len(tpgWire') <= tpgMostLate' /\ tpgMostLate <= tpgMostLate'
      /\ tpgMostLate' \in 0 .. MaxLate /\ tpgMostLate \in Nat
  <2>1. tpgMostLate \in 0 .. MaxLate /\ MaxLate \in Nat
    BY TPG362Assumption DEF TPGTypeOK
  <2>2. Len(tpgWire') \in Nat
    BY <1>3
  <2> QED
    BY <1>2, <2>1, <2>2
<1> QED
  BY <1>3, <1>4, <1>5

(* The first of what has been received.                                    *)
LEMMA ChunkFacts ==
  ASSUME TPGTypeOK, NEW a \in Answers, NEW k \in 0 .. Len(tpgWire) + 1,
         NEW chunk, chunk = SubSeq(Late(a), 1, k)
  PROVE  /\ Len(chunk) = k /\ chunk \in Seq(Answers)
         /\ chunk # <<>> <=> k > 0
         /\ k > 0 => Head(chunk) = (IF tpgWire = <<>> THEN a ELSE tpgWire[1]) /\ Head(chunk) \in Answers
<1>0. tpgWire \in Seq(Answers) /\ Len(tpgWire) \in Nat
  BY DEF TPGTypeOK, Answers
<1>1. /\ Len(chunk) = k /\ chunk \in Seq(Answers)
      /\ k > 0 => Head(chunk) = IF tpgWire = <<>> THEN a ELSE tpgWire[1]
  BY <1>0, Delivery DEF Late
<1>2. tpgWire # <<>> => tpgWire[1] \in Answers
  BY <1>0
<1>3. \A c \in Seq(Answers) : c # <<>> <=> Len(c) > 0
  OBVIOUS
<1> QED
  BY <1>1, <1>2, <1>3

(* A step that gives a job up.                                             *)
LEMMA GiveUpKeeps ==
  ASSUME TPGInv, NoneLate, TPGEnd, tpgConnected' = FALSE,
         tpgAsked' \in Answers, UNCHANGED tpgRelay
  PROVE  TPGInv'
<1>1. /\ tpgJob' = "idle" /\ tpgPhase' = "command" /\ tpgTries' \in 1 .. MaxTries
      /\ tpgGot' = <<>> /\ Len(tpgGot') = 0 /\ tpgGot' \in Seq(Answers)
      /\ tpgJob' \in TPGJobs => Len(tpgGot') < Len(TPGProgram(tpgJob'))
  BY BeginType DEF TPGEnd
<1>2. Len(tpgWire') = 0 /\ tpgWire' \in Seq(Answers) /\ tpgMostLate' = 0
  BY DEF NoneLate
<1>3. Len(tpgWire') <= tpgMostLate' /\ tpgMostLate' \in 0 .. MaxLate
  BY <1>2, TPG362Assumption
<1>4. tpgRelay' \in Seq(Answers) /\ tpgConnected' \in BOOLEAN
  BY DEF TPGInv, TPGTypeOK, Answers
<1>5. TPGTypeOK'
  BY <1>1, <1>2, <1>3, <1>4 DEF TPGTypeOK, Answers
<1> QED
  BY <1>1, <1>5 DEF TPGInv, Exchange, RelayWire

(* A step that begins a loop again.                                        *)
LEMMA RetryKeeps ==
  ASSUME TPGInv, tpgJob # "idle", Retry, NEW a \in Answers,
         NEW k \in 0 .. Len(tpgWire) + 1, NEW chunk, chunk = SubSeq(Late(a), 1, k), Reads(a, chunk),
         tpgAsked' \in Answers, UNCHANGED tpgRelay
  PROVE  TPGInv'
<1>1. /\ tpgJob' = tpgJob /\ tpgPhase' = "command" /\ tpgTries' \in 1 .. MaxTries
      /\ tpgGot' \in Seq(Answers) /\ Len(tpgGot') < Len(TPGProgram(tpgJob'))
      /\ tpgJob # "setStatus" => tpgGot' = <<>> /\ Len(tpgGot') = 0
      /\ UNCHANGED tpgConnected
  BY RetryType DEF TPGInv
<1>2. /\ Len(tpgWire') <= tpgMostLate' /\ tpgWire' \in Seq(Answers)
      /\ tpgMostLate' \in 0 .. MaxLate
  BY ReadsFacts DEF TPGInv
<1>3. TPGTypeOK'
  BY <1>1, <1>2 DEF TPGInv, TPGTypeOK, Answers
<1>4. RelayWire'
  BY <1>1 DEF RelayWire
<1> QED
  BY <1>1, <1>3, <1>4 DEF TPGInv, Exchange

(* The command is acknowledged: the answer that is enquired of is the last *)
(* to come.                                                                *)
LEMMA SendCommandKeeps ==
  ASSUME TPGInv, SendCommand
  PROVE  TPGInv'
<1>1. PICK k \in 0 .. Len(tpgWire) + 1 :
        LET chunk == SubSeq(Late("ACK"), 1, k)
        IN  IF chunk # <<>> /\ Head(chunk) = "ACK"
              THEN /\ Reads("ACK", chunk)
                   /\ tpgPhase' = "enquiry"
                   /\ UNCHANGED <<tpgConnected, tpgJob, tpgTries, tpgGot>>
              ELSE \/ Reads("ACK", chunk) /\ Retry
                   \/ NoneLate /\ GiveUp
  BY DEF SendCommand
<1>2. PICK chunk : chunk = SubSeq(Late("ACK"), 1, k)
  OBVIOUS
<1>3. /\ tpgJob # "idle" /\ tpgPhase = "command"
      /\ tpgAsked' = Question /\ UNCHANGED tpgRelay
      /\ tpgAsked' \in Questions /\ "ACK" \in Answers /\ Questions \subseteq Answers
  BY QuestionType DEF SendCommand, TPGInv, Answers
<1>4. CASE NoneLate /\ GiveUp
  BY <1>3, <1>4, GiveUpKeeps DEF GiveUp
<1>5. CASE Reads("ACK", chunk) /\ Retry
  BY <1>2, <1>3, <1>5, RetryKeeps
<1>6. CASE /\ chunk # <<>> /\ Head(chunk) = "ACK" /\ Reads("ACK", chunk)
           /\ tpgPhase' = "enquiry"
           /\ UNCHANGED <<tpgConnected, tpgJob, tpgTries, tpgGot>>
  <2>1. /\ k > 0
        /\ (IF tpgWire = <<>> THEN "ACK" ELSE tpgWire[1]) = "ACK"
    BY <1>2, <1>3, <1>6, ChunkFacts DEF TPGInv
  <2>2. /\ Len(tpgWire') = Len(tpgWire) + 1 - k /\ Len(tpgWire') <= tpgMostLate'
        /\ tpgMostLate' \in 0 .. MaxLate /\ tpgMostLate \in Nat /\ tpgMostLate <= tpgMostLate'
        /\ tpgWire' \in Seq(Answers)
        /\ \A i \in 1 .. Len(tpgWire) + 1 - k :
             tpgWire'[i] = IF k + i <= Len(tpgWire) THEN tpgWire[k + i] ELSE "ACK"
        /\ tpgWire' = <<>> \/ tpgWire'[Len(tpgWire')] = "ACK"
    BY <1>2, <1>3, <1>6, ReadsFacts DEF TPGInv
  <2>3. TPGTypeOK'
    BY <1>3, <1>6, <2>2 DEF TPGInv, TPGTypeOK, Answers
  <2>4. Exchange'
    BY <1>3, <1>6, <2>2 DEF Exchange, Question
  <2>5. ASSUME tpgMostLate' <= 3
        PROVE  RelayWire'
    <3> SUFFICES ASSUME tpgJob = "relay"
                 PROVE  /\ \A i \in 1 .. Len(tpgGot) : tpgGot[i] = TPGProgram("relay")[i]
                        /\ Len(tpgGot) = 1 => tpgWire' \in LateEnquiry
                        /\ Len(tpgGot) >= 2 => tpgWire' = <<>>
      BY <1>6 DEF RelayWire
    <3>1. RelayWire
      BY <2>2, <2>5 DEF TPGInv
    <3>2. tpgWire \in Seq(Answers) /\ k \in 1 .. Len(tpgWire) + 1
      BY <2>1 DEF TPGInv, TPGTypeOK, Answers
    <3>3. ASSUME Len(tpgGot) = 1
          PROVE  tpgWire' \in LateEnquiry
      <4>1. tpgWire \in LateCommand
        BY <1>3, <3>1, <3>3 DEF RelayWire
      <4>2. CASE tpgWire = <<>>
        <5>1. Len(tpgWire') = 0
          BY <2>2, <3>2, <4>2
        <5> QED
          BY <2>2, <5>1 DEF LateEnquiry
      <4>3. CASE tpgWire = << "ACK", "SPS" >>
        <5>1. Len(tpgWire) = 2 /\ tpgWire[1] = "ACK" /\ tpgWire[2] = "SPS"
          BY <4>3
        <5>2. CASE k = 1
          <6>1. Len(tpgWire') = 2 /\ tpgWire'[1] = "SPS" /\ tpgWire'[2] = "ACK"
            BY <2>2, <5>1, <5>2
          <6> QED
            BY <2>2, <6>1 DEF LateEnquiry
        <5>3. CASE k = 2
          <6>1. Len(tpgWire') = 1 /\ tpgWire'[1] = "ACK"
            BY <2>2, <5>1, <5>3
          <6> QED
            BY <2>2, <6>1 DEF LateEnquiry
        <5>4. CASE k = 3
          <6>1. Len(tpgWire') = 0
            BY <2>2, <5>1, <5>4
          <6> QED
            BY <2>2, <6>1 DEF LateEnquiry
        <5> QED
          BY <3>2, <5>1, <5>2, <5>3, <5>4
      <4>4. ASSUME NEW y \in Answers, tpgWire = << y, "ACK", "SPS" >>
            PROVE  tpgWire' \in LateEnquiry
        <5>1. Len(tpgWire) = 3 /\ tpgWire[1] = "ACK" /\ tpgWire[2] = "ACK" /\ tpgWire[3] = "SPS"
          BY <2>1, <4>4
        <5>2. CASE k = 1
          <6>1. Len(tpgWire') = 3 /\ tpgWire'[1] = "ACK" /\ tpgWire'[2] = "SPS" /\ tpgWire'[3] = "ACK"
            BY <2>2, <5>1, <5>2
          <6> QED
            BY <2>2, <6>1 DEF LateEnquiry
        <5>3. CASE k = 2
          <6>1. Len(tpgWire') = 2 /\ tpgWire'[1] = "SPS" /\ tpgWire'[2] = "ACK"
            BY <2>2, <5>1, <5>3
          <6> QED
            BY <2>2, <6>1 DEF LateEnquiry
        <5>4. CASE k = 3
          <6>1. Len(tpgWire') = 1 /\ tpgWire'[1] = "ACK"
            BY <2>2, <5>1, <5>4
          <6> QED
            BY <2>2, <6>1 DEF LateEnquiry
        <5>5. CASE k = 4
          <6>1. Len(tpgWire') = 0
            BY <2>2, <5>1, <5>5
          <6> QED
            BY <2>2, <6>1 DEF LateEnquiry
        <5> QED
          BY <3>2, <5>1, <5>2, <5>3, <5>4, <5>5
      <4> QED
        BY <4>1, <4>2, <4>3, <4>4 DEF LateCommand, Answers
    <3>4. ASSUME Len(tpgGot) >= 2
          PROVE  tpgWire' = <<>>
      <4>1. Len(tpgWire) = 0
        BY <3>1, <3>4 DEF RelayWire
      <4>2. Len(tpgWire') = 0
        BY <2>2, <3>2, <4>1
      <4> QED
        BY <2>2, <4>2
    <3> QED
      BY <3>1, <3>3, <3>4 DEF RelayWire
  <2> QED
    BY <1>3, <2>3, <2>4, <2>5 DEF TPGInv
<1> QED
  BY <1>1, <1>2, <1>4, <1>5, <1>6

(* The answer that a relay's question takes is its own.                    *)
LEMMA TakesItsOwn ==
  ASSUME TPGInv, tpgMostLate <= 3, tpgJob = "relay", tpgPhase = "enquiry",
         NEW k \in 0 .. Len(tpgWire) + 1, NEW chunk, chunk = SubSeq(Late(tpgAsked), 1, k),
         chunk # <<>>, Accepts(Question, chunk)
  PROVE  /\ k = 1 /\ Head(chunk) = Question
         /\ Len(tpgGot) >= 1 => tpgWire = <<>>
<1>1. /\ tpgAsked = Question /\ Question \in Questions /\ Questions \subseteq Answers
      /\ Len(tpgGot) \in Nat /\ Len(tpgGot) + 1 \in 1 .. Len(TPGProgram("relay"))
      /\ tpgWire \in Seq(Answers)
  BY QuestionType DEF TPGInv, Exchange, Answers, TPGTypeOK
<1>2. /\ Len(chunk) = k /\ k > 0
      /\ Head(chunk) = IF tpgWire = <<>> THEN tpgAsked ELSE tpgWire[1]
  BY <1>1, ChunkFacts DEF TPGInv
<1>3. Question = (<< "SPS" >> \o SwitchingFunctions)[Len(tpgGot) + 1]
  BY TPGPrograms DEF Question
<1>4. RelayWire
  BY DEF TPGInv
<1>5. Relays \cap {"ACK", "PRX", "SPS"} = {}
  BY TPG362Assumption
<1>6. \A n \in Nat : (n = 0 \/ n = 1 \/ n >= 2) /\ (n >= 1 <=> n # 0)
  OBVIOUS
<1>7. CASE Len(tpgGot) = 0
  <2>1. Question = "SPS"
    BY <1>3, <1>7, TPGPrograms
  <2>2. chunk = << "SPS" >>
    BY <1>5, <2>1 DEF Accepts
  <2>3. Len(<< "SPS" >>) = 1 /\ Head(<< "SPS" >>) = "SPS"
    OBVIOUS
  <2> QED
    BY <1>1, <1>2, <1>7, <1>6, <2>1, <2>2, <2>3
<1>8. CASE Len(tpgGot) >= 1
  <2>1. Question \in Relays
    <3>1. Len(tpgGot) + 1 \in 2 .. 1 + Len(SwitchingFunctions)
      BY <1>1, <1>8, TPGPrograms
    <3>2. (<< "SPS" >> \o SwitchingFunctions)[Len(tpgGot) + 1] = SwitchingFunctions[Len(tpgGot)]
      BY <1>1, <3>1, TPGPrograms
    <3>3. Len(tpgGot) \in 1 .. Len(SwitchingFunctions)
      BY <1>1, <3>1, TPGPrograms
    <3> QED
      BY <1>3, <3>2, <3>3, TPGPrograms
  <2>2. PICK r \in Relays : chunk = << r >>
    BY <1>5, <2>1 DEF Accepts
  <2>3. k = 1 /\ Head(chunk) = r
    <3>1. Len(<< r >>) = 1 /\ Head(<< r >>) = r
      OBVIOUS
    <3> QED
      BY <1>2, <2>2, <3>1
  <2>4. tpgWire = <<>> \/ tpgWire[1] \in {"ACK", "SPS"}
    <3>1. CASE Len(tpgGot) = 1
      <4>1. tpgWire \in LateEnquiry
        BY <1>4, <3>1 DEF RelayWire
      <4> QED
        BY <4>1 DEF LateEnquiry
    <3>2. CASE Len(tpgGot) >= 2
      BY <1>4, <3>2 DEF RelayWire
    <3>3. Len(tpgGot) = 1 \/ Len(tpgGot) >= 2
      BY <1>1, <1>8, <1>6
    <3> QED
      BY <3>1, <3>2, <3>3
  <2>5. tpgWire = <<>>
    BY <1>2, <1>5, <2>3, <2>4
  <2> QED
    BY <1>1, <1>2, <2>3, <2>5
<1> QED
  BY <1>1, <1>7, <1>8

(* The answers that have been taken are those of the questions.            *)
LEMMA EnquireKeeps ==
  ASSUME TPGInv, Enquire
  PROVE  TPGInv'
<1>1. PICK k \in 0 .. Len(tpgWire) + 1 :
        LET chunk == SubSeq(Late(tpgAsked), 1, k)
        IN  IF chunk # <<>> /\ Accepts(Question, chunk)
              THEN /\ Reads(tpgAsked, chunk)
                   /\ LET got == Append(tpgGot, Head(chunk))
                      IN  IF Len(got) = Len(TPGProgram(tpgJob))
                            THEN /\ TPGEnd
                                 /\ tpgRelay' = IF tpgJob = "relay" THEN got ELSE tpgRelay
                            ELSE /\ tpgGot' = got /\ tpgPhase' = "command"
                                 /\ UNCHANGED <<tpgJob, tpgTries, tpgRelay>>
                   /\ UNCHANGED tpgConnected
              ELSE /\ \/ Reads(tpgAsked, chunk) /\ Retry
                      \/ NoneLate /\ GiveUp
                   /\ UNCHANGED tpgRelay
  BY DEF Enquire
<1>2. PICK chunk : chunk = SubSeq(Late(tpgAsked), 1, k)
  OBVIOUS
<1>3. /\ tpgJob # "idle" /\ tpgPhase = "enquiry"
      /\ tpgAsked' = tpgAsked /\ tpgAsked = Question
      /\ tpgAsked \in Questions /\ Questions \subseteq Answers
      /\ tpgJob \in TPGJobs
      /\ Len(tpgGot) \in Nat /\ Len(tpgGot) + 1 \in 1 .. Len(TPGProgram(tpgJob))
      /\ tpgGot \in Seq(Answers)
  BY QuestionType DEF Enquire, TPGInv, Exchange, Answers, TPGTypeOK
<1>4. CASE NoneLate /\ GiveUp /\ UNCHANGED tpgRelay
  BY <1>3, <1>4, GiveUpKeeps DEF GiveUp
<1>5. CASE Reads(tpgAsked, chunk) /\ Retry /\ UNCHANGED tpgRelay
  BY <1>2, <1>3, <1>5, RetryKeeps
<1>6. CASE chunk # <<>> /\ Accepts(Question, chunk)
  <2> DEFINE got == Append(tpgGot, Head(chunk))
  <2>1. /\ Reads(tpgAsked, chunk) /\ UNCHANGED tpgConnected
        /\ IF Len(got) = Len(TPGProgram(tpgJob))
             THEN /\ TPGEnd
                  /\ tpgRelay' = IF tpgJob = "relay" THEN got ELSE tpgRelay
             ELSE /\ tpgGot' = got /\ tpgPhase' = "command"
                  /\ UNCHANGED <<tpgJob, tpgTries, tpgRelay>>
    BY <1>1, <1>2, <1>6
  <2>2. /\ Len(tpgWire') = Len(tpgWire) + 1 - k /\ Len(tpgWire') <= tpgMostLate'
        /\ tpgMostLate' \in 0 .. MaxLate /\ tpgMostLate \in Nat /\ tpgMostLate <= tpgMostLate'
        /\ tpgWire' \in Seq(Answers)
        /\ \A i \in 1 .. Len(tpgWire) + 1 - k :
             tpgWire'[i] = IF k + i <= Len(tpgWire) THEN tpgWire[k + i] ELSE tpgAsked
    BY <1>2, <1>3, <2>1, ReadsFacts DEF TPGInv
  <2>3. Head(chunk) \in Answers
    BY <1>2, <1>3, <1>6, ChunkFacts DEF TPGInv
  <2>4. /\ got \in Seq(Answers) /\ Len(got) = Len(tpgGot) + 1
        /\ got[Len(got)] = Head(chunk)
        /\ \A i \in 1 .. Len(tpgGot) : got[i] = tpgGot[i]
    BY <1>3, <2>3
  <2> HIDE DEF got
  <2>5. ASSUME tpgMostLate' <= 3, tpgJob = "relay"
        PROVE  /\ \A i \in 1 .. Len(got) : got[i] = TPGProgram("relay")[i]
               /\ k = 1 /\ (Len(tpgGot) >= 1 => tpgWire = <<>>)
    <3>0. tpgMostLate <= 3
      BY <2>2, <2>5, TPG362Assumption
    <3>1. /\ k = 1 /\ Head(chunk) = Question
          /\ Len(tpgGot) >= 1 => tpgWire = <<>>
      BY <1>2, <1>3, <1>6, <2>5, <3>0, TakesItsOwn
    <3>2. got[Len(tpgGot) + 1] = TPGProgram("relay")[Len(tpgGot) + 1]
      BY <2>4, <2>5, <3>1 DEF Question
    <3>3. \A i \in 1 .. Len(tpgGot) : got[i] = TPGProgram("relay")[i]
      BY <2>4, <2>5, <3>0 DEF TPGInv, RelayWire
    <3>4. \A i \in 1 .. Len(got) : i = Len(tpgGot) + 1 \/ i \in 1 .. Len(tpgGot)
      BY <1>3, <2>4
    <3> QED
      BY <3>1, <3>2, <3>3, <3>4
  <2>6. CASE Len(got) = Len(TPGProgram(tpgJob))
    <3>1. /\ tpgJob' = "idle" /\ tpgPhase' = "command" /\ tpgTries' \in 1 .. MaxTries
          /\ tpgGot' = <<>> /\ Len(tpgGot') = 0 /\ tpgGot' \in Seq(Answers)
          /\ tpgJob' \in TPGJobs => Len(tpgGot') < Len(TPGProgram(tpgJob'))
      BY <2>1, <2>6, BeginType DEF TPGEnd
    <3>2. tpgRelay' = IF tpgJob = "relay" THEN got ELSE tpgRelay
      BY <2>1, <2>6
    <3>3. tpgRelay' \in Seq(Answers)
      BY <2>4, <3>2 DEF TPGInv, TPGTypeOK, Answers
    <3>4. TPGTypeOK'
      BY <1>3, <2>1, <2>2, <3>1, <3>3 DEF TPGInv, TPGTypeOK, Answers
    <3> QED
      BY <3>1, <3>4 DEF TPGInv, Exchange, RelayWire
  <2>7. CASE Len(got) # Len(TPGProgram(tpgJob))
    <3>1. /\ tpgGot' = got /\ tpgPhase' = "command"
          /\ UNCHANGED <<tpgJob, tpgTries, tpgRelay>>
      BY <2>1, <2>7
    <3>2. Len(got) < Len(TPGProgram(tpgJob))
      BY <1>3, <2>4, <2>7
    <3>3. TPGTypeOK'
      BY <1>3, <2>1, <2>2, <2>4, <3>1, <3>2 DEF TPGInv, TPGTypeOK, Answers
    <3>4. ASSUME tpgMostLate' <= 3, tpgJob = "relay"
          PROVE  RelayWire'
      <4>1. tpgWire \in Seq(Answers) /\ Len(tpgWire) \in Nat /\ k = 1
        BY <2>5, <3>4 DEF TPGInv, TPGTypeOK, Answers
      <4>2. ASSUME tpgWire = <<>>
            PROVE  tpgWire' = <<>>
        <5>1. Len(tpgWire') = 0
          BY <2>2, <4>1, <4>2
        <5> QED
          BY <2>2, <5>1
      <4>3. ASSUME Len(got) = 1
            PROVE  tpgWire' \in LateCommand
        <5>1. Len(tpgGot) = 0 /\ tpgAsked = "SPS"
          <6>1. Len(tpgGot) = 0
            BY <1>3, <2>4, <4>3
          <6> QED
            BY <1>3, <3>4, <6>1, TPGPrograms DEF Question
        <5>2. CASE tpgWire = <<>>
          BY <4>2, <5>2 DEF LateCommand
        <5>3. CASE tpgWire # <<>>
          <6>1. tpgWire[Len(tpgWire)] = "ACK" /\ Len(tpgWire) >= 1
            BY <1>3, <4>1, <5>3 DEF TPGInv, Exchange
          <6>2. tpgWire[1] = "SPS"
            <7>1. chunk = << "SPS" >>
              BY <1>3, <1>6, <5>1, TPG362Assumption DEF Accepts
            <7>2. Head(chunk) = tpgWire[1]
              BY <1>2, <1>3, <1>6, <4>1, <5>3, ChunkFacts DEF TPGInv
            <7>3. Head(<< "SPS" >>) = "SPS"
              OBVIOUS
            <7> QED
              BY <7>1, <7>2, <7>3
          <6>3. Len(tpgWire') = Len(tpgWire) /\ Len(tpgWire') <= 3
            BY <2>2, <3>4, <4>1
          <6>4. Len(tpgWire) # 1
            BY <6>1, <6>2
          <6>5. CASE Len(tpgWire) = 2
            <7>1. tpgWire'[1] = "ACK" /\ tpgWire'[2] = "SPS"
              BY <2>2, <4>1, <5>1, <6>1, <6>5
            <7>2. tpgWire' = << "ACK", "SPS" >>
              BY <2>2, <6>3, <6>5, <7>1
            <7> QED
              BY <7>2 DEF LateCommand
          <6>6. CASE Len(tpgWire) = 3
            <7>1. tpgWire'[1] = tpgWire[2] /\ tpgWire'[2] = "ACK" /\ tpgWire'[3] = "SPS"
              BY <2>2, <4>1, <5>1, <6>1, <6>6
            <7>2. tpgWire[2] \in Answers
              <8>1. 2 \in 1 .. Len(tpgWire)
                BY <6>6
              <8> QED
                BY <4>1, <8>1
            <7>3. tpgWire' = << tpgWire[2], "ACK", "SPS" >>
              BY <2>2, <6>3, <6>6, <7>1
            <7> QED
              BY <7>2, <7>3 DEF LateCommand, Answers
          <6> QED
            BY <4>1, <6>1, <6>3, <6>4, <6>5, <6>6
        <5> QED
          BY <5>2, <5>3
      <4>4. Len(got) >= 2 => tpgWire' = <<>>
        BY <1>3, <2>4, <2>5, <3>4, <4>2
      <4> QED
        BY <2>5, <3>1, <3>4, <4>3, <4>4 DEF RelayWire
    <3>5. tpgJob # "relay" => RelayWire'
      BY <3>1 DEF RelayWire
    <3> QED
      BY <3>1, <3>3, <3>4, <3>5 DEF TPGInv, Exchange
  <2> QED
    BY <2>6, <2>7
<1> QED
  BY <1>1, <1>2, <1>4, <1>5, <1>6

(* The jobs begin and end with nothing of the relays received.             *)
LEMMA TPGInductive == TPGInv /\ [TPGNext]_tpgVars => TPGInv'
<1> SUFFICES ASSUME TPGInv, [TPGNext]_tpgVars
             PROVE  TPGInv'
  OBVIOUS
<1>0. /\ tpgAsked \in Answers /\ <<>> \in Seq(Answers)
      /\ tpgWire \in Seq(Answers) /\ Len(tpgWire) <= tpgMostLate
      /\ tpgMostLate \in 0 .. MaxLate /\ 0 \in 0 .. MaxLate
      /\ tpgRelay \in Seq(Answers) /\ tpgConnected \in BOOLEAN
      /\ Len(<<>>) = 0
  BY TPG362Assumption DEF TPGInv, TPGTypeOK, Answers
<1>1. CASE SendCommand
  BY <1>1, SendCommandKeeps
<1>2. CASE Enquire
  BY <1>2, EnquireKeeps
<1>3. CASE StreamBreaks
  BY <1>0, <1>3, GiveUpKeeps DEF StreamBreaks
<1>4. ASSUME NEW j \in TPGJobs, TPGBegin(j), UNCHANGED <<tpgAsked, tpgRelay>>,
             tpgConnected' \in BOOLEAN, NoneLate \/ UNCHANGED <<tpgWire, tpgMostLate>>
      PROVE  TPGInv'
  <2>1. /\ tpgJob' = j /\ tpgPhase' = "command" /\ tpgTries' \in 1 .. MaxTries
        /\ tpgGot' = <<>> /\ Len(tpgGot') = 0 /\ tpgGot' \in Seq(Answers)
        /\ tpgJob' \in TPGJobs => Len(tpgGot') < Len(TPGProgram(tpgJob'))
    BY <1>4, BeginType
  <2>2. /\ tpgWire' \in Seq(Answers) /\ Len(tpgWire') <= tpgMostLate'
        /\ tpgMostLate' \in 0 .. MaxLate
    <3>1. CASE NoneLate
      <4>1. tpgWire' = <<>> /\ tpgMostLate' = 0
        BY <3>1 DEF NoneLate
      <4> QED
        BY <1>0, <4>1
    <3>2. CASE UNCHANGED <<tpgWire, tpgMostLate>>
      BY <1>0, <3>2
    <3> QED
      BY <1>4, <3>1, <3>2
  <2>3. TPGTypeOK'
    BY <1>0, <1>4, <2>1, <2>2 DEF TPGTypeOK, Answers
  <2> QED
    BY <1>4, <2>1, <2>3, TPG362Assumption DEF TPGInv, Exchange, RelayWire
<1>5. CASE TPGConnect
  <2>1. "connect" \in TPGJobs
    BY DEF TPGJobs
  <2> QED
    BY <1>0, <1>4, <1>5, <2>1 DEF TPGConnect
<1>6. ASSUME NEW j \in TPGJobs \ {"connect"}, TPGStart(j)
      PROVE  TPGInv'
  BY <1>0, <1>4, <1>6 DEF TPGStart
<1>7. CASE TPGDisconnect \/ NoRelay \/ UNCHANGED tpgVars
  <2>1. /\ UNCHANGED <<tpgAsked, tpgJob, tpgPhase, tpgTries, tpgGot>>
        /\ tpgConnected' \in BOOLEAN
        /\ NoneLate \/ UNCHANGED <<tpgWire, tpgMostLate>>
        /\ tpgRelay' = <<>> \/ UNCHANGED tpgRelay
        /\ tpgJob = "idle" \/ UNCHANGED <<tpgWire, tpgMostLate>>
    BY <1>0, <1>7 DEF TPGDisconnect, NoRelay, tpgVars
  <2>2. /\ tpgWire' \in Seq(Answers) /\ Len(tpgWire') <= tpgMostLate'
        /\ tpgMostLate' \in 0 .. MaxLate /\ tpgRelay' \in Seq(Answers)
    <3>1. tpgRelay' \in Seq(Answers)
      BY <1>0, <2>1
    <3>2. CASE NoneLate
      <4>1. tpgWire' = <<>> /\ tpgMostLate' = 0
        BY <3>2 DEF NoneLate
      <4> QED
        BY <1>0, <3>1, <4>1
    <3>3. CASE UNCHANGED <<tpgWire, tpgMostLate>>
      BY <1>0, <3>1, <3>3
    <3> QED
      BY <2>1, <3>2, <3>3
  <2>3. TPGTypeOK'
    BY <2>1, <2>2 DEF TPGInv, TPGTypeOK, Answers
  <2>4. Exchange'
    BY <2>1 DEF TPGInv, Exchange, Question
  <2>5. tpgMostLate' <= 3 => RelayWire'
    BY <2>1 DEF TPGInv, RelayWire
  <2> QED
    BY <2>3, <2>4, <2>5 DEF TPGInv
<1> QED
  BY <1>1, <1>2, <1>3, <1>5, <1>6, <1>7 DEF TPGNext

(* Before the first job nothing is asked.                                  *)
LEMMA TPGInitInv == TPGInit => TPGInv
<1> SUFFICES ASSUME TPGInit
             PROVE  TPGInv
  OBVIOUS
<1>1. <<>> \in Seq(Answers) /\ Len(<<>>) = 0 /\ 0 \in 0 .. MaxLate
  BY TPG362Assumption
<1>2. tpgJob \notin TPGJobs
  BY TPG362Assumption DEF TPGInit, TPGJobs
<1>3. tpgTries \in 1 .. MaxTries
  BY TPG362Assumption DEF TPGInit
<1>4. /\ tpgJob = "idle" /\ tpgAsked \in Answers
      /\ tpgWire \in Seq(Answers) /\ Len(tpgWire) = 0 /\ tpgMostLate = 0
  BY <1>1 DEF TPGInit, Answers
<1>5. TPGTypeOK
  <2>1. /\ tpgConnected \in BOOLEAN /\ tpgPhase \in {"command", "enquiry"}
        /\ tpgGot \in Seq(Answers) /\ tpgRelay \in Seq(Answers)
    BY <1>1 DEF TPGInit
  <2>2. Len(tpgWire) <= tpgMostLate /\ tpgMostLate \in 0 .. MaxLate
    BY <1>1, <1>4
  <2> QED
    BY <1>2, <1>3, <1>4, <2>1, <2>2 DEF TPGTypeOK, Answers
<1> QED
  BY <1>2, <1>5 DEF TPGInv, TPGInit, Exchange, RelayWire

(* The invariant holds of every behaviour of the controller.               *)
LEMMA SpecTPGInv == TPGSpec => []TPGInv
BY TPGInitInv, TPGInductive, PTL DEF TPGSpec

(* An update of the relays ends with its last answer, or gives up.         *)
LEMMA TPGStepInTime ==
  ASSUME TPGInv, [TPGNext]_tpgVars, tpgJob = "relay", tpgJob' = "idle", tpgConnected',
         tpgMostLate' <= 3
  PROVE  tpgRelay' = TPGProgram("relay")
<1>0. tpgJob # "idle" /\ tpgJob # tpgJob' /\ tpgConnected' # FALSE
  OBVIOUS
<1>1. Enquire
  <2>1. ~SendCommand
    BY <1>0 DEF SendCommand, Retry, GiveUp
  <2>2. ~StreamBreaks
    BY DEF StreamBreaks
  <2>3. ~(TPGConnect \/ TPGDisconnect \/ NoRelay \/ \E j \in TPGJobs \ {"connect"} : TPGStart(j))
    BY <1>0 DEF TPGConnect, TPGDisconnect, NoRelay, TPGStart
  <2>4. ~UNCHANGED tpgVars
    BY <1>0 DEF tpgVars
  <2> QED
    BY <2>1, <2>2, <2>3, <2>4 DEF TPGNext
<1>2. PICK k \in 0 .. Len(tpgWire) + 1 :
        LET chunk == SubSeq(Late(tpgAsked), 1, k)
        IN  IF chunk # <<>> /\ Accepts(Question, chunk)
              THEN /\ Reads(tpgAsked, chunk)
                   /\ LET got == Append(tpgGot, Head(chunk))
                      IN  IF Len(got) = Len(TPGProgram(tpgJob))
                            THEN /\ TPGEnd
                                 /\ tpgRelay' = IF tpgJob = "relay" THEN got ELSE tpgRelay
                            ELSE /\ tpgGot' = got /\ tpgPhase' = "command"
                                 /\ UNCHANGED <<tpgJob, tpgTries, tpgRelay>>
                   /\ UNCHANGED tpgConnected
              ELSE /\ \/ Reads(tpgAsked, chunk) /\ Retry
                      \/ NoneLate /\ GiveUp
                   /\ UNCHANGED tpgRelay
  BY <1>1 DEF Enquire
<1>3. PICK chunk : chunk = SubSeq(Late(tpgAsked), 1, k)
  OBVIOUS
<1> DEFINE got == Append(tpgGot, Head(chunk))
<1>4. /\ chunk # <<>> /\ Accepts(Question, chunk)
      /\ Reads(tpgAsked, chunk)
      /\ Len(got) = Len(TPGProgram("relay")) /\ tpgRelay' = got
  <2>1. ~Retry /\ ~GiveUp
    BY <1>0 DEF Retry, GiveUp
  <2>2. chunk # <<>> /\ Accepts(Question, chunk)
    BY <1>2, <1>3, <2>1
  <2>3. /\ Reads(tpgAsked, chunk)
        /\ IF Len(got) = Len(TPGProgram(tpgJob))
             THEN tpgRelay' = IF tpgJob = "relay" THEN got ELSE tpgRelay
             ELSE UNCHANGED tpgJob
    BY <1>2, <1>3, <2>2
  <2> HIDE DEF got
  <2> QED
    BY <1>0, <2>2, <2>3
<1>5. /\ tpgPhase = "enquiry" /\ tpgAsked \in Answers
      /\ tpgGot \in Seq(Answers) /\ Len(tpgGot) \in Nat
      /\ TPGProgram("relay") \in Seq(Questions)
  BY <1>0, <1>1, QuestionType, TPGPrograms DEF Enquire, TPGInv, TPGTypeOK, Answers, TPGJobs
<1>6. tpgMostLate <= 3
  <2>1. /\ tpgMostLate' \in 0 .. MaxLate /\ tpgMostLate \in Nat
        /\ tpgMostLate <= tpgMostLate'
    BY <1>3, <1>4, <1>5, ReadsFacts DEF TPGInv
  <2> QED
    BY <2>1, TPG362Assumption
<1>7. Head(chunk) = TPGProgram("relay")[Len(tpgGot) + 1]
  BY <1>3, <1>4, <1>5, <1>6, TakesItsOwn DEF Question
<1>8. Head(chunk) \in Answers
  BY <1>3, <1>4, <1>5, ChunkFacts DEF TPGInv
<1>9. \A i \in 1 .. Len(tpgGot) : tpgGot[i] = TPGProgram("relay")[i]
  BY <1>6 DEF TPGInv, RelayWire
<1>10. /\ got \in Seq(Answers) /\ Len(got) = Len(tpgGot) + 1
       /\ got[Len(tpgGot) + 1] = Head(chunk)
       /\ \A i \in 1 .. Len(tpgGot) : got[i] = tpgGot[i]
  BY <1>5, <1>8
<1> HIDE DEF got
<1>11. \A i \in 1 .. Len(got) : i = Len(tpgGot) + 1 \/ i \in 1 .. Len(tpgGot)
  BY <1>5, <1>10
<1>12. \A i \in 1 .. Len(got) : got[i] = TPGProgram("relay")[i]
  BY <1>7, <1>9, <1>10, <1>11
<1>13. got = TPGProgram("relay")
  BY <1>4, <1>5, <1>10, <1>12
<1> QED
  BY <1>4, <1>13

(* Relays that are read on a stream that answers in time, or nearly so,    *)
(* are shown with their own settings, whatever other jobs left unread.     *)
THEOREM TPGSpecRelayInTime == TPGSpec => RelayInTime
<1>1. /\ TPGInv /\ [TPGNext]_tpgVars
      => [(tpgJob = "relay" /\ tpgJob' = "idle" /\ tpgConnected' /\ tpgMostLate' <= 3)
            => tpgRelay' = TPGProgram("relay")]_tpgVars
  BY TPGStepInTime
<1> QED
  BY <1>1, SpecTPGInv, PTL DEF TPGSpec, RelayInTime

-----------------------------------------------------------------------------
(* The MKS910: a relay that is being set is disabled, and has what the     *)
(* call has already set.                                                   *)

HasSettings(r, level, step) ==
  /\ step > 1 => r.enabled = FALSE
  /\ step > 2 => r.direction = Direction(level[1], level[2])
  /\ step > 3 => r.setpoint = level[1]
  /\ step > 4 => r.hysteresis = level[2]

BeingSet ==
  mksJob = "setRelay" =>
    /\ mksStep < 5 \/ mksCall[1].enabled
    /\ HasSettings(mksRelays[mksCall[1].relay], mksCall[1].level, mksStep)

MKSInv ==
  /\ MKSTypeOK
  /\ BeingSet
  /\ mksJob # "setRelay" => mksStep = 1 /\ mksCall = <<>>
  /\ RelayOfOneCall

(* The settings a call asks for are settings of a relay.                   *)
LEMMA LevelType ==
  ASSUME NEW l \in Levels
  PROVE  /\ l[1] \in Pressures /\ l[2] \in Pressures
         /\ l[1] \in Nat /\ l[2] \in Nat
         /\ Direction(l[1], l[2]) \in {"BELOW", "ABOVE"}
BY MKS910Assumption DEF Pressures, Direction

(* The settings of a call of one level are settings of a relay, and of one *)
(* call.                                                                   *)
LEMMA AskedType ==
  ASSUME NEW l \in Levels
  PROVE  Asked(l, TRUE) \in RelaySettings /\ OfOneCall(Asked(l, TRUE))
BY LevelType DEF Asked, RelaySettings, OfOneCall

(* What an exchange of setRelay leaves, whether or not its answer comes.   *)
LEMMA CarriedOutKeeps ==
  ASSUME MKSInv, mksJob = "setRelay",
         NEW relays, relays = CarriedOut(SetRelaySteps[mksStep])
  PROVE  /\ relays \in [RelayNo -> RelaySettings]
         /\ \A r \in RelayNo : OfOneCall(relays[r])
         /\ mksStep < 5 => HasSettings(relays[mksCall[1].relay], mksCall[1].level, mksStep + 1)
<1> DEFINE call == mksCall[1]
           old == mksRelays[call.relay]
           new == relays[call.relay]
<1>1. /\ mksRelays \in [RelayNo -> RelaySettings]
      /\ call \in RelayCalls /\ mksStep \in 1 .. 5
      /\ \A r \in RelayNo : OfOneCall(mksRelays[r])
  BY DEF MKSInv, MKSTypeOK, RelayOfOneCall
<1>2. call.relay \in RelayNo /\ call.level \in Levels
  BY <1>1 DEF RelayCalls
<1>3. /\ old \in RelaySettings
      /\ call.level[1] \in Pressures /\ call.level[2] \in Pressures
      /\ Direction(call.level[1], call.level[2]) \in {"BELOW", "ABOVE"}
  BY <1>1, <1>2, LevelType
<1>4. HasSettings(old, call.level, mksStep) /\ (mksStep < 5 \/ call.enabled)
  BY DEF MKSInv, BeingSet
<1> HIDE DEF call
<1> DEFINE level == call.level
<1> SUFFICES /\ relays = [mksRelays EXCEPT ![call.relay] = new]
             /\ new \in RelaySettings
             /\ OfOneCall(new)
             /\ mksStep < 5 => HasSettings(new, level, mksStep + 1)
  <2> HIDE DEF new, level
  <2> SUFFICES ASSUME relays = [mksRelays EXCEPT ![call.relay] = new],
                      new \in RelaySettings, OfOneCall(new)
               PROVE  /\ relays \in [RelayNo -> RelaySettings]
                      /\ \A r \in RelayNo : OfOneCall(relays[r])
    BY DEF new, level, call
  <2>1. \A r \in RelayNo : relays[r] = IF r = call.relay THEN new ELSE mksRelays[r]
    BY <1>1, <1>2
  <2>2. \A r \in RelayNo : OfOneCall(relays[r])
    <3> SUFFICES ASSUME NEW r \in RelayNo PROVE OfOneCall(relays[r])
      OBVIOUS
    <3>1. CASE r = call.relay
      BY <2>1, <3>1
    <3>2. CASE r # call.relay
      BY <1>1, <2>1, <3>2
    <3> QED
      BY <3>1, <3>2
  <2> QED
    BY <1>1, <1>2, <2>2
<1>fields. /\ old.enabled \in BOOLEAN /\ old.direction \in {"BELOW", "ABOVE"}
           /\ old.setpoint \in Pressures /\ old.hysteresis \in Pressures
           /\ old = [enabled |-> old.enabled, direction |-> old.direction,
                     setpoint |-> old.setpoint, hysteresis |-> old.hysteresis]
  BY <1>3 DEF RelaySettings
<1>update. ASSUME NEW f, NEW v, relays = [mksRelays EXCEPT ![call.relay] = [@ EXCEPT ![f] = v]]
           PROVE  /\ relays = [mksRelays EXCEPT ![call.relay] = new]
                  /\ new = [old EXCEPT ![f] = v]
  BY <1>1, <1>2, <1>update
<1>5. CASE mksStep = 1
  <2>1. relays = [mksRelays EXCEPT ![call.relay] = [@ EXCEPT !["enabled"] = FALSE]]
    BY <1>5 DEF CarriedOut, SetRelaySteps, call
  <2>2. /\ relays = [mksRelays EXCEPT ![call.relay] = new]
        /\ new = [old EXCEPT !["enabled"] = FALSE]
    BY <2>1, <1>update
  <2>3. new = [enabled |-> FALSE, direction |-> old.direction,
               setpoint |-> old.setpoint, hysteresis |-> old.hysteresis]
    BY <2>2, <1>fields
  <2> HIDE DEF new
  <2>4. new \in RelaySettings /\ new.enabled = FALSE
    BY <2>3, <1>fields DEF RelaySettings
  <2>6. OfOneCall(new)
    BY <2>4, Zenon DEF OfOneCall
  <2>7. HasSettings(new, level, mksStep + 1)
    BY <2>4, <1>5 DEF HasSettings
  <2> QED
    BY <2>2, <2>4, <2>6, <2>7
<1>6. CASE mksStep = 2
  <2>1. relays = [mksRelays EXCEPT ![call.relay] =
                    [@ EXCEPT !["direction"] = Direction(level[1], level[2])]]
    BY <1>6 DEF CarriedOut, SetRelaySteps, call
  <2>2. /\ relays = [mksRelays EXCEPT ![call.relay] = new]
        /\ new = [old EXCEPT !["direction"] = Direction(level[1], level[2])]
    BY <2>1, <1>update
  <2>3. new = [enabled |-> old.enabled, direction |-> Direction(level[1], level[2]),
               setpoint |-> old.setpoint, hysteresis |-> old.hysteresis]
    BY <2>2, <1>fields
  <2>4. old.enabled = FALSE
    BY <1>4, <1>6 DEF HasSettings
  <2> HIDE DEF new
  <2>5. /\ new \in RelaySettings /\ new.enabled = FALSE
        /\ new.direction = Direction(level[1], level[2])
    BY <2>3, <2>4, <1>3, <1>fields DEF RelaySettings
  <2>6. OfOneCall(new)
    BY <2>5, Zenon DEF OfOneCall
  <2>7. HasSettings(new, level, mksStep + 1)
    BY <2>5, <1>6 DEF HasSettings
  <2> QED
    BY <2>2, <2>5, <2>6, <2>7
<1>7. CASE mksStep = 3
  <2>1. relays = [mksRelays EXCEPT ![call.relay] = [@ EXCEPT !["setpoint"] = level[1]]]
    BY <1>7 DEF CarriedOut, SetRelaySteps, call
  <2>2. /\ relays = [mksRelays EXCEPT ![call.relay] = new]
        /\ new = [old EXCEPT !["setpoint"] = level[1]]
    BY <2>1, <1>update
  <2>3. new = [enabled |-> old.enabled, direction |-> old.direction,
               setpoint |-> level[1], hysteresis |-> old.hysteresis]
    BY <2>2, <1>fields
  <2>4. old.enabled = FALSE /\ old.direction = Direction(level[1], level[2])
    BY <1>4, <1>7 DEF HasSettings
  <2> HIDE DEF new
  <2>5. /\ new \in RelaySettings /\ new.enabled = FALSE
        /\ new.direction = Direction(level[1], level[2]) /\ new.setpoint = level[1]
    BY <2>3, <2>4, <1>3, <1>fields DEF RelaySettings
  <2>6. OfOneCall(new)
    BY <2>5, Zenon DEF OfOneCall
  <2>7. HasSettings(new, level, mksStep + 1)
    BY <2>5, <1>7 DEF HasSettings
  <2> QED
    BY <2>2, <2>5, <2>6, <2>7
<1>8. CASE mksStep = 4
  <2>1. relays = [mksRelays EXCEPT ![call.relay] = [@ EXCEPT !["hysteresis"] = level[2]]]
    BY <1>8 DEF CarriedOut, SetRelaySteps, call
  <2>2. /\ relays = [mksRelays EXCEPT ![call.relay] = new]
        /\ new = [old EXCEPT !["hysteresis"] = level[2]]
    BY <2>1, <1>update
  <2>3. new = [enabled |-> old.enabled, direction |-> old.direction,
               setpoint |-> old.setpoint, hysteresis |-> level[2]]
    BY <2>2, <1>fields
  <2>4. /\ old.enabled = FALSE /\ old.direction = Direction(level[1], level[2])
        /\ old.setpoint = level[1]
    BY <1>4, <1>8 DEF HasSettings
  <2> HIDE DEF new
  <2>5. /\ new \in RelaySettings /\ new.enabled = FALSE
        /\ new.direction = Direction(level[1], level[2]) /\ new.setpoint = level[1]
        /\ new.hysteresis = level[2]
    BY <2>3, <2>4, <1>3, <1>fields DEF RelaySettings
  <2>6. OfOneCall(new)
    BY <2>5, Zenon DEF OfOneCall
  <2>7. HasSettings(new, level, mksStep + 1)
    BY <2>5, <1>8 DEF HasSettings
  <2> QED
    BY <2>2, <2>5, <2>6, <2>7
<1>9. CASE mksStep = 5
  <2>1. relays = [mksRelays EXCEPT ![call.relay] = [@ EXCEPT !["enabled"] = TRUE]]
    BY <1>9 DEF CarriedOut, SetRelaySteps, call
  <2>2. /\ relays = [mksRelays EXCEPT ![call.relay] = new]
        /\ new = [old EXCEPT !["enabled"] = TRUE]
    BY <2>1, <1>update
  <2>3. new = [enabled |-> TRUE, direction |-> old.direction,
               setpoint |-> old.setpoint, hysteresis |-> old.hysteresis]
    BY <2>2, <1>fields
  <2>4. /\ old.direction = Direction(level[1], level[2])
        /\ old.setpoint = level[1] /\ old.hysteresis = level[2]
    BY <1>4, <1>9 DEF HasSettings
  <2>5. new = Asked(level, TRUE)
    BY <2>3, <2>4 DEF Asked
  <2> HIDE DEF new
  <2>6. level \in Levels
    BY <1>2
  <2>7. new \in RelaySettings /\ OfOneCall(new)
    BY <2>5, <2>6, AskedType
  <2> QED
    BY <2>2, <2>7, <1>9
<1> QED
  BY <1>1, <1>5, <1>6, <1>7, <1>8, <1>9

(* A relay that is read or left alone stays coherent, and a job that ends  *)
(* or begins leaves nothing half set.                                      *)
LEMMA MKSStepKeeps ==
  ASSUME MKSInv,
         mksConnected' \in BOOLEAN, mksUnit' \in Unit,
         mksRelays' \in [RelayNo -> RelaySettings],
         \A r \in RelayNo : OfOneCall(mksRelays'[r]),
         mksShown' \in {mksShown, <<>>, << mksRelays >>},
         \/ /\ mksJob' \in {"idle", "getRelay", "setUnits", "getMeasurements"}
            /\ mksStep' = 1 /\ mksCall' = <<>>
         \/ /\ mksJob' = "setRelay" /\ mksStep' = 1
            /\ \E call \in RelayCalls : mksCall' = << call >>
  PROVE  MKSInv'
<1>1. /\ \A r \in RelayNo : OfOneCall(mksRelays[r])
      /\ mksRelays \in [RelayNo -> RelaySettings]
  BY DEF MKSInv, MKSTypeOK, RelayOfOneCall
<1>2. /\ mksShown' \in {<<>>} \cup {<< r >> : r \in [RelayNo -> RelaySettings]}
      /\ mksShown' # <<>> => \A r \in RelayNo : OfOneCall(mksShown'[1][r])
  <2>1. CASE mksShown' = mksShown
    BY <2>1 DEF MKSInv, MKSTypeOK, RelayOfOneCall
  <2>2. CASE mksShown' = <<>>
    BY <2>2
  <2>3. CASE mksShown' = << mksRelays >>
    <3>1. mksShown'[1] = mksRelays
      BY <2>3
    <3> QED
      BY <3>1, <2>3, <1>1
  <2> QED
    BY <2>1, <2>2, <2>3
<1>3. RelayOfOneCall'
  BY <1>2 DEF RelayOfOneCall
<1>4. BeingSet'
  <2>1. mksJob' = "setRelay" => mksStep' = 1
    OBVIOUS
  <2> QED
    BY <2>1 DEF BeingSet, HasSettings
<1>5. mksJob' # "setRelay" => mksStep' = 1 /\ mksCall' = <<>>
  OBVIOUS
<1>6. MKSTypeOK'
  <2>1. /\ mksStep' \in 1 .. 5
        /\ mksJob' \in {"idle", "setRelay", "getRelay", "setUnits", "getMeasurements"}
        /\ mksCall' \in {<<>>} \cup {<< call >> : call \in RelayCalls}
        /\ mksJob' = "setRelay" => mksCall' # <<>>
    OBVIOUS
  <2> QED
    BY <2>1, <1>2 DEF MKSTypeOK
<1> QED
  BY <1>3, <1>4, <1>5, <1>6 DEF MKSInv

(* Every step keeps the invariant.                                         *)
LEMMA MKSInductive ==
  ASSUME MKSInv, [MKSNext]_mksVars
  PROVE  MKSInv'
<1>1. /\ mksConnected \in BOOLEAN /\ mksUnit \in Unit
      /\ mksRelays \in [RelayNo -> RelaySettings]
      /\ \A r \in RelayNo : OfOneCall(mksRelays[r])
  BY DEF MKSInv, MKSTypeOK, RelayOfOneCall
<1>idle. mksJob # "setRelay" => mksStep = 1 /\ mksCall = <<>>
  BY DEF MKSInv
<1>2. CASE SetRelay
  <2>1. /\ mksJob = "setRelay" /\ UNCHANGED <<mksConnected, mksUnit, mksShown>>
        /\ mksRelays' = CarriedOut(SetRelaySteps[mksStep])
        /\ IF mksStep < LastStep
             THEN mksStep' = mksStep + 1 /\ UNCHANGED <<mksJob, mksCall>>
             ELSE mksJob' = "idle" /\ mksStep' = 1 /\ mksCall' = <<>>
    BY <1>2 DEF SetRelay, MKSEnd
  <2>2. /\ mksRelays' \in [RelayNo -> RelaySettings]
        /\ \A r \in RelayNo : OfOneCall(mksRelays'[r])
        /\ mksStep < 5 =>
             HasSettings(mksRelays'[mksCall[1].relay], mksCall[1].level, mksStep + 1)
    BY <2>1, CarriedOutKeeps
  <2>3. CASE mksStep < LastStep
    <3>1. mksStep' = mksStep + 1 /\ UNCHANGED <<mksJob, mksCall>>
      BY <2>1, <2>3
    <3>2. /\ mksStep \in 1 .. 4
          /\ mksStep = 4 => mksCall[1].enabled
      <4>1. mksStep \in 1 .. 5
        BY DEF MKSInv, MKSTypeOK
      <4>2. CASE mksCall[1].enabled
        BY <4>1, <4>2, <2>3 DEF LastStep
      <4>3. CASE ~mksCall[1].enabled
        BY <4>1, <4>3, <2>3 DEF LastStep
      <4> QED
        BY <4>2, <4>3
    <3>3. BeingSet'
      <4>1. mksStep' < 5 \/ mksCall'[1].enabled
        BY <3>1, <3>2
      <4>2. HasSettings(mksRelays'[mksCall'[1].relay], mksCall'[1].level, mksStep')
        BY <3>1, <3>2, <2>2
      <4> QED
        BY <4>1, <4>2 DEF BeingSet
    <3>4. MKSTypeOK'
      BY <2>1, <2>2, <3>1, <3>2 DEF MKSInv, MKSTypeOK
    <3>5. RelayOfOneCall'
      BY <2>1, <2>2 DEF MKSInv, RelayOfOneCall
    <3> QED
      BY <2>1, <3>1, <3>3, <3>4, <3>5 DEF MKSInv
  <2>4. CASE ~(mksStep < LastStep)
    BY <2>1, <2>2, <2>4, <1>1, MKSStepKeeps
  <2> QED
    BY <2>3, <2>4
<1>3. CASE SetRelayFails
  <2>1. /\ mksJob = "setRelay" /\ mksConnected' = FALSE
        /\ mksRelays' \in {mksRelays, CarriedOut(SetRelaySteps[mksStep])}
        /\ mksJob' = "idle" /\ mksStep' = 1 /\ mksCall' = <<>>
        /\ UNCHANGED <<mksUnit, mksShown>>
    BY <1>3 DEF SetRelayFails, MKSEnd
  <2>2. /\ mksRelays' \in [RelayNo -> RelaySettings]
        /\ \A r \in RelayNo : OfOneCall(mksRelays'[r])
    <3>1. CASE mksRelays' = mksRelays
      BY <3>1, <1>1
    <3>2. CASE mksRelays' = CarriedOut(SetRelaySteps[mksStep])
      BY <3>2, <2>1, CarriedOutKeeps
    <3> QED
      BY <2>1, <3>1, <3>2
  <2>3. mksConnected' \in BOOLEAN
    BY <2>1, Zenon
  <2> QED
    BY <2>1, <2>2, <2>3, <1>1, MKSStepKeeps
<1>4. CASE GetRelay \/ SetUnits \/ GetMeasurements \/ MKSFails
  <2>1. /\ mksRelays' = mksRelays /\ mksUnit' \in Unit
        /\ mksShown' \in {mksShown, << mksRelays >>}
        /\ mksJob' = "idle" /\ mksStep' = 1 /\ mksCall' = <<>>
    BY <1>4, <1>1 DEF GetRelay, SetUnits, GetMeasurements, MKSFails, MKSEnd, mksGauge
  <2>2. mksConnected' \in BOOLEAN
    BY <1>4, <1>1, Zenon DEF GetRelay, SetUnits, GetMeasurements, MKSFails
  <2> QED
    BY <2>1, <2>2, <1>1, MKSStepKeeps
<1>5. ASSUME NEW call \in RelayCalls, CallSetRelay(call) PROVE MKSInv'
  <2>1. /\ mksJob' = "setRelay" /\ mksStep' = 1 /\ mksCall' = << call >>
        /\ UNCHANGED <<mksConnected, mksRelays, mksUnit, mksShown>>
    BY <1>5 DEF CallSetRelay, FirstStep, mksGauge
  <2> QED
    BY <2>1, <1>1, MKSStepKeeps
<1>6. ASSUME NEW j \in {"getRelay", "setUnits", "getMeasurements"}, MKSStart(j) PROVE MKSInv'
  <2>1. /\ mksJob' = j /\ mksStep' = 1 /\ mksCall' = <<>>
        /\ UNCHANGED <<mksConnected, mksRelays, mksUnit, mksShown>>
    BY <1>6, <1>idle DEF MKSStart, mksGauge
  <2> QED
    BY <2>1, <1>1, MKSStepKeeps
<1>7. CASE NoRelays \/ MKSConnection
  <2>1. /\ mksJob' = "idle" /\ mksStep' = 1 /\ mksCall' = <<>>
        /\ UNCHANGED <<mksRelays, mksUnit>> /\ mksShown' \in {mksShown, <<>>}
    BY <1>7, <1>idle DEF NoRelays, MKSConnection, mksGauge, mksJobVars
  <2>2. mksConnected' \in BOOLEAN
    BY <1>7, <1>1, Zenon DEF NoRelays, MKSConnection
  <2> QED
    BY <2>1, <2>2, <1>1, MKSStepKeeps
<1>8. CASE UNCHANGED mksVars
  <2>1. UNCHANGED <<mksConnected, mksRelays, mksUnit, mksJob, mksStep, mksCall, mksShown>>
    BY <1>8 DEF mksVars
  <2> QED
    BY <2>1 DEF MKSInv, MKSTypeOK, BeingSet, RelayOfOneCall
<1> QED
  BY <1>2, <1>3, <1>4, <1>5, <1>6, <1>7, <1>8 DEF MKSNext

(* MKSInv is an invariant.                                                 *)
LEMMA SpecMKSInv == MKSSpec => []MKSInv
<1>1. MKSInit => MKSInv
  <2> SUFFICES ASSUME MKSInit PROVE MKSInv
    OBVIOUS
  <2>1. PICK l \in Levels : mksRelays = [r \in RelayNo |-> Asked(l, TRUE)]
    BY DEF MKSInit
  <2>2. /\ mksRelays \in [RelayNo -> RelaySettings]
        /\ \A r \in RelayNo : OfOneCall(mksRelays[r])
    BY <2>1, AskedType
  <2>3. mksConnected \in BOOLEAN
    BY Zenon DEF MKSInit
  <2>4. /\ mksUnit \in Unit /\ mksJob = "idle" /\ mksStep = 1 /\ mksCall = <<>>
        /\ mksShown = <<>>
    BY DEF MKSInit
  <2> QED
    BY <2>2, <2>3, <2>4 DEF MKSInv, MKSTypeOK, BeingSet, RelayOfOneCall
<1>2. MKSInv /\ [MKSNext]_mksVars => MKSInv'
  BY MKSInductive
<1> QED
  BY <1>1, <1>2, PTL DEF MKSSpec

-----------------------------------------------------------------------------
(* The low-voltage supplies: commands and questions are about the channel  *)
(* that the job has selected.                                              *)

(* After the first command for a channel this is the active one, unless    *)
(* the peer is gone, and then nothing is set or answered any more.         *)
Selected == lvJob # "idle" /\ lvStep > 1 => lvGone \/ lvActive = lvChannel

(* What a job has read of a channel are answers for it.                    *)
ReadIsOwn == \A c \in Channels : lvRead[c] \subseteq {c}

(* Only the measurements ask something before the channels.                *)
Stage ==
  /\ lvJob = "idle" => lvStep = 1
  /\ lvStep = 0 => lvJob = "measurements"

LVInv ==
  /\ LVTypeOK
  /\ Selected
  /\ ReadIsOwn
  /\ Stage
  /\ ReadingsOfChannel

-----------------------------------------------------------------------------
(* The steps of a job: the first selects; those of a setting are two, and  *)
(* those of an update set nothing.                                         *)
LEMMA Programs ==
  ASSUME NEW j \in LVJobs
  PROVE  /\ LVProgram(j)[1] = "select"
         /\ Len(LVProgram(j)) \in 2 .. 4
         /\ \A i \in 2 .. Len(LVProgram(j)) : LVProgram(j)[i] # "select"
         /\ j \in LVUpdates =>
              \A i \in 1 .. Len(LVProgram(j)) : LVProgram(j)[i] \notin Parameters
<1>1. CASE j = "measurements"
  BY <1>1 DEF LVProgram, LVUpdates, Parameters
<1>2. CASE j = "configuration"
  BY <1>2 DEF LVProgram, LVUpdates, Parameters
<1>3. CASE j = "setOutputSel"
  BY <1>3 DEF LVProgram, LVUpdates
<1>4. CASE j \in {"setVoltage", "profileVoltage"}
  BY <1>4 DEF LVProgram, LVUpdates
<1>5. CASE j \in {"setCurrent", "profileCurrent"}
  BY <1>5 DEF LVProgram, LVUpdates
<1> QED
  BY <1>1, <1>2, <1>3, <1>4, <1>5 DEF LVJobs, SetJobs, LVUpdates

(* Only the first step selects, and only the steps of a setting set.       *)
LEMMA Steps ==
  ASSUME LVTypeOK, lvJob # "idle", lvStep > 0
  PROVE  /\ lvJob \in LVJobs /\ lvStep \in 1 .. Len(LVProgram(lvJob))
         /\ (Step = "select") <=> (lvStep = 1)
         /\ Step \in Parameters => lvJob \notin LVUpdates
<1>1. lvJob \in LVJobs /\ lvStep \in 1 .. Len(LVProgram(lvJob))
  BY Programs DEF LVTypeOK
<1> QED
  BY <1>1, Programs DEF Step

(* A channel is a positive number, and the first is one.                   *)
LEMMA ChannelNumbers ==
  /\ 1 \in Channels /\ Size \in Channels
  /\ \A c, last \in Channels : c < last => c + 1 \in Channels
BY LowVoltageAssumption DEF Channels

(* Jobs that begin.                                                        *)
LEMMA BeginKeeps ==
  ASSUME LVInv,
         NEW j \in LVJobs \cup {"idle"}, NEW step \in {0, 1},
         step = 0 => j = "measurements",
         NEW first \in Channels, NEW last \in Channels,
         LVBegin(j, step, first, last)
  PROVE  /\ lvJob' \in LVJobs \cup {"idle"} /\ lvStep' \in 0 .. 4
         /\ lvJob' \in LVJobs => lvStep' <= Len(LVProgram(lvJob'))
         /\ lvChannel' \in Channels /\ lvLast' \in Channels
         /\ lvRead' \in [Channels -> SUBSET Channels]
         /\ Selected' /\ ReadIsOwn' /\ Stage'
<1>1. /\ lvJob' = j /\ lvStep' = step /\ lvChannel' = first /\ lvLast' = last
      /\ lvRead' = Nothing
  BY DEF LVBegin
<1>2. \A k \in LVJobs : Len(LVProgram(k)) \in 2 .. 4
  BY Programs
<1>3. lvRead' \in [Channels -> SUBSET Channels] /\ \A c \in Channels : lvRead'[c] = {}
  BY <1>1 DEF Nothing
<1>4. ReadIsOwn'
  BY <1>3 DEF ReadIsOwn
<1>5. Selected' /\ Stage'
  BY <1>1 DEF Selected, Stage
<1> QED
  BY <1>1, <1>2, <1>3, <1>4, <1>5

(* What the job variables and the variables shown keep in a step.          *)
JobKept ==
  /\ lvJob' \in LVJobs \cup {"idle"} /\ lvStep' \in 0 .. 4
  /\ lvJob' \in LVJobs => lvStep' <= Len(LVProgram(lvJob'))
  /\ lvChannel' \in Channels /\ lvLast' \in Channels
  /\ lvRead' \in [Channels -> SUBSET Channels]
  /\ Selected' /\ ReadIsOwn' /\ Stage'

ShownKept ==
  /\ lvShown' \in [LVUpdates -> {<<>>} \cup {<< r >> : r \in [Channels -> SUBSET Channels]}]
  /\ ReadingsOfChannel'

(* Answers that are shown are those that the job has read.                 *)
LEMMA ShowKeeps ==
  ASSUME LVInv, NEW v \in LVUpdates,
         NEW r \in [Channels -> SUBSET Channels], \A c \in Channels : r[c] \subseteq {c},
         lvShown' = [lvShown EXCEPT ![v] = << r >>]
  PROVE  ShownKept
<1>1. lvShown \in [LVUpdates -> {<<>>} \cup {<< s >> : s \in [Channels -> SUBSET Channels]}]
  BY DEF LVInv, LVTypeOK
<1>2. \A w \in LVUpdates : lvShown'[w] = IF w = v THEN << r >> ELSE lvShown[w]
  BY <1>1
<1>3. \A w \in LVUpdates : lvShown'[w] # <<>> =>
        \A c \in Channels : lvShown'[w][1][c] \subseteq {c}
  <2> SUFFICES ASSUME NEW w \in LVUpdates, lvShown'[w] # <<>>, NEW c \in Channels
               PROVE  lvShown'[w][1][c] \subseteq {c}
    OBVIOUS
  <2>1. CASE w = v
    <3>1. lvShown'[w][1] = r
      BY <1>2, <2>1
    <3> QED
      BY <3>1
  <2>2. CASE w # v
    BY <1>2, <2>2 DEF LVInv, ReadingsOfChannel
  <2> QED
    BY <2>1, <2>2
<1> QED
  BY <1>1, <1>3 DEF ShownKept, ReadingsOfChannel

(* A step of a job after which its channel is the active one.              *)
LEMMA ProceedKeeps ==
  ASSUME LVInv, lvJob # "idle", lvStep > 0,
         NEW read \in [Channels -> SUBSET Channels],
         \A c \in Channels : read[c] \subseteq {c},
         lvGone' \/ lvActive' = lvChannel,
         Proceed(read)
  PROVE  JobKept /\ ShownKept
<1>1. /\ lvJob \in LVJobs /\ lvStep \in 1 .. Len(LVProgram(lvJob))
      /\ Len(LVProgram(lvJob)) \in 2 .. 4
      /\ lvChannel \in Channels /\ lvLast \in Channels
  BY Steps, Programs DEF LVInv, LVTypeOK
<1>2. CASE lvStep < Len(LVProgram(lvJob))
  <2>1. /\ lvStep' = lvStep + 1 /\ lvRead' = read
        /\ UNCHANGED <<lvJob, lvChannel, lvLast, lvShown>>
    BY <1>2 DEF Proceed
  <2>2. /\ lvStep' \in 2 .. Len(LVProgram(lvJob)) /\ lvStep' \in 0 .. 4
        /\ LVProgram(lvJob') = LVProgram(lvJob)
    <3>1. \A n \in 2 .. 4 : \A k \in 1 .. n : k < n => k + 1 \in 2 .. n /\ k + 1 \in 0 .. 4
      OBVIOUS
    <3> QED
      BY <1>1, <1>2, <2>1, <3>1
  <2>3. lvStep' <= Len(LVProgram(lvJob'))
    BY <2>2, <1>1
  <2>4. Selected' /\ ReadIsOwn' /\ Stage'
    BY <2>1, <2>2, <1>1 DEF Selected, ReadIsOwn, Stage
  <2>5. JobKept
    BY <1>1, <2>1, <2>2, <2>3, <2>4 DEF JobKept
  <2> QED
    BY <2>1, <2>5 DEF ShownKept, LVInv, LVTypeOK, ReadingsOfChannel
<1>3. CASE ~(lvStep < Len(LVProgram(lvJob))) /\ lvChannel < lvLast
  <2>1. /\ lvStep' = 1 /\ lvChannel' = lvChannel + 1 /\ lvRead' = read
        /\ UNCHANGED <<lvJob, lvLast, lvShown>>
    BY <1>3 DEF Proceed, NextChannel
  <2>2. lvChannel' \in Channels
    BY <1>1, <1>3, <2>1, ChannelNumbers
  <2>3. LVProgram(lvJob') = LVProgram(lvJob) /\ lvStep' <= Len(LVProgram(lvJob'))
    BY <1>1, <2>1
  <2>4. Selected' /\ ReadIsOwn' /\ Stage'
    BY <2>1, <1>1 DEF Selected, ReadIsOwn, Stage
  <2>5. JobKept
    BY <1>1, <2>1, <2>2, <2>3, <2>4 DEF JobKept
  <2> QED
    BY <2>1, <2>5 DEF ShownKept, LVInv, LVTypeOK, ReadingsOfChannel
<1>4. CASE Done(read)
  <2>1. CASE lvJob = "profileCurrent"
    <3>1. PICK last \in Channels :
            LVBegin("profileVoltage", 1, 1, last) /\ UNCHANGED lvShown
      BY <1>4, <2>1 DEF Done
    <3>2. JobKept
      BY <3>1, BeginKeeps, ChannelNumbers DEF JobKept, LVJobs
    <3> QED
      BY <3>1, <3>2 DEF ShownKept, LVInv, LVTypeOK, ReadingsOfChannel
  <2>2. CASE lvJob # "profileCurrent"
    <3>1. /\ LVBegin("idle", 1, 1, 1)
          /\ lvShown' = IF lvJob \in LVUpdates THEN [lvShown EXCEPT ![lvJob] = << read >>]
                        ELSE lvShown
      BY <1>4, <2>2 DEF Done, LVEnd
    <3>2. JobKept
      BY <3>1, BeginKeeps, ChannelNumbers DEF JobKept
    <3>3. CASE lvJob \in LVUpdates
      BY <3>1, <3>2, <3>3, ShowKeeps
    <3>4. CASE lvJob \notin LVUpdates
      BY <3>1, <3>2, <3>4 DEF ShownKept, LVInv, LVTypeOK, ReadingsOfChannel
    <3> QED
      BY <3>3, <3>4
  <2> QED
    BY <2>1, <2>2
<1> QED
  BY <1>2, <1>3, <1>4 DEF Proceed

-----------------------------------------------------------------------------
(* What is not a job's variables and not shown.                            *)
SupplyKept ==
  /\ lvConnected' \in BOOLEAN /\ lvGone' \in BOOLEAN
  /\ lvActive' \in Channels
  /\ lvSet' \in [Channels -> [Parameters -> Settings]]
  /\ lvOutput' \in Settings

(* The parts of the invariant.                                             *)
LEMMA LVParts ==
  ASSUME JobKept, ShownKept, SupplyKept
  PROVE  LVInv'
BY DEF JobKept, ShownKept, SupplyKept, LVInv, LVTypeOK

(* Steps that change no job and show nothing, and leave the selection.     *)
LEMMA IdleKeeps ==
  ASSUME LVInv, UNCHANGED lvJobVars,
         lvJob = "idle" \/ lvGone' \/ UNCHANGED <<lvGone, lvActive>>
  PROVE  JobKept
<1>1. UNCHANGED <<lvJob, lvStep, lvChannel, lvLast, lvRead>>
  BY DEF lvJobVars
<1>2. Selected' /\ ReadIsOwn' /\ Stage'
  BY <1>1 DEF LVInv, Selected, ReadIsOwn, Stage
<1>3. LVProgram(lvJob') = LVProgram(lvJob)
  BY <1>1
<1> QED
  BY <1>1, <1>2, <1>3 DEF LVInv, LVTypeOK, JobKept

(* A step that shows nothing new.                                          *)
LEMMA SameShown ==
  ASSUME LVInv, UNCHANGED lvShown
  PROVE  ShownKept
BY DEF LVInv, LVTypeOK, ShownKept, ReadingsOfChannel

(* A step that the supply does not notice.                                 *)
LEMMA SameSupply ==
  ASSUME LVInv, UNCHANGED lvSupply, lvConnected' \in BOOLEAN, lvGone' \in BOOLEAN
  PROVE  SupplyKept
BY DEF LVInv, LVTypeOK, lvSupply, SupplyKept

(* Jobs begin.                                                             *)
LEMMA BeginJobKept ==
  ASSUME LVInv,
         NEW j \in LVJobs \cup {"idle"}, NEW step \in {0, 1},
         step = 0 => j = "measurements",
         NEW first \in Channels, NEW last \in Channels,
         LVBegin(j, step, first, last)
  PROVE  JobKept
BY BeginKeeps DEF JobKept

(* After the selection the channel of the job is the active one.           *)
LEMMA SelectKeeps ==
  ASSUME LVInv, Select
  PROVE  LVInv'
<1>1. /\ lvJob # "idle" /\ lvStep > 0 /\ Proceed(lvRead)
      /\ lvActive' = IF lvGone THEN lvActive ELSE lvChannel
      /\ UNCHANGED <<lvConnected, lvGone, lvSet, lvOutput>>
  BY DEF Select
<1>2. /\ lvRead \in [Channels -> SUBSET Channels]
      /\ \A c \in Channels : lvRead[c] \subseteq {c}
      /\ lvActive \in Channels /\ lvChannel \in Channels
  BY DEF LVInv, LVTypeOK, ReadIsOwn
<1>3. lvGone' \/ lvActive' = lvChannel
  BY <1>1
<1>4. JobKept /\ ShownKept
  BY <1>1, <1>2, <1>3, ProceedKeeps
<1>5. SupplyKept
  BY <1>1, <1>2 DEF LVInv, LVTypeOK, SupplyKept
<1> QED
  BY <1>4, <1>5, LVParts

(* The step of a job that sets something sets it for the job's channel.    *)
LEMMA CommandSets ==
  ASSUME LVInv, Command
  PROVE  /\ lvJob \in LVJobs \ LVUpdates
         /\ lvSet' \in [Channels -> [Parameters -> Settings]]
         /\ \A c \in Channels : lvSet'[c] # lvSet[c] => c = lvChannel
<1>1. /\ lvJob # "idle" /\ lvStep > 0 /\ Step \in Parameters
  BY DEF Command
<1>2. PICK value \in Settings :
        lvSet' = IF lvGone THEN lvSet ELSE [lvSet EXCEPT ![lvActive][Step] = value]
  BY DEF Command
<1>3. /\ lvJob \in LVJobs \ LVUpdates
      /\ lvGone \/ lvActive = lvChannel
  <2>1. Step # "select"
    BY <1>1 DEF Parameters
  <2>2. lvJob \in LVJobs /\ lvJob \notin LVUpdates /\ lvStep # 1 /\ lvStep \in 0 .. 4
    BY <1>1, <2>1, Steps DEF LVInv, LVTypeOK
  <2> QED
    BY <1>1, <2>2 DEF LVInv, Selected
<1>4. lvSet \in [Channels -> [Parameters -> Settings]] /\ lvActive \in Channels
  BY DEF LVInv, LVTypeOK
<1> HIDE DEF Step
<1> QED
  BY <1>1, <1>2, <1>3, <1>4

(* A command keeps the invariant.                                          *)
LEMMA CommandKeeps ==
  ASSUME LVInv, Command
  PROVE  LVInv'
<1>1. /\ lvJob # "idle" /\ lvStep > 0 /\ Step \in Parameters /\ Proceed(lvRead)
      /\ UNCHANGED <<lvConnected, lvGone, lvActive, lvOutput>>
  BY DEF Command
<1>2. /\ lvRead \in [Channels -> SUBSET Channels]
      /\ \A c \in Channels : lvRead[c] \subseteq {c}
  BY DEF LVInv, LVTypeOK, ReadIsOwn
<1>3. lvGone' \/ lvActive' = lvChannel
  <2>1. Step # "select"
    BY <1>1 DEF Parameters
  <2>2. lvStep # 1 /\ lvStep \in 0 .. 4
    BY <1>1, <2>1, Steps DEF LVInv, LVTypeOK
  <2> QED
    BY <1>1, <2>2 DEF LVInv, Selected
<1>4. JobKept /\ ShownKept
  BY <1>1, <1>2, <1>3, ProceedKeeps
<1>5. SupplyKept
  BY <1>1, CommandSets DEF LVInv, LVTypeOK, SupplyKept
<1> QED
  BY <1>4, <1>5, LVParts

(* An answer is about the active channel, which is the job's.              *)
LEMMA AskKeeps ==
  ASSUME LVInv, Ask
  PROVE  LVInv'
<1>1. /\ lvJob \in LVUpdates /\ ~lvGone
      /\ UNCHANGED <<lvConnected, lvGone, lvSupply>>
  BY DEF Ask
<1>2. SupplyKept
  BY <1>1, SameSupply DEF LVInv, LVTypeOK
<1>3. CASE /\ lvStep = 0
           /\ lvStep' = 1 /\ UNCHANGED <<lvJob, lvChannel, lvLast, lvRead, lvShown>>
  <2>1. lvJob \in LVJobs /\ lvJob # "idle"
    BY <1>1 DEF LVUpdates, LVJobs
  <2>2. LVProgram(lvJob') = LVProgram(lvJob) /\ Len(LVProgram(lvJob)) \in 2 .. 4
    BY <1>3, <2>1, Programs
  <2>3. Selected' /\ ReadIsOwn' /\ Stage'
    BY <1>3, <2>1 DEF LVInv, Selected, ReadIsOwn, Stage
  <2>4. lvStep' <= Len(LVProgram(lvJob')) /\ lvStep' \in 0 .. 4
    <3>1. \A n \in 2 .. 4 : 1 <= n
      OBVIOUS
    <3> QED
      BY <1>3, <2>2, <3>1
  <2>5. /\ lvJob' \in LVJobs \cup {"idle"}
        /\ lvChannel' \in Channels /\ lvLast' \in Channels
        /\ lvRead' \in [Channels -> SUBSET Channels]
    BY <1>3, <2>1 DEF LVInv, LVTypeOK
  <2>6. JobKept
    BY <2>3, <2>4, <2>5 DEF JobKept
  <2> QED
    BY <1>2, <1>3, <2>6, SameShown, LVParts
<1>4. CASE /\ lvStep > 0 /\ Step \notin Parameters \cup {"select"}
           /\ Proceed([lvRead EXCEPT ![lvChannel] = @ \cup {lvActive}])
  <2> DEFINE read == [lvRead EXCEPT ![lvChannel] = @ \cup {lvActive}]
  <2>1. lvJob # "idle"
    BY <1>1 DEF LVUpdates
  <2>2. lvStep # 1 /\ lvStep \in 0 .. 4
    BY <1>4, <2>1, Steps DEF LVInv, LVTypeOK
  <2>3. lvActive = lvChannel /\ lvActive' = lvChannel
    BY <1>1, <1>4, <2>1, <2>2 DEF LVInv, Selected, lvSupply
  <2>4. /\ read \in [Channels -> SUBSET Channels]
        /\ \A c \in Channels : read[c] \subseteq {c}
    <3>1. /\ lvRead \in [Channels -> SUBSET Channels]
          /\ \A c \in Channels : lvRead[c] \subseteq {c}
          /\ lvActive \in Channels /\ lvChannel \in Channels
      BY DEF LVInv, LVTypeOK, ReadIsOwn
    <3> QED
      BY <3>1, <2>3
  <2> HIDE DEF read
  <2>5. Proceed(read)
    BY <1>4 DEF read
  <2>6. JobKept /\ ShownKept
    BY <1>4, <2>1, <2>3, <2>4, <2>5, ProceedKeeps
  <2> QED
    BY <1>2, <2>6, LVParts
<1> QED
  BY <1>3, <1>4 DEF Ask

(* The remaining steps begin a job, end one or leave it alone.             *)
LEMMA OthersKeep ==
  ASSUME LVInv,
         \/ LVFail \/ PeerGone \/ LVConnect \/ LVDisconnect \/ SetOutput
         \/ \E v \in LVUpdates : LVUpdate(v)
         \/ \E j \in SetJobs, c \in Channels : LVSetChannel(j, c)
         \/ \E last \in Channels : LVProfile(last)
  PROVE  LVInv'
<1>1. CASE LVFail
  <2>1. /\ LVBegin("idle", 1, 1, 1) /\ UNCHANGED <<lvSupply, lvShown>>
        /\ lvConnected' = FALSE /\ lvGone' = FALSE
    BY <1>1 DEF LVFail, LVEnd, Drop
  <2>2. lvConnected' \in BOOLEAN /\ lvGone' \in BOOLEAN
    BY <2>1, Zenon
  <2>3. JobKept
    BY <2>1, BeginJobKept, ChannelNumbers
  <2> QED
    BY <2>1, <2>2, <2>3, SameSupply, SameShown, LVParts
<1>2. CASE PeerGone \/ LVConnect \/ LVDisconnect
  <2>1. /\ UNCHANGED <<lvSupply, lvJobVars, lvShown>>
        /\ lvJob = "idle" \/ lvGone'
    BY <1>2, Zenon DEF PeerGone, LVConnect, LVDisconnect
  <2>2. lvConnected' \in BOOLEAN /\ lvGone' \in BOOLEAN
    BY <1>2, Zenon DEF PeerGone, LVConnect, LVDisconnect, Drop, LVInv, LVTypeOK
  <2>3. JobKept
    BY <2>1, IdleKeeps
  <2> QED
    BY <2>1, <2>2, <2>3, SameSupply, SameShown, LVParts
<1>3. CASE SetOutput
  <2>1. /\ lvJob = "idle" /\ UNCHANGED <<lvConnected, lvGone, lvActive, lvSet, lvJobVars, lvShown>>
        /\ lvOutput' \in Settings
    BY <1>3 DEF SetOutput, LVInv, LVTypeOK
  <2>2. SupplyKept
    BY <2>1 DEF SupplyKept, LVInv, LVTypeOK
  <2>3. JobKept
    BY <2>1, IdleKeeps
  <2> QED
    BY <2>1, <2>2, <2>3, SameShown, LVParts
<1>4. ASSUME NEW v \in LVUpdates, LVUpdate(v) PROVE LVInv'
  <2>1. lvJob = "idle" /\ UNCHANGED <<lvConnected, lvGone, lvSupply>>
    BY <1>4 DEF LVUpdate
  <2>2. SupplyKept
    BY <2>1, SameSupply DEF LVInv, LVTypeOK
  <2>3. CASE LVBegin(v, IF v = "measurements" THEN 0 ELSE 1, 1, Size) /\ UNCHANGED lvShown
    <3>1. v \in LVJobs
      BY DEF LVJobs
    <3>2. JobKept
      BY <2>3, <3>1, BeginJobKept, ChannelNumbers
    <3> QED
      BY <2>2, <2>3, <3>2, SameShown, LVParts
  <2>4. CASE lvShown' = [lvShown EXCEPT ![v] = <<>>] /\ UNCHANGED lvJobVars
    <3>1. JobKept
      BY <2>1, <2>4, IdleKeeps
    <3>2. ShownKept
      <4>1. lvShown \in [LVUpdates -> {<<>>} \cup {<< s >> : s \in [Channels -> SUBSET Channels]}]
        BY DEF LVInv, LVTypeOK
      <4>2. \A w \in LVUpdates : lvShown'[w] = IF w = v THEN <<>> ELSE lvShown[w]
        BY <4>1, <2>4
      <4> QED
        BY <4>1, <4>2, <2>4 DEF LVInv, ShownKept, ReadingsOfChannel
    <3> QED
      BY <2>2, <3>1, <3>2, LVParts
  <2> QED
    BY <1>4, <2>3, <2>4 DEF LVUpdate
<1>5. ASSUME NEW j \in SetJobs, NEW c \in Channels, LVSetChannel(j, c) PROVE LVInv'
  <2>1. LVBegin(j, 1, c, c) /\ UNCHANGED <<lvConnected, lvGone, lvSupply, lvShown>>
    BY <1>5 DEF LVSetChannel
  <2>2. j \in LVJobs
    BY DEF LVJobs
  <2>3. JobKept
    BY <2>1, <2>2, BeginJobKept
  <2>4. SupplyKept
    BY <2>1, SameSupply DEF LVInv, LVTypeOK
  <2> QED
    BY <2>1, <2>3, <2>4, SameShown, LVParts
<1>6. ASSUME NEW last \in Channels, LVProfile(last) PROVE LVInv'
  <2>1. /\ LVBegin("profileCurrent", 1, 1, last)
        /\ UNCHANGED <<lvConnected, lvGone, lvSupply, lvShown>>
    BY <1>6 DEF LVProfile
  <2>2. JobKept
    BY <2>1, BeginJobKept, ChannelNumbers DEF LVJobs
  <2>3. SupplyKept
    BY <2>1, SameSupply DEF LVInv, LVTypeOK
  <2> QED
    BY <2>1, <2>2, <2>3, SameShown, LVParts
<1> QED
  BY <1>1, <1>2, <1>3, <1>4, <1>5, <1>6

(* LVInv is an invariant.                                                  *)
LEMMA SpecLVInv == LVSpec => []LVInv
<1>1. LVInit => LVInv
  <2> SUFFICES ASSUME LVInit PROVE LVInv
    OBVIOUS
  <2>1. /\ lvRead \in [Channels -> SUBSET Channels] /\ \A c \in Channels : lvRead[c] = {}
    BY DEF LVInit, Nothing
  <2>2. /\ lvShown \in [LVUpdates -> {<<>>} \cup {<< r >> : r \in [Channels -> SUBSET Channels]}]
        /\ \A v \in LVUpdates : lvShown[v] = <<>>
    BY DEF LVInit
  <2>3. lvSet \in [Channels -> [Parameters -> Settings]] /\ lvOutput \in Settings
    BY DEF LVInit
  <2>4. lvConnected \in BOOLEAN /\ lvGone \in BOOLEAN
    BY Zenon DEF LVInit
  <2>5. /\ lvJob = "idle" /\ lvStep = 1 /\ lvChannel \in Channels /\ lvLast \in Channels
        /\ lvActive \in Channels /\ lvJob \notin LVJobs
    BY ChannelNumbers DEF LVInit, LVJobs, LVUpdates, SetJobs
  <2>6. LVTypeOK
    BY <2>1, <2>2, <2>3, <2>4, <2>5 DEF LVTypeOK
  <2> QED
    BY <2>1, <2>2, <2>5, <2>6 DEF LVInv, Selected, ReadIsOwn, Stage, ReadingsOfChannel
<1>2. LVInv /\ [LVNext]_lvVars => LVInv'
  <2> SUFFICES ASSUME LVInv, [LVNext]_lvVars PROVE LVInv'
    OBVIOUS
  <2>1. CASE UNCHANGED lvVars
    <3>1. /\ UNCHANGED lvJobVars /\ UNCHANGED lvShown /\ UNCHANGED lvSupply
          /\ UNCHANGED <<lvConnected, lvGone, lvActive>>
      BY <2>1 DEF lvVars, lvJobVars, lvSupply
    <3>2. JobKept
      BY <3>1, IdleKeeps
    <3>3. SupplyKept
      BY <3>1, SameSupply DEF LVInv, LVTypeOK
    <3> QED
      BY <3>1, <3>2, <3>3, SameShown, LVParts
  <2> QED
    BY <2>1, SelectKeeps, CommandKeeps, AskKeeps, OthersKeep DEF LVNext
<1> QED
  BY <1>1, <1>2, PTL DEF LVSpec

-----------------------------------------------------------------------------
(* The types of the controller of the low-voltage supplies.                *)
THEOREM LVSpecTypeOK == LVSpec => []LVTypeOK
<1>1. LVInv => LVTypeOK
  BY DEF LVInv
<1> QED
  BY <1>1, SpecLVInv, PTL

(* For any number of channels: what is shown of a channel was answered for *)
(* it, whatever job was given up half way.                                 *)
THEOREM LVSpecReadingsOfChannel == LVSpec => []ReadingsOfChannel
<1>1. LVInv => ReadingsOfChannel
  BY DEF LVInv
<1> QED
  BY <1>1, SpecLVInv, PTL

(* For any number of channels and any settings: a job changes the settings *)
(* of its own channel only.                                                *)
THEOREM LVSpecSettingsOfChannel == LVSpec => SettingsOfChannel
<1>1. LVInv /\ [LVNext]_lvVars =>
        [\A c \in Channels :
           lvSet'[c] # lvSet[c] => lvJob \in LVJobs \ LVUpdates /\ lvChannel = c]_lvVars
  <2> SUFFICES ASSUME LVInv, LVNext, NEW c \in Channels, lvSet'[c] # lvSet[c]
               PROVE  lvJob \in LVJobs \ LVUpdates /\ lvChannel = c
    OBVIOUS
  <2>1. CASE Command
    BY <2>1, CommandSets
  <2>2. CASE ~Command
    <3>1. UNCHANGED lvSet
      BY <2>2 DEF LVNext, Select, Ask, LVFail, PeerGone, LVConnect, LVDisconnect, SetOutput,
                  LVUpdate, LVSetChannel, LVProfile, lvSupply
    <3> QED
      BY <3>1
  <2> QED
    BY <2>1, <2>2
<1> QED
  BY <1>1, SpecLVInv, PTL DEF LVSpec, SettingsOfChannel
===============================================================================
