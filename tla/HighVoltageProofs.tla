-------------------------- MODULE HighVoltageProofs --------------------------
(***************************************************************************)
(* Questions and answers of the high-voltage supplies stay in step, for    *)
(* each of the three supplies, however long they run.                      *)
(***************************************************************************)
EXTENDS HighVoltage, SequenceTheorems, TLAPS

(* The greeting is the first to use its stream.                            *)
GreetFirst == job = "greet" => wire = <<>> /\ ~greeted

(* A stream whose greeting succeeded never goes out of step.               *)
GreetedInStep == greeted => wire = <<>>

(* What a job has received from such a stream are its own answers.         *)
GotReal ==
  greeted /\ job \in Variables =>
    \A i \in 1 .. Len(got) : got[i] \in Own(Program(supply, job)[i])

(* Out of step, the status would be the control mode; after the status, a  *)
(* configuration is in step.                                               *)
ConfigurationStage ==
  job = "configuration" =>
    /\ Len(got) = 1 /\ wire # <<>> => Head(wire) \in {"REMOTE", "LOCAL"}
    /\ Len(got) > 1 => wire = <<>>
    /\ \A i \in 2 .. Len(got) : got[i] \in Own(Program(supply, "configuration")[i])

IInv ==
  /\ TypeOK
  /\ GreetFirst
  /\ GreetedInStep
  /\ GotReal
  /\ ConfigurationStage
  /\ ConfigurationIsReal

-----------------------------------------------------------------------------
(* Programs and exchanges.                                                 *)

(* Programs are nonempty lists of questions.                               *)
LEMMA ProgramType ==
  ASSUME NEW s \in Supplies, NEW v \in Variables
  PROVE  /\ Program(s, v) \in Seq(Answers \cup {"BDCTR"})
         /\ Len(Program(s, v)) > 0
<1>1. CASE v = "deviceInfo"
  BY <1>1 DEF Program, DeviceInfo, Answers, Numeric, Converted
<1>2. CASE v = "measurements"
  BY <1>2 DEF Program, Measurements, Answers, Numeric, Converted
<1>3. CASE v = "configuration"
  <2>1. Program(s, v) = Configuration(s)
    BY <1>3 DEF Program
  <2>2. CASE s = "DT1470ET"
    BY <2>1, <2>2 DEF Configuration, DT1470ETQuestions, Answers, Numeric, Converted
  <2>3. CASE s = "DT1415ET"
    BY <2>1, <2>3 DEF Configuration, DT1415ETQuestions, Answers, Numeric, Converted
  <2>4. CASE s = "N1471"
    BY <2>1, <2>4 DEF Configuration, N1471Questions, Answers, Numeric, Converted
  <2> QED
    BY <2>2, <2>3, <2>4 DEF Supplies
<1> QED
  BY <1>1, <1>2, <1>3 DEF Variables

(* The configuration starts with the control mode and a number.            *)
LEMMA ConfigurationProgram ==
  ASSUME NEW s \in Supplies
  PROVE  /\ Program(s, "configuration")[1] = "BDCTR"
         /\ Program(s, "configuration")[2] \in Converted
         /\ Len(Program(s, "configuration")) > 1
<1>1. Program(s, "configuration") = Configuration(s)
  BY DEF Program
<1>2. CASE s = "DT1470ET"
  BY <1>1, <1>2 DEF Configuration, DT1470ETQuestions, Converted
<1>3. CASE s = "DT1415ET"
  BY <1>1, <1>3 DEF Configuration, DT1415ETQuestions, Converted
<1>4. CASE s = "N1471"
  BY <1>1, <1>4 DEF Configuration, N1471Questions, Converted
<1> QED
  BY <1>2, <1>3, <1>4 DEF Supplies

(* An answer is its question's own.                                        *)
LEMMA AnswerType ==
  ASSUME NEW q \in Answers \cup {"BDCTR"}
  PROVE  /\ Answer(q) \in Answers
         /\ << Answer(q) >> \in Own(q)
         /\ q = "BDCTR" => Answer(q) \in {"REMOTE", "LOCAL"}
BY DEF Answer, Own, Answers, Numeric, Converted

-----------------------------------------------------------------------------
(* Sequences of one and two.                                               *)

(* A nonempty sequence shorter than two is a singleton.                    *)
LEMMA Single ==
  ASSUME NEW S, NEW s \in Seq(S), s # <<>>, Len(s) < 2
  PROVE  /\ Len(s) = 1
         /\ s[1] \in S
         /\ s = << s[1] >>
<1>1. Len(s) = 1
  <2>1. Len(s) \in Nat \ {0}
    BY EmptySeq, Zenon
  <2>2. \A n \in Nat \ {0} : n < 2 => n = 1
    OBVIOUS
  <2> QED
    BY <2>1, <2>2, Zenon
<1>2. s[1] \in S
  BY <1>1, ElementOfSeq
<1>3. << s[1] >> \in Seq(S) /\ Len(<< s[1] >>) = 1 /\ << s[1] >>[1] = s[1]
  BY <1>2
<1>4. s = << s[1] >>
  <2>1. \A i \in 1 .. Len(s) : s[i] = << s[1] >>[i]
    BY <1>1
  <2> QED
    BY <1>1, <1>3, <2>1, SeqEqual, Zenon
<1> QED
  BY <1>1, <1>2, <1>4

(* Parts of sequences of one and two.                                      *)
LEMMA Cuts ==
  ASSUME NEW S, NEW a \in S, NEW b \in S
  PROVE  /\ SubSeq(<< a >>, 1, 1) = << a >>
         /\ SubSeq(<< a >>, 2, 1) = <<>>
         /\ SubSeq(<< a, b >>, 1, 1) = << a >>
         /\ SubSeq(<< a, b >>, 1, 2) = << a, b >>
         /\ SubSeq(<< a, b >>, 2, 2) = << b >>
         /\ SubSeq(<< a, b >>, 3, 2) = <<>>
         /\ Append(<< a >>, b) = << a, b >>
<1> DEFINE s == << a >>
           t == << a, b >>
<1>1. s \in Seq(S) /\ Len(s) = 1
  OBVIOUS
<1>2. t \in Seq(S) /\ Len(t) = 2 /\ t[1] = a /\ t[2] = b
  OBVIOUS
<1>3. SubSeq(s, 1, 1) = s /\ SubSeq(t, 1, 2) = t
  BY <1>1, <1>2, SubSeqFull
<1>4. SubSeq(s, 2, 1) = <<>> /\ SubSeq(t, 3, 2) = <<>>
  BY SubSeqEmpty
<1>5. \A i \in {1, 2} : SubSeq(t, i, i) = << t[i] >> \o SubSeq(t, i + 1, i)
  BY <1>2, SubSeqRecursiveFirst
<1>6. \A i \in {1, 2} : SubSeq(t, i + 1, i) = <<>>
  BY SubSeqEmpty
<1>7. \A i \in {1, 2} : SubSeq(t, i, i) = << t[i] >>
  <2> SUFFICES ASSUME NEW i \in {1, 2} PROVE SubSeq(t, i, i) = << t[i] >>
    OBVIOUS
  <2>1. << t[i] >> \in Seq(S)
    BY <1>2
  <2> HIDE DEF t
  <2> QED
    BY <2>1, <1>5, <1>6, ConcatEmptySeq
<1>8. Append(s, b) = t
  <2>1. Append(s, b) \in Seq(S) /\ Len(Append(s, b)) = 2
    BY <1>1
  <2>2. Append(s, b)[1] = a /\ Append(s, b)[2] = b
    BY <1>1
  <2> HIDE DEF t
  <2> QED
    BY <1>2, <2>1, <2>2, SeqEqual
<1> QED
  BY <1>2, <1>3, <1>4, <1>7, <1>8

-----------------------------------------------------------------------------
(* Exchanges.                                                              *)

(* In step, a question gets its own answer; one answer behind, it gets the *)
(* one before first, and its own may remain.                               *)
LEMMA ReceiveCases ==
  ASSUME wire \in Seq(Answers), Len(wire) < 2,
         NEW q \in Answers \cup {"BDCTR"},
         NEW chunk \in Chunks(q), Receive(q, chunk)
  PROVE  /\ chunk \in Seq(Answers)
         /\ wire' \in Seq(Answers) /\ Len(wire') < 2
         /\ \/ wire = <<>> /\ chunk = << Answer(q) >> /\ wire' = <<>>
            \/ /\ wire # <<>> /\ Head(chunk) = Head(wire)
               /\ wire' \in {<<>>, << Answer(q) >>}
<1> DEFINE a == Answer(q)
<1>1. a \in Answers
  BY AnswerType
<1>2. PICK k \in 1 .. Len(wire) + 1 : chunk = SubSeq(Due(q), 1, k)
  BY DEF Chunks
<1> HIDE DEF a
<1>3. wire' = SubSeq(Due(q), Len(chunk) + 1, Len(wire) + 1)
  BY DEF Receive
<1>4. CASE wire = <<>>
  <2>1. Due(q) = << a >> /\ k = 1 /\ Len(wire) = 0
    BY <1>4 DEF Due, a
  <2>2. chunk = << a >>
    BY <2>1, <1>2, <1>1, Cuts, Zenon
  <2>3. Len(chunk) + 1 = 2 /\ Len(wire) + 1 = 1
    BY <2>1, <2>2
  <2>4. wire' = SubSeq(<< a >>, 2, 1)
    BY <2>1, <2>3, <1>3
  <2>5. wire' = <<>>
    BY <2>4, <1>1, Cuts, Zenon
  <2> QED
    BY <1>4, <1>1, <2>2, <2>5 DEF a
<1>5. CASE wire # <<>>
  <2> DEFINE s == wire[1]
  <2>1. s \in Answers /\ wire = << s >> /\ Len(wire) = 1
    BY <1>5, Single
  <2> HIDE DEF s
  <2>2. Due(q) = << s, a >>
    <3>1. Due(q) = Append(<< s >>, a)
      BY <2>1 DEF Due, a
    <3> QED
      BY <3>1, <2>1, <1>1, Cuts, Zenon
  <2>3. k \in {1, 2} /\ Len(wire) + 1 = 2
    BY <2>1
  <2>4. CASE k = 1
    <3>1. chunk = SubSeq(<< s, a >>, 1, 1)
      BY <2>2, <2>4, <1>2
    <3>2. chunk = << s >>
      BY <3>1, <2>1, <1>1, Cuts, Zenon
    <3>3. Len(chunk) + 1 = 2
      BY <3>2
    <3>4. wire' = SubSeq(<< s, a >>, 2, 2)
      BY <3>3, <2>2, <2>3, <1>3
    <3>5. wire' = << a >>
      BY <3>4, <2>1, <1>1, Cuts, Zenon
    <3> QED
      BY <3>2, <3>5, <2>1, <1>1, <1>5 DEF a
  <2>5. CASE k = 2
    <3>1. chunk = SubSeq(<< s, a >>, 1, 2)
      BY <2>2, <2>5, <1>2
    <3>2. chunk = << s, a >>
      BY <3>1, <2>1, <1>1, Cuts, Zenon
    <3>3. Len(chunk) + 1 = 3
      BY <3>2
    <3>4. wire' = SubSeq(<< s, a >>, 3, 2)
      BY <3>3, <2>2, <2>3, <1>3
    <3>5. wire' = <<>>
      BY <3>4, <2>1, <1>1, Cuts, Zenon
    <3> QED
      BY <3>2, <3>5, <2>1, <1>1, <1>5
  <2> QED
    BY <2>3, <2>4, <2>5
<1> QED
  BY <1>4, <1>5

-----------------------------------------------------------------------------
(* The next question of an update keeps the invariant.                     *)
LEMMA QueryStep ==
  ASSUME IInv, Query
  PROVE  IInv'
<1> DEFINE n == Len(got) + 1
           q == Program(supply, job)[n]
<1>0. supply \in Supplies
  BY DEF IInv, TypeOK
<1>1. /\ job \in Variables /\ Program(supply, job) \in Seq(Answers \cup {"BDCTR"})
      /\ got \in Seq(Seq(Answers)) /\ n \in 1 .. Len(Program(supply, job))
  BY <1>0, ProgramType DEF Query, IInv, TypeOK
<1>2. q \in Answers \cup {"BDCTR"}
  BY <1>1
<1>3. PICK chunk \in Chunks(q) :
        /\ Receive(q, chunk)
        /\ Fits(q, chunk)
        /\ IF LastQuestion
             THEN shown' = [shown EXCEPT ![job] = Append(got, chunk)] /\ End
             ELSE got' = Append(got, chunk) /\ UNCHANGED <<job, shown>>
  BY DEF Query
<1>4. /\ chunk \in Seq(Answers)
      /\ wire' \in Seq(Answers) /\ Len(wire') < 2
      /\ \/ wire = <<>> /\ chunk = << Answer(q) >> /\ wire' = <<>>
         \/ /\ wire # <<>> /\ Head(chunk) = Head(wire)
            /\ wire' \in {<<>>, << Answer(q) >>}
  BY <1>2, <1>3, ReceiveCases, Zenon DEF IInv, TypeOK
<1>5. UNCHANGED <<supply, connected, remote, greeted>>
  BY DEF Query
<1>6. << Answer(q) >> \in Own(q) /\ (q = "BDCTR" => Answer(q) \in {"REMOTE", "LOCAL"})
  BY <1>2, AnswerType
<1> DEFINE received == Append(got, chunk)
<1>7. /\ received \in Seq(Seq(Answers)) /\ Len(received) = n /\ received[n] = chunk
      /\ \A i \in 1 .. Len(got) : received[i] = got[i]
  BY <1>1, <1>4
<1> HIDE DEF q, received
<1>8. ASSUME greeted PROVE \A i \in 1 .. n : received[i] \in Own(Program(supply, job)[i])
  <2>1. chunk \in Own(q)
    BY <1>4, <1>6, <1>8 DEF IInv, GreetedInStep
  <2>2. \A i \in 1 .. Len(got) : got[i] \in Own(Program(supply, job)[i])
    BY <1>1, <1>8 DEF IInv, GotReal
  <2>3. \A i \in 1 .. n : i = n \/ i \in 1 .. Len(got)
    BY <1>1
  <2> QED
    BY <2>1, <2>2, <2>3, <1>7 DEF q
<1>9. ASSUME job = "configuration"
      PROVE  /\ n = 1 /\ wire' # <<>> => Head(wire') \in {"REMOTE", "LOCAL"}
             /\ n > 1 => wire' = <<>>
             /\ \A i \in 2 .. n : received[i] \in Own(Program(supply, "configuration")[i])
  <2>1. CASE n = 1
    <3>1. q = "BDCTR"
      BY <2>1, <1>0, <1>9, ConfigurationProgram DEF q
    <3>2. wire' # <<>> => wire' = << Answer(q) >>
      BY <1>4
    <3> QED
      BY <3>1, <3>2, <2>1, <1>6
  <2>2. CASE n > 1
    <3>1. wire = <<>>
      <4>1. CASE n = 2
        <5>1. q \in Converted
          BY <4>1, <1>0, <1>9, ConfigurationProgram DEF q
        <5>2. Head(chunk) \in Numeric
          BY <5>1, <1>3 DEF Fits
        <5>3. wire # <<>> => Head(wire) \in {"REMOTE", "LOCAL"}
          <6>1. Len(got) \in Nat
            BY <1>1, LenProperties, Zenon
          <6>2. \A k \in Nat : k + 1 = 2 => k = 1
            OBVIOUS
          <6>3. Len(got) = 1
            BY <4>1, <6>1, <6>2, Zenon
          <6> QED
            BY <6>3, <1>9 DEF IInv, ConfigurationStage
        <5> QED
          BY <5>2, <5>3, <1>4 DEF Numeric, Converted
      <4>2. CASE n > 2
        BY <4>2, <1>1, <1>9 DEF IInv, ConfigurationStage
      <4> QED
        BY <4>1, <4>2, <2>2, <1>1
    <3>2. wire' = <<>> /\ chunk \in Own(q)
      BY <3>1, <1>4, <1>6
    <3>3. \A i \in 2 .. n : i = n \/ i \in 2 .. Len(got)
      BY <1>1
    <3>4. \A i \in 2 .. Len(got) : got[i] \in Own(Program(supply, "configuration")[i])
      BY <1>9 DEF IInv, ConfigurationStage
    <3>5. ASSUME NEW i \in 2 .. n
          PROVE  received[i] \in Own(Program(supply, "configuration")[i])
      <4>1. CASE i = n
        BY <4>1, <3>2, <1>7, <1>9 DEF q
      <4>2. CASE i \in 2 .. Len(got)
        <5>1. i \in 1 .. Len(got)
          BY <4>2, <1>1
        <5> QED
          BY <5>1, <4>2, <3>4, <1>7
      <4> QED
        BY <4>1, <4>2, <3>3
    <3> QED
      BY <3>2, <3>5, <2>2
  <2> QED
    BY <2>1, <2>2, <1>1
<1>10. GreetedInStep'
  BY <1>4, <1>5 DEF IInv, GreetedInStep
<1>11. CASE LastQuestion
  <2>1. shown' = [shown EXCEPT ![job] = received] /\ job' = "idle" /\ got' = <<>>
    BY <1>3, <1>11 DEF End, Begin, received
  <2>2. Len(received) = Len(Program(supply, job))
    BY <1>7, <1>11 DEF LastQuestion
  <2>3. /\ shown' = [v \in Variables |-> shown'[v]]
        /\ \A v \in Variables : shown'[v] = IF v = job THEN received ELSE shown[v]
    BY <2>1, <1>1 DEF IInv, TypeOK
  <2>4. TypeOK'
    BY <2>1, <2>2, <2>3, <1>4, <1>5 DEF IInv, TypeOK, Jobs, Program, Variables
  <2>5. ConfigurationIsReal'
    <3>1. CASE job = "configuration"
      <4>1. shown'["configuration"] = received
        BY <3>1, <2>3 DEF Variables
      <4> QED
        BY <4>1, <3>1, <2>2, <1>5, <1>7, <1>9 DEF ConfigurationIsReal, RealFrom, Own, Program
    <3>2. CASE job # "configuration"
      <4>1. shown'["configuration"] = shown["configuration"]
        BY <3>2, <2>3 DEF Variables
      <4> QED
        BY <4>1, <1>5 DEF IInv, ConfigurationIsReal, RealFrom, Own, Program
    <3> QED
      BY <3>1, <3>2
  <2> QED
    BY <2>1, <2>4, <2>5, <1>10
    DEF IInv, GreetFirst, GotReal, ConfigurationStage, Variables
<1>12. CASE ~LastQuestion
  <2>1. got' = received /\ UNCHANGED <<job, shown>>
    BY <1>3, <1>12 DEF received
  <2>2. n < Len(Program(supply, job))
    BY <1>1, <1>12 DEF LastQuestion
  <2>3. TypeOK'
    BY <2>1, <2>2, <1>4, <1>5, <1>7 DEF IInv, TypeOK, Program
  <2>4. GotReal'
    BY <2>1, <1>5, <1>7, <1>8 DEF GotReal, Own, Program
  <2>5. ConfigurationStage'
    BY <2>1, <1>5, <1>7, <1>9 DEF ConfigurationStage, Own, Program
  <2>6. GreetFirst'
    BY <2>1, <1>1 DEF GreetFirst, Variables
  <2>7. ConfigurationIsReal'
    BY <2>1, <1>5 DEF IInv, ConfigurationIsReal, RealFrom, Own, Program
  <2> QED
    BY <2>3, <2>4, <2>5, <2>6, <2>7, <1>10 DEF IInv
<1> QED
  BY <1>11, <1>12

(* A step that shows nothing and starts a job, ends one or goes on setting, *)
(* and keeps the stream in order.                                          *)
InOrder ==
  /\ supply' = supply
  /\ connected' \in BOOLEAN /\ remote' \in BOOLEAN /\ greeted' \in BOOLEAN
  /\ wire' \in Seq(Answers) /\ Len(wire') < 2
  /\ greeted' => wire' = <<>>
  /\ got' \in Seq(Seq(Answers))
  /\ shown' = shown
  /\ \/ job' \in {"idle", "set"}
     \/ job' = "greet" /\ wire' = <<>> /\ ~greeted'
     \/ job' \in Variables /\ got' = <<>>

(* Such a step keeps the invariant.                                        *)
LEMMA InOrderKeeps ==
  ASSUME IInv, InOrder
  PROVE  IInv'
<1> USE DEF InOrder
<1>1. job' \in Jobs
  BY DEF Jobs
<1>2. job' \in Variables => Len(got') = 0 /\ 0 < Len(Program(supply', job'))
  BY ProgramType DEF Variables, IInv, TypeOK
<1>3. TypeOK'
  BY <1>1, <1>2 DEF IInv, TypeOK, Program
<1>4. GreetFirst' /\ GreetedInStep'
  BY DEF GreetFirst, GreetedInStep, Variables
<1>5. GotReal'
  BY <1>2 DEF GotReal, Variables
<1>6. ConfigurationStage'
  BY <1>2 DEF ConfigurationStage, Variables
<1>7. ConfigurationIsReal'
  BY DEF IInv, ConfigurationIsReal, RealFrom, Own, Program
<1> QED
  BY <1>3, <1>4, <1>5, <1>6, <1>7 DEF IInv

(* Every step keeps the invariant.                                         *)
LEMMA Inductive ==
  ASSUME IInv, [Next]_vars
  PROVE  IInv'
<1>0. TypeOK /\ GreetFirst /\ GreetedInStep
  BY DEF IInv
<1>empty. <<>> \in Seq(Answers) /\ <<>> \in Seq(Seq(Answers)) /\ Len(<<>>) = 0
  OBVIOUS
<1>1. CASE Greet
  <2>1. PICK chunk \in Chunks("BDFREL") : Receive("BDFREL", chunk)
    BY <1>1 DEF Greet
  <2>2. wire' = <<>> /\ wire' \in Seq(Answers) /\ Len(wire') < 2
    <3>1. "BDFREL" \in Answers \cup {"BDCTR"}
      BY DEF Answers, Numeric
    <3>2. wire = <<>> /\ wire \in Seq(Answers) /\ Len(wire) < 2
      BY <1>0, <1>1 DEF Greet, GreetFirst, TypeOK
    <3> QED
      BY <2>1, <3>1, <3>2, ReceiveCases
  <2>3. /\ greeted' = TRUE /\ job' = "deviceInfo" /\ got' = <<>>
        /\ UNCHANGED <<supply, connected, remote, shown>>
    BY <1>1 DEF Greet, Begin
  <2>4. InOrder
    BY <2>2, <2>3, <1>0, <1>empty DEF InOrder, TypeOK, Variables
  <2> QED
    BY <2>4, InOrderKeeps
<1>2. CASE GreetFails
  <2>1. wire' \in Seq(Answers) /\ Len(wire') < 2
    <3>1. "BDFREL" \in Answers \cup {"BDCTR"}
      BY DEF Answers, Numeric
    <3>2. Answer("BDFREL") \in Answers
      BY <3>1, AnswerType
    <3>3. wire' = <<>> \/ wire' = << Answer("BDFREL") >>
      BY <1>2 DEF GreetFails
    <3>4. \A a \in Answers : << a >> \in Seq(Answers) /\ Len(<< a >>) < 2
      OBVIOUS
    <3>5. Len(<<>>) < 2
      OBVIOUS
    <3> QED
      BY <3>2, <3>3, <3>4, <3>5, <1>empty, Zenon
  <2>2. /\ ~greeted' /\ greeted' = greeted /\ job' = "deviceInfo" /\ got' = <<>>
        /\ UNCHANGED <<supply, connected, remote, shown>>
    BY <1>0, <1>2 DEF GreetFails, Begin, GreetFirst
  <2>3. InOrder
    BY <2>1, <2>2, <1>0, <1>empty DEF InOrder, TypeOK, Variables
  <2> QED
    BY <2>3, InOrderKeeps
<1>3. CASE Query
  BY <1>3, QueryStep
<1>4. CASE IsRemote
  <2>1. PICK chunk \in Chunks("BDCTR") :
          /\ Receive("BDCTR", chunk)
          /\ IF chunk = << "REMOTE" >> THEN got' = << chunk >> /\ UNCHANGED job ELSE End
    BY <1>4 DEF IsRemote
  <2>2. /\ chunk \in Seq(Answers) /\ wire' \in Seq(Answers) /\ Len(wire') < 2
        /\ wire = <<>> => wire' = <<>>
    BY <1>0, <2>1, ReceiveCases DEF TypeOK
  <2>3. job' \in {"set", "idle"} /\ got' \in Seq(Seq(Answers))
    <3>1. << chunk >> \in Seq(Seq(Answers))
      BY <2>2
    <3> QED
      BY <3>1, <1>4, <1>empty, <2>1 DEF IsRemote, End, Begin
  <2>4. UNCHANGED <<supply, connected, remote, greeted, shown>>
    BY <1>4 DEF IsRemote
  <2>5. InOrder
    BY <2>2, <2>3, <2>4, <1>0, <1>empty DEF InOrder, TypeOK, GreetedInStep
  <2> QED
    BY <2>5, InOrderKeeps
<1>5. CASE SendSet
  <2>1. PICK chunk \in Chunks("SET") : Receive("SET", chunk)
    BY <1>5 DEF SendSet
  <2>2. /\ wire' \in Seq(Answers) /\ Len(wire') < 2
        /\ wire = <<>> => wire' = <<>>
    <3>1. "SET" \in Answers \cup {"BDCTR"}
      BY DEF Answers
    <3> QED
      BY <1>0, <2>1, <3>1, ReceiveCases DEF TypeOK
  <2>3. job' = "idle" /\ got' = <<>> /\ UNCHANGED <<supply, connected, remote, greeted, shown>>
    BY <1>5 DEF SendSet, End, Begin
  <2>4. InOrder
    BY <2>2, <2>3, <1>0, <1>empty DEF InOrder, TypeOK, GreetedInStep
  <2> QED
    BY <2>4, InOrderKeeps
<1>6. CASE Fail
  <2>1. /\ connected' = FALSE /\ wire' = <<>> /\ greeted' = FALSE
        /\ job' = "idle" /\ got' = <<>> /\ UNCHANGED <<supply, remote, shown>>
    BY <1>6 DEF Fail, Reset, End, Begin
  <2>2. connected' \in BOOLEAN /\ greeted' \in BOOLEAN /\ ~greeted'
    BY <2>1, Zenon
  <2>3. InOrder
    BY <2>1, <2>2, <1>0, <1>empty DEF InOrder, TypeOK, Variables
  <2> QED
    BY <2>3, InOrderKeeps
<1>7. CASE Connect
  <2>1. UNCHANGED <<supply, remote, shown>> /\ got' = <<>>
    BY <1>7 DEF Connect, End, Begin
  <2>2. CASE Open /\ Begin(IF Greets(supply) THEN "greet" ELSE "deviceInfo")
    <3>1. /\ connected' = TRUE /\ wire' = <<>> /\ greeted' = ~Greets(supply)
          /\ job' = IF Greets(supply) THEN "greet" ELSE "deviceInfo"
      BY <2>2 DEF Open, Begin
    <3>2. connected' \in BOOLEAN /\ greeted' \in BOOLEAN /\ remote' \in BOOLEAN
      <4>1. Greets(supply) \in BOOLEAN
        BY Zenon DEF Greets
      <4> QED
        BY <2>1, <3>1, <4>1, <1>0, Zenon DEF TypeOK
    <3>3. \/ job' = "greet" /\ ~greeted'
          \/ job' = "deviceInfo"
      <4>1. CASE Greets(supply)
        BY <3>1, <4>1, Zenon
      <4>2. CASE ~Greets(supply)
        BY <3>1, <4>2, Zenon
      <4> QED
        BY <4>1, <4>2, Zenon
    <3>4. InOrder
      BY <2>1, <3>1, <3>2, <3>3, <1>empty DEF InOrder, Variables
    <3> QED
      BY <3>4, InOrderKeeps
  <2>3. CASE /\ IF connected THEN Begin("deviceInfo") ELSE End
             /\ UNCHANGED <<connected, wire, greeted>>
    <3>1. InOrder
      BY <2>1, <2>3, <1>0, <1>empty DEF InOrder, TypeOK, GreetedInStep, End, Begin, Variables
    <3> QED
      BY <3>1, InOrderKeeps
  <2> QED
    BY <2>2, <2>3, <1>7 DEF Connect
<1>8. CASE Disconnect
  <2>1. /\ connected' = FALSE /\ wire' = <<>> /\ greeted' = FALSE
        /\ job' = "idle" /\ UNCHANGED <<supply, remote, got, shown>>
    BY <1>8 DEF Disconnect, Reset
  <2>2. connected' \in BOOLEAN /\ greeted' \in BOOLEAN /\ ~greeted'
    BY <2>1, Zenon
  <2>3. InOrder
    BY <2>1, <2>2, <1>0, <1>empty DEF InOrder, TypeOK, Variables
  <2> QED
    BY <2>3, InOrderKeeps
<1>9. ASSUME NEW x \in Settings, Set(x) PROVE IInv'
  <2>1. /\ job' = "set" /\ (got' = <<>> \/ got' = << <<>> >>)
        /\ UNCHANGED <<supply, connected, remote, wire, greeted, shown>>
    BY <1>9 DEF Set
  <2>2. << <<>> >> \in Seq(Seq(Answers))
    BY <1>empty
  <2>3. InOrder
    BY <2>1, <2>2, <1>0, <1>empty DEF InOrder, TypeOK, GreetedInStep
  <2> QED
    BY <2>3, InOrderKeeps
<1>10. ASSUME NEW v \in {"measurements", "configuration"}, Update(v) PROVE IInv'
  <2>1. UNCHANGED <<supply, connected, remote, wire, greeted>> /\ job = "idle"
    BY <1>10 DEF Update
  <2>2. CASE Begin(v) /\ UNCHANGED shown
    <3>1. InOrder
      BY <2>1, <2>2, <1>0, <1>empty DEF InOrder, TypeOK, GreetedInStep, Begin, Variables
    <3> QED
      BY <3>1, InOrderKeeps
  <2>3. CASE shown' = [shown EXCEPT ![v] = None] /\ UNCHANGED <<job, got>>
    <3>1. v \in Variables
      BY DEF Variables
    <3>2. /\ shown' = [w \in Variables |-> shown'[w]]
          /\ \A w \in Variables : shown'[w] = IF w = v THEN None ELSE shown[w]
      BY <1>0, <2>3, <3>1 DEF TypeOK
    <3>3. TypeOK'
      BY <1>0, <2>1, <2>3, <3>2 DEF TypeOK, Program, Variables
    <3>4. ConfigurationIsReal'
      <4>1. shown'["configuration"] \in {None, shown["configuration"]}
        BY <3>2 DEF Variables
      <4> QED
        BY <4>1, <2>1 DEF IInv, ConfigurationIsReal, RealFrom, Own, Program
    <3> QED
      BY <2>1, <2>3, <3>3, <3>4
      DEF IInv, GreetFirst, GreetedInStep, GotReal, ConfigurationStage, Variables
  <2> QED
    BY <2>2, <2>3, <1>10 DEF Update
<1>11. CASE Panel \/ UNCHANGED vars
  <2>1. remote' \in BOOLEAN /\ UNCHANGED <<supply, connected, wire, greeted, job, got, shown>>
    BY <1>0, <1>11 DEF Panel, vars, TypeOK
  <2> QED
    BY <2>1 DEF IInv, TypeOK, GreetFirst, GreetedInStep, GotReal, ConfigurationStage,
                ConfigurationIsReal, RealFrom, Own, Program
<1> QED
  BY <1>1, <1>2, <1>3, <1>4, <1>5, <1>6, <1>7, <1>8, <1>9, <1>10, <1>11
  DEF Next, DeviceThread

(* IInv is an invariant.                                                   *)
LEMMA SpecIInv == Spec => []IInv
<1>1. Init => IInv
  <2> SUFFICES ASSUME Init PROVE IInv
    OBVIOUS
  <2>1. \A v \in Variables : shown[v] = None
    BY DEF Init
  <2>2. connected \in BOOLEAN /\ remote \in BOOLEAN /\ greeted \in BOOLEAN
    BY Zenon DEF Init
  <2>supply. supply \in Supplies
    BY DEF Init
  <2>3. shown = [v \in Variables |-> shown[v]]
    BY <2>1, Zenon DEF Init
  <2>4. /\ wire \in Seq(Answers) /\ Len(wire) < 2 /\ got \in Seq(Seq(Answers))
        /\ job \in Jobs /\ job \notin Variables
    BY DEF Init, Jobs, Variables
  <2>5. TypeOK
    BY <2>1, <2>2, <2>3, <2>4, <2>supply, Zenon DEF TypeOK
  <2>6. ConfigurationIsReal
    BY <2>1 DEF ConfigurationIsReal, Variables
  <2> QED
    BY <2>5, <2>6 DEF IInv, Init, GreetFirst, GreetedInStep, GotReal,
                      ConfigurationStage, Variables
<1>2. IInv /\ [Next]_vars => IInv'
  BY Inductive
<1> QED
  BY <1>1, <1>2, PTL DEF Spec

-----------------------------------------------------------------------------
(* At most one answer is outstanding, and a variable shows as many chunks  *)
(* as its update has questions.                                            *)
THEOREM SpecTypeOK == Spec => []TypeOK
<1>1. IInv => TypeOK
  BY DEF IInv
<1> QED
  BY <1>1, SpecIInv, PTL

(* Whatever timed out or failed, the next job of a greeted stream starts   *)
(* with no answer outstanding.                                             *)
THEOREM SpecInStep == Spec => []InStep
<1>1. IInv => InStep
  BY DEF IInv, GreetedInStep, InStep
<1> QED
  BY <1>1, SpecIInv, PTL

(* A configuration that is shown, its control mode aside, is never made of *)
(* the answers to other questions.                                         *)
THEOREM SpecConfigurationIsReal == Spec => []ConfigurationIsReal
<1>1. IInv => ConfigurationIsReal
  BY DEF IInv
<1> QED
  BY <1>1, SpecIInv, PTL

(* What a greeted stream newly shows are answers to the questions asked.   *)
THEOREM SpecNewsIsReal == Spec => NewsIsReal
<1>1. IInv /\ [Next]_vars =>
        [\A v \in Variables :
           greeted /\ shown'[v] # shown[v] /\ shown'[v] # None
             => RealFrom(1, v, shown'[v])]_vars
  <2> SUFFICES ASSUME IInv, Next, NEW v \in Variables,
                      greeted, shown'[v] # shown[v], shown'[v] # None
               PROVE  RealFrom(1, v, shown'[v])
    BY DEF vars
  <2>1. CASE Query
    <3>1. /\ job \in Variables /\ Program(supply, job) \in Seq(Answers \cup {"BDCTR"})
          /\ got \in Seq(Seq(Answers)) /\ Len(got) + 1 \in 1 .. Len(Program(supply, job))
      BY <2>1, ProgramType DEF Query, IInv, TypeOK
    <3> DEFINE q == Program(supply, job)[Len(got) + 1]
    <3>2. PICK chunk \in Chunks(q) :
            /\ Receive(q, chunk)
            /\ LastQuestion /\ shown' = [shown EXCEPT ![job] = Append(got, chunk)]
      BY <2>1 DEF Query
    <3>3. q \in Answers \cup {"BDCTR"}
      BY <3>1
    <3>4. chunk \in Own(q) /\ chunk \in Seq(Answers)
      <4>1. wire = <<>> /\ wire \in Seq(Answers) /\ Len(wire) < 2
        BY DEF IInv, GreetedInStep, TypeOK
      <4>2. chunk = << Answer(q) >> /\ chunk \in Seq(Answers)
        BY <3>2, <3>3, <4>1, ReceiveCases
      <4> QED
        BY <4>2, <3>3, AnswerType
    <3>5. v = job /\ shown'[v] = Append(got, chunk)
      BY <3>2 DEF IInv, TypeOK
    <3>6. \A i \in 1 .. Len(got) : got[i] \in Own(Program(supply, job)[i])
      BY <3>1 DEF IInv, GotReal
    <3> HIDE DEF q
    <3>7. \A i \in 1 .. Len(got) + 1 : Append(got, chunk)[i] \in Own(Program(supply, job)[i])
      BY <3>1, <3>4, <3>6 DEF q
    <3> QED
      BY <3>2, <3>5, <3>7 DEF LastQuestion, RealFrom
  <2>2. CASE \E w \in {"measurements", "configuration"} : Update(w)
    BY <2>2 DEF Update, IInv, TypeOK
  <2>3. CASE Greet \/ GreetFails \/ IsRemote \/ SendSet \/ Fail
    BY <2>3 DEF Greet, GreetFails, IsRemote, SendSet, Fail
  <2>4. CASE Connect \/ Disconnect \/ (\E x \in Settings : Set(x)) \/ Panel
    BY <2>4 DEF Connect, Disconnect, Set, Panel
  <2> QED
    BY <2>1, <2>2, <2>3, <2>4 DEF Next, DeviceThread
<1> QED
  BY <1>1, SpecIInv, PTL DEF Spec, NewsIsReal
=============================================================================
