------------------------- MODULE HistoryInfluxProofs -------------------------
(***************************************************************************)
(* HistoryInflux for every number of lines: there is one round of writing, *)
(* and the backend implements HistoryLog.                                  *)
(***************************************************************************)
EXTENDS HistoryInflux, TLAPS

(* The lines of s are the ones that follow line n.                         *)
Follows(s, n) == \A i \in 1 .. Len(s) : s[i] = n + i

(* Lines are held only at the program points that need them, and a job     *)
(* that transfers has some.                                                *)
HeldOK ==
  /\ mainPc = "idle" => messages = <<>>
  /\ workerPc = "transfer" <=> job # <<>>

(* The lines that are not settled are, in order, those of the round under  *)
(* way and those of the bucket.                                            *)
Round ==
  IF mainPc = "push" THEN messages
  ELSE IF jobs # <<>> THEN Head(jobs)
  ELSE job

LinesOK ==
  /\ Follows(Round, settled)
  /\ Follows(bucket, settled + Len(Round))
  /\ recorded = settled + Len(Round) + Len(bucket)

IndInv == TypeOK /\ OneRound /\ HeldOK /\ LinesOK

-----------------------------------------------------------------------------
(* What a queue of lines or of jobs gives and takes.                       *)
LEMMA SeqFacts ==
  ASSUME NEW S, NEW q \in Seq(S)
  PROVE  /\ Len(q) \in Nat /\ (Len(q) = 0 <=> q = <<>>)
         /\ \A e \in S : /\ Append(q, e) \in Seq(S)
                         /\ Len(Append(q, e)) = Len(q) + 1
                         /\ q = <<>> => Head(Append(q, e)) = e
         /\ q # <<>> => /\ Head(q) \in S
                        /\ Tail(q) \in Seq(S)
                        /\ Len(Tail(q)) = Len(q) - 1
  OBVIOUS

LEMMA ConcatFacts ==
  ASSUME NEW S, NEW p \in Seq(S), NEW q \in Seq(S)
  PROVE  p \o q \in Seq(S)
  OBVIOUS

(* There is one round at a time: whoever has it, the others do not.        *)
LEMMA RoundFacts ==
  ASSUME TypeOK, OneRound
  PROVE  /\ mainPc = "push" => workerPc = "idle" /\ jobs = <<>> /\ timers = 0
         /\ workerPc # "idle" => mainPc = "idle" /\ jobs = <<>> /\ timers = 0
         /\ jobs # <<>> => mainPc = "idle" /\ workerPc = "idle" /\ timers = 0 /\ Len(jobs) = 1
         /\ timers > 0 => mainPc = "idle" /\ workerPc = "idle" /\ jobs = <<>> /\ timers = 1
  <1>1. Len(jobs) \in Nat /\ (Len(jobs) = 0 <=> jobs = <<>>)
    BY SeqFacts DEF TypeOK
  <1> DEFINE m == IF mainPc = "push" THEN 1 ELSE 0
             w == IF workerPc = "idle" THEN 0 ELSE 1
  <1>2. /\ m \in Nat /\ (m = 0 <=> mainPc = "idle") /\ (m = 1 <=> mainPc = "push")
        /\ w \in Nat /\ (w = 0 <=> workerPc = "idle")
    BY DEF TypeOK
  <1>3. timers \in Nat /\ timers + Len(jobs) + m + w = 1
    BY DEF TypeOK, OneRound
  <1> DEFINE n == Len(jobs)
  <1> HIDE DEF m, w, n
  <1>4. n \in Nat /\ (n = 0 <=> jobs = <<>>) /\ timers + n + m + w = 1
    BY <1>1, <1>3 DEF n
  <1>5. \/ timers = 1 /\ n = 0 /\ m = 0 /\ w = 0
        \/ timers = 0 /\ n = 1 /\ m = 0 /\ w = 0
        \/ timers = 0 /\ n = 0 /\ m = 1 /\ w = 0
        \/ timers = 0 /\ n = 0 /\ m = 0 /\ w = 1
    BY <1>2, <1>3, <1>4
  <1> QED
    BY <1>2, <1>4, <1>5 DEF n

LEMMA EmptyFacts ==
  /\ <<>> \in Seq(Lines) /\ <<>> \in Seq(Seq(Lines)) /\ Len(<<>>) = 0
  /\ \A n : Follows(<<>>, n)
  BY DEF Follows

LEMMA InitInv == Init => IndInv
  <1> SUFFICES ASSUME Init PROVE IndInv
    OBVIOUS
  <1>1. TypeOK
    BY EmptyFacts, HistoryAssumption DEF Init, TypeOK
  <1>2. OneRound /\ HeldOK /\ LinesOK
    BY EmptyFacts DEF Init, OneRound, HeldOK, LinesOK, Round
  <1> QED
    BY <1>1, <1>2 DEF IndInv

(* A new line goes to the end of the bucket.                               *)
LEMMA RecordStep ==
  ASSUME IndInv, serverSetHistoryData
  PROVE  /\ IndInv'
         /\ recorded' = recorded + 1
         /\ UNCHANGED <<settled, database, failures>>
  <1>1. /\ recorded' = recorded + 1 /\ bucket' = Append(bucket, recorded + 1)
        /\ UNCHANGED <<life, mainPc, messages, jobs, workerPc, job, timers>>
        /\ UNCHANGED <<settled, database, failures, Round>>
    BY DEF serverSetHistoryData, workerVars, logVars, Round
  <1>2. recorded' \in Lines /\ recorded' \in 0 .. MaxLines
    BY HistoryAssumption DEF IndInv, TypeOK, serverSetHistoryData, Lines
  <1>3. /\ bucket' \in Seq(Lines) /\ Len(bucket') = Len(bucket) + 1
        /\ Len(bucket) \in Nat
        /\ \A i \in 1 .. Len(bucket) : bucket'[i] = bucket[i]
        /\ bucket'[Len(bucket) + 1] = recorded + 1
    BY <1>1, <1>2 DEF IndInv, TypeOK
  <1>4. Round \in Seq(Lines) /\ Len(Round) \in Nat
    BY SeqFacts DEF IndInv, TypeOK, Round
  <1>5. TypeOK'
    BY <1>1, <1>2, <1>3 DEF IndInv, TypeOK
  <1>6. OneRound' /\ HeldOK'
    BY <1>1 DEF IndInv, OneRound, HeldOK
  <1>7. LinesOK'
    <2>1. Follows(Round, settled)'
      BY <1>1 DEF IndInv, LinesOK, Follows
    <2>2. Follows(bucket, settled + Len(Round))'
      <3>1. \A i \in 1 .. Len(bucket) : bucket[i] = settled + Len(Round) + i
        BY DEF IndInv, LinesOK, Follows
      <3>2. recorded + 1 = settled + Len(Round) + (Len(bucket) + 1)
        BY <1>3, <1>4 DEF IndInv, TypeOK, LinesOK
      <3>3. \A i \in 1 .. Len(bucket) + 1 : bucket'[i] = settled + Len(Round) + i
        BY <1>3, <3>1, <3>2
      <3> QED
        BY <1>1, <1>3, <3>3 DEF Follows
    <2>3. recorded' = settled' + Len(Round)' + Len(bucket')
      BY <1>1, <1>3, <1>4 DEF IndInv, TypeOK, LinesOK
    <2> QED
      BY <2>1, <2>2, <2>3 DEF LinesOK
  <1> QED
    BY <1>1, <1>5, <1>6, <1>7 DEF IndInv

(* The bucket becomes the round.                                           *)
LEMMA WriteStep ==
  ASSUME IndInv, Write
  PROVE  IndInv' /\ UNCHANGED <<recorded, settled, database, failures>>
  <1>1. /\ mainPc = "idle" /\ jobs = <<>> /\ workerPc = "idle" /\ timers = 1
        /\ job = <<>> /\ messages = <<>>
    BY RoundFacts DEF IndInv, TypeOK, HeldOK, Write
  <1>2. /\ timers' = 0 /\ mainPc' = "push" /\ messages' = bucket /\ bucket' = <<>>
        /\ UNCHANGED <<life, jobs, workerPc, job, recorded, settled, database, failures>>
    BY <1>1 DEF Write, workerVars, logVars
  <1>3. Round = <<>> /\ Round' = bucket
    BY <1>1, <1>2 DEF Round
  <1>4. TypeOK'
    BY <1>2, EmptyFacts DEF IndInv, TypeOK
  <1>5. OneRound' /\ HeldOK'
    BY <1>1, <1>2, EmptyFacts DEF OneRound, HeldOK
  <1>6. LinesOK'
    <2>1. /\ Follows(bucket, settled)
          /\ recorded = settled + Len(bucket) /\ Len(bucket) \in Nat
      BY <1>3, EmptyFacts, SeqFacts DEF IndInv, TypeOK, LinesOK
    <2> QED
      BY <1>2, <1>3, <2>1, EmptyFacts DEF IndInv, TypeOK, LinesOK, Follows
  <1> QED
    BY <1>2, <1>4, <1>5, <1>6 DEF IndInv

(* The round passes from the main thread to the queue, and to the worker.  *)
LEMMA PushJobStep ==
  ASSUME IndInv, PushJob
  PROVE  IndInv' /\ UNCHANGED <<recorded, settled, database, failures>>
  <1>1. jobs = <<>> /\ workerPc = "idle" /\ timers = 0 /\ job = <<>> /\ mainPc = "push"
    BY RoundFacts DEF IndInv, TypeOK, HeldOK, PushJob
  <1>2. /\ jobs' = Append(jobs, messages) /\ mainPc' = "idle" /\ messages' = <<>>
        /\ UNCHANGED <<life, bucket, workerPc, job, timers, recorded>>
        /\ UNCHANGED <<settled, database, failures>>
    BY DEF PushJob, workerVars, logVars
  <1>3. /\ jobs' \in Seq(Seq(Lines)) /\ Len(jobs') = 1 /\ jobs' # <<>>
        /\ Head(jobs') = messages
    BY <1>1, <1>2, SeqFacts DEF IndInv, TypeOK
  <1>4. UNCHANGED Round
    BY <1>1, <1>2, <1>3 DEF Round
  <1>5. TypeOK'
    BY <1>2, <1>3, EmptyFacts DEF IndInv, TypeOK
  <1>6. OneRound' /\ HeldOK'
    BY <1>1, <1>2, <1>3 DEF OneRound, HeldOK
  <1>7. LinesOK'
    BY <1>2, <1>4 DEF IndInv, LinesOK, Follows
  <1> QED
    BY <1>2, <1>5, <1>6, <1>7 DEF IndInv

LEMMA TakeJobStep ==
  ASSUME IndInv, TakeJob
  PROVE  IndInv' /\ UNCHANGED <<recorded, settled, database, failures>>
  <1>1. /\ jobs # <<>> /\ Len(jobs) = 1 /\ workerPc = "idle" /\ timers = 0
        /\ mainPc = "idle" /\ messages = <<>>
    BY RoundFacts DEF IndInv, TypeOK, HeldOK, TakeJob
  <1>2. /\ job' = Head(jobs) /\ jobs' = Tail(jobs)
        /\ workerPc' = IF job' = <<>> THEN "rearm" ELSE "transfer"
        /\ UNCHANGED <<life, bucket, mainPc, messages, timers, recorded>>
        /\ UNCHANGED <<settled, database, failures>>
    BY DEF TakeJob, logVars
  <1>3. /\ job' \in Seq(Lines) /\ jobs' \in Seq(Seq(Lines))
        /\ Len(jobs') = 0 /\ jobs' = <<>>
    <2>1. jobs \in Seq(Seq(Lines))
      BY DEF IndInv, TypeOK
    <2>2. /\ Head(jobs) \in Seq(Lines) /\ Tail(jobs) \in Seq(Seq(Lines))
          /\ Len(Tail(jobs)) = 0
      BY <1>1, <2>1, SeqFacts
    <2> QED
      BY <1>2, <2>2, SeqFacts
  <1>4. UNCHANGED Round
    BY <1>1, <1>2, <1>3 DEF Round
  <1>5. TypeOK'
    BY <1>2, <1>3 DEF IndInv, TypeOK
  <1>6. OneRound' /\ HeldOK'
    BY <1>1, <1>2, <1>3 DEF OneRound, HeldOK
  <1>7. LinesOK'
    BY <1>2, <1>4 DEF IndInv, LinesOK, Follows
  <1> QED
    BY <1>2, <1>5, <1>6, <1>7 DEF IndInv

(* The round ends: it is the oldest of the lines that are not settled.     *)
LEMMA TransferStep ==
  ASSUME IndInv, Transfer
  PROVE  IndInv' /\ Log!Next
  <1>1. /\ workerPc = "transfer" /\ job # <<>> /\ mainPc = "idle" /\ jobs = <<>>
        /\ timers = 0 /\ Round = job
    BY RoundFacts DEF IndInv, TypeOK, HeldOK, Transfer, Round
  <1>2. /\ settled' = settled + Len(job) /\ job' = <<>> /\ workerPc' = "rearm"
        /\ UNCHANGED <<life, bucket, mainPc, messages, jobs, timers, recorded>>
    BY DEF Transfer
  <1>3. /\ Len(job) \in Nat \ {0} /\ Len(bucket) \in Nat
        /\ recorded = settled + Len(job) + Len(bucket)
        /\ settled \in Nat /\ recorded \in Nat
    BY <1>1, SeqFacts DEF IndInv, TypeOK, LinesOK
  <1>4. job = [i \in 1 .. Len(job) |-> settled + i]
    BY <1>1 DEF IndInv, TypeOK, LinesOK, Follows
  <1>5. settled' \in 0 .. MaxLines
    BY <1>2, <1>3, HistoryAssumption DEF IndInv, TypeOK
  <1>6. database' \in Seq(Lines) /\ failures' \in Nat
    <2>1. database \in Seq(Lines) /\ job \in Seq(Lines)
      BY DEF IndInv, TypeOK
    <2>2. database \o job \in Seq(Lines)
      BY <2>1, ConcatFacts
    <2>3. failures \in Nat
      BY DEF IndInv, TypeOK
    <2>4. database' = database \/ database' = database \o job
      BY DEF Transfer
    <2>5. database' \in Seq(Lines)
      BY <2>1, <2>2, <2>4
    <2>6. failures' \in Nat
      BY <2>3 DEF Transfer
    <2> QED
      BY <2>5, <2>6
  <1>7. TypeOK'
    BY <1>2, <1>5, <1>6, EmptyFacts DEF IndInv, TypeOK
  <1>8. OneRound' /\ HeldOK'
    BY <1>1, <1>2, EmptyFacts DEF IndInv, OneRound, HeldOK
  <1>9. LinesOK'
    <2>1. Round' = <<>>
      BY <1>1, <1>2 DEF Round
    <2>2. Follows(bucket, settled + Len(job))
      BY <1>1 DEF IndInv, LinesOK
    <2> QED
      BY <1>2, <1>3, <2>1, <2>2, EmptyFacts DEF LinesOK, Follows
  <1>10. Log!Transfer(Len(job))
    BY <1>2, <1>4 DEF Log!Transfer, Transfer
  <1>11. Len(job) \in 1 .. recorded - settled
    BY <1>3
  <1> QED
    BY <1>7, <1>8, <1>9, <1>10, <1>11 DEF IndInv, Log!Next

LEMMA RearmStep ==
  ASSUME IndInv, Rearm
  PROVE  IndInv' /\ UNCHANGED <<recorded, settled, database, failures>>
  <1>1. /\ workerPc = "rearm" /\ mainPc = "idle" /\ jobs = <<>> /\ timers = 0
        /\ job = <<>>
    BY RoundFacts DEF IndInv, TypeOK, HeldOK, Rearm
  <1>2. /\ timers' = 1 /\ workerPc' = "idle"
        /\ UNCHANGED <<life, bucket, mainPc, messages, jobs, job, recorded>>
        /\ UNCHANGED <<settled, database, failures, Round>>
    BY <1>1 DEF Rearm, logVars, Round
  <1>3. TypeOK' /\ HeldOK'
    BY <1>1, <1>2 DEF IndInv, TypeOK, HeldOK
  <1>4. OneRound'
    BY <1>1, <1>2, EmptyFacts DEF OneRound
  <1>5. LinesOK'
    BY <1>2 DEF IndInv, LinesOK, Follows
  <1> QED
    BY <1>2, <1>3, <1>4, <1>5 DEF IndInv

(* The life of the server touches no line.                                 *)
LEMMA LifeStep ==
  ASSUME IndInv, Run \/ Stop \/ Destroy \/ Joined \/ UNCHANGED vars
  PROVE  IndInv' /\ UNCHANGED <<recorded, settled, database, failures>>
  <1>1. /\ UNCHANGED <<bucket, mainPc, messages, jobs, workerPc, job, timers, recorded>>
        /\ UNCHANGED <<settled, database, failures, Round>>
        /\ life' \in {life, "running", "stopping", "joining", "stopped"}
    BY DEF Run, Stop, Destroy, Joined, vars, workerVars, logVars, Round
  <1>2. TypeOK' /\ OneRound' /\ HeldOK'
    BY <1>1 DEF IndInv, TypeOK, OneRound, HeldOK
  <1>3. LinesOK'
    BY <1>1 DEF IndInv, LinesOK, Follows
  <1> QED
    BY <1>1, <1>2, <1>3 DEF IndInv

LEMMA Inductive ==
  ASSUME IndInv, [Next]_vars
  PROVE  IndInv' /\ [Log!Next]_(Log!vars)
  <1>1. CASE serverSetHistoryData
    BY <1>1, RecordStep DEF Log!Next, Log!Record
  <1>2. CASE Write \/ PushJob \/ TakeJob \/ Rearm
    BY <1>2, WriteStep, PushJobStep, TakeJobStep, RearmStep DEF Log!vars
  <1>3. CASE Transfer
    BY <1>3, TransferStep
  <1>4. CASE Run \/ Stop \/ Destroy \/ Joined \/ UNCHANGED vars
    BY <1>4, LifeStep DEF Log!vars
  <1> QED
    BY <1>1, <1>2, <1>3, <1>4 DEF Next, Worker

LEMMA SpecIndInv == Spec => []IndInv
  <1>1. IndInv /\ [Next]_vars => IndInv'
    BY Inductive
  <1> QED
    BY <1>1, InitInv, PTL DEF Spec

(* Every reachable state of write, the worker and the database has the     *)
(* types of TypeOK: no more lines are settled than can be recorded.        *)
THEOREM SpecTypeOK == Spec => []TypeOK
  <1>1. IndInv => TypeOK
    BY DEF IndInv
  <1> QED
    BY <1>1, SpecIndInv, PTL

(* However slow the database is and however often it fails, there is       *)
(* always exactly one timer, write or job under way.                       *)
THEOREM SpecOneRound == Spec => []OneRound
  <1>1. IndInv => OneRound
    BY DEF IndInv
  <1> QED
    BY <1>1, SpecIndInv, PTL

(* The lines reach the database in the order of their recording, each at   *)
(* most once, and only failed transfers lose some.                         *)
THEOREM SpecImplements == Spec => Implements
  <1>1. Init => Log!Init
    BY DEF Init, Log!Init
  <1>2. IndInv /\ [Next]_vars => [Log!Next]_(Log!vars)
    BY Inductive
  <1> QED
    BY <1>1, <1>2, SpecIndInv, PTL DEF Spec, Implements, Log!Spec
=============================================================================
