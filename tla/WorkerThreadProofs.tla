-------------------------- MODULE WorkerThreadProofs --------------------------
(***************************************************************************)
(* WorkerThread for every number of jobs: no wake-up is lost, and the      *)
(* queues, the mutex and the condition variable implement JobExecutor.     *)
(***************************************************************************)
EXTENDS WorkerThread, SequenceTheorems, TLAPS

(* A queue holds jobs of its own class, in the order they were pushed, and *)
(* not the one that runs.                                                  *)
QueueOK(q, c, n, cl, running) ==
  /\ \A i \in 1 .. Len(q) : q[i] <= n /\ cl[q[i]] = c /\ q[i] # running
  /\ \A i, k \in 1 .. Len(q) : i < k => q[i] < q[k]

QueuesOK ==
  /\ QueueOK(buffer, "monitoring", pushed, class, job)
  /\ QueueOK(bufferPriority, "command", pushed, class, job)

JobOK ==
  /\ workerPc = "run" <=> job # NoJob
  /\ job <= pushed

(* The steps inside the worker's critical section rely on what it tested.  *)
SectionOK ==
  /\ workerPc = "take" => HasWork
  /\ workerPc = "sleep" => ~HasWork
  /\ notified => workerPc = "waiting"

OwnerOK ==
  /\ terminate <=> ownerPc # "alive"
  /\ workerPc = "done" => terminate

IndInv ==
  /\ TypeOK
  /\ QueuesOK
  /\ JobOK
  /\ SectionOK
  /\ OwnerOK
  /\ NoLostWakeup

-----------------------------------------------------------------------------
(* What taking the head of a queue leaves behind.                          *)
LEMMA TakeHead ==
  ASSUME NEW S, NEW q \in Seq(S), q # <<>>
  PROVE  /\ Head(q) = q[1] /\ Head(q) \in S
         /\ Tail(q) \in Seq(S)
         /\ Len(q) \in Nat /\ Len(q) >= 1
         /\ Len(Tail(q)) = Len(q) - 1
         /\ \A i \in 1 .. Len(Tail(q)) : Tail(q)[i] = q[i + 1]
  OBVIOUS

(* What appending to a queue adds.                                         *)
LEMMA AppendLast ==
  ASSUME NEW S, NEW q \in Seq(S), NEW e \in S
  PROVE  /\ Append(q, e) \in Seq(S)
         /\ Append(q, e) # <<>>
         /\ Len(q) \in Nat
         /\ Len(Append(q, e)) = Len(q) + 1
         /\ \A i \in 1 .. Len(q) : Append(q, e)[i] = q[i]
         /\ Append(q, e)[Len(q) + 1] = e
  OBVIOUS

-----------------------------------------------------------------------------
(* A queue while a job is pushed: it stays in order when it is the other   *)
(* queue that grows, and when the new job is appended to it.               *)
LEMMA PushKeepsQueue ==
  ASSUME NEW q \in Seq(Jobs), NEW c, NEW n \in Nat, NEW running \in 0 .. n,
         NEW cl \in [Jobs -> {"none", "command", "monitoring"}],
         QueueOK(q, c, n, cl, running), n + 1 \in Jobs,
         NEW d \in {"command", "monitoring"}
  PROVE  LET new == [cl EXCEPT ![n + 1] = d]
         IN  /\ QueueOK(q, c, n + 1, new, running)
             /\ c = d => QueueOK(Append(q, n + 1), c, n + 1, new, running)
  <1> DEFINE new == [cl EXCEPT ![n + 1] = d]
             r == Append(q, n + 1)
  <1>1. \A i \in 1 .. Len(q) : q[i] \in Jobs /\ q[i] \in Nat
    BY ElementOfSeq, MaxJobsAssumption DEF Jobs
  <1>2. \A j \in Jobs : j <= n => new[j] = cl[j]
    BY MaxJobsAssumption DEF Jobs
  <1>3. new[n + 1] = d
    OBVIOUS
  <1>4. /\ Len(q) \in Nat
        /\ Len(r) = Len(q) + 1
        /\ \A i \in 1 .. Len(q) : r[i] = q[i]
        /\ r[Len(q) + 1] = n + 1
    BY AppendLast
  <1> HIDE DEF new, r
  <1>5. QueueOK(q, c, n + 1, new, running)
    BY <1>1, <1>2 DEF QueueOK
  <1>6. ASSUME c = d
        PROVE  QueueOK(r, c, n + 1, new, running)
    <2>1. ASSUME NEW i \in 1 .. Len(r)
          PROVE  r[i] <= n + 1 /\ new[r[i]] = c /\ r[i] # running
      <3>1. CASE i = Len(q) + 1
        BY <3>1, <1>3, <1>4, <1>6
      <3>2. CASE i \in 1 .. Len(q)
        BY <3>2, <1>4, <1>5, <1>1 DEF QueueOK
      <3> QED
        BY <3>1, <3>2, <1>4
    <2>2. ASSUME NEW i \in 1 .. Len(r), NEW k \in 1 .. Len(r), i < k
          PROVE  r[i] < r[k]
      <3>1. i \in 1 .. Len(q)
        BY <2>2, <1>4
      <3>2. CASE k = Len(q) + 1
        <4>1. q[i] <= n
          BY <3>1 DEF QueueOK
        <4> QED
          BY <4>1, <3>1, <3>2, <1>4, <1>1
      <3>3. CASE k \in 1 .. Len(q)
        BY <3>1, <3>3, <2>2, <1>4 DEF QueueOK
      <3> QED
        BY <3>2, <3>3, <1>4
    <2> QED
      BY <2>1, <2>2 DEF QueueOK
  <1> QED
    BY <1>5, <1>6 DEF new, r

(* What the worker finds and leaves when it takes the head of a queue.     *)
LEMMA TakeKeepsQueue ==
  ASSUME NEW q \in Seq(Jobs), NEW c, NEW n \in Nat, NEW running, NEW cl,
         QueueOK(q, c, n, cl, running), q # <<>>
  PROVE  /\ QueueOK(Tail(q), c, n, cl, Head(q))
         /\ Tail(q) \in Seq(Jobs)
         /\ Head(q) \in Jobs /\ Head(q) <= n /\ cl[Head(q)] = c
  <1> DEFINE r == Tail(q)
             h == Head(q)
  <1>1. /\ h = q[1] /\ h \in Jobs
        /\ r \in Seq(Jobs)
        /\ Len(q) \in Nat /\ Len(q) >= 1
        /\ Len(r) = Len(q) - 1
        /\ \A i \in 1 .. Len(r) : r[i] = q[i + 1]
    BY TakeHead
  <1> HIDE DEF r, h
  <1>2. \A i \in 1 .. Len(q) : q[i] \in Nat
    BY ElementOfSeq, MaxJobsAssumption DEF Jobs
  <1>3. \A i \in 1 .. Len(r) : i + 1 \in 1 .. Len(q) /\ r[i] = q[i + 1]
    BY <1>1
  <1>4. 1 \in 1 .. Len(q)
    BY <1>1
  <1>5. ASSUME NEW i \in 1 .. Len(r)
        PROVE  r[i] <= n /\ cl[r[i]] = c /\ r[i] # h
    <2>1. q[1] < q[i + 1]
      BY <1>1, <1>3, <1>4 DEF QueueOK
    <2> QED
      BY <2>1, <1>1, <1>2, <1>3, <1>4 DEF QueueOK
  <1>6. ASSUME NEW i \in 1 .. Len(r), NEW k \in 1 .. Len(r), i < k
        PROVE  r[i] < r[k]
    <2>1. i + 1 < k + 1
      BY <1>6, <1>1
    <2> QED
      BY <2>1, <1>3 DEF QueueOK
  <1>7. h <= n /\ cl[h] = c
    BY <1>1, <1>4 DEF QueueOK
  <1> QED
    BY <1>1, <1>5, <1>6, <1>7 DEF QueueOK, r, h

(* The head of a queue is its oldest job.                                  *)
LEMMA HeadIsOldest ==
  ASSUME NEW q \in Seq(Jobs), NEW c, NEW n, NEW running, NEW cl,
         QueueOK(q, c, n, cl, running), q # <<>>
  PROVE  \A k \in Range(q) : Head(q) <= k
  <1>1. Head(q) = q[1] /\ Len(q) \in Nat /\ Len(q) >= 1 /\ DOMAIN q = 1 .. Len(q)
    BY TakeHead, LenProperties
  <1>2. \A i \in 1 .. Len(q) : q[i] \in Nat
    BY ElementOfSeq, MaxJobsAssumption DEF Jobs
  <1>3. ASSUME NEW i \in 1 .. Len(q)
        PROVE  q[1] <= q[i]
    <2>1. CASE i = 1
      BY <2>1, <1>1, <1>2
    <2>2. CASE 1 < i
      BY <2>2, <1>1, <1>2 DEF QueueOK
    <2> QED
      BY <2>1, <2>2
  <1> QED
    BY <1>1, <1>3 DEF Range

(* The queue the worker leaves alone: the job it takes is of the other     *)
(* class.                                                                  *)
LEMMA OtherQueueKept ==
  ASSUME NEW q, NEW c, NEW n, NEW running, NEW cl, NEW j,
         QueueOK(q, c, n, cl, running), cl[j] # c
  PROVE  QueueOK(q, c, n, cl, j)
  BY DEF QueueOK

-----------------------------------------------------------------------------
LEMMA InitIndInv == Init => IndInv
  <1> SUFFICES ASSUME Init PROVE IndInv
    OBVIOUS
  <1>1. <<>> \in Seq(Jobs) /\ 1 .. Len(<<>>) = {}
    BY EmptySeq
  <1>2. TypeOK
    <2>1. class \in [Jobs -> {"none", "command", "monitoring"}]
      BY DEF Init
    <2>2. 0 \in 0 .. MaxJobs
      BY MaxJobsAssumption
    <2> QED
      BY <1>1, <2>1, <2>2 DEF Init, TypeOK, WorkerPcs, OwnerPcs, NoJob
  <1>3. QueuesOK
    BY <1>1 DEF Init, QueuesOK, QueueOK
  <1> QED
    BY <1>2, <1>3 DEF Init, IndInv, JobOK, SectionOK, OwnerOK, NoLostWakeup, NoJob

(* A push preserves the invariant, whichever queue it goes to.             *)
LEMMA PushIndInv ==
  ASSUME IndInv, NEW front \in BOOLEAN, PushJob(front)
  PROVE  IndInv'
  <1> DEFINE d == IF front THEN "command" ELSE "monitoring"
  <1>0. /\ buffer \in Seq(Jobs) /\ bufferPriority \in Seq(Jobs)
        /\ pushed \in Nat /\ job \in 0 .. pushed
        /\ class \in [Jobs -> {"none", "command", "monitoring"}]
    BY MaxJobsAssumption DEF IndInv, TypeOK, JobOK, Jobs, NoJob
  <1>1. /\ pushed + 1 \in Jobs /\ pushed' = pushed + 1 /\ job' = job
        /\ class' = [class EXCEPT ![pushed + 1] = d]
        /\ d \in {"command", "monitoring"}
    BY MaxJobsAssumption DEF PushJob, IndInv, TypeOK, Jobs
  <1>2. /\ QueueOK(buffer, "monitoring", pushed', class', job')
        /\ ~front => QueueOK(Append(buffer, pushed'), "monitoring", pushed', class', job')
    BY <1>0, <1>1, PushKeepsQueue DEF IndInv, QueuesOK
  <1>3. /\ QueueOK(bufferPriority, "command", pushed', class', job')
        /\ front => QueueOK(Append(bufferPriority, pushed'), "command", pushed', class', job')
    BY <1>0, <1>1, PushKeepsQueue DEF IndInv, QueuesOK
  <1>4. /\ Append(buffer, pushed') \in Seq(Jobs) /\ Append(buffer, pushed') # <<>>
        /\ Append(bufferPriority, pushed') \in Seq(Jobs)
        /\ Append(bufferPriority, pushed') # <<>>
    BY <1>0, <1>1, AppendLast
  <1>5. /\ ~WorkerHoldsMutex
        /\ notified' = (workerPc = "waiting")
        /\ terminate' = terminate /\ workerPc' = workerPc /\ ownerPc' = ownerPc
        /\ \/ /\ front
              /\ bufferPriority' = Append(bufferPriority, pushed')
              /\ buffer' = buffer
           \/ /\ ~front
              /\ buffer' = Append(buffer, pushed')
              /\ bufferPriority' = bufferPriority
    BY DEF PushJob
  <1>6. TypeOK'
    <2>1. class' \in [Jobs -> {"none", "command", "monitoring"}]
      BY <1>0, <1>1
    <2>2. pushed' \in 0 .. MaxJobs
      BY <1>1, MaxJobsAssumption DEF Jobs
    <2>3. buffer' \in Seq(Jobs) /\ bufferPriority' \in Seq(Jobs)
      BY <1>0, <1>4, <1>5
    <2> QED
      BY <2>1, <2>2, <2>3, <1>1, <1>5 DEF IndInv, TypeOK
  <1>7. QueuesOK'
    BY <1>2, <1>3, <1>5 DEF QueuesOK
  <1>8. JobOK' /\ OwnerOK'
    BY <1>0, <1>1, <1>5 DEF IndInv, JobOK, OwnerOK
  <1>9. SectionOK' /\ NoLostWakeup'
    BY <1>5 DEF SectionOK, NoLostWakeup, WorkerHoldsMutex
  <1> QED
    BY <1>6, <1>7, <1>8, <1>9 DEF IndInv

(* A take preserves it: the job that starts leaves its queue.              *)
LEMMA TakeIndInv ==
  ASSUME IndInv, WorkerTake
  PROVE  IndInv'
  <1>0. /\ buffer \in Seq(Jobs) /\ bufferPriority \in Seq(Jobs)
        /\ pushed \in Nat /\ pushed' = pushed /\ class' = class
        /\ QueueOK(buffer, "monitoring", pushed, class, job)
        /\ QueueOK(bufferPriority, "command", pushed, class, job)
    BY MaxJobsAssumption DEF IndInv, TypeOK, QueuesOK, WorkerTake
  <1>1. CASE terminate
    BY <1>1 DEF IndInv, WorkerTake, TypeOK, QueuesOK, JobOK, SectionOK, OwnerOK,
                NoLostWakeup, WorkerPcs
  <1>2. CASE ~terminate /\ bufferPriority # <<>>
    <2>1. /\ job' = Head(bufferPriority) /\ bufferPriority' = Tail(bufferPriority)
          /\ workerPc' = "run" /\ buffer' = buffer
      BY <1>2 DEF WorkerTake
    <2>2. /\ QueueOK(bufferPriority', "command", pushed, class, job')
          /\ bufferPriority' \in Seq(Jobs)
          /\ job' \in Jobs /\ job' <= pushed /\ class[job'] = "command"
      BY <1>0, <1>2, <2>1, TakeKeepsQueue
    <2>3. QueueOK(buffer, "monitoring", pushed, class, job')
      BY <1>0, <2>2, OtherQueueKept
    <2> QED
      BY <1>0, <1>2, <2>1, <2>2, <2>3, MaxJobsAssumption
      DEF IndInv, WorkerTake, TypeOK, QueuesOK, JobOK, SectionOK, OwnerOK, NoLostWakeup,
          WorkerPcs, Jobs, NoJob
  <1>3. CASE ~terminate /\ bufferPriority = <<>>
    <2>1. /\ job' = Head(buffer) /\ buffer' = Tail(buffer)
          /\ workerPc' = "run" /\ bufferPriority' = bufferPriority
      BY <1>3 DEF WorkerTake
    <2>2. buffer # <<>>
      BY <1>3 DEF IndInv, SectionOK, HasWork, WorkerTake
    <2>3. /\ QueueOK(buffer', "monitoring", pushed, class, job')
          /\ buffer' \in Seq(Jobs)
          /\ job' \in Jobs /\ job' <= pushed /\ class[job'] = "monitoring"
      BY <1>0, <2>1, <2>2, TakeKeepsQueue
    <2>4. QueueOK(bufferPriority, "command", pushed, class, job')
      BY <1>0, <2>3, OtherQueueKept
    <2> QED
      BY <1>0, <1>3, <2>1, <2>3, <2>4, MaxJobsAssumption
      DEF IndInv, WorkerTake, TypeOK, QueuesOK, JobOK, SectionOK, OwnerOK, NoLostWakeup,
          WorkerPcs, Jobs, NoJob
  <1> QED
    BY <1>1, <1>2, <1>3

(* Every step of the specification preserves it.                           *)
LEMMA NextIndInv == IndInv /\ [Next]_vars => IndInv'
  <1> SUFFICES ASSUME IndInv, [Next]_vars PROVE IndInv'
    OBVIOUS
  <1> USE DEF IndInv
  <1>1. CASE push_back \/ push_front
    BY <1>1, PushIndInv DEF push_back, push_front
  <1>2. CASE WorkerTake
    BY <1>2, TakeIndInv
  <1>3. CASE WorkerLock
    BY <1>3 DEF WorkerLock, TypeOK, QueuesOK, JobOK, SectionOK, OwnerOK, NoLostWakeup,
                WorkerPcs
  <1>4. CASE WorkerTest
    BY <1>4 DEF WorkerTest, TypeOK, QueuesOK, JobOK, SectionOK, OwnerOK, NoLostWakeup,
                WorkerPcs, HasWork
  <1>5. CASE WorkerSleep
    BY <1>5 DEF WorkerSleep, TypeOK, QueuesOK, JobOK, SectionOK, OwnerOK, NoLostWakeup,
                WorkerPcs, HasWork
  <1>6. CASE WorkerWake
    BY <1>6 DEF WorkerWake, TypeOK, QueuesOK, JobOK, SectionOK, OwnerOK, NoLostWakeup,
                WorkerPcs
  <1>7. CASE SpuriousWake
    BY <1>7 DEF SpuriousWake, TypeOK, QueuesOK, JobOK, SectionOK, OwnerOK, NoLostWakeup,
                WorkerPcs
  <1>8. CASE WorkerRun
    <2>1. /\ \A i \in 1 .. Len(buffer) : buffer[i] # NoJob
          /\ \A i \in 1 .. Len(bufferPriority) : bufferPriority[i] # NoJob
      BY ElementOfSeq, MaxJobsAssumption DEF TypeOK, Jobs, NoJob
    <2>2. QueuesOK'
      BY <1>8, <2>1 DEF WorkerRun, QueuesOK, QueueOK
    <2> QED
      BY <1>8, <2>2, MaxJobsAssumption
      DEF WorkerRun, TypeOK, JobOK, SectionOK, OwnerOK, NoLostWakeup, WorkerPcs, NoJob
  <1>9. CASE DestroyTerminate
    BY <1>9 DEF DestroyTerminate, TypeOK, QueuesOK, JobOK, SectionOK, OwnerOK,
                NoLostWakeup, WorkerHoldsMutex, OwnerPcs, HasWork
  <1>10. CASE DestroyNotify
    BY <1>10 DEF DestroyNotify, TypeOK, QueuesOK, JobOK, SectionOK, OwnerOK,
                 NoLostWakeup, HasWork, OwnerPcs
  <1>11. CASE DestroyJoin
    BY <1>11 DEF DestroyJoin, TypeOK, QueuesOK, JobOK, SectionOK, OwnerOK,
                 NoLostWakeup, OwnerPcs
  <1>12. CASE UNCHANGED vars
    BY <1>12 DEF vars, TypeOK, QueuesOK, JobOK, SectionOK, OwnerOK, NoLostWakeup, HasWork
  <1> QED
    BY <1>1, <1>2, <1>3, <1>4, <1>5, <1>6, <1>7, <1>8, <1>9, <1>10, <1>11, <1>12
    DEF Next, Worker

LEMMA SpecIndInv == Spec => []IndInv
  BY InitIndInv, NextIndInv, PTL DEF Spec

(* Every reachable state of DCSWorkerThread is well typed, for every       *)
(* number of jobs.                                                         *)
THEOREM SpecTypeOK == Spec => []TypeOK
  <1>1. IndInv => TypeOK
    BY DEF IndInv
  <1> QED
    BY <1>1, SpecIndInv, PTL

(* No push and no destruction is ever missed by a worker that goes to      *)
(* sleep.                                                                  *)
THEOREM SpecNoLostWakeup == Spec => []NoLostWakeup
  <1>1. IndInv => NoLostWakeup
    BY DEF IndInv
  <1> QED
    BY <1>1, SpecIndInv, PTL

-----------------------------------------------------------------------------
(* The refinement. First, what appending to a queue and taking its head do *)
(* to the set of jobs in it.                                               *)
LEMMA RangeOfAppend ==
  ASSUME NEW q \in Seq(Jobs), NEW e \in Jobs
  PROVE  Range(Append(q, e)) = Range(q) \cup {e}
  <1> DEFINE r == Append(q, e)
  <1>1. /\ r \in Seq(Jobs) /\ Len(q) \in Nat /\ Len(r) = Len(q) + 1
        /\ \A i \in 1 .. Len(q) : r[i] = q[i]
        /\ r[Len(q) + 1] = e
    BY AppendLast
  <1> HIDE DEF r
  <1>2. DOMAIN q = 1 .. Len(q) /\ DOMAIN r = 1 .. Len(r)
    BY <1>1, LenProperties
  <1>3. Range(r) \subseteq Range(q) \cup {e}
    BY <1>1, <1>2 DEF Range
  <1>4. Range(q) \cup {e} \subseteq Range(r)
    BY <1>1, <1>2 DEF Range
  <1> QED
    BY <1>3, <1>4 DEF r

LEMMA RangeOfTail ==
  ASSUME NEW q \in Seq(Jobs), q # <<>>
  PROVE  Range(q) = Range(Tail(q)) \cup {Head(q)}
  <1> DEFINE r == Tail(q)
             h == Head(q)
  <1>1. /\ h = q[1] /\ r \in Seq(Jobs)
        /\ Len(q) \in Nat /\ Len(q) >= 1 /\ Len(r) = Len(q) - 1
        /\ \A i \in 1 .. Len(r) : r[i] = q[i + 1]
    BY TakeHead
  <1> HIDE DEF r, h
  <1>2. DOMAIN q = 1 .. Len(q) /\ DOMAIN r = 1 .. Len(r)
    BY <1>1, LenProperties
  <1>3. Range(r) \cup {h} \subseteq Range(q)
    BY <1>1, <1>2 DEF Range
  <1>4. ASSUME NEW i \in 1 .. Len(q)
        PROVE  q[i] \in Range(r) \cup {h}
    <2>1. CASE i = 1
      BY <2>1, <1>1
    <2>2. CASE i - 1 \in 1 .. Len(r)
      <3>1. r[i - 1] = q[i]
        BY <2>2, <1>1
      <3> QED
        BY <2>2, <3>1, <1>2 DEF Range
    <2> QED
      BY <2>1, <2>2, <1>1
  <1>5. Range(q) \subseteq Range(r) \cup {h}
    BY <1>2, <1>4 DEF Range
  <1> QED
    BY <1>3, <1>5 DEF r, h

(* A queued job was pushed and does not run, and its class tells its queue.*)
LEMMA QueuedMeaning ==
  ASSUME IndInv
  PROVE  /\ \A j \in Queued : j \in Jobs /\ j <= pushed /\ j # job
         /\ \A j \in Range(buffer) : class[j] = "monitoring"
         /\ \A j \in Range(bufferPriority) : class[j] = "command"
  <1>1. /\ buffer \in [1 .. Len(buffer) -> Jobs]
        /\ bufferPriority \in [1 .. Len(bufferPriority) -> Jobs]
    BY LenProperties DEF IndInv, TypeOK
  <1> QED
    BY <1>1 DEF IndInv, QueuesOK, QueueOK, Queued, Range

LEMMA InitImplements == Init => JE!Init
  <1> SUFFICES ASSUME Init PROVE JE!Init
    OBVIOUS
  <1>1. \A j \in Jobs : j > pushed
    BY MaxJobsAssumption DEF Init, Jobs
  <1>2. statusOf = [j \in Jobs |-> "new"]
    BY <1>1 DEF statusOf
  <1> QED
    BY <1>2 DEF Init, JE!Init, JE!Jobs, Jobs

(* A push submits the next job.                                            *)
LEMMA PushImplements ==
  ASSUME IndInv, NEW front \in BOOLEAN, PushJob(front)
  PROVE  \E j \in JE!Jobs, c \in JE!Classes : JE!Submit(j, c)
  <1> DEFINE d == IF front THEN "command" ELSE "monitoring"
             n == pushed + 1
  <1>1. /\ n \in Jobs /\ pushed' = n /\ job' = job
        /\ class' = [class EXCEPT ![n] = d]
        /\ pushed \in Nat /\ Jobs \subseteq Nat /\ job <= pushed /\ job \in Nat
        /\ terminate' = terminate /\ workerPc' = workerPc
    BY MaxJobsAssumption DEF PushJob, IndInv, TypeOK, JobOK, Jobs, NoJob
  <1>2. buffer \in Seq(Jobs) /\ bufferPriority \in Seq(Jobs)
    BY DEF IndInv, TypeOK
  <1>3. Queued' = Queued \cup {n}
    <2>1. CASE front
      <3>1. bufferPriority' = Append(bufferPriority, n) /\ buffer' = buffer
        BY <2>1, <1>1 DEF PushJob
      <3> QED
        BY <3>1, <1>1, <1>2, RangeOfAppend DEF Queued
    <2>2. CASE ~front
      <3>1. buffer' = Append(buffer, n) /\ bufferPriority' = bufferPriority
        BY <2>2, <1>1 DEF PushJob
      <3> QED
        BY <3>1, <1>1, <1>2, RangeOfAppend DEF Queued
    <2> QED
      BY <2>1, <2>2
  <1>4. \A j \in Jobs : statusOf'[j] = IF j = n THEN "queued" ELSE statusOf[j]
    BY <1>1, <1>3 DEF statusOf
  <1>5. statusOf' = [statusOf EXCEPT ![n] = "queued"]
    BY <1>4, <1>1 DEF statusOf
  <1>6. /\ statusOf[n] = "new"
        /\ \A k \in Jobs : k < n => statusOf[k] # "new"
    BY <1>1 DEF statusOf
  <1>7. n \in JE!Jobs /\ d \in JE!Classes
    BY <1>1 DEF JE!Jobs, JE!Classes, Jobs
  <1>8. JE!Submit(n, d)
    BY <1>1, <1>5, <1>6, <1>7 DEF JE!Submit, JE!Jobs, Jobs
  <1> QED
    BY <1>7, <1>8

(* The head of the queue the worker takes from is the job to start.        *)
LEMMA TakeImplements ==
  ASSUME IndInv, IndInv', WorkerTake, ~terminate
  PROVE  \E j \in JE!Jobs : JE!Start(j)
  <1>1. /\ buffer \in Seq(Jobs) /\ bufferPriority \in Seq(Jobs)
        /\ job = NoJob /\ NoJob \notin Jobs /\ Jobs \subseteq Nat
        /\ pushed' = pushed /\ pushed \in Nat /\ class' = class
        /\ terminate' = terminate /\ workerPc = "take" /\ workerPc' = "run"
    BY MaxJobsAssumption DEF WorkerTake, IndInv, TypeOK, JobOK, Jobs, NoJob
  <1>2. /\ Queued = Queued' \cup {job'}
        /\ \A k \in Queued :
             \/ class[job'] = "command" /\ class[k] = "monitoring"
             \/ class[job'] = class[k] /\ job' <= k
    <2>1. CASE bufferPriority # <<>>
      <3>1. /\ job' = Head(bufferPriority) /\ bufferPriority' = Tail(bufferPriority)
            /\ buffer' = buffer
        BY <2>1 DEF WorkerTake
      <3>2. /\ Queued = Queued' \cup {job'}
            /\ job' \in Range(bufferPriority)
        BY <3>1, <1>1, <2>1, RangeOfTail DEF Queued
      <3>3. \A k \in Range(bufferPriority) : job' <= k
        BY <3>1, <1>1, <2>1, HeadIsOldest DEF IndInv, QueuesOK
      <3> QED
        BY <3>2, <3>3, QueuedMeaning DEF Queued
    <2>2. CASE bufferPriority = <<>>
      <3>1. /\ job' = Head(buffer) /\ buffer' = Tail(buffer)
            /\ bufferPriority' = bufferPriority /\ buffer # <<>>
        BY <2>2 DEF WorkerTake, IndInv, SectionOK, HasWork
      <3>2. /\ Queued = Queued' \cup {job'}
            /\ job' \in Range(buffer)
        BY <3>1, <1>1, RangeOfTail DEF Queued
      <3>3. \A k \in Range(buffer) : job' <= k
        BY <3>1, <1>1, HeadIsOldest DEF IndInv, QueuesOK
      <3>4. Range(bufferPriority) = {}
        BY <2>2 DEF Range
      <3> QED
        BY <3>2, <3>3, <3>4, QueuedMeaning DEF Queued
    <2> QED
      BY <2>1, <2>2
  <1>3. job' \in Jobs /\ job' <= pushed
    BY <1>2, QueuedMeaning
  <1>4. \A j \in Jobs : statusOf'[j] = IF j = job' THEN "running" ELSE statusOf[j]
    BY <1>1, <1>2, <1>3 DEF statusOf
  <1>5. statusOf' = [statusOf EXCEPT ![job'] = "running"]
    BY <1>3, <1>4 DEF statusOf
  <1>6. /\ statusOf[job'] = "queued"
        /\ \A k \in Jobs : statusOf[k] # "running"
        /\ \A k \in Jobs : statusOf[k] = "queued" => k \in Queued
    BY <1>1, <1>2, <1>3 DEF statusOf
  <1>7. JE!Start(job')
    BY <1>1, <1>2, <1>3, <1>5, <1>6
    DEF JE!Start, JE!InStatus, JE!Precedes, JE!Jobs, Jobs
  <1> QED
    BY <1>3, <1>7 DEF JE!Jobs, Jobs

(* The other steps: the end of a job, a request to stop, the end of the    *)
(* thread, and steps an executor does not have.                            *)
LEMMA SameStatus ==
  ASSUME buffer' = buffer, bufferPriority' = bufferPriority, job' = job,
         pushed' = pushed
  PROVE  statusOf' = statusOf
  BY DEF statusOf, Queued

LEMMA RunImplements ==
  ASSUME IndInv, WorkerRun
  PROVE  \E j \in JE!Jobs : JE!Finish(j)
  <1>1. /\ job \in Jobs /\ NoJob \notin Jobs /\ job' = NoJob /\ pushed' = pushed
        /\ Queued' = Queued /\ class' = class /\ terminate' = terminate
        /\ workerPc = "run" /\ workerPc' = "loop" /\ job <= pushed
        /\ job \in Nat /\ pushed \in Nat
    BY MaxJobsAssumption
    DEF IndInv, TypeOK, JobOK, WorkerRun, Jobs, NoJob, Queued
  <1>2. job \notin Queued
    BY QueuedMeaning
  <1>3. \A j \in Jobs : statusOf'[j] = IF j = job THEN "finished" ELSE statusOf[j]
    BY <1>1, <1>2 DEF statusOf
  <1>4. statusOf' = [statusOf EXCEPT ![job] = "finished"]
    BY <1>1, <1>3 DEF statusOf
  <1>5. statusOf[job] = "running"
    BY <1>1 DEF statusOf
  <1> QED
    BY <1>1, <1>4, <1>5 DEF JE!Finish, JE!Jobs, Jobs

LEMMA StepImplements ==
  IndInv /\ IndInv' /\ [Next]_vars => [JE!Next]_(JE!vars)
  <1> SUFFICES ASSUME IndInv, IndInv', [Next]_vars
               PROVE  JE!Next \/ UNCHANGED JE!vars
    BY DEF JE!vars
  <1>1. CASE push_back \/ push_front
    BY <1>1, PushImplements DEF push_back, push_front, JE!Next
  <1>2. CASE WorkerTake /\ ~terminate
    BY <1>2, TakeImplements DEF JE!Next
  <1>3. CASE WorkerTake /\ terminate
    <2>1. /\ statusOf' = statusOf /\ class' = class /\ terminate' = terminate
          /\ workerPc = "take" /\ workerPc' = "done"
      BY <1>3, SameStatus DEF WorkerTake
    <2>2. \A k \in Jobs : statusOf[k] # "running"
      BY <2>1, MaxJobsAssumption DEF IndInv, JobOK, statusOf, Jobs, NoJob
    <2>3. JE!Stop
      BY <1>3, <2>1, <2>2 DEF JE!Stop, JE!InStatus, JE!Jobs, Jobs
    <2> QED
      BY <2>3 DEF JE!Next
  <1>4. CASE WorkerRun
    BY <1>4, RunImplements DEF JE!Next
  <1>5. CASE DestroyTerminate
    <2>1. statusOf' = statusOf
      BY <1>5, SameStatus DEF DestroyTerminate
    <2>2. JE!RequestStop
      BY <1>5, <2>1 DEF DestroyTerminate, JE!RequestStop, IndInv, OwnerOK
    <2> QED
      BY <2>2 DEF JE!Next
  <1>6. CASE WorkerLock \/ WorkerTest \/ WorkerSleep \/ WorkerWake \/ SpuriousWake
    <2>1. /\ statusOf' = statusOf /\ class' = class /\ terminate' = terminate
          /\ workerPc # "done" /\ workerPc' # "done"
      BY <1>6, SameStatus
      DEF WorkerLock, WorkerTest, WorkerSleep, WorkerWake, SpuriousWake
    <2> QED
      BY <2>1 DEF JE!vars
  <1>7. CASE DestroyNotify \/ DestroyJoin \/ UNCHANGED vars
    <2>1. /\ statusOf' = statusOf /\ class' = class /\ terminate' = terminate
          /\ workerPc' = workerPc
      BY <1>7, SameStatus DEF DestroyNotify, DestroyJoin, vars
    <2> QED
      BY <2>1 DEF JE!vars
  <1> QED
    BY <1>1, <1>2, <1>3, <1>4, <1>5, <1>6, <1>7 DEF Next, Worker

(* DCSWorkerThread runs every job at most once, one at a time, commands    *)
(* before monitoring jobs and otherwise in the order of the pushes, and    *)
(* starts none once its destruction has begun.                             *)
THEOREM SpecImplements == Spec => Implements
  BY InitImplements, StepImplements, SpecIndInv, PTL DEF Spec, Implements, JE!Spec
=============================================================================
