---------------------------- MODULE WorkerThread ----------------------------
(***************************************************************************)
(* DCSWorkerThread: one thread, two FIFO queues guarded by qMutex, and a   *)
(* condition variable. Any thread pushes jobs, the owner destroys the      *)
(* object. A critical section of a pushing or destroying thread is one     *)
(* action, enabled when the worker does not hold qMutex; the worker's own  *)
(* section is split at every point where it tests, sleeps or takes, since  *)
(* what must not slip between those steps is what the mutex is for.        *)
(***************************************************************************)
EXTENDS Naturals, Sequences, Functions

CONSTANT MaxJobs  \* bound: the number of jobs pushed in a behaviour

ASSUME MaxJobsAssumption == MaxJobs \in Nat

VARIABLES
  buffer,          \* monitoring jobs, oldest first
  bufferPriority,  \* commands, oldest first
  terminate,       \* set by the destructor
  workerPc,        \* where the worker thread is
  notified,        \* the condition variable has woken the waiting worker
  ownerPc,         \* where the destructor is
  job,             \* the job the worker has taken, NoJob between jobs
  pushed,          \* history: how many jobs were pushed; a job is its number
  class            \* history: the queue each job was pushed to

vars == <<buffer, bufferPriority, terminate, workerPc, notified, ownerPc, job,
          pushed, class>>

Jobs == 1 .. MaxJobs
NoJob == 0

WorkerPcs == {"loop", "test", "sleep", "waiting", "take", "run", "done"}
OwnerPcs == {"alive", "notify", "join", "gone"}

TypeOK ==
  /\ buffer \in Seq(Jobs)
  /\ bufferPriority \in Seq(Jobs)
  /\ terminate \in BOOLEAN
  /\ workerPc \in WorkerPcs
  /\ notified \in BOOLEAN
  /\ ownerPc \in OwnerPcs
  /\ job \in Jobs \cup {NoJob}
  /\ pushed \in 0 .. MaxJobs
  /\ class \in [Jobs -> {"none", "command", "monitoring"}]

Init ==
  /\ buffer = <<>>
  /\ bufferPriority = <<>>
  /\ terminate = FALSE
  /\ workerPc = "loop"
  /\ notified = FALSE
  /\ ownerPc = "alive"
  /\ job = NoJob
  /\ pushed = 0
  /\ class = [j \in Jobs |-> "none"]

-----------------------------------------------------------------------------
(* Plausible bugs in the definitions below; each breaks a property.        *)

(* The test of the predicate and the sleep outside qMutex.                 *)
MutUnlocked == workerPc \in {"take"}

(* workerLoop without its test of terminate: front() of an empty queue is  *)
(* any value at all.                                                       *)
MutWorkerTakeUnchecked ==
  /\ workerPc = "take"
  /\ \/ /\ bufferPriority # <<>>
        /\ job' = Head(bufferPriority)
        /\ bufferPriority' = Tail(bufferPriority)
        /\ UNCHANGED buffer
     \/ /\ bufferPriority = <<>>
        /\ IF buffer = <<>> THEN /\ job' = MaxJobs + 1
                                /\ UNCHANGED buffer
                           ELSE /\ job' = Head(buffer)
                                /\ buffer' = Tail(buffer)
        /\ UNCHANGED bufferPriority
  /\ workerPc' = "run"
  /\ UNCHANGED <<terminate, notified, ownerPc, pushed, class>>

(* workerLoop serving the monitoring queue first.                          *)
MutWorkerTake ==
  /\ workerPc = "take"
  /\ \/ /\ buffer # <<>>
        /\ job' = Head(buffer)
        /\ buffer' = Tail(buffer)
        /\ workerPc' = "run"
        /\ UNCHANGED bufferPriority
     \/ /\ buffer = <<>>
        /\ bufferPriority # <<>>
        /\ job' = Head(bufferPriority)
        /\ bufferPriority' = Tail(bufferPriority)
        /\ workerPc' = "run"
        /\ UNCHANGED buffer
     \/ /\ buffer = <<>> /\ bufferPriority = <<>>
        /\ terminate
        /\ workerPc' = "done"
        /\ UNCHANGED <<buffer, bufferPriority, job>>
  /\ UNCHANGED <<terminate, notified, ownerPc, pushed, class>>

(* The destructor without its notify_all.                                  *)
MutDestroyNotify ==
  /\ ownerPc = "notify"
  /\ ownerPc' = "join"
  /\ UNCHANGED <<buffer, bufferPriority, terminate, workerPc, notified, job,
                 pushed, class>>

(* The wait predicate without the monitoring queue.                        *)
MutHasWork == bufferPriority # <<>> \/ terminate

-----------------------------------------------------------------------------
(* The worker is between locking and unlocking qMutex.                     *)
WorkerHoldsMutex == workerPc \in {"test", "sleep", "take"}

(* The predicate the worker waits for.                                     *)
HasWork == buffer # <<>> \/ bufferPriority # <<>> \/ terminate

(* pushJob: append to the chosen queue and notify_all, under qMutex.       *)
PushJob(frontQueue) ==
  /\ ownerPc # "gone"
  /\ ~WorkerHoldsMutex
  /\ pushed < MaxJobs
  /\ pushed' = pushed + 1
  /\ class' = [class EXCEPT ![pushed'] = IF frontQueue THEN "command" ELSE "monitoring"]
  /\ IF frontQueue THEN /\ bufferPriority' = Append(bufferPriority, pushed')
                        /\ UNCHANGED buffer
                   ELSE /\ buffer' = Append(buffer, pushed')
                        /\ UNCHANGED bufferPriority
  /\ notified' = (workerPc = "waiting")
  /\ UNCHANGED <<terminate, workerPc, ownerPc, job>>

push_back == PushJob(FALSE)
push_front == PushJob(TRUE)

(* workerLoop, one action per step of its critical section.                *)
WorkerLock ==
  /\ workerPc = "loop"
  /\ workerPc' = "test"
  /\ UNCHANGED <<buffer, bufferPriority, terminate, notified, ownerPc, job,
                 pushed, class>>

WorkerTest ==
  /\ workerPc = "test"
  /\ workerPc' = IF HasWork THEN "take" ELSE "sleep"
  /\ UNCHANGED <<buffer, bufferPriority, terminate, notified, ownerPc, job,
                 pushed, class>>

(* The wait releases qMutex and blocks in one step.                        *)
WorkerSleep ==
  /\ workerPc = "sleep"
  /\ workerPc' = "waiting"
  /\ notified' = FALSE
  /\ UNCHANGED <<buffer, bufferPriority, terminate, ownerPc, job, pushed, class>>

(* A notified worker takes qMutex again and tests the predicate again.     *)
WorkerWake ==
  /\ workerPc = "waiting"
  /\ notified
  /\ workerPc' = "test"
  /\ notified' = FALSE
  /\ UNCHANGED <<buffer, bufferPriority, terminate, ownerPc, job, pushed, class>>

(* A condition variable may also wake its waiter for no reason.            *)
SpuriousWake ==
  /\ workerPc = "waiting"
  /\ ~notified
  /\ workerPc' = "test"
  /\ UNCHANGED <<buffer, bufferPriority, terminate, notified, ownerPc, job,
                 pushed, class>>

(* Leave the section: end the thread, or take a command, or else a         *)
(* monitoring job.                                                         *)
WorkerTake ==
  /\ workerPc = "take"
  /\ \/ /\ terminate
        /\ workerPc' = "done"
        /\ UNCHANGED <<buffer, bufferPriority, job>>
     \/ /\ ~terminate
        /\ bufferPriority # <<>>
        /\ job' = Head(bufferPriority)
        /\ bufferPriority' = Tail(bufferPriority)
        /\ workerPc' = "run"
        /\ UNCHANGED buffer
     \/ /\ ~terminate
        /\ bufferPriority = <<>>
        /\ job' = Head(buffer)
        /\ buffer' = Tail(buffer)
        /\ workerPc' = "run"
        /\ UNCHANGED bufferPriority
  /\ UNCHANGED <<terminate, notified, ownerPc, pushed, class>>

(* job() returns; it runs outside qMutex.                                  *)
WorkerRun ==
  /\ workerPc = "run"
  /\ job' = NoJob
  /\ workerPc' = "loop"
  /\ UNCHANGED <<buffer, bufferPriority, terminate, notified, ownerPc, pushed, class>>

(* The destructor: terminate is set under qMutex, the notification and the *)
(* join come after it is released.                                         *)
DestroyTerminate ==
  /\ ownerPc = "alive"
  /\ ~WorkerHoldsMutex
  /\ terminate' = TRUE
  /\ ownerPc' = "notify"
  /\ UNCHANGED <<buffer, bufferPriority, workerPc, notified, job, pushed, class>>

DestroyNotify ==
  /\ ownerPc = "notify"
  /\ notified' = (workerPc = "waiting")
  /\ ownerPc' = "join"
  /\ UNCHANGED <<buffer, bufferPriority, terminate, workerPc, job, pushed, class>>

DestroyJoin ==
  /\ ownerPc = "join"
  /\ workerPc = "done"
  /\ ownerPc' = "gone"
  /\ UNCHANGED <<buffer, bufferPriority, terminate, workerPc, notified, job,
                 pushed, class>>

Worker == WorkerLock \/ WorkerTest \/ WorkerSleep \/ WorkerWake \/ WorkerTake \/ WorkerRun

Next ==
  \/ push_back
  \/ push_front
  \/ Worker
  \/ SpuriousWake
  \/ DestroyTerminate
  \/ DestroyNotify
  \/ DestroyJoin

Spec == Init /\ [][Next]_vars

(* The worker and a destructor under way keep going (a running thread that *)
(* can take its next step takes it, and every job returns); nobody has to  *)
(* push, and nobody has to destroy the object.                             *)
Fairness == WF_vars(Worker) /\ WF_vars(DestroyNotify) /\ WF_vars(DestroyJoin)

FairSpec == Spec /\ Fairness

-----------------------------------------------------------------------------
(* A worker that sleeps unnotified has nothing to do, except while the     *)
(* destructor is between setting terminate and notifying: no wake-up is    *)
(* lost between the worker's test of the predicate and its sleep.          *)
NoLostWakeup ==
  workerPc = "waiting" /\ ~notified =>
    /\ buffer = <<>> /\ bufferPriority = <<>>
    /\ terminate => ownerPc = "notify"

(* The queues, the mutex and the condition variable implement the          *)
(* executor: what a job's number, queue and owner say is its status there. *)
Queued == Range(buffer) \cup Range(bufferPriority)

statusOf ==
  [j \in Jobs |-> IF j > pushed THEN "new"
                 ELSE IF j = job THEN "running"
                 ELSE IF j \in Queued THEN "queued"
                 ELSE "finished"]

JE == INSTANCE JobExecutor WITH
        status <- statusOf, class <- class,
        stopping <- terminate, stopped <- workerPc = "done"

Implements == JE!Spec

(* A destructor that has set terminate returns: the join ends although     *)
(* jobs still wait in the queues.                                          *)
ShutdownCompletes == terminate ~> ownerPc = "gone"

(* A job in either queue is run, unless the object is destroyed first.     *)
JobsServed ==
  \A j \in Jobs : statusOf[j] = "queued" ~> statusOf[j] = "finished" \/ terminate
=============================================================================
