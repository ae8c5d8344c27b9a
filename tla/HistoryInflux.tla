---------------------------- MODULE HistoryInflux ----------------------------
(***************************************************************************)
(* DCSHistoryBackendInflux: every thread that sets a historized variable   *)
(* appends a line to the bucket. A timer of the event loop empties the     *)
(* bucket into a job of the backend's worker thread; the job transfers the *)
(* lines over HTTP and sets the timer for the next round. A value that is  *)
(* null, or a number that is NaN, makes no line; a line is the number of   *)
(* its recording here.                                                     *)
(***************************************************************************)
EXTENDS Naturals, Sequences

CONSTANT MaxLines  \* bound: the number of lines

ASSUME HistoryAssumption == MaxLines \in Nat

VARIABLES
  life,      \* of the server
  bucket,    \* lines that wait for the next round
  mainPc,    \* the main thread is idle or in write, before it pushes the job
  messages,  \* the lines write has taken
  jobs,      \* the worker's queue: the lines of each job
  workerPc,  \* the worker is idle, transfers lines or sets the timer
  job,       \* the lines of the job it runs
  timers,    \* number of timed callbacks the event loop holds
  recorded,  \* history: number of lines recorded
  settled,   \* history: number of lines whose transfer is over
  database,  \* the lines in the database
  failures   \* history: number of transfers reported to have failed

logVars == <<settled, database, failures>>
workerVars == <<workerPc, job>>
vars == <<life, bucket, mainPc, messages, jobs, workerVars, timers, recorded, logVars>>

Lines == 1 .. MaxLines

TypeOK ==
  /\ life \in {"starting", "running", "stopping", "joining", "stopped"}
  /\ bucket \in Seq(Lines)
  /\ mainPc \in {"idle", "push"}
  /\ messages \in Seq(Lines)
  /\ jobs \in Seq(Seq(Lines))
  /\ workerPc \in {"idle", "transfer", "rearm"}
  /\ job \in Seq(Lines)
  /\ timers \in Nat
  /\ recorded \in 0 .. MaxLines
  /\ settled \in 0 .. MaxLines
  /\ database \in Seq(Lines)
  /\ failures \in Nat

(* The constructor is inside its call of write, with an empty bucket.      *)
Init ==
  /\ life = "starting"
  /\ bucket = <<>>
  /\ mainPc = "push"
  /\ messages = <<>>
  /\ jobs = <<>>
  /\ workerPc = "idle"
  /\ job = <<>>
  /\ timers = 0
  /\ recorded = 0
  /\ settled = 0
  /\ database = <<>>
  /\ failures = 0

(* The controllers, which set the variables, are deleted before the        *)
(* backend is.                                                             *)
serverSetHistoryData ==
  /\ life \in {"starting", "running", "stopping"}
  /\ recorded < MaxLines
  /\ recorded' = recorded + 1
  /\ bucket' = Append(bucket, recorded')
  /\ UNCHANGED <<life, mainPc, messages, jobs, workerVars, timers, logVars>>

-----------------------------------------------------------------------------
(* The main thread.                                                        *)

(* The timer fires: writeCallback, the part of write under bucketMutex.    *)
Write ==
  /\ life = "running"
  /\ mainPc = "idle"
  /\ timers > 0
  /\ timers' = timers - 1
  /\ messages' = bucket
  /\ bucket' = <<>>
  /\ mainPc' = "push"
  /\ UNCHANGED <<life, jobs, workerVars, recorded, logVars>>

(* write setting the next timer by itself, without waiting for the job.    *)
MutPushJob ==
  /\ mainPc = "push"
  /\ jobs' = Append(jobs, messages)
  /\ timers' = timers + 1
  /\ messages' = <<>>
  /\ mainPc' = "idle"
  /\ UNCHANGED <<life, bucket, workerVars, recorded, logVars>>

(* write clearing the bucket when it has released bucketMutex.             *)
MutPushJobClears ==
  /\ mainPc = "push"
  /\ jobs' = Append(jobs, messages)
  /\ bucket' = <<>>
  /\ messages' = <<>>
  /\ mainPc' = "idle"
  /\ UNCHANGED <<life, workerVars, timers, recorded, logVars>>

(* The rest of write: worker.push_back.                                    *)
PushJob ==
  /\ mainPc = "push"
  /\ jobs' = Append(jobs, messages)
  /\ messages' = <<>>
  /\ mainPc' = "idle"
  /\ UNCHANGED <<life, bucket, workerVars, timers, recorded, logVars>>

Run ==
  /\ life = "starting"
  /\ mainPc = "idle"
  /\ life' = "running"
  /\ UNCHANGED <<bucket, mainPc, messages, jobs, workerVars, timers, recorded, logVars>>

Stop ==
  /\ life = "running"
  /\ mainPc = "idle"
  /\ life' = "stopping"
  /\ UNCHANGED <<bucket, mainPc, messages, jobs, workerVars, timers, recorded, logVars>>

(* ~DCSServer deletes the backend: its worker starts no further job.       *)
Destroy ==
  /\ life = "stopping"
  /\ life' = "joining"
  /\ UNCHANGED <<bucket, mainPc, messages, jobs, workerVars, timers, recorded, logVars>>

Joined ==
  /\ life = "joining"
  /\ workerPc = "idle"
  /\ life' = "stopped"
  /\ UNCHANGED <<bucket, mainPc, messages, jobs, workerVars, timers, recorded, logVars>>

-----------------------------------------------------------------------------
(* The worker thread.                                                      *)

TakeJob ==
  /\ life # "joining" /\ life # "stopped"
  /\ workerPc = "idle"
  /\ jobs # <<>>
  /\ job' = Head(jobs)
  /\ jobs' = Tail(jobs)
  /\ workerPc' = IF job' = <<>> THEN "rearm" ELSE "transfer"
  /\ UNCHANGED <<life, bucket, mainPc, messages, timers, recorded, logVars>>

(* The job of a transfer that failed ending with it.                       *)
MutTransfer ==
  /\ workerPc = "transfer"
  /\ settled' = settled + Len(job)
  /\ job' = <<>>
  /\ \/ /\ database' = database \o job
        /\ workerPc' = "rearm"
        /\ UNCHANGED failures
     \/ /\ failures' = failures + 1
        /\ workerPc' = "idle"
        /\ UNCHANGED database
  /\ UNCHANGED <<life, bucket, mainPc, messages, jobs, timers, recorded>>

(* db.write: a status other than success and an exception are logged; the  *)
(* lines are gone in every case. Without an answer they may have arrived.  *)
Transfer ==
  /\ workerPc = "transfer"
  /\ settled' = settled + Len(job)
  /\ job' = <<>>
  /\ \/ /\ database' = database \o job
        /\ failures' \in {failures, failures + 1}
     \/ /\ UNCHANGED database
        /\ failures' = failures + 1
  /\ workerPc' = "rearm"
  /\ UNCHANGED <<life, bucket, mainPc, messages, jobs, timers, recorded>>

(* UA_Server_addTimedCallback.                                             *)
Rearm ==
  /\ workerPc = "rearm"
  /\ timers' = timers + 1
  /\ workerPc' = "idle"
  /\ UNCHANGED <<life, bucket, mainPc, messages, jobs, job, recorded, logVars>>

Worker == TakeJob \/ Transfer \/ Rearm

Next ==
  \/ serverSetHistoryData
  \/ Write \/ PushJob
  \/ Run \/ Stop \/ Destroy \/ Joined
  \/ Worker

Spec == Init /\ [][Next]_vars

(* The event loop runs its timers and the worker its jobs, whose transfer  *)
(* times out at last; nothing has to stop the server.                      *)
Fairness ==
  /\ WF_vars(Write)
  /\ WF_vars(PushJob)
  /\ WF_vars(Run)
  /\ WF_vars(Worker)

FairSpec == Spec /\ Fairness

-----------------------------------------------------------------------------
(* At any time there is exactly one round of writing: a timer, or a write, *)
(* or a job. However slow the database is, jobs do not pile up, and a      *)
(* failure does not end the writing.                                       *)
OneRound ==
  timers + Len(jobs) + (IF mainPc = "push" THEN 1 ELSE 0)
    + (IF workerPc = "idle" THEN 0 ELSE 1) = 1

(* Bucket, jobs and transfers implement the log: lines reach the database  *)
(* once and in order, and none is lost but by a failure.                   *)
Log == INSTANCE HistoryLog

Implements == Log!Spec

(* Every recorded line is transferred, with success or not, unless the     *)
(* server stops, which drops the lines of the last round.                  *)
LinesLeave ==
  \A l \in Lines : recorded >= l ~> settled >= l \/ life \notin {"starting", "running"}
=============================================================================
