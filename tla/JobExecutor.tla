----------------------------- MODULE JobExecutor -----------------------------
(***************************************************************************)
(* What a DCSWorkerThread promises to its users, with no queue, lock or    *)
(* condition variable in it: jobs are numbered in the order in which they  *)
(* are submitted; one job runs at a time; the next one to run is the       *)
(* oldest command or, when no command waits, the oldest monitoring job; no *)
(* job runs twice; and after a request to stop no job starts any more.     *)
(***************************************************************************)
EXTENDS Naturals

CONSTANT MaxJobs  \* the number of jobs a behaviour submits, at most

VARIABLES
  status,    \* what became of each job
  class,     \* the class in which each job was submitted
  stopping,  \* a stop was requested
  stopped    \* the executor runs no job any more

vars == <<status, class, stopping, stopped>>

Jobs == 1 .. MaxJobs
Classes == {"command", "monitoring"}
Statuses == {"new", "queued", "running", "finished"}

InStatus(s) == {j \in Jobs : status[j] = s}

(* j is to be run no later than k.                                         *)
Precedes(j, k) ==
  \/ class[j] = "command" /\ class[k] = "monitoring"
  \/ class[j] = class[k] /\ j <= k

Init ==
  /\ status = [j \in Jobs |-> "new"]
  /\ class = [j \in Jobs |-> "none"]
  /\ stopping = FALSE
  /\ stopped = FALSE

Submit(j, c) ==
  /\ status[j] = "new"
  /\ \A k \in Jobs : k < j => status[k] # "new"
  /\ status' = [status EXCEPT ![j] = "queued"]
  /\ class' = [class EXCEPT ![j] = c]
  /\ UNCHANGED <<stopping, stopped>>

Start(j) ==
  /\ ~stopping
  /\ status[j] = "queued"
  /\ InStatus("running") = {}
  /\ \A k \in InStatus("queued") : Precedes(j, k)
  /\ status' = [status EXCEPT ![j] = "running"]
  /\ UNCHANGED <<class, stopping, stopped>>

Finish(j) ==
  /\ status[j] = "running"
  /\ status' = [status EXCEPT ![j] = "finished"]
  /\ UNCHANGED <<class, stopping, stopped>>

RequestStop ==
  /\ ~stopping
  /\ stopping' = TRUE
  /\ UNCHANGED <<status, class, stopped>>

Stop ==
  /\ stopping
  /\ ~stopped
  /\ InStatus("running") = {}
  /\ stopped' = TRUE
  /\ UNCHANGED <<status, class, stopping>>

Next ==
  \/ \E j \in Jobs, c \in Classes : Submit(j, c)
  \/ \E j \in Jobs : Start(j) \/ Finish(j)
  \/ RequestStop
  \/ Stop

Spec == Init /\ [][Next]_vars
=============================================================================
