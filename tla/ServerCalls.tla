----------------------------- MODULE ServerCalls -----------------------------
(***************************************************************************)
(* How DCSServer gets a client's method call executed. The thread of the   *)
(* event loop executes a synchronous method itself. For an asynchronous    *)
(* one it puts an operation into the queue of open62541 and calls          *)
(* asyncCallback, which pushes one job to the dispatcher's worker thread.  *)
(* The job polls the queue until it gets an operation, whichever that is,  *)
(* and pushes its execution to the thread of the operation's device. The   *)
(* event loop sends the answers. The model ends where the event loop does. *)
(***************************************************************************)
EXTENDS Naturals, Sequences, Functions

CONSTANTS
  Devices,   \* the device controllers, one worker thread each
  Stuck,     \* devices whose methods need not return
  MaxCalls   \* bound: the number of calls

ASSUME CallsAssumption == Stuck \subseteq Devices /\ MaxCalls \in Nat

VARIABLES
  running,         \* the event loop has not been told to end
  call,            \* device and kind of each call that has arrived
  arrived,         \* number of calls that have arrived; a call is its number
  toEnqueue,       \* call that the event loop has not put into the queue yet
  toNotify,        \* call for which it has not called asyncCallback yet
  method,          \* synchronous call that it executes
  operations,      \* open62541's queue of asynchronous operations
  dispatcherJobs,  \* jobs waiting in dispatcherThread; they are all alike
  dispatcherPc,    \* where the dispatcher is
  request,         \* the operation its job has got
  commands,        \* bufferPriority of each device thread
  executing,       \* the call each device thread executes
  results,         \* calls whose result has been set
  answered         \* calls whose answer has been sent

mainVars == <<call, arrived, toEnqueue, toNotify, method>>
dispatcherVars == <<dispatcherPc, request>>
deviceVars == <<commands, executing>>
answerVars == <<results, answered>>
vars == <<running, mainVars, operations, dispatcherJobs, dispatcherVars, deviceVars,
          answerVars>>

Calls == 1 .. MaxCalls
NoCall == 0
Kinds == {"async", "sync"}
device(c) == call[c][1]

TypeOK ==
  /\ running \in BOOLEAN
  /\ call \in [Calls -> (Devices \X Kinds) \cup {<<>>}]
  /\ arrived \in 0 .. MaxCalls
  /\ toEnqueue \in Calls \cup {NoCall}
  /\ toNotify \in Calls \cup {NoCall}
  /\ method \in Calls \cup {NoCall}
  /\ operations \in Seq(Calls)
  /\ dispatcherJobs \in Nat
  /\ dispatcherPc \in {"idle", "poll", "push"}
  /\ request \in Calls \cup {NoCall}
  /\ commands \in [Devices -> Seq(Calls)]
  /\ executing \in [Devices -> Calls \cup {NoCall}]
  /\ results \subseteq Calls
  /\ answered \subseteq Calls
  /\ dispatcherPc = "push" => request # NoCall

Init ==
  /\ running = TRUE
  /\ call = [c \in Calls |-> <<>>]
  /\ arrived = 0
  /\ toEnqueue = NoCall
  /\ toNotify = NoCall
  /\ method = NoCall
  /\ operations = <<>>
  /\ dispatcherJobs = 0
  /\ dispatcherPc = "idle"
  /\ request = NoCall
  /\ commands = [d \in Devices |-> <<>>]
  /\ executing = [d \in Devices |-> NoCall]
  /\ results = {}
  /\ answered = {}

-----------------------------------------------------------------------------
(* The event loop.                                                         *)

LoopIdle == running /\ toEnqueue = NoCall /\ toNotify = NoCall /\ method = NoCall

Receive(d, k) ==
  /\ LoopIdle
  /\ arrived < MaxCalls
  /\ arrived' = arrived + 1
  /\ call' = [call EXCEPT ![arrived'] = <<d, k>>]
  /\ \/ /\ k = "async"
        /\ toEnqueue' = arrived'
        /\ toNotify' = arrived'
        /\ UNCHANGED method
     \/ /\ k = "sync"
        /\ method' = arrived'
        /\ UNCHANGED <<toEnqueue, toNotify>>
  /\ UNCHANGED <<running, operations, dispatcherJobs, dispatcherVars, deviceVars,
                 answerVars>>

(* The poll in asyncCallback's job is needed where the job may run before  *)
(* the operation is in the queue, so both orders are possible here.        *)
Enqueue ==
  /\ running
  /\ toEnqueue # NoCall
  /\ operations' = Append(operations, toEnqueue)
  /\ toEnqueue' = NoCall
  /\ UNCHANGED <<running, call, arrived, toNotify, method, dispatcherJobs,
                 dispatcherVars, deviceVars, answerVars>>

(* asyncCallback pushing a job only when no operation waits already.       *)
MutNotify ==
  /\ running
  /\ toNotify # NoCall
  /\ dispatcherJobs' = IF operations = <<>> THEN dispatcherJobs + 1 ELSE dispatcherJobs
  /\ toNotify' = NoCall
  /\ UNCHANGED <<running, call, arrived, toEnqueue, method, operations, dispatcherVars,
                 deviceVars, answerVars>>

(* asyncCallback: one job per call.                                        *)
Notify ==
  /\ running
  /\ toNotify # NoCall
  /\ dispatcherJobs' = dispatcherJobs + 1
  /\ toNotify' = NoCall
  /\ UNCHANGED <<running, call, arrived, toEnqueue, method, operations, dispatcherVars,
                 deviceVars, answerVars>>

(* methodCallback of a synchronous method returns.                         *)
MethodReturns ==
  /\ running
  /\ method # NoCall
  /\ results' = results \cup {method}
  /\ method' = NoCall
  /\ UNCHANGED <<running, call, arrived, toEnqueue, toNotify, operations,
                 dispatcherJobs, dispatcherVars, deviceVars, answered>>

Answer(c) ==
  /\ LoopIdle
  /\ c \in results \ answered
  /\ answered' = answered \cup {c}
  /\ UNCHANGED <<running, mainVars, operations, dispatcherJobs, dispatcherVars,
                 deviceVars, results>>

(* stopHandler, seen at the top of the loop.                               *)
Stop ==
  /\ LoopIdle
  /\ running' = FALSE
  /\ UNCHANGED <<mainVars, operations, dispatcherJobs, dispatcherVars, deviceVars,
                 answerVars>>

-----------------------------------------------------------------------------
(* The dispatcher, one job at a time.                                      *)

DispatcherStart ==
  /\ running
  /\ dispatcherPc = "idle"
  /\ dispatcherJobs > 0
  /\ dispatcherJobs' = dispatcherJobs - 1
  /\ dispatcherPc' = "poll"
  /\ UNCHANGED <<running, mainVars, operations, request, deviceVars, answerVars>>

(* A job that asks for an operation once and, without one, goes on with    *)
(* the null pointer or returns.                                            *)
MutPollOnce ==
  /\ running
  /\ dispatcherPc = "poll"
  /\ dispatcherPc' = "push"
  /\ request' = IF operations = <<>> THEN NoCall ELSE Head(operations)
  /\ operations' = IF operations = <<>> THEN <<>> ELSE Tail(operations)
  /\ UNCHANGED <<running, mainVars, dispatcherJobs, deviceVars, answerVars>>

MutPollGivesUp ==
  /\ running
  /\ dispatcherPc = "poll"
  /\ dispatcherPc' = IF operations = <<>> THEN "idle" ELSE "push"
  /\ request' = IF operations = <<>> THEN NoCall ELSE Head(operations)
  /\ operations' = IF operations = <<>> THEN <<>> ELSE Tail(operations)
  /\ UNCHANGED <<running, mainVars, dispatcherJobs, deviceVars, answerVars>>

(* The loop around UA_Server_getAsyncOperationNonBlocking: a round without *)
(* an operation changes nothing.                                           *)
DispatcherPoll ==
  /\ running
  /\ dispatcherPc = "poll"
  /\ operations # <<>>
  /\ request' = Head(operations)
  /\ operations' = Tail(operations)
  /\ dispatcherPc' = "push"
  /\ UNCHANGED <<running, mainVars, dispatcherJobs, deviceVars, answerVars>>

(* push_front that puts the job in front of the commands that wait.        *)
MutDispatcherPush ==
  /\ running
  /\ dispatcherPc = "push"
  /\ commands' = [commands EXCEPT ![device(request)] = <<request>> \o @]
  /\ dispatcherPc' = "idle"
  /\ request' = NoCall
  /\ UNCHANGED <<running, mainVars, operations, dispatcherJobs, executing, answerVars>>

(* push_front of the device's thread, which is a push behind the other     *)
(* commands (WorkerThread).                                                *)
DispatcherPush ==
  /\ running
  /\ dispatcherPc = "push"
  /\ commands' = [commands EXCEPT ![device(request)] = Append(@, request)]
  /\ dispatcherPc' = "idle"
  /\ request' = NoCall
  /\ UNCHANGED <<running, mainVars, operations, dispatcherJobs, executing, answerVars>>

Dispatcher == DispatcherStart \/ DispatcherPoll \/ DispatcherPush

-----------------------------------------------------------------------------
(* The device threads. What a method does there is DeviceController's      *)
(* matter, and so are the updates a call waits for.                        *)

Execute(d) ==
  /\ running
  /\ executing[d] = NoCall
  /\ commands[d] # <<>>
  /\ executing' = [executing EXCEPT ![d] = Head(commands[d])]
  /\ commands' = [commands EXCEPT ![d] = Tail(@)]
  /\ UNCHANGED <<running, mainVars, operations, dispatcherJobs, dispatcherVars,
                 answerVars>>

SetResult(d) ==
  /\ running
  /\ executing[d] # NoCall
  /\ results' = results \cup {executing[d]}
  /\ executing' = [executing EXCEPT ![d] = NoCall]
  /\ UNCHANGED <<running, mainVars, operations, dispatcherJobs, dispatcherVars,
                 commands, answered>>

Next ==
  \/ \E d \in Devices, k \in Kinds : Receive(d, k)
  \/ Enqueue
  \/ Notify
  \/ MethodReturns
  \/ \E c \in Calls : Answer(c)
  \/ Stop
  \/ Dispatcher
  \/ \E d \in Devices : Execute(d) \/ SetResult(d)

Spec == Init /\ [][Next]_vars

(* A running thread takes its next step, and a method returns on a device  *)
(* that is not stuck; clients need not call.                               *)
Fairness ==
  /\ WF_vars(Enqueue)
  /\ WF_vars(Notify)
  /\ WF_vars(MethodReturns)
  /\ \A c \in Calls : WF_vars(Answer(c))
  /\ WF_vars(Dispatcher)
  /\ \A d \in Devices : WF_vars(Execute(d))
  /\ \A d \in Devices \ Stuck : WF_vars(SetResult(d))

FairSpec == Spec /\ Fairness

-----------------------------------------------------------------------------
One(c) == IF c = NoCall THEN 0 ELSE 1

(* There are as many dispatcher jobs as there are operations for them: no  *)
(* operation is left without a job, and no job polls for an operation that *)
(* never comes, which would hold up every device's calls.                  *)
JobsMatchOperations ==
  dispatcherJobs + One(toNotify) + (IF dispatcherPc = "poll" THEN 1 ELSE 0)
    = Len(operations) + One(toEnqueue)

(* Queues and threads implement the service: every call passes through     *)
(* them once, and the calls of a device stay in order.                     *)
statusOf ==
  [c \in Calls |-> IF c > arrived THEN "new"
                  ELSE IF c \in answered THEN "answered"
                  ELSE IF c \in results THEN "done"
                  ELSE IF c = method \/ \E d \in Devices : c = executing[d] THEN "executing"
                  ELSE "waiting"]

Service == INSTANCE CallService WITH status <- statusOf

Implements == Service!Spec

(* While the server runs, every call is answered, whatever the methods of  *)
(* other devices do: a device that does not answer delays its own calls.   *)
CallsAnswered ==
  \A c \in Calls :
    c <= arrived /\ device(c) \notin Stuck ~> c \in answered \/ ~running
=============================================================================
