-------------------------- MODULE ServerCallsProofs --------------------------
(***************************************************************************)
(* ServerCalls for every number of devices and calls: types, the balance   *)
(* of dispatcher jobs and operations, and that the queues and threads      *)
(* implement CallService. The last rests on IInv: every call that has      *)
(* arrived is in one place, and the places of a device hold its calls in   *)
(* the order of their arrival.                                             *)
(***************************************************************************)
EXTENDS ServerCalls, TLAPS

(* What a queue of calls gives and takes.                                  *)
LEMMA QueueFacts ==
  ASSUME NEW q \in Seq(Calls)
  PROVE  /\ Len(q) \in Nat
         /\ \A c \in Calls : Append(q, c) \in Seq(Calls) /\ Len(Append(q, c)) = Len(q) + 1
         /\ q # <<>> => /\ Head(q) \in Calls
                        /\ Tail(q) \in Seq(Calls)
                        /\ Len(Tail(q)) = Len(q) - 1
  OBVIOUS

LEMMA CallsFacts ==
  /\ \A c \in Calls : c # NoCall
  /\ \A n \in 0 .. MaxCalls : n < MaxCalls => n + 1 \in Calls /\ n + 1 \in 0 .. MaxCalls
  BY CallsAssumption DEF Calls, NoCall

IndInv == TypeOK /\ JobsMatchOperations

(* The steps of the event loop.                                            *)
LEMMA LoopStep ==
  ASSUME IndInv,
         \/ \E d \in Devices, k \in Kinds : Receive(d, k)
         \/ Enqueue \/ Notify \/ MethodReturns \/ (\E c \in Calls : Answer(c)) \/ Stop
  PROVE  IndInv'
  <1> USE DEF IndInv
  <1>1. ASSUME NEW d \in Devices, NEW k \in Kinds, Receive(d, k)
        PROVE  IndInv'
    <2>1. arrived' \in Calls /\ arrived' \in 0 .. MaxCalls /\ arrived' # NoCall
      BY <1>1, CallsFacts DEF Receive, TypeOK
    <2>2. /\ UNCHANGED <<running, operations, dispatcherJobs, dispatcherPc, request>>
          /\ UNCHANGED <<commands, executing, results, answered>>
          /\ toEnqueue = NoCall /\ toNotify = NoCall
      BY <1>1 DEF Receive, LoopIdle, dispatcherVars, deviceVars, answerVars
    <2>3. /\ toEnqueue' \in Calls \cup {NoCall} /\ toNotify' \in Calls \cup {NoCall}
          /\ method' \in Calls \cup {NoCall}
          /\ One(toEnqueue)' = One(toNotify)'
      BY <1>1, <2>1, <2>2 DEF Receive, TypeOK, One
    <2>4. call' \in [Calls -> (Devices \X Kinds) \cup {<<>>}]
      BY <1>1 DEF Receive, TypeOK
    <2>5. TypeOK'
      BY <2>1, <2>2, <2>3, <2>4 DEF TypeOK
    <2>6. One(toEnqueue) = 0 /\ One(toNotify) = 0 /\ One(toEnqueue)' \in {0, 1}
      BY <2>2 DEF One
    <2>7. JobsMatchOperations'
      BY <2>2, <2>3, <2>6, QueueFacts DEF JobsMatchOperations, TypeOK
    <2> QED
      BY <2>5, <2>7
  <1>2. CASE Enqueue
    <2>1. TypeOK'
      BY <1>2, QueueFacts
         DEF Enqueue, TypeOK, dispatcherVars, deviceVars, answerVars
    <2>2. /\ Len(operations') = Len(operations) + 1 /\ Len(operations) \in Nat
          /\ One(toEnqueue) = 1 /\ One(toEnqueue)' = 0
          /\ UNCHANGED <<dispatcherJobs, dispatcherPc, toNotify>>
      BY <1>2, QueueFacts DEF Enqueue, TypeOK, One, dispatcherVars
    <2>3. JobsMatchOperations'
      BY <2>2 DEF JobsMatchOperations, One
    <2> QED
      BY <2>1, <2>3
  <1>3. CASE Notify
    <2>1. TypeOK'
      BY <1>3 DEF Notify, TypeOK, dispatcherVars, deviceVars, answerVars
    <2>2. JobsMatchOperations'
      BY <1>3, QueueFacts DEF Notify, JobsMatchOperations, TypeOK, One, dispatcherVars
    <2> QED
      BY <2>1, <2>2
  <1>4. CASE MethodReturns
    <2>1. TypeOK'
      BY <1>4 DEF MethodReturns, TypeOK, dispatcherVars, deviceVars
    <2>2. JobsMatchOperations'
      BY <1>4 DEF MethodReturns, JobsMatchOperations, One, dispatcherVars
    <2> QED
      BY <2>1, <2>2
  <1>5. ASSUME NEW c \in Calls, Answer(c)
        PROVE  IndInv'
    <2>1. TypeOK'
      BY <1>5 DEF Answer, TypeOK, mainVars, dispatcherVars, deviceVars
    <2>2. JobsMatchOperations'
      BY <1>5 DEF Answer, JobsMatchOperations, One, mainVars, dispatcherVars
    <2> QED
      BY <2>1, <2>2
  <1>6. CASE Stop
    <2>1. TypeOK'
      BY <1>6 DEF Stop, TypeOK, mainVars, dispatcherVars, deviceVars, answerVars
    <2>2. JobsMatchOperations'
      BY <1>6 DEF Stop, JobsMatchOperations, One, mainVars, dispatcherVars
    <2> QED
      BY <2>1, <2>2
  <1> QED
    BY <1>1, <1>2, <1>3, <1>4, <1>5, <1>6

(* The steps of the dispatcher.                                            *)
LEMMA DispatcherStep ==
  ASSUME IndInv, Dispatcher
  PROVE  IndInv'
  <1> USE DEF IndInv
  <1>1. CASE DispatcherStart
    <2>1. TypeOK'
      BY <1>1 DEF DispatcherStart, TypeOK, mainVars, deviceVars, answerVars
    <2>2. JobsMatchOperations'
      BY <1>1, QueueFacts DEF DispatcherStart, JobsMatchOperations, TypeOK, One, mainVars
    <2> QED
      BY <2>1, <2>2
  <1>2. CASE DispatcherPoll
    <2>1. TypeOK'
      BY <1>2, QueueFacts, CallsFacts
         DEF DispatcherPoll, TypeOK, mainVars, deviceVars, answerVars
    <2>2. Len(operations') = Len(operations) - 1 /\ Len(operations) \in Nat
      BY <1>2, QueueFacts DEF DispatcherPoll, TypeOK
    <2>3. JobsMatchOperations'
      BY <1>2, <2>2 DEF DispatcherPoll, JobsMatchOperations, TypeOK, One, mainVars
    <2> QED
      BY <2>1, <2>3
  <1>3. CASE DispatcherPush
    <2>1. request \in Calls
      BY <1>3 DEF DispatcherPush, TypeOK
    <2>2. commands' \in [Devices -> Seq(Calls)]
      <3>1. \A d \in Devices : Append(commands[d], request) \in Seq(Calls)
        BY <2>1, QueueFacts DEF TypeOK
      <3> QED
        BY <1>3, <3>1 DEF DispatcherPush, TypeOK
    <2>3. TypeOK'
      BY <1>3, <2>2 DEF DispatcherPush, TypeOK, mainVars, answerVars
    <2>4. JobsMatchOperations'
      BY <1>3 DEF DispatcherPush, JobsMatchOperations, One, mainVars
    <2> QED
      BY <2>3, <2>4
  <1> QED
    BY <1>1, <1>2, <1>3 DEF Dispatcher

(* The steps of a device thread.                                           *)
LEMMA DeviceThreadStep ==
  ASSUME IndInv, NEW d \in Devices, Execute(d) \/ SetResult(d)
  PROVE  IndInv'
  <1> USE DEF IndInv
  <1>1. CASE Execute(d)
    <2>1. Head(commands[d]) \in Calls /\ Tail(commands[d]) \in Seq(Calls)
      BY <1>1, QueueFacts DEF Execute, TypeOK
    <2>2. TypeOK'
      BY <1>1, <2>1 DEF Execute, TypeOK, mainVars, dispatcherVars, answerVars
    <2>3. JobsMatchOperations'
      BY <1>1 DEF Execute, JobsMatchOperations, One, mainVars, dispatcherVars
    <2> QED
      BY <2>2, <2>3
  <1>2. CASE SetResult(d)
    <2>1. TypeOK'
      BY <1>2 DEF SetResult, TypeOK, mainVars, dispatcherVars
    <2>2. JobsMatchOperations'
      BY <1>2 DEF SetResult, JobsMatchOperations, One, mainVars, dispatcherVars
    <2> QED
      BY <2>1, <2>2
  <1> QED
    BY <1>1, <1>2

(* Every step keeps the types and the balance.                             *)
LEMMA IndInvStep == IndInv /\ [Next]_vars => IndInv'
  <1> SUFFICES ASSUME IndInv, [Next]_vars
               PROVE  IndInv'
    OBVIOUS
  <1>1. CASE UNCHANGED vars
    BY <1>1
       DEF IndInv, TypeOK, JobsMatchOperations, One, vars, mainVars, dispatcherVars,
           deviceVars, answerVars
  <1> QED
    BY <1>1, LoopStep, DispatcherStep, DeviceThreadStep DEF Next

LEMMA SpecIndInv == Spec => []IndInv
  <1>1. Init => IndInv
    BY CallsAssumption DEF Init, IndInv, TypeOK, JobsMatchOperations, One, NoCall
  <1> QED
    BY <1>1, IndInvStep, PTL DEF Spec

(* Every reachable state has the types of TypeOK, and the dispatcher never *)
(* pushes a job without an operation.                                      *)
THEOREM SpecTypeOK == Spec => []TypeOK
  <1>1. IndInv => TypeOK
    BY DEF IndInv
  <1> QED
    BY <1>1, SpecIndInv, PTL

(* However the operation's arrival in the queue and asyncCallback's job    *)
(* race, every job of the dispatcher has its operation, and every          *)
(* operation its job.                                                      *)
THEOREM SpecJobsMatchOperations == Spec => []JobsMatchOperations
  <1>1. IndInv => JobsMatchOperations
    BY DEF IndInv
  <1> QED
    BY <1>1, SpecIndInv, PTL

-----------------------------------------------------------------------------
(* Where a call is. An asynchronous call goes through the places in this   *)
(* order: toEnqueue, operations, request, the commands of its device, and  *)
(* its execution; a synchronous one is executed at once.                   *)
In(q, c) == \E i \in 1 .. Len(q) : q[i] = c

Arriving(c) == c = toEnqueue \/ In(operations, c)
Dispatched(c) == \E d \in Devices : In(commands[d], c)
Queued(c) == Arriving(c) \/ c = request \/ Dispatched(c)
Running(c) == c = method \/ \E d \in Devices : c = executing[d]

Async(c) == c <= arrived /\ \E d \in Devices : call[c] = << d, "async" >>

(* Every call that has arrived is queued, is being executed, or has its    *)
(* result.                                                                 *)
PlaceOK ==
  /\ \A c \in Calls : c <= arrived => call[c] \in Devices \X Kinds
  /\ \A c \in Calls : c > arrived => call[c] = <<>>
  /\ \A c \in Calls : c <= arrived <=> Queued(c) \/ Running(c) \/ c \in results
  /\ \A c \in Calls : c \in results => ~Queued(c) /\ ~Running(c)
  /\ answered \subseteq results

(* The event loop executes its synchronous call before it accepts another. *)
MethodOK ==
  method # NoCall =>
    method = arrived /\ \E d \in Devices : call[method] = << d, "sync" >>

(* The calls on their way are asynchronous, those of a device's thread are *)
(* that device's.                                                          *)
DeviceOK ==
  /\ \A c \in Calls : Queued(c) => Async(c)
  /\ \A d \in Devices, c \in Calls :
       In(commands[d], c) \/ c = executing[d] => Async(c) /\ device(c) = d

Increasing(q) == \A i, j \in 1 .. Len(q) : i < j => q[i] < q[j]

(* What is further on has arrived earlier.                                 *)
OrderOK ==
  /\ Increasing(operations)
  /\ toEnqueue # NoCall => \A b \in Calls : In(operations, b) => b < toEnqueue
  /\ dispatcherPc # "push" => request = NoCall
  /\ request # NoCall => \A b \in Calls : Arriving(b) => request < b
  /\ \A d \in Devices :
       /\ Increasing(commands[d])
       /\ \A b, c \in Calls : In(commands[d], b) /\ (Arriving(c) \/ c = request) => b < c
       /\ executing[d] # NoCall =>
            \A c \in Calls : Arriving(c) \/ c = request \/ In(commands[d], c) => executing[d] < c

IInv == IndInv /\ PlaceOK /\ MethodOK /\ DeviceOK /\ OrderOK

(* What a queue holds after a call is put at its end, or its head taken.   *)
LEMMA InFacts ==
  ASSUME NEW q \in Seq(Calls)
  PROVE  /\ \A c : In(q, c) => c \in Calls
         /\ \A b \in Calls, c \in Calls : In(Append(q, b), c) <=> In(q, c) \/ c = b
         /\ q # <<>> => \A c \in Calls : In(q, c) <=> c = Head(q) \/ In(Tail(q), c)
  <1>1. \A c : In(q, c) => c \in Calls
    BY DEF In
  <1>2. ASSUME NEW b \in Calls, NEW c \in Calls
        PROVE  In(Append(q, b), c) <=> In(q, c) \/ c = b
    <2> DEFINE r == Append(q, b)
    <2>1. /\ Len(r) = Len(q) + 1 /\ Len(q) \in Nat
          /\ \A i \in 1 .. Len(q) : r[i] = q[i]
          /\ r[Len(q) + 1] = b
      OBVIOUS
    <2>2. 1 .. Len(r) = (1 .. Len(q)) \cup {Len(q) + 1}
      BY <2>1
    <2> HIDE DEF r
    <2>3. In(r, c) <=> In(q, c) \/ c = b
      BY <2>1, <2>2 DEF In
    <2> QED
      BY <2>3 DEF r
  <1>3. ASSUME q # <<>>, NEW c \in Calls
        PROVE  In(q, c) <=> c = Head(q) \/ In(Tail(q), c)
    <2> DEFINE t == Tail(q)
    <2>1. /\ Len(t) = Len(q) - 1 /\ Len(q) \in Nat \ {0}
          /\ \A i \in 1 .. Len(t) : t[i] = q[i + 1]
          /\ Head(q) = q[1]
      BY <1>3
    <2> HIDE DEF t
    <2>2. \A i \in 1 .. Len(q) : i = 1 \/ (i - 1 \in 1 .. Len(t) /\ t[i - 1] = q[i])
      BY <2>1
    <2>3. \A i \in 1 .. Len(t) : i + 1 \in 1 .. Len(q)
      BY <2>1
    <2>4. 1 \in 1 .. Len(q)
      BY <2>1
    <2>5. In(q, c) <=> c = Head(q) \/ In(t, c)
      BY <2>1, <2>2, <2>3, <2>4 DEF In
    <2> QED
      BY <2>5 DEF t
  <1> QED
    BY <1>1, <1>2, <1>3

(* Queues stay in order when the latest call is put at their end, or their *)
(* head, the earliest, is taken.                                           *)
LEMMA IncreasingFacts ==
  ASSUME NEW q \in Seq(Calls), Increasing(q)
  PROVE  /\ \A b \in Calls : (\A c \in Calls : In(q, c) => c < b) => Increasing(Append(q, b))
         /\ q # <<>> => /\ Increasing(Tail(q))
                        /\ \A c \in Calls : In(Tail(q), c) => Head(q) < c
  <1>1. ASSUME NEW b \in Calls, \A c \in Calls : In(q, c) => c < b
        PROVE  Increasing(Append(q, b))
    <2> DEFINE r == Append(q, b)
    <2>1. /\ Len(r) = Len(q) + 1 /\ Len(q) \in Nat
          /\ \A i \in 1 .. Len(q) : r[i] = q[i] /\ q[i] \in Calls
          /\ r[Len(q) + 1] = b
      OBVIOUS
    <2>2. \A i \in 1 .. Len(q) : q[i] < b
      BY <1>1, <2>1 DEF In
    <2> HIDE DEF r
    <2>3. \A i, j \in 1 .. Len(r) : i < j => i \in 1 .. Len(q) /\ (j \in 1 .. Len(q) \/ j = Len(q) + 1)
      BY <2>1
    <2>4. Increasing(r)
      BY <2>1, <2>2, <2>3 DEF Increasing
    <2> QED
      BY <2>4 DEF r
  <1>2. ASSUME q # <<>>
        PROVE  Increasing(Tail(q)) /\ \A c \in Calls : In(Tail(q), c) => Head(q) < c
    <2> DEFINE t == Tail(q)
    <2>1. /\ Len(t) = Len(q) - 1 /\ Len(q) \in Nat \ {0}
          /\ \A i \in 1 .. Len(t) : t[i] = q[i + 1]
          /\ Head(q) = q[1]
      BY <1>2
    <2> HIDE DEF t
    <2>2. \A i \in 1 .. Len(t) : 1 \in 1 .. Len(q) /\ i + 1 \in 1 .. Len(q) /\ 1 < i + 1
      BY <2>1
    <2>3. \A c \in Calls : In(t, c) => Head(q) < c
      BY <2>1, <2>2 DEF In, Increasing
    <2>4. \A i, j \in 1 .. Len(t) : i < j => i + 1 < j + 1
      BY <2>1
    <2>5. Increasing(t)
      BY <2>1, <2>2, <2>4 DEF Increasing
    <2> QED
      BY <2>3, <2>5 DEF t
  <1> QED
    BY <1>1, <1>2

(* The properties in terms of where the calls are.                         *)
LEMMA NumbersOfCalls ==
  ASSUME IInv
  PROVE  /\ NoCall \notin Calls /\ Calls \subseteq Nat
         /\ operations \in Seq(Calls) /\ arrived \in Nat
         /\ \A d \in Devices : commands[d] \in Seq(Calls)
         /\ \A c : In(operations, c) => c \in Calls
         /\ \A d \in Devices : \A c : In(commands[d], c) => c \in Calls
  <1>1. TypeOK
    BY DEF IInv, IndInv
  <1>2. NoCall \notin Calls /\ Calls \subseteq Nat
    BY CallsAssumption DEF Calls, NoCall
  <1>3. operations \in Seq(Calls) /\ \A d \in Devices : commands[d] \in Seq(Calls)
    BY <1>1 DEF TypeOK
  <1>4. arrived \in Nat
    BY <1>1, CallsAssumption DEF TypeOK
  <1> QED
    BY <1>2, <1>3, <1>4, InFacts

(* A step that moves no call keeps every call where it is.                 *)
LEMMA NoMove ==
  ASSUME PlaceOK, MethodOK, DeviceOK, OrderOK,
         UNCHANGED <<call, arrived, toEnqueue, operations, request, commands>>,
         UNCHANGED <<method, executing, results>>,
         answered' \subseteq results',
         dispatcherPc' = "push" <=> dispatcherPc = "push"
  PROVE  PlaceOK' /\ MethodOK' /\ DeviceOK' /\ OrderOK'
  <1>1. \A c : /\ Arriving(c)' <=> Arriving(c)
               /\ Dispatched(c)' <=> Dispatched(c)
               /\ Queued(c)' <=> Queued(c)
               /\ Running(c)' <=> Running(c)
               /\ Async(c)' <=> Async(c)
               /\ device(c)' = device(c)
    BY DEF Arriving, Dispatched, Queued, Running, Async, device
  <1>2. PlaceOK'
    BY <1>1 DEF PlaceOK
  <1>3. MethodOK'
    BY DEF MethodOK
  <1>4. DeviceOK'
    BY <1>1 DEF DeviceOK
  <1>5. OrderOK'
    BY <1>1 DEF OrderOK
  <1> QED
    BY <1>2, <1>3, <1>4, <1>5

(* A call arrives: it is the latest, and nowhere else.                     *)
LEMMA ReceiveMoves ==
  ASSUME IInv, NEW d \in Devices, NEW k \in Kinds, Receive(d, k)
  PROVE  PlaceOK' /\ MethodOK' /\ DeviceOK' /\ OrderOK'
  <1>0. PICK n : n = arrived + 1
    OBVIOUS
  <1>1. /\ n \in Calls /\ arrived' = n /\ arrived \in Nat
        /\ \A c \in Calls : c \in Nat /\ (c <= n <=> c <= arrived \/ c = n)
        /\ NoCall \notin Calls
    BY <1>0, NumbersOfCalls, CallsFacts DEF Receive, IInv, IndInv, TypeOK
  <1>2. /\ toEnqueue = NoCall /\ toNotify = NoCall /\ method = NoCall
        /\ UNCHANGED <<operations, request, dispatcherPc, commands, executing, results, answered>>
    BY DEF Receive, LoopIdle, dispatcherVars, deviceVars, answerVars
  <1>3. /\ call' = [call EXCEPT ![n] = << d, k >>]
        /\ call \in [Calls -> (Devices \X Kinds) \cup {<<>>}]
    BY <1>1 DEF Receive, IInv, IndInv, TypeOK
  <1>4. /\ call'[n] = << d, k >>
        /\ \A c \in Calls : c # n => call'[c] = call[c]
    BY <1>1, <1>3
  <1>5. \A c \in Calls : Queued(c) \/ Running(c) \/ c \in results => c <= arrived /\ c # n
    <2>1. \A c \in Calls : c <= arrived => c # n
      BY <1>0, <1>1
    <2>2. \A c \in Calls : Queued(c) \/ Running(c) \/ c \in results => c <= arrived
      BY Zenon DEF IInv, PlaceOK
    <2> QED
      BY <2>1, <2>2
  <1>6. \A c \in Calls : c # n => /\ Async(c) => Async(c)'
                                  /\ device(c)' = device(c)
    BY <1>1, <1>4 DEF Async, device
  <1>7. ASSUME NEW c \in Calls
        PROVE  /\ c <= n => call'[c] \in Devices \X Kinds
               /\ c > n => call'[c] = <<>>
    <2>1. c > n => c > arrived /\ c # n
      BY <1>0, <1>1
    <2>2. call'[n] \in Devices \X Kinds
      BY <1>4
    <2> QED
      BY <1>1, <1>4, <2>1, <2>2 DEF IInv, PlaceOK
  <1>8. CASE k = "async"
    <2>1. toEnqueue' = n /\ method' = NoCall
      BY <1>1, <1>2, <1>8 DEF Receive
    <2>2. \A c \in Calls : /\ Arriving(c)' <=> Arriving(c) \/ c = n
                           /\ Dispatched(c)' <=> Dispatched(c)
                           /\ Queued(c)' <=> Queued(c) \/ c = n
                           /\ Running(c)' <=> Running(c)
      BY <1>1, <1>2, <2>1 DEF Arriving, Dispatched, Queued, Running
    <2>3. Async(n)'
      BY <1>1, <1>4, <1>8 DEF Async
    <2>4. PlaceOK'
      BY <1>1, <1>2, <1>5, <1>7, <2>2 DEF IInv, PlaceOK
    <2>5. MethodOK'
      BY <2>1 DEF MethodOK
    <2>6. DeviceOK'
      <3>1. \A c \in Calls : Queued(c)' => Async(c)'
        BY <1>5, <1>6, <2>2, <2>3 DEF IInv, DeviceOK
      <3>2. ASSUME NEW e \in Devices, NEW c \in Calls, In(commands[e], c) \/ c = executing[e]
            PROVE  Async(c)' /\ device(c)' = e
        <4>1. Async(c) /\ device(c) = e /\ (Queued(c) \/ Running(c))
          BY <3>2 DEF IInv, DeviceOK, Queued, Dispatched, Running
        <4> QED
          BY <4>1, <1>5, <1>6
      <3> QED
        BY <3>1, <3>2, <1>2 DEF DeviceOK
    <2>7. OrderOK'
      <3>1. \A b \in Calls : In(operations, b) \/ b = request => b < n
        BY <1>1, <1>5 DEF Queued, Arriving
      <3>2. \A e \in Devices, b \in Calls : In(commands[e], b) \/ b = executing[e] => b < n
        BY <1>1, <1>5 DEF Queued, Dispatched, Running
      <3>3. /\ request \in Calls \cup {NoCall}
            /\ \A e \in Devices : executing[e] \in Calls \cup {NoCall}
        BY DEF IInv, IndInv, TypeOK
      <3> QED
        BY <1>1, <1>2, <2>1, <2>2, <3>1, <3>2, <3>3 DEF IInv, OrderOK
    <2> QED
      BY <2>4, <2>5, <2>6, <2>7
  <1>9. CASE k = "sync"
    <2>1. toEnqueue' = NoCall /\ method' = n
      BY <1>1, <1>2, <1>9 DEF Receive
    <2>2. \A c \in Calls : /\ Arriving(c)' <=> Arriving(c)
                           /\ Dispatched(c)' <=> Dispatched(c)
                           /\ Queued(c)' <=> Queued(c)
                           /\ Running(c)' <=> Running(c) \/ c = n
      BY <1>1, <1>2, <2>1 DEF Arriving, Dispatched, Queued, Running
    <2>3. PlaceOK'
      BY <1>1, <1>2, <1>5, <1>7, <2>2 DEF IInv, PlaceOK
    <2>4. MethodOK'
      BY <1>1, <1>4, <1>9, <2>1 DEF MethodOK
    <2>5. DeviceOK'
      <3>1. \A c \in Calls : Queued(c)' => Async(c)'
        BY <1>5, <1>6, <2>2 DEF IInv, DeviceOK
      <3>2. ASSUME NEW e \in Devices, NEW c \in Calls, In(commands[e], c) \/ c = executing[e]
            PROVE  Async(c)' /\ device(c)' = e
        <4>1. Async(c) /\ device(c) = e /\ (Queued(c) \/ Running(c))
          BY <3>2 DEF IInv, DeviceOK, Queued, Dispatched, Running
        <4> QED
          BY <4>1, <1>5, <1>6
      <3> QED
        BY <3>1, <3>2, <1>2 DEF DeviceOK
    <2>6. OrderOK'
      BY <1>1, <1>2, <2>1, <2>2 DEF IInv, OrderOK
    <2> QED
      BY <2>3, <2>4, <2>5, <2>6
  <1> QED
    BY <1>8, <1>9 DEF Kinds

(* A call gets into the queue of operations, behind the others.            *)
LEMMA EnqueueMoves ==
  ASSUME IInv, Enqueue
  PROVE  PlaceOK' /\ MethodOK' /\ DeviceOK' /\ OrderOK'
  <1>1. /\ toEnqueue \in Calls /\ toEnqueue' = NoCall
        /\ operations' = Append(operations, toEnqueue)
        /\ UNCHANGED <<call, arrived, method, request, dispatcherPc, commands, executing>>
        /\ UNCHANGED <<results, answered>>
    BY DEF Enqueue, dispatcherVars, deviceVars, answerVars, IInv, IndInv, TypeOK
  <1>2. \A c \in Calls : In(operations', c) <=> In(operations, c) \/ c = toEnqueue
    BY <1>1, InFacts, NumbersOfCalls
  <1>3. \A c \in Calls : /\ Arriving(c)' <=> Arriving(c)
                         /\ Dispatched(c)' <=> Dispatched(c)
                         /\ Queued(c)' <=> Queued(c)
                         /\ Running(c)' <=> Running(c)
                         /\ Async(c)' <=> Async(c)
                         /\ device(c)' = device(c)
    BY <1>1, <1>2, NumbersOfCalls DEF Arriving, Dispatched, Queued, Running, Async, device
  <1>4. PlaceOK'
    BY <1>1, <1>3 DEF IInv, PlaceOK
  <1>5. MethodOK'
    BY <1>1 DEF IInv, MethodOK
  <1>6. DeviceOK'
    BY <1>1, <1>3 DEF IInv, DeviceOK
  <1>7. Increasing(operations')
    BY <1>1, IncreasingFacts, NumbersOfCalls DEF IInv, OrderOK
  <1>8. OrderOK'
    BY <1>1, <1>3, <1>7 DEF IInv, OrderOK
  <1> QED
    BY <1>4, <1>5, <1>6, <1>8

(* The synchronous call of the event loop gets its result.                 *)
LEMMA MethodReturnsMoves ==
  ASSUME IInv, MethodReturns
  PROVE  PlaceOK' /\ MethodOK' /\ DeviceOK' /\ OrderOK'
  <1>1. /\ method \in Calls /\ method' = NoCall /\ NoCall \notin Calls
        /\ results' = results \cup {method}
        /\ UNCHANGED <<call, arrived, toEnqueue, operations, request, dispatcherPc>>
        /\ UNCHANGED <<commands, executing, answered>>
    BY NumbersOfCalls
       DEF MethodReturns, dispatcherVars, deviceVars, answerVars, IInv, IndInv, TypeOK
  <1>2. ~Async(method)
    BY <1>1 DEF IInv, MethodOK, Async
  <1>3. ~Queued(method) /\ \A d \in Devices : executing[d] # method
    BY <1>1, <1>2 DEF IInv, DeviceOK
  <1>4. \A c \in Calls : /\ Arriving(c)' <=> Arriving(c)
                         /\ Dispatched(c)' <=> Dispatched(c)
                         /\ Queued(c)' <=> Queued(c)
                         /\ Running(c)' <=> Running(c) /\ c # method
                         /\ Async(c)' <=> Async(c)
                         /\ device(c)' = device(c)
    BY <1>1, <1>3 DEF Arriving, Dispatched, Queued, Running, Async, device
  <1>5. Running(method)
    BY DEF Running
  <1>6. results \subseteq Calls
    BY DEF IInv, IndInv, TypeOK
  <1>7. PlaceOK'
    BY <1>1, <1>3, <1>4, <1>5, <1>6 DEF IInv, PlaceOK
  <1>8. MethodOK'
    BY <1>1 DEF MethodOK
  <1>9. DeviceOK'
    BY <1>1, <1>4 DEF IInv, DeviceOK
  <1>10. OrderOK'
    BY <1>1, <1>4 DEF IInv, OrderOK
  <1> QED
    BY <1>7, <1>8, <1>9, <1>10

(* The dispatcher gets the earliest operation.                             *)
LEMMA PollMoves ==
  ASSUME IInv, DispatcherPoll
  PROVE  PlaceOK' /\ MethodOK' /\ DeviceOK' /\ OrderOK'
  <1> DEFINE h == Head(operations)
  <1>1. /\ operations # <<>> /\ operations' = Tail(operations) /\ request' = h
        /\ dispatcherPc = "poll" /\ dispatcherPc' = "push"
        /\ UNCHANGED <<call, arrived, toEnqueue, method, commands, executing>>
        /\ UNCHANGED <<results, answered>>
    BY DEF DispatcherPoll, mainVars, deviceVars, answerVars
  <1>2. /\ request = NoCall /\ NoCall \notin Calls /\ h \in Calls /\ h \in Nat
        /\ operations' \in Seq(Calls)
    BY <1>1, NumbersOfCalls, QueueFacts DEF IInv, OrderOK
  <1>3. /\ \A c \in Calls : In(operations, c) <=> c = h \/ In(operations', c)
        /\ Increasing(operations')
        /\ \A c \in Calls : In(operations', c) => h < c
    BY <1>1, InFacts, IncreasingFacts, NumbersOfCalls DEF IInv, OrderOK
  <1> HIDE DEF h
  <1>4. toEnqueue # NoCall => h < toEnqueue
    BY <1>2, <1>3 DEF IInv, OrderOK
  <1>5. \A c \in Calls : Arriving(c)' <=> Arriving(c) /\ c # h
    BY <1>1, <1>2, <1>3, <1>4 DEF Arriving
  <1>6. Arriving(h)
    BY <1>2, <1>3 DEF Arriving
  <1>7. \A c \in Calls : /\ Dispatched(c)' <=> Dispatched(c)
                         /\ Running(c)' <=> Running(c)
                         /\ Async(c)' <=> Async(c)
                         /\ device(c)' = device(c)
    BY <1>1 DEF Dispatched, Running, Async, device
  <1>8. \A c \in Calls : Queued(c)' <=> Queued(c)
    BY <1>1, <1>2, <1>5, <1>6, <1>7 DEF Queued
  <1>9. PlaceOK'
    BY <1>1, <1>7, <1>8 DEF IInv, PlaceOK
  <1>10. MethodOK'
    BY <1>1 DEF IInv, MethodOK
  <1>11. DeviceOK'
    BY <1>1, <1>7, <1>8 DEF IInv, DeviceOK
  <1>12. \A b \in Calls : Arriving(b)' => h < b
    BY <1>1, <1>3, <1>4, <1>2 DEF Arriving
  <1>13. OrderOK'
    BY <1>1, <1>2, <1>3, <1>4, <1>5, <1>6, <1>12 DEF IInv, OrderOK
  <1> QED
    BY <1>9, <1>10, <1>11, <1>13

(* The dispatcher puts its operation behind the commands of the device.    *)
LEMMA PushMoves ==
  ASSUME IInv, DispatcherPush
  PROVE  PlaceOK' /\ MethodOK' /\ DeviceOK' /\ OrderOK'
  <1> DEFINE e == device(request)
  <1>1. /\ dispatcherPc = "push" /\ dispatcherPc' = "idle" /\ request' = NoCall
        /\ commands' = [commands EXCEPT ![e] = Append(@, request)]
        /\ UNCHANGED <<call, arrived, toEnqueue, operations, method, executing>>
        /\ UNCHANGED <<results, answered>>
    BY DEF DispatcherPush, mainVars, answerVars
  <1>2. /\ request \in Calls /\ NoCall \notin Calls
        /\ commands \in [Devices -> Seq(Calls)]
    BY <1>1, NumbersOfCalls DEF IInv, IndInv, TypeOK
  <1>3. Async(request) /\ e \in Devices
    BY <1>2 DEF IInv, DeviceOK, Queued, Async, device
  <1>4. /\ commands'[e] = Append(commands[e], request)
        /\ \A d \in Devices : d # e => commands'[d] = commands[d]
    BY <1>1, <1>2, <1>3
  <1>5. \A d \in Devices, c \in Calls :
          In(commands'[d], c) <=> In(commands[d], c) \/ (d = e /\ c = request)
    <2>1. \A c \in Calls : In(commands'[e], c) <=> In(commands[e], c) \/ c = request
      BY <1>2, <1>3, <1>4, InFacts
    <2> QED
      BY <1>4, <2>1
  <1>6. \A d \in Devices : Increasing(commands'[d])
    <2>1. \A c \in Calls : In(commands[e], c) => c < request
      BY <1>2, <1>3 DEF IInv, OrderOK
    <2>2. Increasing(Append(commands[e], request))
      BY <1>2, <1>3, <2>1, IncreasingFacts DEF IInv, OrderOK
    <2> QED
      BY <1>4, <2>2 DEF IInv, OrderOK
  <1>7. \A c \in Calls : /\ Arriving(c)' <=> Arriving(c)
                         /\ Running(c)' <=> Running(c)
                         /\ Async(c)' <=> Async(c)
                         /\ device(c)' = device(c)
    BY <1>1 DEF Arriving, Running, Async, device
  <1>8. \A c \in Calls : Dispatched(c)' <=> Dispatched(c) \/ c = request
    BY <1>3, <1>5 DEF Dispatched
  <1>9. \A c \in Calls : Queued(c)' <=> Queued(c)
    BY <1>1, <1>2, <1>7, <1>8 DEF Queued
  <1>10. PlaceOK'
    BY <1>1, <1>7, <1>9 DEF IInv, PlaceOK
  <1>11. MethodOK'
    BY <1>1 DEF IInv, MethodOK
  <1>12. DeviceOK'
    BY <1>1, <1>2, <1>3, <1>5, <1>7, <1>9 DEF IInv, DeviceOK
  <1>13. OrderOK'
    <2>1. \A c \in Calls : Arriving(c) => request < c
      BY <1>2 DEF IInv, OrderOK
    <2>2. ASSUME NEW d \in Devices
          PROVE  /\ Increasing(commands'[d])
                 /\ \A b, c \in Calls : In(commands'[d], b) /\ Arriving(c) => b < c
                 /\ executing[d] # NoCall =>
                      \A c \in Calls : Arriving(c) \/ In(commands'[d], c) => executing[d] < c
      BY <1>2, <1>5, <1>6, <2>1 DEF IInv, OrderOK
    <2> QED
      BY <1>1, <1>2, <1>7, <2>2 DEF IInv, OrderOK
  <1> QED
    BY <1>10, <1>11, <1>12, <1>13

(* A device's thread begins with the earliest of its commands.             *)
LEMMA ExecuteMoves ==
  ASSUME IInv, NEW d \in Devices, Execute(d)
  PROVE  PlaceOK' /\ MethodOK' /\ DeviceOK' /\ OrderOK'
  <1> DEFINE h == Head(commands[d])
  <1>1. /\ commands[d] # <<>> /\ executing[d] = NoCall
        /\ commands' = [commands EXCEPT ![d] = Tail(@)]
        /\ executing' = [executing EXCEPT ![d] = h]
        /\ UNCHANGED <<call, arrived, toEnqueue, operations, method, request, dispatcherPc>>
        /\ UNCHANGED <<results, answered>>
    BY DEF Execute, mainVars, dispatcherVars, answerVars
  <1>2. /\ commands \in [Devices -> Seq(Calls)] /\ NoCall \notin Calls
        /\ executing \in [Devices -> Calls \cup {NoCall}]
        /\ h \in Calls /\ request \in Calls \cup {NoCall}
    BY <1>1, NumbersOfCalls, QueueFacts DEF IInv, IndInv, TypeOK
  <1>3. /\ commands'[d] = Tail(commands[d]) /\ executing'[d] = h
        /\ \A e \in Devices : e # d => commands'[e] = commands[e] /\ executing'[e] = executing[e]
    BY <1>1, <1>2
  <1>4. /\ \A c \in Calls : In(commands[d], c) <=> c = h \/ In(commands'[d], c)
        /\ Increasing(commands'[d])
        /\ \A c \in Calls : In(commands'[d], c) => h < c
    BY <1>1, <1>2, <1>3, InFacts, IncreasingFacts DEF IInv, OrderOK
  <1> HIDE DEF h
  <1>5. /\ Async(h) /\ device(h) = d /\ In(commands[d], h) /\ Queued(h)
        /\ \A e \in Devices : e # d => ~In(commands[e], h)
    BY <1>2, <1>4 DEF IInv, DeviceOK, Queued, Dispatched
  <1>6. /\ \A c \in Calls : Arriving(c) \/ c = request => h < c
        /\ ~Arriving(h) /\ h # request
    BY <1>2, <1>5, CallsAssumption DEF IInv, OrderOK, Calls
  <1>7. ~In(commands'[d], h)
    BY <1>2, <1>4, CallsAssumption DEF Calls
  <1>8. \A c \in Calls : /\ Arriving(c)' <=> Arriving(c)
                         /\ Async(c)' <=> Async(c)
                         /\ device(c)' = device(c)
    BY <1>1 DEF Arriving, Async, device
  <1>9. \A c \in Calls : Running(c)' <=> Running(c) \/ c = h
    BY <1>1, <1>2, <1>3 DEF Running
  <1>10. \A c \in Calls : Dispatched(c)' <=> Dispatched(c) /\ c # h
    <2>1. ASSUME NEW c \in Calls, NEW e \in Devices
          PROVE  In(commands'[e], c) <=> In(commands[e], c) /\ c # h
      BY <1>3, <1>4, <1>5, <1>7
    <2> QED
      BY <2>1 DEF Dispatched
  <1>11. \A c \in Calls : Queued(c)' <=> Queued(c) /\ c # h
    BY <1>1, <1>6, <1>8, <1>10 DEF Queued
  <1>12. PlaceOK'
    BY <1>1, <1>2, <1>5, <1>9, <1>11 DEF IInv, PlaceOK
  <1>13. MethodOK'
    BY <1>1 DEF IInv, MethodOK
  <1>14. DeviceOK'
    <2>1. \A c \in Calls : Queued(c)' => Async(c)'
      BY <1>8, <1>11 DEF IInv, DeviceOK
    <2>2. ASSUME NEW e \in Devices, NEW c \in Calls, In(commands'[e], c) \/ c = executing'[e]
          PROVE  Async(c) /\ device(c) = e
      BY <1>2, <1>3, <1>4, <1>5, <2>2 DEF IInv, DeviceOK
    <2> QED
      BY <1>8, <2>1, <2>2 DEF DeviceOK
  <1>15. OrderOK'
    <2>1. ASSUME NEW e \in Devices
          PROVE  /\ Increasing(commands'[e])
                 /\ \A b, c \in Calls :
                      In(commands'[e], b) /\ (Arriving(c) \/ c = request) => b < c
                 /\ executing'[e] # NoCall =>
                      \A c \in Calls :
                        Arriving(c) \/ c = request \/ In(commands'[e], c) => executing'[e] < c
      BY <1>2, <1>3, <1>4, <1>6 DEF IInv, OrderOK
    <2> QED
      BY <1>1, <1>8, <2>1 DEF IInv, OrderOK
  <1> QED
    BY <1>12, <1>13, <1>14, <1>15

(* The call that a device executes gets its result.                        *)
LEMMA SetResultMoves ==
  ASSUME IInv, NEW d \in Devices, SetResult(d)
  PROVE  PlaceOK' /\ MethodOK' /\ DeviceOK' /\ OrderOK'
  <1> DEFINE c0 == executing[d]
  <1>1. /\ c0 # NoCall /\ results' = results \cup {c0}
        /\ executing' = [executing EXCEPT ![d] = NoCall]
        /\ UNCHANGED <<call, arrived, toEnqueue, operations, method, request, dispatcherPc>>
        /\ UNCHANGED <<commands, answered>>
    BY DEF SetResult, mainVars, dispatcherVars
  <1>2. /\ executing \in [Devices -> Calls \cup {NoCall}] /\ NoCall \notin Calls
        /\ c0 \in Calls /\ results \subseteq Calls
    BY <1>1, NumbersOfCalls DEF IInv, IndInv, TypeOK
  <1>3. /\ executing'[d] = NoCall
        /\ \A e \in Devices : e # d => executing'[e] = executing[e] /\ executing[e] # c0
    BY <1>1, <1>2 DEF IInv, DeviceOK
  <1>4. ~Queued(c0)
    <2>1. Async(c0) /\ device(c0) = d
      BY <1>2 DEF IInv, DeviceOK
    <2>2. ~Arriving(c0) /\ c0 # request /\ ~In(commands[d], c0)
      BY <1>1, <1>2, CallsAssumption DEF IInv, OrderOK, Calls
    <2>3. \A e \in Devices : e # d => ~In(commands[e], c0)
      BY <1>2, <2>1 DEF IInv, DeviceOK
    <2> QED
      BY <2>2, <2>3 DEF Queued, Dispatched
  <1>5. c0 # method
    BY <1>1, <1>2 DEF IInv, MethodOK, DeviceOK, Async
  <1>6. \A c \in Calls : /\ Arriving(c)' <=> Arriving(c)
                         /\ Dispatched(c)' <=> Dispatched(c)
                         /\ Queued(c)' <=> Queued(c)
                         /\ Async(c)' <=> Async(c)
                         /\ device(c)' = device(c)
    BY <1>1 DEF Arriving, Dispatched, Queued, Async, device
  <1>7. \A c \in Calls : Running(c)' <=> Running(c) /\ c # c0
    BY <1>1, <1>2, <1>3, <1>5 DEF Running
  <1>8. Running(c0)
    BY DEF Running
  <1>9. PlaceOK'
    BY <1>1, <1>2, <1>4, <1>6, <1>7, <1>8 DEF IInv, PlaceOK
  <1>10. MethodOK'
    BY <1>1 DEF IInv, MethodOK
  <1>11. DeviceOK'
    BY <1>1, <1>2, <1>3, <1>6 DEF IInv, DeviceOK
  <1>12. OrderOK'
    BY <1>1, <1>3, <1>6 DEF IInv, OrderOK
  <1> QED
    BY <1>9, <1>10, <1>11, <1>12

(* A queued call is not being executed.                                    *)
LEMMA QueuedNotRunning ==
  ASSUME IInv, NEW c \in Calls, Queued(c)
  PROVE  ~Running(c)
  <1>1. Async(c)
    BY DEF IInv, DeviceOK
  <1>2. c # method
    BY <1>1, NumbersOfCalls DEF IInv, MethodOK, Async
  <1>3. ASSUME NEW d \in Devices, c = executing[d]
        PROVE  FALSE
    <2>1. device(c) = d /\ c # NoCall /\ ~(c < c)
      BY <1>3, NumbersOfCalls DEF IInv, DeviceOK
    <2>2. ~Arriving(c) /\ c # request /\ ~In(commands[d], c)
      BY <1>3, <2>1 DEF IInv, OrderOK
    <2>3. \A e \in Devices : In(commands[e], c) => e = d
      BY <2>1 DEF IInv, DeviceOK
    <2> QED
      BY <2>2, <2>3 DEF Queued, Dispatched
  <1> QED
    BY <1>2, <1>3 DEF Running

(* The inductive invariant.                                                *)
LEMMA SpecIInv == Spec => []IInv
  <1>1. Init => IInv
    <2> SUFFICES ASSUME Init
                 PROVE  IInv
      OBVIOUS
    <2>1. IndInv
      BY CallsAssumption DEF Init, IndInv, TypeOK, JobsMatchOperations, One, NoCall
    <2>2. /\ \A c \in Calls : c # NoCall /\ c > arrived /\ ~(c <= arrived) /\ call[c] = <<>>
          /\ \A d \in Devices : commands[d] = <<>> /\ executing[d] = NoCall
      BY CallsAssumption DEF Init, Calls, NoCall
    <2>3. \A c : ~In(<<>>, c)
      BY DEF In
    <2>4. \A c \in Calls : ~Arriving(c) /\ ~Queued(c) /\ ~Running(c)
      BY <2>2, <2>3 DEF Init, Arriving, Dispatched, Queued, Running
    <2>5. PlaceOK
      BY <2>2, <2>4 DEF Init, PlaceOK
    <2>6. MethodOK
      BY DEF Init, MethodOK
    <2>7. DeviceOK
      BY <2>2, <2>3, <2>4 DEF DeviceOK
    <2>8. OrderOK
      BY <2>2, <2>3, <2>4 DEF Init, OrderOK, Increasing
    <2> QED
      BY <2>1, <2>5, <2>6, <2>7, <2>8 DEF IInv
  <1>2. IInv /\ [Next]_vars => IInv'
    <2> SUFFICES ASSUME IInv, [Next]_vars
                 PROVE  PlaceOK' /\ MethodOK' /\ DeviceOK' /\ OrderOK'
      <3>1. IndInv /\ [Next]_vars => IndInv'
        BY IndInvStep
      <3> QED
        BY <3>1 DEF IInv
    <2>1. PlaceOK /\ MethodOK /\ DeviceOK /\ OrderOK /\ answered \subseteq results
      BY DEF IInv, PlaceOK
    <2>2. ASSUME NEW d \in Devices, NEW k \in Kinds, Receive(d, k)
          PROVE  PlaceOK' /\ MethodOK' /\ DeviceOK' /\ OrderOK'
      BY <2>2, ReceiveMoves
    <2>3. CASE Notify \/ Stop \/ UNCHANGED vars
      BY <2>1, <2>3, NoMove
         DEF Notify, Stop, vars, mainVars, dispatcherVars, deviceVars, answerVars
    <2>4. ASSUME NEW c \in Calls, Answer(c)
          PROVE  PlaceOK' /\ MethodOK' /\ DeviceOK' /\ OrderOK'
      BY <2>1, <2>4, NoMove DEF Answer, mainVars, dispatcherVars, deviceVars
    <2>5. CASE DispatcherStart
      BY <2>1, <2>5, NoMove DEF DispatcherStart, mainVars, deviceVars, answerVars
    <2> QED
      BY <2>2, <2>3, <2>4, <2>5, EnqueueMoves, MethodReturnsMoves, PollMoves, PushMoves,
         ExecuteMoves, SetResultMoves DEF Next, Dispatcher
  <1> QED
    BY <1>1, <1>2, PTL DEF Spec

-----------------------------------------------------------------------------
(* The queues and threads implement CallService.                           *)

(* The status of a call is where it is.                                    *)
LEMMA StatusMeaning ==
  ASSUME IInv, NEW c \in Calls
  PROVE  /\ c > arrived => statusOf[c] = "new"
         /\ Queued(c) => statusOf[c] = "waiting"
         /\ Running(c) => statusOf[c] = "executing"
         /\ c \in results => statusOf[c] = IF c \in answered THEN "answered" ELSE "done"
  <1>1. /\ c > arrived => ~(c <= arrived)
        /\ c <= arrived => ~(c > arrived)
    BY NumbersOfCalls
  <1>2. statusOf[c] = IF c > arrived THEN "new"
                      ELSE IF c \in answered THEN "answered"
                      ELSE IF c \in results THEN "done"
                      ELSE IF Running(c) THEN "executing"
                      ELSE "waiting"
    BY DEF statusOf, Running
  <1>3. Queued(c) => ~Running(c)
    BY QueuedNotRunning
  <1> QED
    BY <1>1, <1>2, <1>3 DEF IInv, PlaceOK

(* Statuses change as the places do.                                       *)
LEMMA StatusStep ==
  ASSUME IInv, IInv', NEW b \in Calls, NEW s,
         \A c \in Calls \ {b} :
           /\ c <= arrived' <=> c <= arrived
           /\ Running(c)' <=> Running(c)
           /\ c \in results' <=> c \in results
           /\ c \in answered' <=> c \in answered,
         statusOf'[b] = s
  PROVE  statusOf' = [statusOf EXCEPT ![b] = s]
  <1>1. ASSUME NEW c \in Calls \ {b}
        PROVE  statusOf'[c] = statusOf[c]
    <2>1. /\ statusOf[c] = IF c > arrived THEN "new"
                      ELSE IF c \in answered THEN "answered"
                      ELSE IF c \in results THEN "done"
                      ELSE IF Running(c) THEN "executing"
                      ELSE "waiting"
          /\ statusOf'[c] = IF c > arrived' THEN "new"
                      ELSE IF c \in answered' THEN "answered"
                      ELSE IF c \in results' THEN "done"
                      ELSE IF Running(c)' THEN "executing"
                      ELSE "waiting"
      BY DEF statusOf, Running
    <2>2. arrived \in Nat /\ c \in Nat
      BY NumbersOfCalls
    <2>3. arrived' \in Nat
      BY CallsAssumption DEF IInv, IndInv, TypeOK
    <2>4. c > arrived' <=> c > arrived
      BY <2>2, <2>3
    <2> QED
      BY <2>1, <2>4
  <1>2. statusOf \in [Calls -> {"new", "answered", "done", "executing", "waiting"}]
    BY DEF statusOf
  <1>3. DOMAIN statusOf' = Calls
    BY DEF statusOf
  <1>4. statusOf' = [c \in Calls |-> statusOf'[c]]
    BY DEF statusOf
  <1> QED
    BY <1>1, <1>2, <1>3, <1>4

(* A step of none of these changes no status.                              *)
LEMMA SameStatus ==
  ASSUME UNCHANGED <<arrived, answered, results, method, executing>>
  PROVE  statusOf' = statusOf
  BY DEF statusOf

(* What holds of a state holds of the next one.                            *)
StatusReads == \A c \in Calls :
  /\ c > arrived => statusOf[c] = "new"
  /\ Queued(c) => statusOf[c] = "waiting"
  /\ Running(c) => statusOf[c] = "executing"
  /\ c \in results => statusOf[c] = IF c \in answered THEN "answered" ELSE "done"

LEMMA StatusMeaningNext == IInv' => StatusReads'
  <1>1. IInv => StatusReads
    BY StatusMeaning DEF StatusReads
  <1> QED
    BY <1>1, PTL

(* Receive is Arrive.                                                      *)
LEMMA ReceiveImplements ==
  ASSUME IInv, IInv', NEW d \in Devices, NEW k \in Kinds, Receive(d, k)
  PROVE  \E c \in Service!Calls : Service!Arrive(c, d, k)
  <1>0. PICK n : n = arrived + 1
    OBVIOUS
  <1>1. /\ n \in Calls /\ arrived' = n /\ arrived \in Nat /\ n > arrived
        /\ \A c \in Calls : c # n => (c <= arrived' <=> c <= arrived)
        /\ \A c \in Calls : c < n => c <= arrived
        /\ NoCall \notin Calls
    BY <1>0, NumbersOfCalls, CallsFacts DEF Receive, IInv, IndInv, TypeOK
  <1>2. /\ toEnqueue = NoCall /\ method = NoCall
        /\ UNCHANGED <<executing, results, answered>>
        /\ call' = [call EXCEPT ![n] = << d, k >>]
    BY <1>0 DEF Receive, LoopIdle, deviceVars, answerVars
  <1>3. statusOf'[n] = IF k = "sync" THEN "executing" ELSE "waiting"
    <2>1. CASE k = "sync"
      <3>1. Running(n)'
        BY <1>0, <2>1 DEF Receive, Running
      <3> QED
        BY <1>1, <2>1, <3>1, StatusMeaningNext DEF StatusReads
    <2>2. CASE k = "async"
      <3>1. Queued(n)'
        BY <1>0, <2>2 DEF Receive, Queued, Arriving
      <3> QED
        BY <1>1, <2>2, <3>1, StatusMeaningNext DEF StatusReads
    <2> QED
      BY <2>1, <2>2 DEF Kinds
  <1>4. \A c \in Calls \ {n} : Running(c)' <=> Running(c)
    BY <1>0, <1>1, <1>2 DEF Receive, Running
  <1>5. statusOf' = [statusOf EXCEPT ![n] = IF k = "sync" THEN "executing" ELSE "waiting"]
    BY <1>1, <1>2, <1>3, <1>4, StatusStep
  <1>6. statusOf[n] = "new"
    BY <1>1, StatusMeaning
  <1>7. ASSUME NEW b \in Calls, b < n
        PROVE  statusOf[b] # "new"
    <2>1. Queued(b) \/ Running(b) \/ b \in results
      BY <1>1, <1>7 DEF IInv, PlaceOK
    <2> QED
      BY <2>1, StatusMeaning
  <1>8. ASSUME NEW b \in Calls, Service!IsKind(b, "sync")
        PROVE  Service!Executed(b)
    <2>1. PICK e \in Devices : call[b] = << e, "sync" >>
      BY <1>8 DEF Service!IsKind
    <2>2. b <= arrived
      <3>1. call[b] # <<>>
        BY <2>1
      <3>2. b > arrived \/ b <= arrived
        BY NumbersOfCalls
      <3> QED
        BY <3>1, <3>2 DEF IInv, PlaceOK
    <2>3. ~Async(b)
      BY <2>1 DEF Async
    <2>4. ~Queued(b) /\ ~Running(b)
      BY <1>1, <1>2, <2>3 DEF IInv, DeviceOK, Running
    <2>5. b \in results
      BY <2>2, <2>4 DEF IInv, PlaceOK
    <2> QED
      BY <2>5, StatusMeaning DEF Service!Executed
  <1>9. Service!Arrive(n, d, k)
    BY <1>2, <1>5, <1>6, <1>7, <1>8 DEF Service!Arrive, Service!Calls, Calls
  <1> QED
    BY <1>1, <1>9 DEF Service!Calls, Calls

(* Execute is Begin: every earlier call of the device has its result.      *)
LEMMA ExecuteImplements ==
  ASSUME IInv, IInv', NEW d \in Devices, Execute(d)
  PROVE  \E c \in Service!Calls : Service!Begin(c)
  <1>0. PICK h : h = Head(commands[d])
    OBVIOUS
  <1>1. /\ commands[d] # <<>> /\ executing[d] = NoCall
        /\ executing' = [executing EXCEPT ![d] = h]
        /\ UNCHANGED <<call, arrived, method, results, answered>>
    BY <1>0 DEF Execute, mainVars, dispatcherVars, answerVars
  <1>2. /\ executing \in [Devices -> Calls \cup {NoCall}] /\ NoCall \notin Calls
        /\ commands[d] \in Seq(Calls) /\ h \in Calls
        /\ \A c \in Calls : In(commands[d], c) <=> c = h \/ In(Tail(commands[d]), c)
        /\ \A c \in Calls : In(Tail(commands[d]), c) => h < c
    BY <1>0, <1>1, NumbersOfCalls, QueueFacts, InFacts, IncreasingFacts
       DEF IInv, IndInv, TypeOK, OrderOK
  <1>3. Queued(h) /\ Async(h) /\ device(h) = d /\ In(commands[d], h)
    BY <1>2 DEF IInv, DeviceOK, Queued, Dispatched
  <1>4. statusOf[h] = "waiting"
    BY <1>2, <1>3, StatusMeaning
  <1>5. statusOf'[h] = "executing"
    <2>1. executing'[d] = h
      BY <1>1, <1>2
    <2>2. Running(h)'
      BY <2>1 DEF Running
    <2> QED
      BY <1>2, <2>2, StatusMeaningNext DEF StatusReads
  <1>6. \A c \in Calls \ {h} : Running(c)' <=> Running(c)
    <2>1. /\ executing'[d] = h
          /\ \A e \in Devices : e # d => executing'[e] = executing[e]
      BY <1>1, <1>2
    <2> QED
      BY <1>1, <1>2, <2>1 DEF Running
  <1>7. statusOf' = [statusOf EXCEPT ![h] = "executing"]
    BY <1>1, <1>2, <1>5, <1>6, StatusStep
  <1>8. ASSUME NEW b \in Calls, b < h, Service!SameDevice(b, h)
        PROVE  Service!Executed(b)
    <2>1. call[b] # <<>> /\ device(b) = d
      BY <1>3, <1>8 DEF Service!SameDevice, device
    <2>2. b <= arrived /\ b \in Nat /\ h \in Nat /\ arrived \in Nat /\ h <= arrived /\ ~(h < b)
      BY <1>2, <1>3, <1>8, <2>1, NumbersOfCalls DEF IInv, PlaceOK, Async
    <2>3. ~Queued(b)
      <3>1. ~Arriving(b) /\ b # request
        BY <1>2, <1>3, <2>2 DEF IInv, OrderOK
      <3>2. ~In(commands[d], b)
        BY <1>2, <1>8, <2>2
      <3>3. \A e \in Devices : In(commands[e], b) => e = d
        BY <2>1 DEF IInv, DeviceOK
      <3> QED
        BY <3>1, <3>2, <3>3 DEF Queued, Dispatched
    <2>4. ~Running(b)
      <3>1. b # method
        BY <1>2, <1>8, <2>2 DEF IInv, MethodOK
      <3>2. \A e \in Devices : b = executing[e] => e = d
        BY <2>1 DEF IInv, DeviceOK
      <3> QED
        BY <1>1, <1>2, <3>1, <3>2 DEF Running
    <2>5. b \in results
      BY <2>2, <2>3, <2>4 DEF IInv, PlaceOK
    <2> QED
      BY <2>5, StatusMeaning DEF Service!Executed
  <1>9. Service!Begin(h)
    BY <1>1, <1>4, <1>7, <1>8 DEF Service!Begin, Service!Calls, Calls
  <1> QED
    BY <1>2, <1>9 DEF Service!Calls, Calls

(* A method that returns is End, on the event loop or a device's thread.   *)
LEMMA EndImplements ==
  ASSUME IInv, IInv', NEW b \in Calls, Running(b),
         results' = results \cup {b},
         UNCHANGED <<call, arrived, answered>>,
         \A c \in Calls \ {b} : Running(c)' <=> Running(c)
  PROVE  Service!End(b)
  <1>1. statusOf[b] = "executing" /\ b \notin results /\ b \notin answered
    BY StatusMeaning DEF IInv, PlaceOK
  <1>2. statusOf'[b] = "done"
    BY <1>1, StatusMeaningNext DEF StatusReads
  <1>3. statusOf' = [statusOf EXCEPT ![b] = "done"]
    BY <1>2, StatusStep
  <1> QED
    BY <1>1, <1>3 DEF Service!End

(* Answer is Answer.                                                       *)
LEMMA AnswerImplements ==
  ASSUME IInv, IInv', NEW b \in Calls, Answer(b)
  PROVE  Service!Answer(b)
  <1>1. /\ b \in results \ answered /\ answered' = answered \cup {b}
        /\ UNCHANGED <<call, arrived, method, executing, results>>
    BY DEF Answer, mainVars, deviceVars
  <1>2. statusOf[b] = "done" /\ statusOf'[b] = "answered"
    BY <1>1, StatusMeaning, StatusMeaningNext DEF StatusReads
  <1>3. \A c \in Calls : Running(c)' <=> Running(c)
    BY <1>1 DEF Running
  <1>4. statusOf' = [statusOf EXCEPT ![b] = "answered"]
    BY <1>1, <1>2, <1>3, StatusStep
  <1> QED
    BY <1>1, <1>2, <1>4 DEF Service!Answer

(* Every step is a step of CallService, or one that it does not see.       *)
LEMMA StepImplements == IInv /\ IInv' /\ [Next]_vars => [Service!Next]_(Service!vars)
  <1> SUFFICES ASSUME IInv, IInv', [Next]_vars
               PROVE  Service!Next \/ UNCHANGED Service!vars
    BY DEF Service!vars
  <1>1. ASSUME NEW d \in Devices, NEW k \in Kinds, Receive(d, k)
        PROVE  Service!Next
    BY <1>1, ReceiveImplements DEF Service!Next, Service!Kinds, Kinds
  <1>2. CASE MethodReturns
    <2>1. /\ method \in Calls /\ results' = results \cup {method} /\ method' = NoCall
          /\ NoCall \notin Calls
          /\ UNCHANGED <<call, arrived, answered, executing>>
      BY <1>2, NumbersOfCalls DEF MethodReturns, deviceVars, IInv, IndInv, TypeOK
    <2>2. Running(method) /\ \A c \in Calls \ {method} : Running(c)' <=> Running(c)
      BY <2>1 DEF Running
    <2>3. Service!End(method)
      BY <2>1, <2>2, EndImplements
    <2> QED
      BY <2>1, <2>3 DEF Service!Next, Service!Calls, Calls
  <1>3. ASSUME NEW c \in Calls, Answer(c)
        PROVE  Service!Next
    BY <1>3, AnswerImplements DEF Service!Next, Service!Calls, Calls
  <1>4. ASSUME NEW d \in Devices, Execute(d)
        PROVE  Service!Next
    BY <1>4, ExecuteImplements DEF Service!Next
  <1>5. ASSUME NEW d \in Devices, SetResult(d)
        PROVE  Service!Next
    <2>1. /\ executing \in [Devices -> Calls \cup {NoCall}] /\ NoCall \notin Calls
          /\ executing[d] # NoCall
          /\ executing' = [executing EXCEPT ![d] = NoCall]
          /\ results' = results \cup {executing[d]}
          /\ UNCHANGED <<call, arrived, answered, method>>
      BY <1>5, NumbersOfCalls DEF SetResult, mainVars, IInv, IndInv, TypeOK
    <2>2. executing[d] \in Calls /\ Running(executing[d])
      BY <2>1 DEF Running
    <2>3. \A c \in Calls \ {executing[d]} : Running(c)' <=> Running(c)
      <3>1. /\ executing'[d] = NoCall
            /\ \A e \in Devices : e # d => executing'[e] = executing[e]
        BY <2>1
      <3> QED
        BY <2>1, <3>1 DEF Running
    <2>4. Service!End(executing[d])
      BY <2>1, <2>2, <2>3, EndImplements
    <2> QED
      BY <2>2, <2>4 DEF Service!Next, Service!Calls, Calls
  <1>6. CASE Enqueue \/ Notify \/ Stop \/ Dispatcher \/ UNCHANGED vars
    <2>1. UNCHANGED <<call, arrived, answered, results, method, executing>>
      BY <1>6 DEF Enqueue, Notify, Stop, Dispatcher, DispatcherStart, DispatcherPoll,
         DispatcherPush, vars, mainVars, deviceVars, answerVars
    <2> QED
      BY <2>1, SameStatus DEF Service!vars
  <1> QED
    BY <1>1, <1>2, <1>3, <1>4, <1>5, <1>6 DEF Next

(* Before the first call nothing has arrived.                              *)
LEMMA InitImplements == Init => Service!Init
  <1> SUFFICES ASSUME Init
               PROVE  Service!Init
    OBVIOUS
  <1>1. \A c \in Calls : c > arrived
    BY CallsAssumption DEF Init, Calls
  <1>2. statusOf = [c \in Calls |-> "new"]
    BY <1>1 DEF statusOf
  <1> QED
    BY <1>2 DEF Init, Service!Init, Service!Calls, Calls

(* DCSServer's queues and threads: every call that arrives is executed at  *)
(* most once and answered after that, the calls of one device in the order *)
(* of their arrival and one at a time, for any devices and calls.          *)
THEOREM SpecImplements == Spec => Implements
  BY InitImplements, StepImplements, SpecIInv, PTL DEF Spec, Implements, Service!Spec
=============================================================================
