----------------------------- MODULE CallService -----------------------------
(***************************************************************************)
(* What the server promises to its clients about method calls: a call is   *)
(* executed once and then answered, and the asynchronous calls of one      *)
(* device are executed one at a time in the order in which they arrived,   *)
(* each after every earlier synchronous call. A synchronous call does not  *)
(* wait for the asynchronous ones before it. No queue is visible.          *)
(***************************************************************************)
EXTENDS Naturals

CONSTANTS
  Devices,   \* the objects whose methods are called
  MaxCalls   \* the number of calls of a behaviour, at most

VARIABLES
  status,  \* what became of each call
  call     \* device and kind of each call that has arrived

vars == <<status, call>>

Calls == 1 .. MaxCalls
Kinds == {"async", "sync"}

Init ==
  /\ status = [c \in Calls |-> "new"]
  /\ call = [c \in Calls |-> <<>>]

Executed(c) == status[c] \in {"done", "answered"}
IsKind(c, k) == \E d \in Devices : call[c] = <<d, k>>
SameDevice(b, c) == call[b] # <<>> /\ call[c] # <<>> /\ call[b][1] = call[c][1]

(* Calls arrive in the order of their numbers. A synchronous one is        *)
(* executed at once, after every other synchronous one.                    *)
Arrive(c, d, k) ==
  /\ status[c] = "new"
  /\ \A b \in Calls : b < c => status[b] # "new"
  /\ k = "sync" => \A b \in Calls : IsKind(b, "sync") => Executed(b)
  /\ status' = [status EXCEPT ![c] = IF k = "sync" THEN "executing" ELSE "waiting"]
  /\ call' = [call EXCEPT ![c] = <<d, k>>]

Begin(c) ==
  /\ status[c] = "waiting"
  /\ \A b \in Calls : b < c /\ SameDevice(b, c) => Executed(b)
  /\ status' = [status EXCEPT ![c] = "executing"]
  /\ UNCHANGED call

End(c) ==
  /\ status[c] = "executing"
  /\ status' = [status EXCEPT ![c] = "done"]
  /\ UNCHANGED call

Answer(c) ==
  /\ status[c] = "done"
  /\ status' = [status EXCEPT ![c] = "answered"]
  /\ UNCHANGED call

Next ==
  \E c \in Calls :
    \/ \E d \in Devices, k \in Kinds : Arrive(c, d, k)
    \/ Begin(c) \/ End(c) \/ Answer(c)

Spec == Init /\ [][Next]_vars
=============================================================================
