------------------------------ MODULE TraceList ------------------------------
(***************************************************************************)
(* The list of faults in a high-voltage window of the client. Every        *)
(* configuration with a fault adds an item, with the time the server gave  *)
(* it; a timer clears the items that are older than its interval. The list *)
(* widget shows an item until it is deleted. The clocks of the server and  *)
(* the client are one, which never goes back.                              *)
(***************************************************************************)
EXTENDS Naturals, Sequences

CONSTANTS
  Intervals,  \* the intervals the user may configure
  MaxNow,     \* bound: the time
  MaxTraces   \* bound: items that are added

VARIABLES
  traceNow,       \* the time
  traceInterval,  \* timer.interval()
  traceTotal,     \* history: items that have been added
  traces,         \* the member traces: items, the latest first
  traceShown      \* the items in the list widget

traceVars == <<traceNow, traceInterval, traceTotal, traces, traceShown>>

ASSUME TraceAssumption ==
  /\ Intervals \subseteq Nat /\ Intervals # {}
  /\ MaxNow \in Nat /\ MaxTraces \in Nat

Traces == [id : 1 .. MaxTraces, timestamp : 0 .. MaxNow]

TraceTypeOK ==
  /\ traceNow \in 0 .. MaxNow
  /\ traceInterval \in Intervals
  /\ traceTotal \in 0 .. MaxTraces
  /\ traces \in Seq(Traces)
  /\ traceShown \subseteq Traces

TraceInit ==
  /\ traceNow = 0
  /\ traceInterval \in Intervals
  /\ traceTotal = 0 /\ traces = <<>> /\ traceShown = {}

TraceTick ==
  /\ traceNow < MaxNow
  /\ traceNow' = traceNow + 1
  /\ UNCHANGED <<traceInterval, traceTotal, traces, traceShown>>

Members(s) == {s[i] : i \in DOMAIN s}

(* Items kept in the order they came.                                      *)
MutPushed(t) == Append(traces, t)

Pushed(t) == << t >> \o traces

(* addItem: a configuration is reported no earlier than the ones before,   *)
(* and some time after the server wrote it.                                *)
AddItem ==
  /\ traceTotal < MaxTraces
  /\ \E time \in 0 .. traceNow :
       /\ \A t \in Members(traces) : t.timestamp <= time
       /\ LET trace == [id |-> traceTotal + 1, timestamp |-> time]
          IN  traces' = Pushed(trace) /\ traceShown' = traceShown \cup {trace}
  /\ traceTotal' = traceTotal + 1
  /\ UNCHANGED <<traceNow, traceInterval>>

Obsolete(t) == t.timestamp + traceInterval < traceNow

(* What remove_if has moved to the front when it is through the list.      *)
Kept ==
  LET moved[n \in 0 .. Len(traces)] ==
        IF n = 0 THEN <<>>
        ELSE IF Obsolete(traces[n]) THEN moved[n - 1] ELSE Append(moved[n - 1], traces[n])
  IN  moved[Len(traces)]

(* clearItems: what remove_if leaves behind the items to keep is what was  *)
(* in those places; that is what is deleted.                               *)
ClearItems ==
  LET behind == SubSeq(traces, Len(Kept) + 1, Len(traces))
  IN  /\ traces' = Kept
      /\ traceShown' = traceShown \ Members(behind)
      /\ UNCHANGED <<traceNow, traceInterval, traceTotal>>

ClearAllItems ==
  /\ traces' = <<>>
  /\ traceShown' = traceShown \ Members(traces)
  /\ UNCHANGED <<traceNow, traceInterval, traceTotal>>

ConfigureDialog ==
  /\ traceInterval' \in Intervals
  /\ UNCHANGED <<traceNow, traceTotal, traces, traceShown>>

TraceNext == TraceTick \/ AddItem \/ ClearItems \/ ClearAllItems \/ ConfigureDialog

TraceSpec == TraceInit /\ [][TraceNext]_traceVars

-----------------------------------------------------------------------------
(* What clearItems deletes is what it no longer holds: no item that is     *)
(* still held has been deleted, and none is left in the list for ever.     *)
HeldIsShown == Members(traces) = traceShown
=============================================================================
