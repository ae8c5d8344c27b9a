------------------------------ MODULE HistoryLog ------------------------------
(***************************************************************************)
(* What the history backend promises about the recorded values: the        *)
(* database gets them in the order in which they were recorded, each at    *)
(* most once, and the only ones it does not get are those of a transfer    *)
(* that was reported to have failed, and those after the last transfer.    *)
(* A transfer that is reported to have failed may have arrived.            *)
(***************************************************************************)
EXTENDS Naturals, Sequences

VARIABLES
  recorded,  \* number of lines recorded; a line is its number
  settled,   \* number of lines, the oldest ones, whose transfer is over
  database,  \* the lines in the database
  failures   \* number of transfers reported to have failed

vars == <<recorded, settled, database, failures>>

Init ==
  /\ recorded = 0
  /\ settled = 0
  /\ database = <<>>
  /\ failures = 0

Record ==
  /\ recorded' = recorded + 1
  /\ UNCHANGED <<settled, database, failures>>

(* The transfer of the oldest n lines that have not been transferred.      *)
Transfer(n) ==
  /\ settled' = settled + n
  /\ \/ /\ database' = database \o [i \in 1 .. n |-> settled + i]
        /\ failures' \in {failures, failures + 1}
     \/ /\ UNCHANGED database
        /\ failures' = failures + 1
  /\ UNCHANGED recorded

Next == Record \/ \E n \in 1 .. recorded - settled : Transfer(n)

Spec == Init /\ [][Next]_vars
=============================================================================
