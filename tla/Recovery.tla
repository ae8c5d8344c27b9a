------------------------------ MODULE Recovery ------------------------------
(***************************************************************************)
(* DCSRecovery: the file in which the server keeps, for every device it    *)
(* has to reconnect after a crash, the address to connect to. All devices  *)
(* share the file and one mutex. A change reads the whole file, truncates  *)
(* it by opening it for writing, and writes the changed whole: between the *)
(* last two the file on disk is empty, which parseFile reads like a file   *)
(* with no entries, so a truncated or half-written file is NoEntries here. *)
(***************************************************************************)
CONSTANTS
  Devices,    \* the device controllers, by object name
  Addresses,  \* the host and port pairs a device can be reached at
  None,       \* no address
  Main        \* the thread of the server's event loop

ASSUME RecoveryAssumption ==
  /\ None \notin Addresses \cup Devices
  /\ Main \notin Devices \cup {None}

VARIABLES
  file,     \* the entries on disk
  pending,  \* the entries the holder of the mutex is about to write
  mutex     \* the thread inside enable or disable, None if there is none

recoveryVars == <<file, pending, mutex>>

(* A device's worker thread is named like the device.                      *)
Threads == Devices \cup {Main}
Entries == [Devices -> Addresses \cup {None}]
NoEntries == [d \in Devices |-> None]

RecoveryTypeOK ==
  /\ file \in Entries
  /\ pending \in Entries
  /\ mutex \in Threads \cup {None}

RecoveryInit ==
  /\ file = NoEntries
  /\ pending = NoEntries
  /\ mutex = None

(* What the file says once the change under way is complete.               *)
Recorded == IF mutex = None THEN file ELSE pending

(* enable that writes its own entry without having read the file.          *)
MutEnableOpen(t, d, a) ==
  /\ mutex = None
  /\ mutex' = t
  /\ pending' = [NoEntries EXCEPT ![d] = a]
  /\ file' = NoEntries

(* enable, up to the opening of the file for writing.                      *)
EnableOpen(t, d, a) ==
  /\ mutex = None
  /\ mutex' = t
  /\ pending' = [file EXCEPT ![d] = a]
  /\ file' = NoEntries

(* disable of a device that has an entry, up to the same point.            *)
DisableOpen(t, d) ==
  /\ mutex = None
  /\ file[d] # None
  /\ mutex' = t
  /\ pending' = [file EXCEPT ![d] = None]
  /\ file' = NoEntries

(* disable of a device that has none: nothing is written.                  *)
DisableAbsent(d) ==
  /\ mutex = None
  /\ file[d] = None
  /\ UNCHANGED recoveryVars

(* The rest of enable and disable: write, close, unlock.                   *)
WriteBack(t) ==
  /\ mutex = t
  /\ file' = pending
  /\ mutex' = None
  /\ UNCHANGED pending

(* get: an entry is read under the mutex.                                  *)
Found(d, a) == mutex = None /\ file[d] = a

(* The destructor empties the file.                                        *)
RecoveryClear ==
  /\ mutex = None
  /\ file' = NoEntries
  /\ UNCHANGED <<pending, mutex>>

(* The process dies. Of a write under way all may have reached the disk or *)
(* too little to be parsed.                                                *)
RecoveryCrash ==
  /\ \/ UNCHANGED file
     \/ mutex # None /\ file' = pending
  /\ pending' = NoEntries
  /\ mutex' = None
=============================================================================
