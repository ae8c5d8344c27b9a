--------------------------- MODULE MCWorkerThread ---------------------------
(***************************************************************************)
(* The instance of WorkerThread that TLC checks.                           *)
(***************************************************************************)
EXTENDS WorkerThread
=============================================================================
