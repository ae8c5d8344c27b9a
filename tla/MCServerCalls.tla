---------------------------- MODULE MCServerCalls ----------------------------
(***************************************************************************)
(* The instance of ServerCalls that TLC checks.                            *)
(***************************************************************************)
EXTENDS ServerCalls
=============================================================================
