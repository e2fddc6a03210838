-------------------------- MODULE MCExecutionClient --------------------------
(***************************************************************************)
(* Instances of ExecutionClient for TLC.                                   *)
(***************************************************************************)
EXTENDS ExecutionClient

CONSTANTS r1, r2, c1

OneClient == [k \in Requests |-> c1]
=============================================================================
