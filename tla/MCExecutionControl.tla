------------------------- MODULE MCExecutionControl -------------------------
(***************************************************************************)
(* Instances of ExecutionControl for TLC.                                  *)
(***************************************************************************)
EXTENDS ExecutionRefinement

CONSTANTS r1, r2, c1, c2, a1, a2

OneClient  == [k \in Requests |-> c1]
TwoClients == [k \in Requests |-> IF k = r1 THEN c1 ELSE c2]
=============================================================================
