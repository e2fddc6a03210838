---------------------------- MODULE MCHandleStage ----------------------------
(***************************************************************************)
(* An instance of HandleStage for TLC: two files that do not fit together, *)
(* two reads through the materializer and one beside it.                   *)
(***************************************************************************)
EXTENDS HandleStage

CONSTANTS f1, f2, m1, m2, d1

OneAndTwo == [f \in Files |-> IF f = f1 THEN 1 ELSE 2]
=============================================================================
