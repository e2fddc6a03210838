--------------------------- MODULE MCWorkbenchLease ---------------------------
(***************************************************************************)
(* An instance of WorkbenchLease for TLC.                                  *)
(***************************************************************************)
EXTENDS WorkbenchLease, TLC

CONSTANTS r1, r2, r3

(* Requests of a conversation are interchangeable.                         *)
Interchangeable == Permutations(Requests)
=============================================================================
