--------------------------- MODULE MCJingSiRuntime ---------------------------
(***************************************************************************)
(* An instance of JingSiRuntime for TLC.                                   *)
(***************************************************************************)
EXTENDS JingSiRuntime

CONSTANTS k1, k2
=============================================================================
