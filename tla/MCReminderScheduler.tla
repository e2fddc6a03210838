------------------------- MODULE MCReminderScheduler -------------------------
(***************************************************************************)
(* Instance of ReminderScheduler for TLC: the owner moves the workbench    *)
(* schedule to its first occurrence, while that one lies ahead or is due,  *)
(* or back to it when it is past or recorded.                              *)
(***************************************************************************)
EXTENDS ReminderScheduler

CONSTANTS s1, w1

WorkbenchEdits == {<<w1, 1>>}
=============================================================================
