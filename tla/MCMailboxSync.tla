---------------------------- MODULE MCMailboxSync ----------------------------
(***************************************************************************)
(* Instances of MailboxSync for TLC.                                       *)
(***************************************************************************)
EXTENDS MailboxSync
=============================================================================
