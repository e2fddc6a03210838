--------------------------- MODULE OccurrenceLedger ---------------------------
(***************************************************************************)
(* What the timer promises about the occurrences of workbench schedules,   *)
(* whatever fails: each is recorded once, as missed or submitted; a missed *)
(* one is never handed to the runtime and a submitted one at most once;    *)
(* its outcome is recorded only after that, and is final.                  *)
(*                                                                         *)
(* Hand-overs are counted: a second one is no step of the ledger.  Nothing *)
(* is said of polls, queues, leases or time.                               *)
(***************************************************************************)
EXTENDS Naturals

CONSTANT Occurrences

VARIABLES
  record,  \* what the store says of each occurrence
  handed   \* how often the runtime was given it

ledger == <<record, handed>>

LedgerInit ==
  /\ record = [o \in Occurrences |-> "none"]
  /\ handed = [o \in Occurrences |-> 0]

Enter(o) ==
  /\ record[o] = "none"
  /\ \E v \in {"missed", "submitted"} : record' = [record EXCEPT ![o] = v]
  /\ UNCHANGED handed

HandOver(o) ==
  /\ record[o] = "submitted"
  /\ handed[o] = 0
  /\ handed' = [handed EXCEPT ![o] = 1]
  /\ UNCHANGED record

(* `unknown`: the answer of the runtime was lost.                          *)
Settle(o) ==
  /\ record[o] = "submitted"
  /\ handed[o] = 1
  /\ \E v \in {"sent", "unknown"} : record' = [record EXCEPT ![o] = v]
  /\ UNCHANGED handed

LedgerNext == \E o \in Occurrences : Enter(o) \/ HandOver(o) \/ Settle(o)
LedgerSpec == LedgerInit /\ [][LedgerNext]_ledger
=============================================================================
