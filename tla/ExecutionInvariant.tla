-------------------------- MODULE ExecutionInvariant --------------------------
(***************************************************************************)
(* The inductive invariant of ExecutionControl: checked by TLC on small    *)
(* instances, proved in ExecutionControlProofs.                            *)
(***************************************************************************)
EXTENDS ExecutionControl

(* What holds of every fence of every ledger: what a restart accepts, and  *)
(* what the fence says of its approvals in each state.                     *)
FenceInv(f) ==
  /\ f.state = "absent" => f.revision = 0
  /\ f.state \in {"absent", "accepted"} => Asked(f) = {}
  /\ f.state \in {"absent"} \cup Live => f.reason = "none"
  /\ f.state = "failed" /\ f.reason = "awaiting_approval" => Approved(f) = {}
  /\ IsFiniteSet(Asked(f))
  /\ f.state # "absent" => ValidFence(f)

LedgerInv == \A L \in disk \cup {fences} : \A k \in Requests : FenceInv(L[k])

(* A process that is down has no fences.                                   *)
DownInv == phase = "down" => fences = EmptyLedger

(* A running execution has a wait for every approval it asked for, so that *)
(* none is asked for twice.                                                *)
WaitInv ==
  phase # "down" =>
    \A k \in Requests : fences[k].state = "running" =>
      \A a \in Asked(fences[k]) : waits[k][a] # "none"

(* A worker holds only a decision that was confirmed to the owner.         *)
ReadyInv ==
  \A k \in Requests : worker[k].ready # "none" =>
    /\ worker[k].approval \in Approvals
    /\ told[k][worker[k].approval] = worker[k].ready

(* A tool ran once, under a confirmed approval that no worker is still at. *)
ToolInv ==
  \A k \in Requests, a \in Approvals :
    /\ toolRuns[k][a] <= 1
    /\ toolRuns[k][a] > 0 => told[k][a] = "approve"
    /\ worker[k].approval = a => toolRuns[k][a] = 0

(* What was started has left its admission behind, in memory and in every  *)
(* ledger of the disk.                                                     *)
StartInv ==
  \A k \in Requests :
    /\ starts[k] <= 1
    /\ starts[k] = 1 =>
         /\ phase # "down" => fences[k].state \notin {"absent", "accepted"}
         /\ \A L \in disk : L[k].state # "absent"

(* The inductive invariant: the order of saving and acting that all        *)
(* guarantees about approvals and restarts rest on.                        *)
DurabilityInv ==
  /\ LedgerInv /\ DownInv /\ WaitInv /\ ReceiptsDurable
  /\ ReadyInv /\ ToolInv /\ StartInv
=============================================================================
