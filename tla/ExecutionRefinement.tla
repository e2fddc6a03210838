------------------------- MODULE ExecutionRefinement -------------------------
(***************************************************************************)
(* The execution service keeps the promise of RequestLifecycle.  What it   *)
(* shows is the ledger in memory; what the next gateway may find is what   *)
(* the ledgers of the disk hold; an execution starts when the executor is  *)
(* entered.                                                                *)
(***************************************************************************)
EXTENDS ExecutionInvariant

Promise == INSTANCE RequestLifecycle WITH
  up      <- phase # "down",
  shown   <- [k \in Requests |-> fences[k].state],
  stored  <- [k \in Requests |-> {L[k].state : L \in disk}],
  started <- starts

(* ExecutionControl implements the promise: every step of a gateway, a     *)
(* failing save or a crash among them, is a step of RequestLifecycle or    *)
(* none ("a request key is never re-executed").                            *)
Implements == Promise!LifecycleSpec
=============================================================================
