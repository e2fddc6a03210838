---------------------------- MODULE WorkbenchLease ----------------------------
(***************************************************************************)
(* Workbench leases and clarification claims of the execution service      *)
(* (services/gateway/internal/execution: workbench.go, clarification.go,   *)
(* clarification_workbench.go), with the calls of the gateway's admission  *)
(* (gateway/workbench_admission.go) that drive them.                       *)
(*                                                                         *)
(* The module is one conversation: its requests share a session, a client  *)
(* and the scope of their clarifications.  Every call works under the      *)
(* service's lock and saves the whole ledger, so a call is one action; a   *)
(* failed save leaves disk at its old content or at the new one.           *)
(*                                                                         *)
(* States the code treats alike are one: `done` is completed,              *)
(* clarification_required or blocked, `waiting` is approval_pending or     *)
(* browser_login_blocked, `unknown` also stands for failed and             *)
(* delivery_failed.  Calls refused for their binding, their digest or an   *)
(* option number change nothing and are left out.                          *)
(***************************************************************************)
EXTENDS Naturals, FiniteSets

CONSTANTS
  Requests,   \* request identities of the conversation
  MaxActive,  \* leases at a time (8 in the code, shared with executions)
  MaxFaults,  \* bound: saves that fail
  MaxCrashes  \* bound: ends of the process

NoClaim == "none"  \* a clarification nobody claimed; the code's empty identity

ASSUME LeaseAssumption ==
  /\ IsFiniteSet(Requests)
  /\ NoClaim \notin Requests
  /\ MaxActive \in Nat \ {0}
  /\ MaxFaults \in Nat
  /\ MaxCrashes \in Nat

VARIABLES
  mem,      \* s.control in memory: the fences and the clarification claims
  disk,     \* the ledger file
  lease,    \* the lease a caller of the request holds
  ctx,      \* its context
  late,     \* requests whose deadline has passed
  revoked,  \* the conversation's client is in s.revokedClients
  dirty,    \* s.revocationDirty and s.clarificationDirty
  phase,    \* the process
  rights,   \* history: requests whose next lease is due to the owner
  replayed, \* history: requests that got a lease without that
  stops,    \* history: what callers were told of a stop
  dispatched, \* history: successors told to act on a clarification
  faults, crashes

history == <<rights, replayed, stops, dispatched>>
process == <<lease, ctx, late, revoked, dirty>>
vars == <<mem, disk, process, phase, history, faults, crashes>>

-----------------------------------------------------------------------------
(* The ledger.                                                             *)

States == {"absent", "running", "waiting", "done", "unknown"}
Ledger == [fence : [Requests -> States], claim : [Requests -> Requests \cup {NoClaim}]]
Stops == [canceled : SUBSET Requests,  \* a cancellation that was saved
          cutting : SUBSET Requests,   \* fenced by a revocation still to be saved
          cut : SUBSET Requests]       \* fenced by a revocation answered with success

Live == {"running", "waiting"}
With(r, state) == [mem EXCEPT !.fence[r] = state]

(* saveLocked.                                                             *)
Saved(ledger) == disk' = ledger /\ UNCHANGED faults
SaveFailed(ledger) ==
  /\ faults < MaxFaults
  /\ faults' = faults + 1
  /\ disk' \in {disk, ledger}

Up == phase = "up"
Serving == phase \in {"up", "closed"}
Active == {r \in Requests : lease[r] # "none"}

(* A continuation's context derives from the one of the message it serves. *)
EndOf(rs) == ctx' = [r \in Requests |->
  IF lease[r] # "none" /\ (r \in rs \/ (lease[r] = "child" /\ \E o \in rs : lease[o] = "outer"))
  THEN "ended" ELSE ctx[r]]

Init ==
  /\ mem = [fence |-> [r \in Requests |-> "absent"], claim |-> [r \in Requests |-> NoClaim]]
  /\ disk = mem
  /\ lease = [r \in Requests |-> "none"]
  /\ ctx = [r \in Requests |-> "live"]
  /\ late = {}
  /\ revoked = FALSE
  /\ dirty = [revocation |-> FALSE, claim |-> FALSE]
  /\ phase = "up"
  /\ rights = Requests
  /\ replayed = {}
  /\ stops = [canceled |-> {}, cutting |-> {}, cut |-> {}]
  /\ dispatched = [r \in Requests |-> {}]
  /\ faults = 0
  /\ crashes = 0

-----------------------------------------------------------------------------
(* Leases.                                                                 *)

(* startWorkbenchLeaseLocked.                                              *)
Grant(r, kind) ==
  /\ lease' = [lease EXCEPT ![r] = kind]
  /\ ctx' = [ctx EXCEPT ![r] = "live"]
  /\ replayed' = IF r \in rights THEN replayed ELSE replayed \cup {r}
  /\ rights' = rights \ {r}

(* Faulty: the lease is granted whatever became of the save.               *)
AdmitUnsaved(r, kind) ==
  /\ mem' = With(r, "running")
  /\ Saved(With(r, "running")) \/ SaveFailed(With(r, "running"))
  /\ Grant(r, kind)

(* A lease exists only behind a saved fence; a failed save leaves the      *)
(* request fenced in memory.                                               *)
Admit(r, kind) ==
  \/ /\ mem' = With(r, "running")
     /\ Saved(With(r, "running"))
     /\ Grant(r, kind)
  \/ /\ mem' = With(r, "unknown")
     /\ SaveFailed(With(r, "running"))
     /\ UNCHANGED <<lease, ctx, rights, replayed>>

(* BeginWorkbench, under the session's admission.  A request that has a    *)
(* fence is answered with its status.                                      *)
BeginWorkbench(r) ==
  /\ Up
  /\ Active = {}
  /\ mem.fence[r] = "absent"
  /\ ~revoked
  /\ Admit(r, "outer")
  /\ UNCHANGED <<late, revoked, dirty, phase, stops, dispatched, crashes>>

(* ContinueWorkbench, for a decided approval (under the session's          *)
(* admission) or for a login that a later message resolves (under that     *)
(* message's lease).                                                       *)
ContinueWorkbench(r) ==
  /\ Up
  /\ mem.fence[r] = "waiting"
  /\ r \notin late
  /\ ~revoked
  /\ Cardinality(Active) < MaxActive
  /\ \/ Active = {} /\ Admit(r, "outer")
     \/ /\ \E o \in Active : lease[o] = "outer" /\ ctx[o] = "live"
        /\ Admit(r, "child")
  /\ UNCHANGED <<late, revoked, dirty, phase, stops, dispatched, crashes>>

(* The lease's deadline is the one fixed at admission.                     *)
DeadlinePasses(r) ==
  /\ Serving
  /\ r \notin late
  /\ mem.fence[r] \in Live
  /\ late' = late \cup {r}
  /\ EndOf({r})
  /\ UNCHANGED <<mem, disk, lease, revoked, dirty, phase, history, faults, crashes>>

(* recordDraftClear.  When it fails the admission closes the lease, which  *)
(* finishes as `unknown`, as it does for an ended context.                 *)
RecordDraftClear(r) ==
  /\ lease[r] = "outer"
  /\ mem.fence[r] = "running"
  /\ \/ /\ Saved(mem)
        /\ UNCHANGED <<mem, ctx>>
     \/ /\ SaveFailed(mem)
        /\ mem' = With(r, "unknown")
        /\ EndOf({r})
  /\ UNCHANGED <<lease, late, revoked, dirty, phase, history, crashes>>

(* Faulty: finish reports the outcome of an execution that was stopped.    *)
OutcomeBlind(r) == {"done", "waiting", "unknown"}

Outcome(r) == IF ctx[r] = "ended" THEN {"unknown"} ELSE {"done", "waiting", "unknown"}

(* lease.finish, once.  Continuations are finished before their message.   *)
Finish(r) ==
  /\ lease[r] # "none"
  /\ lease[r] = "outer" => \A o \in Requests : lease[o] # "child"
  /\ lease' = [lease EXCEPT ![r] = "none"]
  /\ ctx' = [ctx EXCEPT ![r] = "live"]
  /\ \E state \in Outcome(r) :
       /\ rights' = IF state = "waiting" THEN rights \cup {r} ELSE rights
       /\ \/ mem' = With(r, state) /\ Saved(With(r, state))
          \/ mem' = With(r, "unknown") /\ SaveFailed(With(r, state))
  /\ UNCHANGED <<late, revoked, dirty, phase, replayed, stops, dispatched, crashes>>

-----------------------------------------------------------------------------
(* Stops.                                                                  *)

(* CancelWorkbench of a request that can still act.  Any other state is    *)
(* answered as it is, without a save: a cancellation that is repeated      *)
(* after a failed save is not saved either.                                *)
CancelLive(r) ==
  LET ledger == With(r, "unknown") IN
  /\ Serving
  /\ mem.fence[r] \in Live
  /\ mem' = ledger
  /\ EndOf({r})
  /\ \/ /\ Saved(ledger)
        /\ stops' = [stops EXCEPT !.canceled = @ \cup {r}]
     \/ /\ SaveFailed(ledger)
        /\ UNCHANGED stops
  /\ UNCHANGED <<lease, late, revoked, dirty, phase, rights, replayed, dispatched, crashes>>

(* Faulty: a retry of the revocation finds nothing to do.                  *)
MustSaveOnce(rs) == rs # {}

(* The dirty marker outlives a failed save.                                *)
MustSave(rs) == rs # {} \/ dirty.revocation

RevokeWorkbenchClient ==
  LET rs == {r \in Requests : mem.fence[r] \in Live}
      ledger == [mem EXCEPT !.fence = [r \in Requests |-> IF r \in rs THEN "unknown" ELSE mem.fence[r]]]
      cutting == stops.cutting \cup rs IN
  /\ Serving
  /\ revoked' = TRUE
  /\ mem' = ledger
  /\ EndOf(rs)
  /\ \/ /\ IF MustSave(rs) THEN Saved(ledger) ELSE UNCHANGED <<disk, faults>>
        /\ dirty' = [dirty EXCEPT !.revocation = FALSE]
        /\ stops' = [stops EXCEPT !.cut = @ \cup cutting, !.cutting = {}]
     \/ /\ MustSave(rs)
        /\ SaveFailed(ledger)
        /\ dirty' = [dirty EXCEPT !.revocation = TRUE]
        /\ stops' = [stops EXCEPT !.cutting = cutting]
  /\ UNCHANGED <<lease, late, phase, rights, replayed, dispatched, crashes>>

-----------------------------------------------------------------------------
(* Clarification claims.                                                   *)

Dispatch(r, s) == dispatched' = [dispatched EXCEPT ![r] = @ \cup {s}]

(* Faulty: a claim in memory is granted again after its save failed.       *)
ClaimableDirty == TRUE

(* After a failed save nothing is dispatched until disk is read again.     *)
Claimable == ~dirty.claim

(* ClaimClarification: the successor `s`, running under its own lease,     *)
(* claims the clarification that `r` ended with.                           *)
ClaimClarification(r, s) ==
  LET ledger == [mem EXCEPT !.claim[r] = s] IN
  /\ Up
  /\ Claimable
  /\ mem.fence[r] = "done"
  /\ lease[s] = "outer" /\ mem.fence[s] = "running" /\ s \notin late
  /\ ~revoked
  /\ \/ /\ mem.claim[r] = s
        /\ Dispatch(r, s)
        /\ UNCHANGED <<mem, disk, dirty, faults>>
     \/ /\ mem.claim[r] = NoClaim
        /\ mem' = ledger
        /\ \/ Saved(ledger) /\ Dispatch(r, s) /\ UNCHANGED dirty
           \/ /\ SaveFailed(ledger)
              /\ dirty' = [dirty EXCEPT !.claim = TRUE]
              /\ UNCHANGED dispatched
  /\ UNCHANGED <<lease, ctx, late, revoked, phase, rights, replayed, stops, crashes>>

-----------------------------------------------------------------------------
(* The process.                                                            *)

(* Close ends the contexts and waits for the leases to be finished.        *)
Close ==
  /\ Up
  /\ phase' = "closed"
  /\ EndOf(Requests)
  /\ UNCHANGED <<mem, disk, lease, late, revoked, dirty, history, faults, crashes>>

(* A crash, or the exit after Close.                                       *)
Down ==
  /\ Serving
  /\ crashes < MaxCrashes
  /\ crashes' = crashes + 1
  /\ phase' = "down"
  /\ lease' = [r \in Requests |-> "none"]
  /\ ctx' = [r \in Requests |-> "live"]
  /\ revoked' = FALSE
  /\ dirty' = [revocation |-> FALSE, claim |-> FALSE]
  /\ stops' = [stops EXCEPT !.cutting = {}]
  /\ UNCHANGED <<mem, disk, late, rights, replayed, dispatched, faults>>

(* validateWorkbenchFences: what ran is unknown, what waits still waits.   *)
Restart ==
  /\ phase = "down"
  /\ phase' = "up"
  /\ mem' = [disk EXCEPT !.fence = [r \in Requests |->
       IF disk.fence[r] = "running" THEN "unknown" ELSE disk.fence[r]]]
  /\ UNCHANGED <<disk, process, history, faults, crashes>>

Next ==
  \/ \E r \in Requests :
       \/ BeginWorkbench(r) \/ ContinueWorkbench(r) \/ DeadlinePasses(r)
       \/ RecordDraftClear(r) \/ Finish(r) \/ CancelLive(r)
       \/ \E s \in Requests : ClaimClarification(r, s)
  \/ RevokeWorkbenchClient \/ Close \/ Down \/ Restart

Spec == Init /\ [][Next]_vars

-----------------------------------------------------------------------------
(* Properties.                                                             *)

TypeOK ==
  /\ mem \in Ledger
  /\ disk \in Ledger
  /\ lease \in [Requests -> {"none", "outer", "child"}]
  /\ ctx \in [Requests -> {"live", "ended"}]
  /\ late \subseteq Requests
  /\ revoked \in BOOLEAN
  /\ dirty \in [revocation : BOOLEAN, claim : BOOLEAN]
  /\ phase \in {"up", "closed", "down"}
  /\ rights \subseteq Requests
  /\ replayed \subseteq Requests
  /\ stops \in Stops
  /\ dispatched \in [Requests -> SUBSET Requests]
  /\ faults \in 0..MaxFaults
  /\ crashes \in 0..MaxCrashes

(* A request gets one lease for its admission and one for every wait its   *)
(* execution ended in: no repeated submission, second decision, failed     *)
(* save or restart makes the same turn of a request execute twice.         *)
NoReplay == replayed = {}

(* A cancellation that was saved is the end of the request: an outcome     *)
(* that arrives after it, a decided approval or a restart changes nothing. *)
CancelIsDurable ==
  \A r \in stops.canceled : disk.fence[r] = "unknown" /\ mem.fence[r] = "unknown"

(* When a revocation is answered with success, also after failed attempts, *)
(* every request it fenced is fenced on disk, and stays so.                *)
RevokeIsDurable ==
  \A r \in stops.cut : disk.fence[r] = "unknown" /\ mem.fence[r] = "unknown"

(* A stop that was saved is the end of its request, in memory, on disk and *)
(* in every later process.                                                 *)
StopsLast == CancelIsDurable /\ RevokeIsDurable

(* A successor acts on a clarification only under a claim that is on disk, *)
(* so never two successors do, whatever save failed or process ended.      *)
OneSuccessor == \A r \in Requests : \A s \in dispatched[r] : disk.claim[r] = s

Turns == INSTANCE TurnLedger WITH
  up      <- phase # "down",
  shown   <- mem.fence,
  stored  <- disk.fence,
  acting  <- Active,
  stopped <- stops.canceled \cup stops.cut

(* The workbench implements the ledger of turns: whatever a lease that     *)
(* finishes late, a stop, a save that fails or a crash does, nobody acts   *)
(* without a saved fence, no end is replaced while the process lives, and  *)
(* the next one finds what was saved.                                      *)
TurnsKept == Turns!TurnSpec
=============================================================================
