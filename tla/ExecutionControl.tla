-------------------------- MODULE ExecutionControl --------------------------
(***************************************************************************)
(* The durable request control of the gateway's execution service          *)
(* (services/gateway/internal/execution: service.go, approvals.go,         *)
(* approval_control.go, persistence.go).                                   *)
(*                                                                         *)
(* A request is admitted once under a durable fence, run by one worker,    *)
(* may stop at approvals that the owner decides, and leaves a sealed       *)
(* result that the client acknowledges.  All fences live in one file,      *)
(* control.json, that is replaced as a whole.  A replacement that reports  *)
(* an error may or may not have reached the disk, so the disk is a set of  *)
(* ledgers, any of which the next process may read.                        *)
(*                                                                         *)
(* Every action is one critical section of Service.mu, or one step of a    *)
(* worker between two of them.                                             *)
(***************************************************************************)
EXTENDS Naturals, FiniteSets

CONSTANTS
  Requests,     \* keys of the ledger: (owner, client, request), one owner
  Clients,      \* client identities
  ClientOf,     \* the client each request belongs to
  Approvals,    \* approval identifiers an execution may ask for
  NoApproval,   \* no approval
  MaxActive,    \* running workers (8 in the code)
  MaxReserved,  \* OwnerBytes / TaskBytes (8 in the code)
  MaxStaged,    \* unsubmitted uploads (32 in the code)
  MaxApprovals, \* maxExecutionApprovals (32 in the code)
  MaxFaults,    \* bound of the model: failing storage operations
  MaxCrashes    \* bound of the model: ends of the process

ASSUME ConstantsAssumption ==
  /\ ClientOf \in [Requests -> Clients]
  /\ NoApproval \notin Approvals
  /\ {MaxActive, MaxReserved, MaxStaged, MaxApprovals, MaxFaults, MaxCrashes}
       \subseteq Nat

VARIABLES
  phase,    \* of the process: "up", "ending" (lifecycle context canceled),
            \* "closed" (Close ran), "down" (no process)
  fences,   \* s.control.Fences
  disk,     \* the ledgers control.json may hold
  content,  \* requests whose sealed result file exists
  staged,   \* s.inputs: uploads before the submission
  active,   \* keys of s.active
  waits,    \* s.approvals: the live waits and their decisions
  worker,   \* the goroutine of each request
  ctxDone,  \* requests whose own execution context is done
  clock,    \* time relative to the fence's Deadline and ExpiresAt
  revoked,  \* s.revokedClients
  dirty,    \* s.revocationDirty
  starts,   \* history: how often the executor was entered
  toolRuns, \* history: how often the tool of an approval was started
  told,     \* history: the decision a successful decideApproval confirmed
  faults, crashes

process == <<staged, active, waits, worker, ctxDone, revoked, dirty>>
history == <<starts, toolRuns, told>>
vars == <<phase, fences, disk, content, clock, process, history, faults, crashes>>

-----------------------------------------------------------------------------
(* Fences and approval records.                                            *)

Live     == {"accepted", "running"}
States   == Live \cup {"completed", "delivered", "delivery_expired", "failed", "unknown"}
Reasons  == {"none", "awaiting_approval", "after_approval"}
Decisions == {"approve", "reject"}

Record == [state : {"absent", "pending", "decided", "decision_unknown", "invalidated"},
           decision : Decisions \cup {"none"}, revision : Nat]
Fence  == [state : States \cup {"absent"}, revision : Nat, approvals : [Approvals -> Record],
           reason : Reasons, issued : BOOLEAN, receipt : BOOLEAN]
Ledger == [Requests -> Fence]

NoRecord == [state |-> "absent", decision |-> "none", revision |-> 0]
NoFence  == [state |-> "absent", revision |-> 0, approvals |-> [a \in Approvals |-> NoRecord],
             reason |-> "none", issued |-> FALSE, receipt |-> FALSE]
EmptyLedger == [k \in Requests |-> NoFence]

Asked(f)    == {a \in Approvals : f.approvals[a].state # "absent"}
Pending(f)  == {a \in Approvals : f.approvals[a].state = "pending"}
Approved(f) == {a \in Approvals : f.approvals[a].decision = "approve"}

Admitted == [NoFence EXCEPT !.state = "accepted", !.revision = 1]

(* The row of approval a as AwaitApproval adds it, as decideApproval        *)
(* decides it, and as it is left when that decision could not be saved.    *)
Row(state, decision, revision) ==
  [state |-> state, decision |-> decision, revision |-> revision]

Await(f, a) ==
  [f EXCEPT !.revision = f.revision + 1,
            !.approvals[a] = Row("pending", "none", f.revision + 1)]

Decided(f, a, decision) ==
  [f EXCEPT !.revision = f.revision + 1,
            !.approvals[a] = Row("decided", decision, f.revision + 1)]

Uncertain(f, a, decision) ==
  [f EXCEPT !.revision = f.revision + 1,
            !.approvals[a] = Row("decision_unknown", decision, f.revision + 2)]

(* Every change of state is a new revision.                                *)
Moved(f, state) == [f EXCEPT !.state = state, !.revision = f.revision + 1]

(* Faulty variants, each defined before the operator it stands in for, are *)
(* what a property of this module must tell from the code.  This one voids *)
(* decided approvals too.                                                  *)
InvalidateAllApprovals(f) ==
  [f EXCEPT !.approvals = [a \in Approvals |->
     IF a \in Asked(f)
     THEN [NoRecord EXCEPT !.state = "invalidated", !.revision = f.revision]
     ELSE f.approvals[a]]]

(* Pending approvals of a fence that ends are void.                        *)
InvalidateApprovals(f) ==
  [f EXCEPT !.approvals = [a \in Approvals |->
     IF a \in Pending(f)
     THEN [f.approvals[a] EXCEPT !.state = "invalidated", !.revision = f.revision]
     ELSE f.approvals[a]]]

(* Faulty: ends the fence and leaves its approvals pending.                *)
EndedOnly(f, state) == Moved(f, state)

(* finish, Cancel, revocation and a failed save end a fence this way.      *)
Ended(f, state) == InvalidateApprovals(Moved(f, state))

(* Faulty: a pending approval is taken for proof that nothing ran.         *)
InterruptPending(f) ==
  InvalidateApprovals(
    [Moved(f, IF Pending(f) # {} THEN "failed" ELSE "unknown") EXCEPT
       !.reason = IF Pending(f) # {} THEN "awaiting_approval" ELSE f.reason])

(* The end the gateway imposes on an execution it stops or finds stopped.  *)
InterruptApprovalExecution(f) ==
  InvalidateApprovals(
    [Moved(f, IF Pending(f) # {} /\ Approved(f) = {} THEN "failed" ELSE "unknown") EXCEPT
       !.reason = IF Pending(f) # {} THEN "awaiting_approval"
                  ELSE IF Asked(f) # {} THEN "after_approval" ELSE f.reason])

(* What validateApprovalControl and validateControl accept of one fence.   *)
ValidFence(f) ==
  /\ f.revision > 0
  /\ f.reason # "none" => f.state \in {"failed", "unknown"}
  /\ f.receipt => f.issued /\ f.state = "delivered"
  /\ Cardinality(Asked(f)) <= MaxApprovals
  /\ \A a \in Asked(f) :
       LET r == f.approvals[a] IN
       /\ r.revision \in 1..f.revision
       /\ r.state = "pending" => f.state = "running"
       /\ (r.state \in {"decided", "decision_unknown"}) <=> (r.decision # "none")

Present(L) == {k \in Requests : L[k].state # "absent"}
ValidControl(L) == \A k \in Present(L) : ValidFence(L[k])

(* Faulty: a stopped execution is forgotten, so that it can be resubmitted. *)
RecoveredForgetful(L) ==
  [k \in Requests |-> IF L[k].state \in Live THEN NoFence ELSE L[k]]

(* validateControl rewrites what a stopped process left live.              *)
Recovered(L) ==
  [k \in Requests |-> IF L[k].state \in Live THEN InterruptApprovalExecution(L[k]) ELSE L[k]]

-----------------------------------------------------------------------------
(* Capacity.                                                               *)

Holding(L) == {k \in Requests : L[k].state \in Live \cup {"completed"}}
Staging    == {k \in Requests : staged[k] # "none"}
Reservation == Cardinality(Holding(fences)) + Cardinality(Staging)

Open == phase \in {"up", "ending"}  \* ~s.closed

(* Faulty: the admission does not look at the revoked clients.             *)
AdmissibleRevoked(k) == Open /\ fences[k].state = "absent"

Admissible(k) == Open /\ fences[k].state = "absent" /\ ClientOf[k] \notin revoked

(* Faulty: the reservation a submission without uploads needs is missing.  *)
RoomForWorker(k) == Reservation <= MaxReserved /\ Cardinality(active) < MaxActive

HasRoom(k) ==
  /\ Reservation + (IF staged[k] = "none" THEN 1 ELSE 0) <= MaxReserved
  /\ Cardinality(active) < MaxActive

(* The context of k's execution: its own, or the process lifecycle.        *)
Done(k) == k \in ctxDone \/ phase # "up"

-----------------------------------------------------------------------------
(* saveLocked, through atomicFile.  A failed save leaves the previous file *)
(* or the new one; a second attempt on an error path may heal it.          *)

Saved(L)      == disk' = {L} /\ UNCHANGED faults
SaveFailed(S) == /\ faults < MaxFaults
                 /\ disk' = disk \cup S
                 /\ faults' = faults + 1
SaveIgnored(L) == Saved(L) \/ SaveFailed({L})

(* The save of an error path: what was attempted before it failed.         *)
SaveTwice(first, last) ==
  /\ faults < MaxFaults
  /\ faults' = faults + 1
  /\ disk' \in {{last}, disk \cup {first, last}}

-----------------------------------------------------------------------------
NoWaits == [a \in Approvals |-> "none"]
Idle    == [at |-> "idle", approval |-> NoApproval, ready |-> "none", outcome |-> "none"]
Spawned == [Idle EXCEPT !.at = "spawned"]
Executing == [Idle EXCEPT !.at = "executing"]
Finishing(outcome) == [Idle EXCEPT !.at = "finishing", !.outcome = outcome]

(* run checks ctx.Err() once, outside the lock, before it calls finish.    *)
Returning(k, outcome) == Finishing(IF Done(k) THEN "unknown" ELSE outcome)

Init ==
  /\ phase = "up"
  /\ fences = EmptyLedger
  /\ disk = {EmptyLedger}
  /\ content = {}
  /\ clock = [k \in Requests |-> "live"]
  /\ staged = [k \in Requests |-> "none"]
  /\ active = {}
  /\ waits = [k \in Requests |-> NoWaits]
  /\ worker = [k \in Requests |-> Idle]
  /\ ctxDone = {}
  /\ revoked = {}
  /\ dirty = FALSE
  /\ starts = [k \in Requests |-> 0]
  /\ toolRuns = [k \in Requests |-> [a \in Approvals |-> 0]]
  /\ told = [k \in Requests |-> NoWaits]
  /\ faults = 0
  /\ crashes = 0

-----------------------------------------------------------------------------
(* Admission.                                                              *)

Upload(k) ==
  /\ Admissible(k)
  /\ \/ /\ staged[k] = "none"
        /\ Reservation < MaxReserved
        /\ Cardinality(Staging) < MaxStaged
        /\ staged' = [staged EXCEPT ![k] = "fresh"]
     \/ /\ staged[k] = "stale"
        /\ staged' = [staged EXCEPT ![k] = "none"]
  /\ UNCHANGED <<phase, fences, disk, content, clock, active, waits, worker, ctxDone, revoked,
                 dirty, history, faults, crashes>>

Submit(k, withFiles) ==
  /\ Admissible(k)
  /\ withFiles => staged[k] = "fresh"
  /\ HasRoom(k)
  /\ LET admitted == [fences EXCEPT ![k] = Admitted] IN
       \/ /\ Saved(admitted)
          /\ fences' = admitted
          /\ staged' = [staged EXCEPT ![k] = "none"]
          /\ active' = active \cup {k}
          /\ worker' = [worker EXCEPT ![k] = Spawned]
          /\ ctxDone' = ctxDone \ {k}
          /\ clock' = [clock EXCEPT ![k] = "live"]
       \/ /\ SaveFailed({admitted})
          /\ UNCHANGED <<fences, staged, active, worker, ctxDone, clock>>
  /\ UNCHANGED <<phase, content, waits, revoked, dirty, history, crashes>>

-----------------------------------------------------------------------------
(* The worker.                                                             *)

(* Faulty: the worker leaves without giving its slot back.                 *)
RunFencedKeepingSlot(k) ==
  /\ worker[k].at = "spawned"
  /\ fences[k].state # "accepted"
  /\ worker' = [worker EXCEPT ![k] = Idle]
  /\ UNCHANGED <<phase, fences, disk, content, clock, staged, active, waits, ctxDone, revoked,
                 dirty, history, faults, crashes>>

(* The fence ended before the goroutine took the lock.                     *)
RunFenced(k) ==
  /\ worker[k].at = "spawned"
  /\ fences[k].state # "accepted"
  /\ worker' = [worker EXCEPT ![k] = Idle]
  /\ active' = active \ {k}
  /\ UNCHANGED <<phase, fences, disk, content, clock, staged, waits, ctxDone, revoked, dirty,
                 history, faults, crashes>>

(* Faulty: the executor is entered although the save failed.               *)
RunUnsaved(k) ==
  /\ worker[k].at = "spawned"
  /\ fences[k].state = "accepted"
  /\ fences' = [fences EXCEPT ![k] = Moved(fences[k], "running")]
  /\ SaveIgnored(fences')
  /\ worker' = [worker EXCEPT ![k] = Executing]
  /\ starts' = [starts EXCEPT ![k] = @ + 1]
  /\ UNCHANGED <<phase, content, clock, staged, active, waits, ctxDone, revoked, dirty, toolRuns,
                 told, crashes>>

Run(k) ==
  /\ worker[k].at = "spawned"
  /\ fences[k].state = "accepted"
  /\ fences' = [fences EXCEPT ![k] = Moved(fences[k], "running")]
  /\ \/ /\ Saved(fences')
        /\ worker' = [worker EXCEPT ![k] = Executing]
        /\ starts' = [starts EXCEPT ![k] = @ + 1]
     \/ /\ SaveFailed({fences'})
        /\ worker' = [worker EXCEPT ![k] = Finishing("unknown")]
        /\ UNCHANGED starts
  /\ UNCHANGED <<phase, content, clock, staged, active, waits, ctxDone, revoked, dirty, toolRuns,
                 told, crashes>>

(* The executor returns: a result, an error, or ErrUnavailable (a tool     *)
(* that failed, a panic).                                                  *)
Return(k) ==
  /\ worker[k].at = "executing"
  /\ \E outcome \in {"ok", "error", "unknown"} :
       worker' = [worker EXCEPT ![k] = Returning(k, outcome)]
  /\ UNCHANGED <<phase, fences, disk, content, clock, staged, active, waits, ctxDone, revoked,
                 dirty, history, faults, crashes>>

(* failApprovalPersistenceLocked: stop the computation, keep the fence.    *)
FailApprovalPersistence(k, first) ==
  /\ fences' = [fences EXCEPT ![k] = Ended(first, "unknown")]
  /\ SaveTwice([fences EXCEPT ![k] = first], fences')
  /\ waits' = [waits EXCEPT ![k] = NoWaits]
  /\ ctxDone' = ctxDone \cup {k}

(* Faulty: a second wait for the same approval is let in.                  *)
MayAskAgain(k, a) ==
  /\ fences[k].state = "running" /\ clock[k] = "live" /\ ~Done(k)
  /\ Cardinality(Asked(fences[k])) < MaxApprovals

MayAsk(k, a) ==
  /\ fences[k].state = "running" /\ clock[k] = "live" /\ ~Done(k)
  /\ waits[k][a] = "none"
  /\ Cardinality(Asked(fences[k])) < MaxApprovals

AwaitApproval(k, a) ==
  /\ worker[k].at = "executing"
  /\ MayAsk(k, a)
  /\ \/ /\ fences' = [fences EXCEPT ![k] = Await(fences[k], a)]
        /\ Saved(fences')
        /\ waits' = [waits EXCEPT ![k][a] = "waiting"]
        /\ worker' = [worker EXCEPT ![k] = [Idle EXCEPT !.at = "waiting", !.approval = a]]
        /\ UNCHANGED ctxDone
     \/ /\ FailApprovalPersistence(k, Await(fences[k], a))
        /\ worker' = [worker EXCEPT ![k] = Finishing("unknown")]
  /\ UNCHANGED <<phase, content, clock, staged, active, revoked, dirty, history, crashes>>

(* Faulty: the wait looks at its context only once a decision is there.    *)
WakeAfterDecision(k) ==
  /\ worker[k].at = "waiting"
  /\ Done(k) /\ worker[k].ready # "none"
  /\ worker' = [worker EXCEPT ![k] = Finishing("unknown")]
  /\ UNCHANGED <<phase, fences, disk, content, clock, staged, active, waits, ctxDone, revoked,
                 dirty, history, faults, crashes>>

(* The wait ends with its context.                                         *)
WakeDone(k) ==
  /\ worker[k].at = "waiting"
  /\ Done(k)
  /\ worker' = [worker EXCEPT ![k] = Finishing("unknown")]
  /\ UNCHANGED <<phase, fences, disk, content, clock, staged, active, waits, ctxDone, revoked,
                 dirty, history, faults, crashes>>

(* The wait receives the decision and rechecks the fence.                  *)
WakeDecided(k) ==
  /\ worker[k].at = "waiting"
  /\ worker[k].ready # "none"
  /\ worker' = [worker EXCEPT ![k] =
       IF fences[k].state = "running" /\ clock[k] = "live" /\ ~Done(k)
       THEN [worker[k] EXCEPT !.at = "decided"] ELSE Returning(k, "error")]
  /\ UNCHANGED <<phase, fences, disk, content, clock, staged, active, waits, ctxDone, revoked,
                 dirty, history, faults, crashes>>

(* AwaitApprovalWithInputs takes the lock again for the inputs; the        *)
(* workflow then checks its context.                                       *)
TakeInputs(k) ==
  /\ worker[k].at = "decided"
  /\ worker' = [worker EXCEPT ![k] =
       IF waits[k][worker[k].approval] # "none" /\ ~Done(k)
       THEN [worker[k] EXCEPT !.at = "authorized"] ELSE Returning(k, "error")]
  /\ UNCHANGED <<phase, fences, disk, content, clock, staged, active, waits, ctxDone, revoked,
                 dirty, history, faults, crashes>>

(* An approval runs its tool and resumes, or stops if the tool failed.     *)
RunTool(k) ==
  /\ worker[k].at = "authorized"
  /\ worker[k].ready = "approve"
  /\ toolRuns' = [toolRuns EXCEPT ![k][worker[k].approval] = @ + 1]
  /\ \E next \in {Executing, Finishing("error"), Finishing("unknown")} :
       worker' = [worker EXCEPT ![k] = next]
  /\ UNCHANGED <<phase, fences, disk, content, clock, staged, active, waits, ctxDone, revoked,
                 dirty, starts, told, faults, crashes>>

(* Faulty: the workflow goes on with its remaining calls.                  *)
SkipRejected(k) ==
  /\ worker[k].at = "authorized"
  /\ worker[k].ready = "reject"
  /\ worker' = [worker EXCEPT ![k] = Executing]
  /\ UNCHANGED <<phase, fences, disk, content, clock, staged, active, waits, ctxDone, revoked,
                 dirty, history, faults, crashes>>

(* A rejection ends the workflow, with an answer that says so or with the  *)
(* error of the step that records it.                                      *)
StopRejected(k) ==
  /\ worker[k].at = "authorized"
  /\ worker[k].ready = "reject"
  /\ \E outcome \in {"ok", "error", "unknown"} :
       worker' = [worker EXCEPT ![k] = Returning(k, outcome)]
  /\ UNCHANGED <<phase, fences, disk, content, clock, staged, active, waits, ctxDone, revoked,
                 dirty, history, faults, crashes>>

(* Faulty: finish overwrites an end that came before it.                   *)
AnyFence(k) == fences[k].state # "absent"

StillRunning(k) == fences[k].state = "running"

(* finish, by what it finds and what the executor returned.                *)
FinishFenced(k) ==
  /\ ~StillRunning(k)
  /\ UNCHANGED <<fences, disk, content, faults>>

FinishInterrupted(k) ==
  /\ StillRunning(k)
  /\ Asked(fences[k]) # {} /\ phase # "up"
  /\ fences' = [fences EXCEPT ![k] = InterruptApprovalExecution(fences[k])]
  /\ SaveIgnored(fences')
  /\ UNCHANGED content

(* An error, or a result that is too large.                                *)
FinishWithoutResult(k) ==
  /\ fences' = [fences EXCEPT ![k] =
       Ended(fences[k], IF worker[k].outcome = "unknown" THEN "unknown" ELSE "failed")]
  /\ SaveIgnored(fences')
  /\ UNCHANGED content

FinishUnsealed(k) ==
  /\ worker[k].outcome = "ok"
  /\ fences' = [fences EXCEPT ![k] = Ended(fences[k], "unknown")]
  /\ content' \in {content, content \cup {k}}
  /\ SaveTwice(fences', fences')  \* one fault for the seal and the save

FinishSealed(k) ==
  /\ worker[k].outcome = "ok"
  /\ \E issued \in BOOLEAN :
       LET result == [Ended(fences[k], "completed") EXCEPT !.issued = issued]
           completed == [fences EXCEPT ![k] = result]
       IN \/ /\ fences' = completed
             /\ Saved(completed)
             /\ content' = content \cup {k}
          \/ /\ fences' = [fences EXCEPT ![k] = [result EXCEPT !.state = "unknown"]]
             /\ SaveTwice(completed, fences')
             /\ content' \in {content \ {k}, content \cup {k}}

Finish(k) ==
  /\ worker[k].at = "finishing"
  /\ \/ FinishFenced(k)
     \/ FinishInterrupted(k)
     \/ /\ StillRunning(k)
        /\ Asked(fences[k]) = {} \/ phase = "up"
        /\ FinishWithoutResult(k) \/ FinishUnsealed(k) \/ FinishSealed(k)
  /\ waits' = [waits EXCEPT ![k] = NoWaits]
  /\ active' = active \ {k}
  /\ worker' = [worker EXCEPT ![k] = Idle]
  /\ UNCHANGED <<phase, clock, staged, ctxDone, revoked, dirty, history, crashes>>

-----------------------------------------------------------------------------
(* The owner and the client.                                               *)

Deliver(k, a, decision) ==
  worker' = IF worker[k].at = "waiting" /\ worker[k].approval = a
            THEN [worker EXCEPT ![k].ready = decision] ELSE worker

DecisionSaved(k, a, decision) ==
  /\ fences' = [fences EXCEPT ![k] = Decided(fences[k], a, decision)]
  /\ Saved(fences')
  /\ waits' = [waits EXCEPT ![k][a] = decision]
  /\ Deliver(k, a, decision)
  /\ told' = [told EXCEPT ![k][a] = decision]
  /\ UNCHANGED ctxDone

(* Faulty: the wait is released although the save failed.                  *)
DecisionReleased(k, a, decision) ==
  /\ fences' = [fences EXCEPT ![k] = Decided(fences[k], a, decision)]
  /\ SaveFailed({fences'})
  /\ waits' = [waits EXCEPT ![k][a] = decision]
  /\ Deliver(k, a, decision)
  /\ UNCHANGED <<ctxDone, told>>

DecisionUnsaved(k, a, decision) ==
  /\ fences' = [fences EXCEPT ![k] = Ended(Uncertain(fences[k], a, decision), "unknown")]
  /\ SaveTwice([fences EXCEPT ![k] = Decided(fences[k], a, decision)], fences')
  /\ waits' = [waits EXCEPT ![k] = NoWaits]
  /\ ctxDone' = ctxDone \cup {k}
  /\ UNCHANGED <<worker, told>>

DecideApproval(k, a, decision) ==
  /\ Open
  /\ fences[k].state = "running"
  /\ clock[k] = "live"
  /\ waits[k][a] = "waiting"
  /\ a \in Pending(fences[k])
  /\ DecisionSaved(k, a, decision) \/ DecisionUnsaved(k, a, decision)
  /\ UNCHANGED <<phase, content, clock, staged, active, revoked, dirty, starts, toolRuns, crashes>>

Cancel(k) ==
  /\ phase # "down"
  /\ fences[k].state \in Live
  /\ fences' = [fences EXCEPT ![k] = Ended(fences[k], "unknown")]
  /\ SaveIgnored(fences')
  /\ waits' = [waits EXCEPT ![k] = NoWaits]
  /\ ctxDone' = ctxDone \cup ({k} \cap active)
  /\ UNCHANGED <<phase, content, clock, staged, active, worker, revoked, dirty, history, crashes>>

(* A failed save keeps the fence in memory and the dirty mark, so that the *)
(* caller's retry saves it.                                                *)
RevokeWorkbenchClient(c) ==
  LET mine    == {k \in Requests : ClientOf[k] = c}
      stopped == {k \in mine : fences[k].state \in Live}
  IN
  /\ phase # "down"
  /\ revoked' = revoked \cup {c}
  /\ staged' = [k \in Requests |-> IF k \in mine THEN "none" ELSE staged[k]]
  /\ fences' = [k \in Requests |-> IF k \in stopped THEN Ended(fences[k], "unknown") ELSE fences[k]]
  /\ waits' = [k \in Requests |-> IF k \in stopped THEN NoWaits ELSE waits[k]]
  /\ ctxDone' = ctxDone \cup (stopped \cap active)
  /\ \/ /\ ~dirty /\ stopped = {}
        /\ UNCHANGED <<disk, dirty, faults>>
     \/ /\ dirty \/ stopped # {}
        /\ \/ Saved(fences') /\ dirty' = FALSE
           \/ SaveFailed({fences'}) /\ dirty' = TRUE
  /\ UNCHANGED <<phase, content, clock, active, worker, history, crashes>>

(* os.Remove of a result file that is no longer needed may fail.           *)
RemoveContent(k) == content' \in {content \ {k}, content}

(* Faulty: the acknowledgment removes the result before it is saved.       *)
AckRemovingFirst(k, receipt) ==
  /\ phase # "down"
  /\ receipt => fences[k].issued
  /\ fences[k].state = "completed" /\ clock[k] # "expired"
  /\ content' = content \ {k}
  /\ LET acked == [fences EXCEPT ![k] =
                    [Moved(fences[k], "delivered") EXCEPT !.receipt = receipt]]
     IN \/ fences' = acked /\ Saved(acked)
        \/ SaveFailed({acked}) /\ UNCHANGED fences
  /\ UNCHANGED <<phase, clock, process, history, crashes>>

(* The receipt of a durable copy; a presentation receipt may come with it  *)
(* or later, once.                                                         *)
AckWithClientAction(k, receipt) ==
  /\ phase # "down"
  /\ receipt => fences[k].issued
  /\ \/ /\ fences[k].state = "completed"
        /\ clock[k] # "expired"
     \/ /\ fences[k].state = "delivered"
        /\ receipt /\ ~fences[k].receipt
  /\ LET acked == [fences EXCEPT ![k] =
                    [Moved(fences[k], "delivered") EXCEPT !.receipt = receipt]]
     IN \/ /\ fences' = acked
           /\ Saved(acked)
           /\ RemoveContent(k)
        \/ /\ SaveFailed({acked})
           /\ UNCHANGED <<fences, content>>
  /\ UNCHANGED <<phase, clock, process, history, crashes>>

(* A repeated receipt only removes what an earlier removal left.           *)
AckAgain(k) ==
  /\ phase # "down"
  /\ fences[k].state = "delivered"
  /\ k \in content
  /\ content' = content \ {k}
  /\ UNCHANGED <<phase, fences, disk, clock, process, history, faults, crashes>>

-----------------------------------------------------------------------------
(* Housekeeping, shutdown, crash and restart.                              *)

(* Faulty: the sweep expires a result under its old revision.              *)
SweptSilently(L) ==
  [k \in Requests |-> IF L[k].state = "completed" /\ clock[k] = "expired"
                      THEN [L[k] EXCEPT !.state = "delivery_expired"] ELSE L[k]]

Swept(L) ==
  [k \in Requests |-> IF L[k].state = "completed" /\ clock[k] = "expired"
                      THEN Moved(L[k], "delivery_expired") ELSE L[k]]
Kept(L) == {k \in Requests : L[k].state = "completed"}

(* Files of no kept result are removed, up to the first that cannot be.    *)
RemoveFiles(kept) ==
  \E rest \in SUBSET (content \ kept) : content' = (content \cap kept) \cup rest

Sweep ==
  /\ Open
  /\ fences' = Swept(fences)
  /\ staged' = [k \in Requests |-> IF staged[k] = "stale" THEN "none" ELSE staged[k]]
  /\ \/ /\ Saved(fences')
        /\ RemoveFiles(Kept(fences'))
     \/ /\ SaveFailed({fences'})
        /\ UNCHANGED content
  /\ UNCHANGED <<phase, clock, active, waits, worker, ctxDone, revoked, dirty, history, crashes>>

(* The process context is canceled; Close takes the lock some time later.  *)
BeginShutdown ==
  /\ phase = "up"
  /\ phase' = "ending"
  /\ UNCHANGED <<fences, disk, content, clock, process, history, faults, crashes>>

Close ==
  LET interrupted == {k \in Requests : fences[k].state \in Live /\ Asked(fences[k]) # {}} IN
  /\ phase = "ending"
  /\ phase' = "closed"
  /\ fences' = [k \in Requests |->
       IF k \in interrupted THEN InterruptApprovalExecution(fences[k]) ELSE fences[k]]
  /\ IF interrupted = {} THEN UNCHANGED <<disk, faults>> ELSE SaveIgnored(fences')
  /\ waits' = [k \in Requests |-> NoWaits]
  /\ staged' = [k \in Requests |-> "none"]
  /\ UNCHANGED <<content, clock, active, worker, ctxDone, revoked, dirty, history, crashes>>

(* The process ends: Close has waited for its workers, or it is killed.    *)
Stop ==
  /\ crashes < MaxCrashes
  /\ crashes' = crashes + 1
  /\ phase' = "down"
  /\ fences' = EmptyLedger
  /\ staged' = [k \in Requests |-> "none"]
  /\ active' = {}
  /\ waits' = [k \in Requests |-> NoWaits]
  /\ worker' = [k \in Requests |-> Idle]
  /\ ctxDone' = {}
  /\ revoked' = {}
  /\ dirty' = FALSE
  /\ UNCHANGED <<disk, content, clock, history, faults>>

Exit  == phase = "closed" /\ (\A k \in Requests : worker[k].at = "idle") /\ Stop
Crash == phase # "down" /\ Stop

(* New: load, validateControl, Sweep.                                      *)
New ==
  /\ phase = "down"
  /\ \E L \in disk :
       /\ ValidControl(L)
       /\ LET loaded == Swept(Recovered(L)) IN
          \/ /\ phase' = "up"
             /\ fences' = loaded
             /\ Saved(loaded)
             /\ content' = content \cap Kept(loaded)
          \/ /\ faults < MaxFaults
             /\ faults' = faults + 1
             /\ UNCHANGED <<phase, fences>>
             /\ \/ disk' = {L, loaded} /\ UNCHANGED content
                \/ disk' = {loaded} /\ RemoveFiles(Kept(loaded))
  /\ UNCHANGED <<clock, process, history, crashes>>

-----------------------------------------------------------------------------
(* Time.                                                                   *)

DeadlinePasses(k) ==
  /\ clock[k] = "live"
  /\ worker[k].at # "idle"
  /\ clock' = [clock EXCEPT ![k] = "due"]
  /\ UNCHANGED <<phase, fences, disk, content, process, history, faults, crashes>>

(* The timer of the execution context fires at the deadline or later.      *)
ContextDeadline(k) ==
  /\ clock[k] # "live"
  /\ k \in active \ ctxDone
  /\ ctxDone' = ctxDone \cup {k}
  /\ UNCHANGED <<phase, fences, disk, content, clock, staged, active, waits, worker, revoked,
                 dirty, history, faults, crashes>>

RetentionPasses(k) ==
  /\ worker[k].at = "idle"
  /\ \E L \in disk : L[k].state = "completed"
  /\ clock[k] # "expired"
  /\ clock' = [clock EXCEPT ![k] = "expired"]
  /\ UNCHANGED <<phase, fences, disk, content, process, history, faults, crashes>>

StageAges(k) ==
  /\ staged[k] = "fresh"
  /\ staged' = [staged EXCEPT ![k] = "stale"]
  /\ UNCHANGED <<phase, fences, disk, content, clock, active, waits, worker, ctxDone, revoked,
                 dirty, history, faults, crashes>>

-----------------------------------------------------------------------------
Work(k) ==
  \/ RunFenced(k) \/ Run(k) \/ Return(k) \/ Finish(k)
  \/ WakeDone(k) \/ WakeDecided(k) \/ TakeInputs(k) \/ RunTool(k) \/ StopRejected(k)
  \/ \E a \in Approvals : AwaitApproval(k, a)

Call(k) ==
  \/ Upload(k) \/ Cancel(k) \/ AckAgain(k)
  \/ \E b \in BOOLEAN : Submit(k, b) \/ AckWithClientAction(k, b)
  \/ \E a \in Approvals, d \in Decisions : DecideApproval(k, a, d)

Tick(k) == DeadlinePasses(k) \/ ContextDeadline(k) \/ RetentionPasses(k) \/ StageAges(k)

Next ==
  \/ \E k \in Requests : Work(k) \/ Call(k) \/ Tick(k)
  \/ \E c \in Clients : RevokeWorkbenchClient(c)
  \/ Sweep \/ BeginShutdown \/ Close \/ Exit \/ Crash \/ New

Spec == Init /\ [][Next]_vars

(* What the code schedules: goroutines run, the clock and the timers of    *)
(* contexts advance, and an executor whose context is done returns (the    *)
(* tools it calls take that context).  Nothing is assumed of the owner, of *)
(* the client or of an executor whose context is still live.               *)
Fairness ==
  /\ \A k \in Requests :
       /\ WF_vars(RunFenced(k) \/ Run(k)) /\ WF_vars(Finish(k))
       /\ WF_vars(Done(k) /\ Return(k)) /\ WF_vars(WakeDone(k))
       /\ WF_vars(TakeInputs(k)) /\ WF_vars(RunTool(k) \/ StopRejected(k))
       /\ WF_vars(DeadlinePasses(k)) /\ WF_vars(ContextDeadline(k))
  /\ WF_vars(Close)

FairSpec == Spec /\ Fairness

-----------------------------------------------------------------------------
(* Properties.                                                             *)

(* The ledgers an observer can meet: what a lookup reads now, and what a   *)
(* process that starts after a crash may read.                             *)
Views == disk \cup (IF phase = "down" THEN {} ELSE {fences})

Steps == {"idle", "spawned", "executing", "waiting", "decided", "authorized", "finishing"}

(* A worker names an approval exactly while it is at one.                  *)
Worker == {w \in [at : Steps, approval : Approvals \cup {NoApproval},
                  ready : Decisions \cup {"none"}, outcome : {"none", "ok", "error", "unknown"}] :
             w.at \in {"waiting", "decided", "authorized"} <=> w.approval # NoApproval}

(* Every variable has its type.                                            *)
TypeOK ==
  /\ phase \in {"up", "ending", "closed", "down"}
  /\ fences \in Ledger /\ disk \subseteq Ledger /\ content \subseteq Requests
  /\ staged \in [Requests -> {"none", "fresh", "stale"}]
  /\ active \subseteq Requests /\ ctxDone \subseteq Requests
  /\ waits \in [Requests -> [Approvals -> Decisions \cup {"none", "waiting"}]]
  /\ worker \in [Requests -> Worker]
  /\ clock \in [Requests -> {"live", "due", "expired"}]
  /\ revoked \subseteq Clients /\ dirty \in BOOLEAN
  /\ starts \in [Requests -> Nat] /\ toolRuns \in [Requests -> [Approvals -> Nat]]
  /\ told \in [Requests -> [Approvals -> Decisions \cup {"none"}]]
  /\ faults \in Nat /\ crashes \in Nat

(* A request is executed at most once, however often the client submits    *)
(* it, the saves fail or the gateway restarts ("never re-executes").       *)
RunsAtMostOnce == \A k \in Requests : starts[k] <= 1

(* The tool of an approval starts at most once, across duplicate waits and *)
(* restarts (AwaitApproval: "a duplicate waiter could execute a tool       *)
(* twice").                                                                *)
ToolRunsAtMostOnce == \A k \in Requests, a \in Approvals : toolRuns[k][a] <= 1

(* Once a tool has started, no ledger anyone can read lacks the approval   *)
(* that let it start: the decision is durable before the continuation is   *)
(* released, and nothing later voids it.                                   *)
ToolNeedsDurableApproval ==
  \A k \in Requests, a \in Approvals : toolRuns[k][a] > 0 =>
    \A L \in Views : /\ L[k].approvals[a].state = "decided"
                     /\ L[k].approvals[a].decision = "approve"

(* "failed" with the reason awaiting_approval tells the owner that nothing *)
(* was executed under an approval; it is said only when that is so.        *)
ReasonHonest ==
  \A k \in Requests, L \in Views :
    L[k].state = "failed" /\ L[k].reason = "awaiting_approval" =>
      \A a \in Approvals : toolRuns[k][a] = 0

(* A decision that was confirmed to the owner is in every ledger from then *)
(* on, whatever ends the execution: "preserve the decision receipt".       *)
ReceiptsDurable ==
  \A k \in Requests, a \in Approvals : told[k][a] # "none" =>
    \A L \in Views : /\ L[k].approvals[a].state = "decided"
                     /\ L[k].approvals[a].decision = told[k][a]

(* Whatever sequence of saves, failures and crashes came before, the next  *)
(* process can load the ledger: validateControl refuses none of them.      *)
RestartAccepts == \A L \in disk : ValidControl(L)

(* A worker slot is taken exactly as long as a goroutine runs for it, and  *)
(* there are never more of them than MaxActive.                            *)
SlotAccounting ==
  /\ active = {k \in Requests : worker[k].at # "idle"}
  /\ Cardinality(active) <= MaxActive

(* The bytes reserved for an owner never exceed OwnerBytes, in memory and  *)
(* in every ledger a restart may load, failed admissions included.         *)
OwnerQuota ==
  /\ Reservation <= MaxReserved
  /\ \A L \in Views : Cardinality(Holding(L)) <= MaxReserved

(* A revoked client has no execution in progress and no staged upload, and *)
(* gets none, as long as the process lives.                                *)
RevokedIsQuiet ==
  \A k \in Requests : ClientOf[k] \in revoked =>
    fences[k].state \notin Live /\ staged[k] = "none"

(* A result that can still be fetched is removed only once `delivered` is  *)
(* durable: "persists delivered before removing spool content".            *)
DeliveredBeforeRemoval ==
  [][\A k \in content \ content' :
       fences[k].state = "completed" /\ clock[k] # "expired" =>
         \A L \in Views' : L[k].state = "delivered"]_vars

(* While a process lives, a fence never changes under the same revision:   *)
(* "resolve races by durable revision".                                    *)
RevisionAdvances ==
  [][phase # "down" /\ phase' # "down" =>
       \A k \in Requests :
         fences'[k] # fences[k] => fences'[k].revision > fences[k].revision]_vars

(* While a process lives, an end is final: neither a late completion nor a *)
(* late cancellation replaces it; a completed result is only delivered or  *)
(* expires.                                                                *)
EndIsFinal ==
  [][phase # "down" /\ phase' # "down" =>
       \A k \in Requests :
         fences[k].state \in States \ Live =>
           <<fences[k].state, fences'[k].state>> \in
             {<<s, s>> : s \in States} \cup
             {<<"completed", "delivered">>, <<"completed", "delivery_expired">>}]_vars

(* "Reject terminates this temporary workflow; remaining calls never run": *)
(* no tool starts once a rejection of the same request was confirmed.      *)
NothingAfterRejection ==
  [][\A k \in Requests :
       (\E a \in Approvals : told[k][a] = "reject") => toolRuns'[k] = toolRuns[k]]_vars

(* Every execution ends, with or without a decision, a decider or a disk   *)
(* that works: nothing stays accepted or running.                          *)
Settles == \A k \in Requests : fences[k].state \in Live ~> fences[k].state \notin Live

(* A shutdown that began ends, with every worker gone (Close waits for     *)
(* them), unless the process is killed.                                    *)
ShutdownEnds == phase = "ending" ~> phase \in {"closed", "down"} /\ active = {}

(* docs/client-r3-implementation.md:55, refuted: "Interrupted              *)
(* accepted/running work recovers as `unknown`".                           *)
InterruptedRecoversUnknown ==
  [][phase = "down" /\ phase' = "up" =>
       \A k \in Requests : \A L \in disk :
         disk = {L} /\ L[k].state \in Live => fences'[k].state = "unknown"]_vars
=============================================================================
