----------------------------- MODULE JingSiRuntime -----------------------------
(***************************************************************************)
(* The JingSi runtime provider (services/gateway/internal/jingsiruntime:   *)
(* provider.go, store.go) with the executor it drives (gateway/            *)
(* jingsi_runtime.go) and the agent's durable runs.                        *)
(*                                                                         *)
(* One request key names one record, which is one file: a bound execution  *)
(* or a negative fence.  Every handler works under the store's lock, so a  *)
(* critical section is one action; the steps between two sections are the  *)
(* places where a cancellation, a shutdown or a crash gets in.             *)
(*                                                                         *)
(* Authorization and semantic digests are left out: a caller that presents *)
(* other digests is refused without a change of state.                     *)
(***************************************************************************)
EXTENDS Naturals, FiniteSets

CONSTANTS
  Keys,           \* request keys of the authenticated caller
  MaxConcurrent,  \* Config.MaxConcurrent: size of the semaphore
  MaxQueued,      \* queueDepthFactor * MaxConcurrent
  MaxFaults,      \* bound: saves and removals that fail
  MaxCrashes      \* bound: ends of the process

ASSUME RuntimeAssumption ==
  /\ IsFiniteSet(Keys)
  /\ MaxConcurrent \in Nat \ {0}
  /\ MaxQueued \in Nat \ {0}
  /\ MaxFaults \in Nat
  /\ MaxCrashes \in Nat

VARIABLES
  disk,        \* the record files
  mem,         \* fileStore.byKey, byExecution: what the process answers from
  worker,      \* the goroutine enqueued for the key
  ctx,         \* its execution context
  signal,      \* a cancel handler about to look up the cancel function
  queued,      \* Provider.queued
  slots,       \* taken places of Provider.sem
  run,         \* the agent's durable run of the execution
  interrupted, \* FailInterruptedRuns of this process is still to come
  phase,       \* the process
  told,        \* history: what callers were told of the key's record
  faults, crashes

process == <<mem, worker, ctx, signal, queued, slots, interrupted>>
vars == <<disk, process, run, phase, told, faults, crashes>>

-----------------------------------------------------------------------------
(* Records.                                                                *)

Terminal == {"succeeded", "failed", "canceled", "timed_out"}
Active == {"queued", "running", "approval_required"}
Record == [kind : {"none", "bound", "fence"}, state : {"none"} \cup Active \cup Terminal,
           cancel : BOOLEAN]

NoRecord == [kind |-> "none", state |-> "none", cancel |-> FALSE]
Bound == [NoRecord EXCEPT !.kind = "bound", !.state = "queued"]
Fence == [NoRecord EXCEPT !.kind = "fence"]

IsLive(r) == r.kind = "bound" /\ r.state \notin Terminal
Ended(r, state) == [r EXCEPT !.state = state]

(* retentionExpired, with a window of any length: the cutoff may have      *)
(* passed the end of every record that has one.                            *)
Expired(r) == r.kind = "fence" \/ (r.kind = "bound" /\ r.state \in Terminal)

-----------------------------------------------------------------------------
(* The file store.                                                         *)

(* persistLocked: the rename is durable when it returns without an error.  *)
Saved(k, r) ==
  /\ disk' = [disk EXCEPT ![k] = r]
  /\ UNCHANGED faults

(* A failed save stopped before the rename or after it.                    *)
SaveFailed(k, r) ==
  /\ faults < MaxFaults
  /\ faults' = faults + 1
  /\ \E d \in {disk[k], r} : disk' = [disk EXCEPT ![k] = d]

Holds(k, r) == mem' = [mem EXCEPT ![k] = r]

(* finishLocked: a failed save is logged and otherwise ignored.            *)
Finish(k, state) ==
  LET r == Ended(mem[k], state) IN
  /\ Holds(k, r)
  /\ Saved(k, r) \/ SaveFailed(k, r)

Tell(k, what) == told' = [told EXCEPT ![k] = @ \cup {what}]

Serving == phase \in {"up", "stopping"}
Step(k, from, to) == worker[k] = from /\ worker' = [worker EXCEPT ![k] = to]

Init ==
  /\ disk = [k \in Keys |-> NoRecord]
  /\ mem = disk
  /\ worker = [k \in Keys |-> "none"]
  /\ ctx = [k \in Keys |-> "live"]
  /\ signal = [k \in Keys |-> FALSE]
  /\ queued = 0
  /\ slots = 0
  /\ run = [k \in Keys |-> "none"]
  /\ interrupted = FALSE
  /\ phase = "up"
  /\ told = [k \in Keys |-> {}]
  /\ faults = 0
  /\ crashes = 0

-----------------------------------------------------------------------------
(* The caller's requests.                                                  *)

(* A key that has a record: an exact replay returns the execution, a fence *)
(* conflicts.                                                              *)
SubmitReplay(k) ==
  /\ Serving
  /\ mem[k].kind = "bound"
  /\ Tell(k, "accepted")
  /\ UNCHANGED <<disk, process, run, phase, faults, crashes>>

Admit(k) ==
  /\ Saved(k, Bound)
  /\ Holds(k, Bound)
  /\ Step(k, "none", "parked")
  /\ queued' = queued + 1
  /\ Tell(k, "accepted")

(* Faulty: the failed save keeps its queue place.                          *)
AdmitFailedLeaks(k) ==
  /\ SaveFailed(k, Bound)
  /\ queued' = queued + 1
  /\ UNCHANGED <<mem, worker, told>>

(* The failed save of a submission gives its queue place back.             *)
AdmitFailed(k) ==
  /\ SaveFailed(k, Bound)
  /\ UNCHANGED <<mem, worker, queued, told>>

(* reserveQueueSlot, then the record, then the goroutine.                  *)
Submit(k) ==
  /\ Serving
  /\ mem[k].kind = "none"
  /\ queued < MaxQueued
  /\ Admit(k) \/ AdmitFailed(k)
  /\ UNCHANGED <<ctx, signal, slots, run, interrupted, phase, crashes>>

(* Lookup of a bound key, and of a key that has its fence.                 *)
LookupKnown(k) ==
  /\ Serving
  /\ mem[k].kind # "none"
  /\ Tell(k, IF mem[k].kind = "bound" THEN "accepted" ELSE "not_started")
  /\ UNCHANGED <<disk, process, run, phase, faults, crashes>>

(* Faulty: the fence is answered although its save failed.                 *)
FenceUnsaved(k) ==
  /\ Holds(k, Fence)
  /\ Saved(k, Fence) \/ SaveFailed(k, Fence)
  /\ Tell(k, "not_started")

(* Only a saved fence is answered; a failed save answers `unresolved`.     *)
CommitFence(k) ==
  \/ Saved(k, Fence) /\ Holds(k, Fence) /\ Tell(k, "not_started")
  \/ SaveFailed(k, Fence) /\ UNCHANGED <<mem, told>>

LookupAbsent(k) ==
  /\ Serving
  /\ mem[k].kind = "none"
  /\ CommitFence(k)
  /\ UNCHANGED <<worker, ctx, signal, queued, slots,
                 run, interrupted, phase, crashes>>

(* Nothing runs for an execution that waits for an approval.               *)
CancelWaiting(k) ==
  /\ Serving
  /\ mem[k].state = "approval_required"
  /\ LET r == Ended([mem[k] EXCEPT !.cancel = TRUE], "canceled") IN
     Holds(k, r) /\ (Saved(k, r) \/ SaveFailed(k, r))
  /\ UNCHANGED <<worker, ctx, signal, queued, slots,
                 run, interrupted, phase, told, crashes>>

(* The intent is saved before the handler looks for the cancel function;   *)
(* when the save fails the mark stays in memory.                           *)
CancelActive(k) ==
  /\ Serving
  /\ mem[k].state \in {"queued", "running"}
  /\ LET r == [mem[k] EXCEPT !.cancel = TRUE] IN
     /\ Holds(k, r)
     /\ \/ /\ Saved(k, r)
           /\ Tell(k, "cancel_requested")
           /\ signal' = [signal EXCEPT ![k] = TRUE]
        \/ /\ SaveFailed(k, r)
           /\ UNCHANGED <<told, signal>>
  /\ UNCHANGED <<worker, ctx, queued, slots, run, interrupted, phase, crashes>>

(* The cancel function is there only after execute has registered it.      *)
Signal(k) ==
  /\ signal[k]
  /\ signal' = [signal EXCEPT ![k] = FALSE]
  /\ ctx' = [ctx EXCEPT ![k] = IF worker[k] = "agent" /\ @ = "live" THEN "canceled" ELSE @]
  /\ UNCHANGED <<disk, mem, worker, queued, slots,
                 run, interrupted, phase, told, faults, crashes>>

-----------------------------------------------------------------------------
(* The worker of an execution.                                             *)

(* execute's first section failed to save `running`: finishLocked follows  *)
(* with a save of its own, that meets the same failure or not.             *)
FailToRun(k) ==
  LET r == Ended(mem[k], "failed") IN
  /\ faults < MaxFaults
  /\ Holds(k, r)
  /\ faults' = faults + 1
  /\ \E d \in {disk[k], Ended(mem[k], "running"), r} : disk' = [disk EXCEPT ![k] = d]
  /\ Step(k, "parked", "none")
  /\ UNCHANGED <<slots, ctx>>

Canceled(k) ==
  /\ mem[k].cancel
  /\ Finish(k, "canceled")
  /\ Step(k, "parked", "none")
  /\ UNCHANGED <<slots, ctx>>

(* Faulty: the work goes on although `running` may not be on disk.         *)
RunUnsaved(k) ==
  /\ ~mem[k].cancel
  /\ Holds(k, Ended(mem[k], "running"))
  /\ Saved(k, Ended(mem[k], "running")) \/ SaveFailed(k, Ended(mem[k], "running"))
  /\ Step(k, "parked", "running")
  /\ slots' = slots + 1
  /\ ctx' = [ctx EXCEPT ![k] = "live"]

Run(k) ==
  /\ ~mem[k].cancel
  /\ \/ /\ Holds(k, Ended(mem[k], "running"))
        /\ Saved(k, Ended(mem[k], "running"))
        /\ Step(k, "parked", "running")
        /\ slots' = slots + 1
        /\ ctx' = [ctx EXCEPT ![k] = IF phase = "up" THEN "live" ELSE "canceled"]
     \/ FailToRun(k)

(* enqueue takes a place of the semaphore and gives the queue place back;  *)
(* execute then reads the record.                                          *)
Take(k) ==
  /\ worker[k] = "parked"
  /\ slots < MaxConcurrent
  /\ queued' = queued - 1
  /\ Canceled(k) \/ Run(k)
  /\ UNCHANGED <<signal, run, interrupted, phase, told, crashes>>

(* A parked goroutine may also see the end of the lifecycle first.         *)
Leave(k) ==
  /\ phase = "stopping"
  /\ Step(k, "parked", "none")
  /\ queued' = queued - 1
  /\ UNCHANGED <<disk, mem, ctx, signal, slots,
                 run, interrupted, phase, told, faults, crashes>>

(* mapAgentState: what a durable run means for the caller.                 *)
Mapped(r) ==
  CASE r = "completed" -> "succeeded"
    [] r = "approval_pending" -> "approval_required"
    [] r = "cancelled" -> "canceled"
    [] OTHER -> "failed"

(* The cancel function is registered and Execute called.  A run that got   *)
(* past `received` is answered from the store and not executed again.      *)
Enter(k) ==
  /\ worker[k] = "running"
  /\ IF run[k] \in {"none", "received"}
     THEN /\ run' = [run EXCEPT ![k] = "received"]
          /\ Step(k, "running", "agent")
     ELSE /\ Step(k, "running", "returned")
          /\ UNCHANGED run
  /\ UNCHANGED <<disk, mem, ctx, signal, queued, slots,
                 interrupted, phase, told, faults, crashes>>

(* The routed run starts to act.                                           *)
AgentBegin(k) ==
  /\ worker[k] = "agent"
  /\ run[k] = "received"
  /\ run' = [run EXCEPT ![k] = "executing"]
  /\ UNCHANGED <<disk, process, phase, told, faults, crashes>>

(* The agent stores an outcome, or returns an error and stores none.       *)
AgentEnd(k) ==
  /\ Step(k, "agent", "returned")
  /\ \/ \E r \in {"completed", "failed", "approval_pending", "cancelled"} :
           run' = [run EXCEPT ![k] = r]
     \/ UNCHANGED run
  /\ UNCHANGED <<disk, mem, ctx, signal, queued, slots,
                 interrupted, phase, told, faults, crashes>>

(* The earlier of the authorization's deadline and the runtime budget.     *)
Deadline(k) ==
  /\ worker[k] = "agent"
  /\ ctx[k] = "live"
  /\ ctx' = [ctx EXCEPT ![k] = "late"]
  /\ UNCHANGED <<disk, mem, worker, signal, queued, slots,
                 run, interrupted, phase, told, faults, crashes>>

(* Faulty: only the context tells execute of a cancellation.               *)
OutcomeByContext(k, answer) ==
  CASE ctx[k] = "canceled" -> "canceled"
    [] ctx[k] = "late" -> "timed_out"
    [] OTHER -> answer

(* The saved intent counts even when its signal found no cancel function.  *)
Outcome(k, answer) ==
  CASE mem[k].cancel \/ ctx[k] = "canceled" -> "canceled"
    [] ~mem[k].cancel /\ ctx[k] = "late" -> "timed_out"
    [] OTHER -> answer

(* execute's last section; the place in the semaphore is given back.  The  *)
(* executor answers with the run it left, which nothing moves on, or with  *)
(* an error, whatever the run.                                             *)
Complete(k) ==
  /\ Step(k, "returned", "none")
  /\ \E answer \in {Mapped(run[k]), "failed"} : Finish(k, Outcome(k, answer))
  /\ slots' = slots - 1
  /\ ctx' = [ctx EXCEPT ![k] = "live"]
  /\ UNCHANGED <<signal, queued, run, interrupted, phase, told, crashes>>

-----------------------------------------------------------------------------
(* Retention.                                                              *)

(* sweepRetention: each removal reads the record again under the lock, so  *)
(* the snapshot it works from decides nothing.  Deleting the file forgets  *)
(* the key; a failed removal leaves memory and disk alone.                 *)
Sweep(k) ==
  /\ Serving
  /\ Expired(mem[k])
  /\ disk' = [disk EXCEPT ![k] = NoRecord]
  /\ Holds(k, NoRecord)
  /\ told' = [told EXCEPT ![k] = {}]
  /\ UNCHANGED <<worker, ctx, signal, queued, slots, run, interrupted, phase, faults, crashes>>

-----------------------------------------------------------------------------
(* The process.                                                            *)

(* SIGTERM cancels the lifecycle every execution context derives from.     *)
Shutdown ==
  /\ phase = "up"
  /\ phase' = "stopping"
  /\ ctx' = [k \in Keys |->
       IF worker[k] \in {"running", "agent"} /\ ctx[k] = "live" THEN "canceled" ELSE ctx[k]]
  /\ UNCHANGED <<disk, mem, worker, signal, queued, slots,
                 run, interrupted, told, faults, crashes>>

(* A crash, or the exit when Wait has returned or timed out.               *)
Down ==
  /\ Serving
  /\ crashes < MaxCrashes
  /\ crashes' = crashes + 1
  /\ phase' = "down"
  /\ mem' = [k \in Keys |-> NoRecord]
  /\ worker' = [k \in Keys |-> "none"]
  /\ ctx' = [k \in Keys |-> "live"]
  /\ signal' = [k \in Keys |-> FALSE]
  /\ queued' = 0
  /\ slots' = 0
  /\ interrupted' = FALSE
  /\ UNCHANGED <<disk, run, told, faults>>

(* Faulty: work that was under way is not taken up again.                  *)
ResumeQueuedOnly == {k \in Keys : disk[k].kind = "bound" /\ disk[k].state = "queued"}

(* Start's pending list.                                                   *)
Resumed == {k \in Keys : IsLive(disk[k]) /\ disk[k].state # "approval_required"}

(* newFileStore and Start, before the listener opens.  Resumed work is     *)
(* queued whatever the bound says.                                         *)
Boot ==
  /\ phase = "down"
  /\ phase' = "up"
  /\ mem' = disk
  /\ worker' = [k \in Keys |-> IF k \in Resumed THEN "parked" ELSE "none"]
  /\ queued' = Cardinality(Resumed)
  /\ interrupted' = TRUE
  /\ UNCHANGED <<disk, ctx, signal, slots, run, told, faults, crashes>>

(* main.go fails the runs of the earlier process after Start: a run that   *)
(* this process has resumed meanwhile is failed with them.  A store error  *)
(* ends the sweep half-way.                                                *)
FailInterruptedRuns ==
  /\ interrupted
  /\ interrupted' = FALSE
  /\ \E failed \in SUBSET {k \in Keys : run[k] = "executing"} :
       run' = [k \in Keys |-> IF k \in failed THEN "failed" ELSE run[k]]
  /\ UNCHANGED <<disk, mem, worker, ctx, signal, queued, slots,
                 phase, told, faults, crashes>>

Caller(k) ==
  \/ SubmitReplay(k) \/ Submit(k) \/ LookupKnown(k) \/ LookupAbsent(k)
  \/ CancelWaiting(k) \/ CancelActive(k) \/ Signal(k)
Worker(k) ==
  Take(k) \/ Leave(k) \/ Enter(k) \/ AgentBegin(k) \/ AgentEnd(k) \/ Deadline(k) \/ Complete(k)

Next ==
  \/ \E k \in Keys : Caller(k) \/ Worker(k) \/ Sweep(k)
  \/ Shutdown \/ Down \/ Boot \/ FailInterruptedRuns

(* Goroutines run and deadlines pass.  The agent is only trusted to return *)
(* once its context has ended.                                             *)
Fairness ==
  \A k \in Keys :
    /\ WF_vars(Take(k))
    /\ WF_vars(Enter(k))
    /\ WF_vars(Deadline(k))
    /\ WF_vars(ctx[k] # "live" /\ AgentEnd(k))
    /\ WF_vars(Complete(k))

Spec == Init /\ [][Next]_vars
FairSpec == Spec /\ Fairness

-----------------------------------------------------------------------------
(* Properties.                                                             *)

TypeOK ==
  /\ disk \in [Keys -> Record]
  /\ mem \in [Keys -> Record]
  /\ worker \in [Keys -> {"none", "parked", "running", "agent", "returned"}]
  /\ ctx \in [Keys -> {"live", "canceled", "late"}]
  /\ signal \in [Keys -> BOOLEAN]
  /\ queued \in Nat
  /\ slots \in 0..MaxConcurrent
  /\ run \in [Keys -> {"none", "received", "executing", "completed", "failed", "approval_pending",
                       "cancelled"}]
  /\ interrupted \in BOOLEAN
  /\ phase \in {"up", "stopping", "down"}
  /\ told \in [Keys -> SUBSET {"accepted", "not_started", "cancel_requested"}]
  /\ faults \in 0..MaxFaults
  /\ crashes \in 0..MaxCrashes

(* The queue counter and the semaphore count goroutines that exist: a      *)
(* failed save, an early return, a shutdown or the work resumed at Start   *)
(* neither leaks a place nor gives one back twice, so a full queue always  *)
(* drains.                                                                 *)
Accounting ==
  /\ queued = Cardinality({k \in Keys : worker[k] = "parked"})
  /\ slots = Cardinality({k \in Keys : worker[k] \in {"running", "agent", "returned"}})

(* While the executor works, the record file says so: whatever was being   *)
(* saved, cancelled or swept meanwhile, a crash finds an execution to      *)
(* re-enter under the same identity, and the process that works for it     *)
(* has not told anybody that it is over.                                   *)
WorkIsBound ==
  \A k \in Keys : worker[k] \in {"running", "agent", "returned"} =>
    /\ disk[k].kind = "bound" /\ disk[k].state = "running"
    /\ mem[k].state = "running"

(* A caller that was told `not_started` can rely on it until retention     *)
(* forgets the key: no later submission, restart or retry of a failed save *)
(* makes the key execute.                                                  *)
FenceHolds ==
  \A k \in Keys : "not_started" \in told[k] =>
    /\ disk[k].kind = "fence"
    /\ mem[k].kind # "bound"
    /\ worker[k] = "none"

(* A cancellation that was answered `cancel_requested` is the end of the   *)
(* execution, also when its signal found no cancel function, the agent     *)
(* had finished already, or the process stopped in between.                *)
CancelHonoured ==
  \A k \in Keys : "cancel_requested" \in told[k] =>
    /\ disk[k].cancel
    /\ \A r \in {disk[k], mem[k]} : r.state \in Terminal => r.state = "canceled"

(* An accepted execution leaves the queue and gets an outcome, or waits    *)
(* for an approval, while the process stays up: also one resumed at Start. *)
Settles ==
  \A k \in Keys : (mem[k].state \in {"queued", "running"})
    ~> (phase # "up" \/ mem[k].state \notin {"queued", "running"})
=============================================================================
