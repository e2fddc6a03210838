# SparkClaw: specifications, model checking and proofs

SparkClaw is a Go gateway (`services/gateway`) that executes an owner's requests with language
models and tools, an Electron desktop (`apps/desktop`) that submits them, and a web front end
(`apps/webchat`). This directory holds TLA+ modules translated from that code, the TLC
configurations that check them on small instances, and theorems that TLAPS proves for every
value of the constants. `PROJECT.json` lists the components, the runs, the lines each definition
stands for, the hazards of the code and the properties that watch them.

## 1. Inventory

*Status* is what this project does about it.

| Component | State it keeps | Operations | Status |
|---|---|---|---|
| **Execution control** `internal/execution` (service, approvals, approval_control, persistence) | `control.json`: one fence per request, replaced as a whole; sealed results; staged uploads; slots, waits and cancel functions in memory | Submit, run, AwaitApproval, decideApproval, finish, Lookup, File, Ack, Cancel, Revoke, Sweep, Close, New | modelled in `ExecutionControl` (parts below left out) |
| **Approval workflow** `gateway/execution_workflow.go` | the calls of one temporary workflow | approve runs one tool, reject ends the workflow | the continuation, in `ExecutionControl` |
| **Desktop execution client** `execution-client.mjs`, `client-store.mjs` | SQLite rows: task, accepted projection, delivery receipt; promises in memory | submit, reconcile, cancel, commit, ACK, poll | `ExecutionClient`, composed with the above |
| **Handle inputs** `handle_inputs.go`, `gateway/execution_conversation_files.go` | reservations, pending waits, late uploads of one execution; files, budget and reads under way of its workspace | AwaitHandle, Upload, drop, read | `HandleStage` |
| **Workbench leases and clarifications** `workbench.go`, `clarification*.go`, `gateway/workbench_admission.go` | fences of the workbench and one-time claims in `control.json`; leases and contexts in memory | Begin, finish, Continue, Cancel, Revoke, draft clear, claim | `WorkbenchLease` |
| **Progress and answers** `progress.go`, `answer_*.go`, `execution_stream.go` | sequenced snapshots, one per running execution | publish, reset, subscribe, finalize | planned (`AnswerStream`) |
| **JingSi runtime** `jingsiruntime`, `gateway/jingsi_runtime.go` | one file per request key (an execution or a negative fence); queue counter, semaphore, cancel functions; the agent's run in the store | submit, lookup, cancel, execute, sweep, Start | `JingSiRuntime` |
| **Reminder scheduler** `reminder`, `store/schedule_memory.go` | schedule rows with status and due time, occurrence records; poll horizon, batch and workers in memory | poll, advance, claim, publish, record, rearm, cancel, update | `ReminderScheduler` |
| **Email management** `store/email_management_*.go`, `emailmanagement` | per mailbox: binding, watermark, frozen query, revisions of signals and of what is reconciled; jobs with leases | hint, refresh, plan, claim, begin, commit, finish, bind, pause | discovery in `MailboxSync`; other job kinds not |
| **Message plane, delivery** | deduplicated envelopes, outbound attempts | publish, claim, retry | candidates after the plan |
| Connectors, agent runtime, tool hub, routing, stores, browser, mail sync, ISCP, channels, UI, tooling | see `PROJECT.json` | | not modelled; the reason is given there |

How the parts meet. The desktop POSTs a request over HTTP or ISCP, then polls `Lookup`; a result
is downloaded, stored in one SQLite transaction and acknowledged. The gateway runs each admitted
request in one goroutine, which may stop in `AwaitApproval` until the owner's decision arrives
through another HTTP handler. All handlers, workers, the sweep of every minute and `Close` share
`Service.mu` and write the same `control.json`. A restart (`New`) reads that file and ends what
was interrupted.

What is hard, and what makes each part correct:

* **Saves that fail after they may have happened.** `saveLocked` writes a temporary file, syncs,
  renames and syncs the directory. An error can be returned on either side of the rename. Code
  that undoes a change in memory may contradict the disk.
* **Crashes** between the admission, the start, the decision, the tool, the result and the ACK:
  nothing is executed twice, no tool runs on a decision that a restart does not know, no receipt
  is lost, and the next process can always start.
* **Late actors**: workers return after cancellation, revocation, deadline or shutdown; decisions
  and ACKs are repeated; uploads age while a submission uses them. An end is final, a revision
  names one state, no slot or byte is lost.
* **Waiting**: executions wait for people. Everything still ends, and a shutdown terminates.
* **Work that is claimed**: a lease ends while its holder still works, a process stops with a claim
  in hand, a failed store call leaves it open whether the claim was written. Nothing runs twice that
  must run once, and nothing stays claimed.
* **Work that is announced**: a signal arrives between the last look of a worker and the end of its
  job. It is neither lost nor answered by a query that could not have seen it.
* **A network that loses, delays and repeats** calls, and an application that closes at any
  point: one POST per request, ACK only after the commit, the result arrives all the same.

## 2. Modules

```
ExecutionControl            the gateway's request control            (840 lines)
  ExecutionInvariant        its inductive invariant
    ExecutionRefinement     the mapping to RequestLifecycle
      MCExecutionControl    instances for TLC
    ExecutionControlProofs  types, durability, refinement, capacity
  ExecutionClient           the desktop composed with it             (394 lines)
    MCExecutionClient       instances for TLC
    ExecutionClientProofs   (with ExecutionControlProofs)
RequestLifecycle            what the gateway promises of requests    (70 lines and a theorem)
WorkbenchLease              leases and claims in the same ledger     (353 lines)
  TurnLedger                what the workbench promises of requests  (69 lines)
JingSiRuntime               the runtime provider and its executor    (472 lines)
HandleStage                 files an execution asks its client for   (361 lines)
ReminderScheduler           timer, workers and schedule store        (433 lines)
  OccurrenceLedger          what the timer promises of occurrences   (45 lines)
MailboxSync                 discovery of one mailbox                 (452 lines)
  MCHandleStage, MCWorkbenchLease, MCJingSiRuntime, MCReminderScheduler, MCMailboxSync
  WorkbenchLeaseProofs, JingSiRuntimeProofs, HandleStageProofs, ReminderSchedulerProofs,
  MailboxSyncProofs
```

### ExecutionControl

Every action is one critical section of `Service.mu`, or one step of a worker between two of
them. State and code:

| Variable | Code |
|---|---|
| `phase` | the process: running; lifecycle context canceled; `Close` ran; gone |
| `fences` | `s.control.Fences` (state, revision, approvals, termination reason; `issued` and `receipt` stand for a client action and its receipt) |
| `disk` | the *set* of ledgers `control.json` may hold |
| `content` | which sealed result files exist |
| `staged` | `s.inputs`, with the age that makes the sweep drop an upload |
| `active`, `worker`, `ctxDone` | `s.active` and the goroutine of each request: where it stands, whether its context is done |
| `waits` | `s.approvals`: live waits and the decision delivered to each |
| `clock` | where the time is relative to the deadline and the retention of the fence |
| `revoked`, `dirty` | `s.revokedClients`, `s.revocationDirty` |
| `starts`, `toolRuns`, `told` | history: executor entered, tool started, decision confirmed to the owner |
| `faults`, `crashes` | bounds of the model |

The disk is a set because a save that reports an error leaves two possibilities. `Saved` makes it
a singleton; `SaveFailed` adds the new ledger to what may be there; a crash keeps the set, and
`New` picks one member. Every property about what "a restart may read" quantifies over it (`Views`).

Actions: `Upload`, `Submit` (with or without staged input; refusal, admission, undone admission),
`RunFenced`/`Run` (the worker finds its fence ended, or marks it running), `Return`, `Finish`
(completion, failure, unknown, with its two saves), `AwaitApproval`, `WakeDone`, `WakeDecided`,
`TakeInputs`, `RunTool`, `StopRejected`, `DecideApproval` (fresh, repeated, uncertain), `Cancel`,
`AckWithClientAction`, `AckAgain`, `RevokeWorkbenchClient`, `Sweep`, `BeginShutdown`, `Close`,
`Exit`, `Crash`, `New`, and the passing of time (`DeadlinePasses`, `ContextDeadline`,
`RetentionPasses`, `StageAges`).

Abstracted: identities and digests (a repeated request is the same request; conflicts change
nothing), bytes (one unit is reserved per request), the number of calls in a workflow, sealing
and encryption (a result is there or not), the tombstone period after which a fence is forgotten,
presentation receipts beyond their existence.

### RequestLifecycle and ExecutionRefinement

`RequestLifecycle` is the promise a client of the gateway relies on, without workers, approvals,
capacity or time. It has four variables: whether a gateway answers, the state it shows for each
request, the set of states the next gateway may find, and how often the request was started. A
request moves along the edges of one small graph; it starts as it becomes `running`, when
`running` is the only thing a restart can find; a restart ends what it finds under way.
`ExecutionRefinement` maps `ExecutionControl` to it: `shown` is the state of each fence, `stored`
the states of that fence in all ledgers of `disk`, `started` is `starts`. `Implements` is the
abstract specification under this mapping, a property of the run `approvals` and a theorem.

### ExecutionClient

Extends `ExecutionControl` with the desktop's durable rows (`task`, `projection`, `delivery`),
the one serialized call of each request (`call`: operation and answer), the acknowledgment that
runs beside it (`ack`), and messages of abandoned calls that are still on their way (`late`).
A call is sent, served by the gateway and taken by the desktop in three separate steps; between
any two of them it may time out, be lost, or lose its sender. `Lookup` is the gateway's answer
as the code computes it from ledger, clock and result file. `posts` is history.

Abstracted: uploads, the desktop's copy of approvals, schedules, conversations, streamed
progress, `delivery_too_large`. Calls of one request are serialized as in `#serialized`.

### WorkbenchLease

One conversation. `mem` and `disk` are its part of the ledger (fences and claims); a failed save
leaves `disk` at its old or its new content. `lease` and `ctx` are what the callers of the gateway
hold: a lease is `outer` (a message or a decided approval, under the session's admission) or a
`child` (a login that a later message resolves, under that message's context). `dirty` are the two
markers that outlive a failed save. `rights`, `stops` and `dispatched` are history: which request
is due its next lease, what callers were told of a stop, which successor was told to act.

Actions: `BeginWorkbench`, `ContinueWorkbench`, `RecordDraftClear`, `Finish`, `CancelLive`,
`RevokeWorkbenchClient`, `ClaimClarification`, `DeadlinePasses`, `Close`, `Down`, `Restart`. Each
is one critical section. States the code treats alike are one state; calls that are refused for
their binding or digest change nothing and are left out.

`TurnLedger` is the promise behind it, without leases, contexts, revocations or deadlines: requests
move along one small graph, and somebody acts for a request only from a `running` that is shown and
saved; a stop that was saved is an end, in memory and on disk; what a restart finds under way is
unknown. `TurnsKept` maps the fences in memory and on disk, the leases and the saved stops to it.

### JingSiRuntime

One record per key in `disk` and `mem`, a goroutine per key (`worker`: parked in the queue, running,
with the agent, returned), its context, and `signal`: a cancel handler that has saved its intent
and not yet looked for the cancel function. `run` is the agent's own durable run, which decides
whether a resumed execution is executed or answered from the store; an executor that returns an
error ends as failed, whatever its run says. Actions follow the critical
sections of submit, lookup, cancel and execute; `FailToRun`, `AdmitFailed` and the second branches
of `CommitFence` and `Finish` are their failed saves. `Sweep` forgets a key, and with it what its
callers were told: retention is the point up to which an answer binds. `Down` with `Boot` is the
restart, `FailInterruptedRuns` the later sweep of the agent's runs.

### ReminderScheduler

`now` counts poll intervals. `rec` and `occ` are the store, `poll` is the horizon
(`lastPoll`, `eligibleAfter`, `unavailable`), `scan` is `claimDue` under way and `jobs` the claimed
work, from the pending batch to the workers. A scan is several store transactions
(`AdvanceWorkbenchSchedule` for each occurrence, then `ClaimDue`), and the owner's
`CancelPending` and `UpdatePending` come between them, for any pending row and with any due time,
also that of an occurrence that is already recorded; what the scan has read of such a row conflicts
from then on, and the attempt still counts against its batch. A store call that fails has an unknown
outcome. `Publish`, `SaveReminderDelivery`, `RearmRead` and `RearmSave` are the steps of `process`.
A claim can become stale at any time, since its lease starts at the claim and a job's timeout when
a worker takes it. `online` is history: the first scan or pulse since the last failure, gap or
restart. (A pulse that finds the batch still waiting for workers is online time, as in
`observePollLocked`; the first form of the history counted scans only, and the attempt to prove
`SubmittedWasOnline` showed that it was wrong: TLC finds the difference with four ticks.)

`OccurrenceLedger` is the promise behind it, without polls, queues, leases or time: an occurrence of
a workbench schedule is recorded once, as missed or submitted; only a submitted one is handed to the
runtime, once at most; its outcome is recorded after that and is final. Hand-overs are counted, so a
second one is no step of the ledger. `LedgerKept` maps the records of all occurrences to it, and
their hand-overs from `published` and `repeated`.

### HandleStage

One execution, its stage and its materializer. `open`, `pending`, `waiters`, `uploaded` and
`reserved` are the stage (`reserved` counts from what the request itself takes); `inflight`,
`ready`, `charged`, `used` and `disk` are the materializer, the budget and the workspace. `reader`
says where each call is: `entering` and `queued` in the loop of `read`, `owner` when it has the
file's turn, `waiting` in the select of `AwaitHandle`, `holding` with the bytes, then `charged`,
`writing` and `leaving`. The materializer lets one read of a file through, so reads share a wait
only if they call `AwaitHandle` directly (`Direct`); no caller in the gateway does, the tests do.
`Upload`, `DropHandleStage`, the deadline, timers, contexts and other uses of the budget (`Spend`)
come in between. Abstracted: digests and manifests, the verification of a file that is read back.

### MailboxSync

The generation of a binding, the job of that generation with its lease, and the workers with the
steps of a round: `Look` (the mailbox is read and the upper bound taken from the clock), `Begin`
(the interval and the revision are frozen), `Commit` (complete, overflow or failed), `NextSlice`,
`Finish`. An instant is the number of messages that had arrived, so an interval is two numbers. The
code compares the times of its ends, so intervals that end at different times have different
identities here; the tail of an interval shares its identity, and a final check is of the last tail:
a worker that listed that tail without an overlap and lost its lease can commit into the check.
`lane` is the lease of a job of an older binding that still occupies the mailbox's browser.

Abstracted: the number of attempts (a failed job may always be retried or exhausted), the limit of
eight slices and the two seconds between them, adaptive poll intervals, failures of single
messages, and command receipts: their keys hold the checkpoint revision (page_intake.go:321, :545),
so the store refuses a second page, or a second failed list, of one revision. Without them a late
worker can do more here than in the code, which only makes `NothingLost` and `RefreshShown` say more;
the trace of `email_settled` has one worker. The store clears the last interval if a combined
range overflows (timeline.go:192), but `collectPageIncrement` lists the parts of such a range before
it commits anything (page_intake.go:223), so no commit of it asks for that. `PollInterval` is
positive, as the planner sets it.

### Faulty variants

Operators named for a mistake (`InvalidateAllApprovals`, `AcknowledgeFetched`, ...) stand before
the operator they could replace. No action uses them. Each is a plausible bug, and each property
of a passing run is shown to fail when one of them takes the place of the original (`mutants` in
`PROJECT.json`).

## 3. Runs

| Run | Instance | Distinct states | Question |
|---|---|---|---|
| `approvals` | 1 request, 2 approvals, 3 failed saves, 2 ends of the process | 143,008 | Is what is executed, reported and restarted consistent? Does every execution and every shutdown end? |
| `capacity` | 2 requests of 2 clients, 1 slot, 1 reservation, 1 staged upload, 2 failed saves, 1 crash | 1,094,404 | Are slots, reservations and revocations exact? |
| `client` | 1 request with files, 1 failed save, 1 crash, any number of lost calls and closings | 279,217 | Do desktop and gateway agree on what was executed and delivered? |
| `delivery` | as `client`, without failed saves | 81,003 | Does the desktop learn the end, and is every stored result acknowledged? |
| `workbench` | 3 interchangeable requests, 2 leases at a time, 2 failed saves, 2 ends of the process | 181,715 | Does each turn execute once, is a stop final, is a clarification dispatched once? |
| `jingsi` | 2 keys, 1 queue place, 1 slot, 1 failed save, 1 end of the process | 1,623,279 | Are counters exact, can callers rely on answers, does accepted work end? |
| `handles` | 2 files that do not fit together, 2 reads through the materializer, 1 direct, 3 reads in all, 1 failed file operation | 426,366 | Are reservations exact, are files whole, does every read end? |
| `reminder` | 1 service and 1 recurring workbench schedule with edits to its first due time, 2 ticks, 1 fault, 1 crash | 870,623 | Does an occurrence run once and only if it was due on line, is its record final, does every claim end? |
| `email` | 2 workers, 1 message, 2 signals, 1 failed list, 1 disruption | 1,621,473 | Is every message found and every signal answered? |
| `email_settled` | as `email` | (violated) | "A query cannot settle work it never observed" |
| `restart_doc` | 1 request, 2 approvals, 1 failed save, 1 crash | (violated) | "Interrupted work recovers as `unknown`" |
| `client_conflict` | 1 request, nothing fails | (violated) | "A revision never changes its content" |

*Safety of the control* (`approvals`): `RunsAtMostOnce`, `ToolRunsAtMostOnce`,
`ToolNeedsDurableApproval` (a started tool has its approval in every ledger a restart may read),
`ReceiptsDurable` (so has every decision that was confirmed), `ReasonHonest` (`failed` awaiting
approval is said only if no approved tool ran), `RestartAccepts` (`validateControl` refuses no
ledger that can be on the disk), and as properties of steps `DeliveredBeforeRemoval`, `EndIsFinal`, `RevisionAdvances`, `NothingAfterRejection`.
`Implements` is the refinement of `RequestLifecycle`. Every execution and every shutdown ends: `Settles`,
`ShutdownEnds`.

*Capacity*: `SlotAccounting`, `OwnerQuota` (in memory and in every possible ledger, undone
admissions included), `RevokedIsQuiet`.

*Client*: `OnePost`, `ReceiptsAgree` (the gateway calls delivered only what the desktop stored, and
what the desktop calls acknowledged is delivered in every possible ledger), `FailedIsHonest` (a task shown as
failed has no result). *Delivery*: `ResultsArrive`, `SavedIsAcknowledged`.

*Workbench*: `NoReplay` (one lease for the admission, one for each wait the execution ended in),
`StopsLast` (a cancellation that was saved is the end of its request, and when a revocation is
answered with success, the requests it fenced are fenced on disk for good, also if earlier attempts
failed), `TurnsKept` (the refinement of `TurnLedger`: no late outcome replaces an end), `OneSuccessor` (whoever acts
on a clarification has its claim on disk).

*JingSi*: `Accounting` (the queue counter and the semaphore count goroutines that exist),
`WorkIsBound` (while the executor works, the file says `running`), `FenceHolds` (who was told
`not_started` can rely on it until retention), `CancelHonoured` (a cancellation that was answered
is the end), `Settles`.

*Handles*: `ReservationsExact` (while the execution lives, the stage reserves what is awaited or was
received, once and within its limit, and a file is awaited exactly while reads wait; the budget
holds each file once), `FilesSound` (one read of a file at a time is under way, the one `inflight`
names; what is ready is whole, and what lies in the workspace is paid for, after any failed write or
removal), `ReadsEnd`.

*Reminder*: `NoReplay` (an occurrence of the workbench is handed over at most once, and only
after it was recorded), `SubmittedWasOnline` (nothing is submitted that was due while the store was
not being scanned), `LedgerKept` (the refinement of `OccurrenceLedger`, which counts hand-overs: the
record comes first, the outcome last, and neither changes again), `ClaimsEnd`.

*Email*: `NothingLost` (the watermark passes no message that is neither stored nor in a recorded
gap), `RefreshShown` (a refresh is pending exactly while its revision is not reconciled),
`EverySignalSettles`.

**Why the bounds are enough.** Two approvals are the least for which one can be decided or
executed while another is pending; three faults cover a failed save, the failed repair of that
save (`finish` saves twice) and one more; two ends of the process cover a process
that stops after it recovered what another left. Two requests for one slot and one reservation are the least that compete,
and two clients the least of which one can be revoked. One request is enough for the client:
the desktop keeps requests independent, and what couples them at the gateway is `capacity`'s
question. Three requests of a conversation are the least for two successors of one clarification.
Two reads of one file beside a direct one are the least for a turn, a successor and a shared wait,
and two files that exceed the room together the least that are refused.
Two keys for one slot and one queue place are the least that wait for each other. A service and a
workbench schedule meet in one batch; two ticks give an occurrence, the next one and a gap between
polls. The owner edits the workbench schedule to its first due time (`Edits`), before, in the middle of
and after a scan, so that it lies ahead, is due, is past or has its record already. Only the workbench
schedule recurs in this run; the service's is re-armed by its retries. The proofs cover a recurring
one, and with `Recurring = {s1}` and the owner editing `s1` instead `ClaimsEnd` holds too (1,150,136
states, too many to be a run beside the others). Two
workers are the least of which one holds a lease the other has lost, and two signals
the least of which one arrives while the other is being answered; one message is above or below
each bound of an interval. Lost and late messages need no bound, the set of calls being finite.

**Deadlock** is checked for `jingsi`, where a process that is up always has a caller. It is not
checked elsewhere: a gateway that was closed and is not started again, with the bound on restarts
used up, really stops, and so does a mailbox or a scheduler when the bounds on messages, signals or
time are used up.

**Fairness.** `Fairness` is what the code schedules: goroutines run, deadlines and context timers
fire, an executor whose context is done returns (the tools take that context), and the goroutine
of `Start` calls `Close` after its context is canceled. Nothing is assumed of the owner, of the
client, or of an executor whose context is live: `Settles` holds although nobody ever decides.
`ClientFairness` adds the sweep of every minute, the 5 s poll (strong: it waits its turn in the
request's queue), the 30 s timeout of every call, and strong fairness of the calls that are
repeated for ever and of taking their answers: a network, a result file or an application that
fails every single time is not the code's promise. Both delivery properties are conditioned on a
gateway that is up; after a restart they hold anew.

In `HandleStage` goroutines run and timers fire; nothing is assumed of the client or of contexts.
`ReadsEnd` is for a bounded number of reads: the turn of a file goes to any of those that wait for
it, so without end of new reads one could be passed over for ever.

In `JingSiRuntime` goroutines run, deadlines pass, and the agent is trusted to return only once its
context has ended. In `ReminderScheduler` the ticker fires, a worker makes some step (publications
have a five-minute timeout), leases run out and a stopped process is started again. In
`MailboxSync` the planner and some worker poll, deadlines and leases pass, and each worker moves on:
calls of the store and of the browser have timeouts. Nothing is assumed of signals, mail, owners or
the binding.

### Findings

1. `restart_doc`: docs/client-r3-implementation.md:55 says that interrupted accepted or running
   work recovers as `unknown`. `interruptApprovalExecution` (approval_control.go:44) recovers a
   fence with a pending and no approved approval as `failed` with
   `gateway_restarted_awaiting_approval`. The code is the more precise of the two, and
   `ReasonHonest` shows its claim to be true; the document is outdated.
2. `client_conflict`: `Lookup` (service.go:493, 501, 506) answers a state that the clock or an
   unreadable result implies under the revision of the stored state, and the desktop
   (client-store.mjs:697) refuses a known revision with another state. From the deadline until
   the worker's end is stored, each poll fails with "Execution revision conflict" and the task is
   shown as running. `ResultsArrive` shows that this passes while the gateway lives. It does not
   hold if a failed save and a crash come together: the lookup may have answered a revision that
   the crash lost, and recovery then uses it for another state. This combination is listed as a
   hazard and is not in the bounds of `delivery`.

3. `email_settled`: docs/email-notification-wakeup-design.md:300 freezes the revision of a query
   and its upper bound in one transaction, so that a query settles nothing it could not observe
   (:302, and email_management_poll.go:60). The code reads the upper bound from the clock before
   that transaction (page_intake.go:116) and freezes the revision in it
   (email_management_timeline.go:107). A message and its hint between the two are settled by a query
   that ends before the message. It is found by the next periodic poll (`NothingLost` and the plan
   of polls hold), but the hint is spent and a refresh is shown as answered. The query that
   confirms an overflow has the same form: an old bound with the present revision.

## 4. Proofs

The theorems hold for any requests, clients, approvals, keys and workers, and any values of the
limits and of the bounds of the models. They speak of the models: a step of the code is atomic as
long as it holds its lock, and a save has the outcomes the model gives it. They assume of the
constants what TLC evaluates on every run:

* `ConstantsAssumption`: every request has a client, `NoApproval` is not an approval, the limits
  and bounds are naturals. `WithFiles` is a set of requests.
* `LeaseAssumption`: finitely many requests, none of them called "none", as `NoClaim` is; some
  lease may be active; the bounds are naturals.
* `RuntimeAssumption`: finitely many keys; the capacities are positive, the bounds naturals.
* `StageAssumption`: finitely many files and readers, sizes and limits that are naturals;
  `NoReader` is not a reader.
* `SchedulerAssumption`: no schedule is of both kinds, batch, places, workers, gap and attempts are
  positive, as the code sets them, the bounds naturals.
* `MailboxAssumption`: there is a worker, `None` is none of the values it stands beside, the bounds
  are naturals.

| Theorem | Of | Statement |
|---|---|---|
| `TypeCorrect` | `ExecutionControl` | `Spec => []TypeOK` |
| `Durability` | | `Spec => [](TypeOK /\ DurabilityInv)` |
| `RunsOnce`, `ToolsOnce` | | a request is executed, and the tool of an approval started, at most once |
| `ToolsApproved` | | a started tool has its approval in every ledger a restart may read |
| `ReceiptsSurvive` | | a confirmed decision is never lost or changed |
| `ReasonsTrue` | | `awaiting_approval` is reported only if no approved tool ran |
| `RestartsSucceed` | | every ledger the disk may hold is accepted by the next process |
| `RevisionsAdvance` | | while a process lives, a fence changes only with its revision |
| `EndsAreFinal` | | while a process lives, no end is replaced, except by delivery or expiry |
| `ImplementsPromise` | | `Spec => Implements`, the refinement of `RequestLifecycle` |
| `CapacityInvariant` | | `Spec => [](Inv /\ CapacityInv)` |
| `SlotsCounted`, `QuotaKept` | | slots are taken exactly by workers and bounded; reservations stay in the quota in every ledger |
| `RevokedStayQuiet` | | a revoked client has nothing in progress or staged |
| `RejectionStops` | | no tool of a request starts after a confirmed rejection |
| `RemovedOnceDelivered` | | a result is removed only once its delivery is in every ledger |
| `PromisesOneStart` | `RequestLifecycle` | no request starts twice |
| `ClientImplementsControl` | `ExecutionClient` | `ClientSpec => Spec`: all of the above holds under the desktop |
| `ClientKnows` | | `ClientSpec => []ClientInv` |
| `SubmittedOnce` | | no request is POSTed again once its POST may have been sent |
| `SidesAgree` | | delivered means stored, acknowledged means delivered in every ledger |
| `FailuresHonest` | | a task shown as failed has no result, now or after a restart |
| `LeaseInvariant` | `WorkbenchLease` | `Spec => []LeaseInv` |
| `NoTurnReplayed` | | one lease for the admission and one for each wait |
| `StopsAreFinal` | | what was saved as stopped stays stopped |
| `TurnsImplemented` | | `Spec => TurnsKept`, the refinement of `TurnLedger` |
| `OneSuccessorActs` | | one successor of a clarification, with its claim on disk |
| `RuntimeInvariant` | `JingSiRuntime` | `Spec => []RuntimeInv` |
| `PlacesCounted`, `WorkBound` | | counters are exact; the file of a key at work says `running` |
| `FencesHold`, `CancelsHonoured` | | `not_started` and a confirmed cancellation bind until retention |
| `StageInvariant` | `HandleStage` | `Spec => []StageInv` |
| `BytesReserved` | | the stage and the budget hold the bytes of each file once |
| `FilesWhole` | | one read of a file at a time; ready files are whole, files on disk paid for |
| `ReplayInvariant` | `ReminderScheduler` | `Spec => []ReplayInv` |
| `NeverReplayed` | | no occurrence is handed over twice, or without its record |
| `TimerImplementsLedger` | | `Spec => LedgerKept`, the refinement of `OccurrenceLedger` |
| `OfflineWorkIsMissed` | | nothing is submitted that was due while the store was not scanned |
| `MailboxInvariant` | `MailboxSync` | `Spec => []MailboxInv` |
| `NoMessageLost` | | the watermark passes no message that is neither stored nor in a recorded gap |
| `RefreshesShown` | | a refresh is pending exactly while its revision is not reconciled |

None of the properties is inductive. Each invariant below was checked by TLC on an instance before
it was proved.

*Durability.* What is safe follows from the order in which the code saves and acts, which a single
state shows only if the invariant keeps what is known of every possible ledger. `DurabilityInv`
(module `ExecutionInvariant`) is

* `LedgerInv`: each fence of each ledger is well formed (`FenceInv`); nothing is asked before the
  execution runs, an honest reason excludes approvals, validation succeeds;
* `DownInv`, `WaitInv`: a process that is down knows nothing; a running execution has a wait for
  every approval it asked for, hence it asks for none twice;
* `ReceiptsDurable`, `ReadyInv`, `ToolInv`: what was confirmed is in every ledger; what a worker
  holds was confirmed; what was started was confirmed, and no worker is at it any more;
* `StartInv`: what was started has left its admission, in memory and in every ledger.

`ExecutionControlProofs` starts with the types and defines `Follows(f, g)`: fence `g` is well formed, keeps
every decided approval of `f`, never falls back to absent or accepted after leaving it, and is
`f` or has a higher revision and a state that `RequestLifecycle` lets follow (`Advances`). One
lemma per way the code changes a fence (admitted, moved, asked, decided, uncertain, ended,
interrupted, delivered) shows that it follows. A *live step* is one
after which all that is in memory follows, fence by fence, what was in memory, and so does every
ledger of the disk that was not there before; each action is shown to be one (`RunLive`,
`FinishLive`, `DecideLive`, ...), and live steps preserve the parts about ledgers, receipts and
starts (`LiveLedger`, `LiveReceipts`, `LiveStart`). What remains, per action, are waits, workers and
the history (`RunSafe`, `AwaitSafe`, `DecideSafe`, `RunToolSafe`, ...). `NewSafe` treats the
restart: recovery follows the ledger it loaded. `InvNext` collects the actions.

*Refinement.* The same facts are then read as steps. Every step is a live step,
leaves the ledgers alone, ends the process or starts one (`StepKinds`). A live step serves
(`LifeServes`): its fences move along edges, what is new on the disk follows what was shown, and a
start is the saved branch of `Run`. The end of the process halts (`StopHalts`), and recovery
restarts (`NewRestarts`). `RevisionAdvances` and `EndIsFinal` follow from `Advances`.

*Capacity.* `CapacityInv` keeps, beside the two counts, that all counted sets are finite, that a
worker works for a request that has a fence (so that no new admission takes its slot), that an open
wait is the wait of the worker that is at it, and that a worker whose owner rejected an approval
still holds that rejection or is on its way out. Only a submission makes a fence where there was
none (`NoNewcomer`), so no other step can raise a reservation in any ledger.

*The desktop.* For one request, every step of the composition is an ordinary step of the gateway, an
arrival of its submission or of its acknowledgment, the end of a process, or a start. `Traced` says
what an ordinary step leaves behind on the disk, also in the first of two saves; from it follows
that such a step keeps each of the four things a desktop can know (`Known`): that no ledger has the
request, that it has no result and will get none (`Sealed`), that no ledger counts it as delivered,
that all do. `ClientInv` ties these to the desktop's state. Nothing was admitted as long as nothing
can have arrived (`PostInv`); whatever is shown as failed, or is about to be by an answer under
way, was posted, is not outstanding and is sealed (`FailInv`); an acknowledgment exists only of a
stored result, and is confirmed only if it is durable (`ReceiptInv`). Two facts about the gateway
alone are needed: a process that shows no result left none on its disk that the next one could
find (`EarlyInv`), and a process that shows a delivery has it on the disk in every copy
(`DeliveredInv`).

*Workbench.* `LeaseInv` adds to the three properties: a live context runs behind a running fence; a
request that could get a lease, now or after a restart, is owed one by the history; what a
revocation fenced in memory only keeps the ledger dirty; and a claim on disk is the one in memory,
unless a failed claim stopped all further ones. The refinement needs one fact more, `LeaseFenced`: a
lease stands behind `running` or `unknown`, so that what finishes after its context ended can only
repeat the end. Every action that moves a request moves one by an edge (`OneMoves`), except the
revocation; that a saved stop is everywhere is `StopsLast` of the state it leads to (`Served`).

*JingSi.* `KeyOK` relates for one key its file, its record in memory, its goroutine and what callers
were told. A step of one key touches nothing of another (`OtherKeys`); the counters are sums over
keys, each action changing the worker of one. The proof found a defect of the model: two guards of
the `CASE` in `Outcome` overlapped, where the code takes the first. They are disjoint now.

*Mailbox.* A commit is accepted from any worker whose interval has the identity of the frozen one,
also from one that lost its lease long ago, and moves the watermark to the end of the frozen one.
So `MailboxInv` says that every interval held under the identity of the frozen one, of an overflow
that waits for its confirmation, or of the last tail that may be checked again, has listed the same
messages (`Known`), that a free identity is held by nobody (`FreshIsNew`), and where a frozen interval lies (`Frozen`): from the
watermark or below to an instant the provider had passed.

*Handles.* Bytes are the elements of a set (`BytesIn`), so that what a set of files weighs is a
cardinality, and a file that joins or leaves adds or takes its size (`BytesAdd`, `BytesRemove`);
no sum over a set is needed, which would be recursive. A step joins a wait (`WaitKeeps`), leaves one
(`DepartureKeeps`) or keeps all waits (`WaitsKept`); the number of waiters of a file is the
cardinality of the readers that wait for it, and the last one to go gives back what has not arrived.
`FilesInv` adds to `FilesSound` that a read which has accounted for its file finds it in the budget,
that one which writes finds the partial file it created itself, and that direct reads never come
so far. A step of the materializer then changes only what belongs to the file whose turn it has
(`MaterializerFiles`), or takes and frees that turn (`EnterFiles`, `LeaveFiles`).

*Reminder.* The work of the process is the queue followed by what the scan under way has claimed
(`Work`). `WorkInv` says that each piece of it for a workbench schedule stands for one occurrence,
that no other piece stands for the same, that the occurrence is recorded as submitted, and that it
waits exactly until it is handed over. A record is made once, because an advance to a recorded
occurrence conflicts; so a new piece is never a repetition, and an advance that fails drops its
pieces. The refinement needs nothing more, as `NoReplay` says what the count of hand-overs is:
`AdvanceWorkbenchSchedule` enters, `Publish` hands over, `SaveReminderDelivery` settles, everything
else stutters. `OnlineInv` relates the horizon to the
history: `eligibleAfter` is not before the time since which the process is online, and it covers the
whole scan as long as that time is not known, so a verdict `submitted` implies a due time after it.

*Only model-checked* is what is live: `Settles` (twice), `ShutdownEnds`, `ResultsArrive`,
`SavedIsAcknowledged`, `ReadsEnd`, `ClaimsEnd` and `EverySignalSettles`. Liveness under fairness and
ENABLED are beyond TLAPS, as are induction over data and modules that reach RECURSIVE operators.
Every invariant and every action property of a passing run is a theorem.

## 5. Not modelled

The two service operations `Bind` and `Upload`'s installation checks, progress
streams (planned); jobs of email management other than discovery; what an agent does inside a run; executions of another process on the same spool after `Close`
released its lock (planned as `SpoolOwnership`: docs/client-r3-implementation.md:55 says "A
private process lock excludes two execution spool writers", while handlers may write after it);
a clock that steps backwards; corruption of files; HTTP decoding, authentication and transport
sessions. Components outside the execution path are listed with their reasons in `PROJECT.json`.

Modelled, but without a property, since the code does not keep one:

* `CancelWorkbench` after a failed save has left `unknown` in memory and answers the repeated call
  with success, without saving (workbench.go:313). A crash brings back `approval_pending`, which can
  be continued. `RevokeWorkbenchClient` keeps a marker for this case; `StopsLast` is
  therefore about cancellations that were saved.
* `rearm` saves the row it read (reminder/scheduler.go:233). A worker whose claim was taken over can
  put a schedule back to pending that the owner cancelled meanwhile; and a crash between the
  delivery record and `rearm` leaves a recurring schedule `sent` for good.
* An owner can edit a workbench schedule back to the due time of an occurrence that is already
  recorded. Its advance then conflicts at every poll (workbench_schedule.go:47), and the schedule
  stands still until it is edited again; nothing is replayed.
* `BeginEmailSync` does not check the lease. A worker that has lost it can put the mailbox back to
  `running` before the owner finishes, whose finish then sees no qualified query: the open signal
  waits for the next poll. So `EverySignalSettles` cannot be sharpened to "without a poll".
* `emailPollStop` for a job of an older binding cancels the pending refresh rows of the mailbox, also
  those of the new binding (email_management_poll.go:37). The rows are not in the model.
* `FailInterruptedRuns` can fail a run that resumed JingSi work is executing (main.go:118).

## 6. Plan

Order of work; a module is written so that it can be checked first and proved later (constants
with named assumptions, one action per operation, no recursion).

1. `ExecutionControl` with its durability and capacity proofs: **done**.
2. `ExecutionClient`, the composition with the desktop: **done**, checked and proved.
3. `RequestLifecycle`, implemented by `ExecutionControl`, which the composition implements:
   **done**, checked and proved.
4. `WorkbenchLease` with `TurnLedger`, `JingSiRuntime`, `HandleStage`, `ReminderScheduler` with `OccurrenceLedger`,
   `MailboxSync`: **done**, checked and proved.
5. `AnswerStream`: sequenced snapshots for subscribers that join late; what a reader assembles is
   a prefix of what was published.
6. `SpoolOwnership`: two processes and the process lock around `Close`.
7. The other job kinds of email management, on the lease of `MailboxSync`.

Every safety property the runs check is proved. The next theorems belong to the modules above; and a
revision fence for answers (finding 2) would be an abstract specification that `ExecutionControl`
does not implement.

## 7. Running it

    tlc -workers 2 -config ExecutionApprovals.cfg MCExecutionControl.tla
    tlc -workers 2 -config ExecutionCapacity.cfg  MCExecutionControl.tla
    tlc -workers 2 -config ExecutionClient.cfg    MCExecutionClient.tla
    tlc -workers 2 -config ExecutionDelivery.cfg  MCExecutionClient.tla
    tlc -workers 2 -config WorkbenchLease.cfg     MCWorkbenchLease.tla
    tlc -workers 2 -config JingSiRuntime.cfg      MCJingSiRuntime.tla
    tlc -workers 2 -config HandleStage.cfg        MCHandleStage.tla
    tlc -workers 2 -config ReminderScheduler.cfg  MCReminderScheduler.tla
    tlc -workers 2 -config MailboxSync.cfg        MCMailboxSync.tla
    for m in RequestLifecycle ExecutionControlProofs ExecutionClientProofs WorkbenchLeaseProofs \
             JingSiRuntimeProofs HandleStageProofs ReminderSchedulerProofs MailboxSyncProofs; do
      tlapm $m.tla; done

The three configurations that are meant to fail are `ExecutionRestartDoc.cfg` (module
`MCExecutionControl`), `ExecutionConflict.cfg` (`MCExecutionClient`) and `MailboxSettled.cfg`
(`MCMailboxSync`). The longest runs are `delivery`, `handles`, `jingsi` and `email`, whose temporal checks take
up to three minutes each.
