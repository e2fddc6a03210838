-------------------------- MODULE ReminderScheduler --------------------------
(***************************************************************************)
(* The timer of scheduled messages (services/gateway/internal/reminder:    *)
(* scheduler.go, workbench.go, recurrence.go) over the schedule store      *)
(* (store/schedule_memory.go, workbench_schedule.go).                      *)
(*                                                                         *)
(* One poller scans the store and hands claimed schedules to workers.  A   *)
(* service schedule is claimed under a lease and rearmed after delivery; a *)
(* workbench schedule is advanced past the occurrence before it runs.      *)
(* Store operations are transactions and one action each; the owner's      *)
(* edits and cancellations, ticks and crashes come between them.           *)
(*                                                                         *)
(* A tick is one poll interval and a recurring schedule is due each tick.  *)
(* The lease of a claim runs from the claim and a worker's timeout from    *)
(* the start of its job, so a claim that queued can outlive its lease: the *)
(* module lets any claim become stale.  The clock never goes back.         *)
(***************************************************************************)
EXTENDS Naturals, Sequences

CONSTANTS
  Service,     \* schedules answered through a connector
  Workbench,   \* schedules of the host's workbench
  Recurring,   \* those of either kind with a recurrence
  Batch,       \* tickBatchLimit
  Places,      \* claimed work the jobs channel and the workers take at once
  Workers,     \* workerCount
  MaxGap,      \* an interval of more than MaxGap ticks between polls is a gap
  MaxAttempts, \* maxDeliveryAttempts
  MaxTime,     \* bound: ticks
  Edits,       \* bound: due times the owner of a schedule edits it to
  MaxFaults,   \* bound: store failures and job timeouts
  MaxCrashes   \* bound: ends of the process

Schedules == Service \cup Workbench

ASSUME SchedulerAssumption ==
  /\ Service \cap Workbench = {}
  /\ Recurring \subseteq Schedules
  /\ {Batch, Places, Workers, MaxGap} \subseteq Nat \ {0}
  /\ MaxAttempts \in Nat \ {0}
  /\ MaxTime \in Nat \ {0}
  /\ Edits \subseteq Schedules \X (0..(MaxTime + 1))
  /\ MaxFaults \in Nat
  /\ MaxCrashes \in Nat

VARIABLES
  now,
  rec,       \* the reminder rows
  occ,       \* occurrence records of workbench schedules, by due time
  jobs,      \* claimed work: pending, in the channel and with the workers
  poll,      \* lastPoll, eligibleAfter and unavailable of this process
  scan,      \* the scan under way
  up,
  published, \* history: workbench occurrences handed to the runtime
  repeated,  \* history: those handed over again, or after all
  online,    \* history: first scan or pulse since a failure, gap or restart
  faults, crashes

process == <<jobs, poll, scan, up>>
history == <<published, repeated, online>>
vars == <<now, rec, occ, process, history, faults, crashes>>

-----------------------------------------------------------------------------

Times == 0..(MaxTime + 1)
Row == [status : {"pending", "sending", "sent", "failed", "canceled", "submitted", "missed"},
        due : Nat, attempt : Nat, stale : BOOLEAN]
Jobs == [s : Schedules, row : Row,
         stage : {"queued", "sent", "retryable", "blocked", "again", "retry", "saveAgain",
                  "saveRetry"}]

Blank == [status |-> "pending", due |-> 1, attempt |-> 0, stale |-> FALSE]
Job(s, row) == [s |-> s, row |-> row, stage |-> "queued"]
Without(i) == SubSeq(jobs, 1, i - 1) \o SubSeq(jobs, i + 1, Len(jobs))

Idle == [stage |-> "idle", at |-> 0, left |-> 0, listed |-> {}, claimed |-> <<>>]
NoPoll == [polled |-> FALSE, last |-> 0, eligible |-> 0, unavailable |-> FALSE]
Never == MaxTime + 1

(* nextOccurrence: the first after `from`, at least one step after `due`.  *)
NextOccurrence(due, from) == (IF due > from THEN due ELSE from) + 1

(* Bound: due times the clock does not reach are not told apart.           *)
Bounded(due) == IF due <= MaxTime THEN due ELSE MaxTime + 1

Fault == faults < MaxFaults /\ faults' = faults + 1

Init ==
  /\ now = 0
  /\ rec = [s \in Schedules |-> Blank]
  /\ occ = [s \in Workbench |-> [d \in Times |-> "none"]]
  /\ jobs = <<>>
  /\ poll = NoPoll
  /\ scan = Idle
  /\ up = TRUE
  /\ published = {}
  /\ repeated = {}
  /\ online = Never
  /\ faults = 0
  /\ crashes = 0

-----------------------------------------------------------------------------
(* The poller.                                                             *)

(* Faulty: a scan that failed leaves the horizon where it was.             *)
OfflineUnnoticed == ~poll.polled \/ now - poll.last > MaxGap

(* observePollLocked: the first poll, a failed one before it, or a gap.    *)
Offline == ~poll.polled \/ poll.unavailable \/ now - poll.last > MaxGap

Observe(unavailable) ==
  /\ poll' = [polled |-> TRUE, last |-> now,
              eligible |-> IF Offline THEN now ELSE poll.eligible,
              unavailable |-> unavailable]
  /\ online' = CASE now - poll.last <= MaxGap -> online
                [] now - poll.last > MaxGap /\ unavailable -> Never
                [] now - poll.last > MaxGap /\ ~unavailable -> now

(* A batch that waits for workers: the pulse is only observed, and is      *)
(* online time as well.                                                    *)
PollBusy ==
  /\ up
  /\ scan.stage = "idle"
  /\ Len(jobs) > Places
  /\ Observe(poll.unavailable)
  /\ UNCHANGED <<now, rec, occ, jobs, scan, up, published, repeated, faults, crashes>>

(* claimDue up to the list of due workbench schedules.                     *)
PollStart ==
  /\ up
  /\ scan.stage = "idle"
  /\ Len(jobs) <= Places
  /\ Observe(TRUE)
  /\ scan' = [stage |-> "advance", at |-> now, left |-> Batch, claimed |-> <<>>,
              listed |-> {s \in Workbench : rec[s].status = "pending" /\ rec[s].due <= now}]
  /\ UNCHANGED <<now, rec, occ, jobs, up, published, repeated, faults, crashes>>

Verdict(s) == IF rec[s].due <= poll.eligible THEN "missed" ELSE "submitted"

(* prepareWorkbenchAdvance.                                                *)
Advanced(s) ==
  [rec[s] EXCEPT !.due = IF s \in Recurring THEN NextOccurrence(@, @) ELSE @,
                 !.status = IF s \in Recurring THEN "pending" ELSE Verdict(s),
                 !.attempt = 0]
(* An occurrence that is recorded already conflicts with its record.       *)
Recorded(s) ==
  /\ occ[s][rec[s].due] = "none"
  /\ rec' = [rec EXCEPT ![s] = Advanced(s)]
  /\ occ' = [occ EXCEPT ![s][rec[s].due] = Verdict(s)]

(* Due in this scan and listed with its present revision.                  *)
ToAdvance(s) ==
  /\ s \in scan.listed
  /\ rec[s].due <= scan.at
  /\ scan.left > 0

(* The scan is done with a schedule; a conflict has used one of the batch. *)
Dropped(s, used) == scan' = [scan EXCEPT !.listed = @ \ {s}, !.left = @ - used]

(* The row changes while the scan has listed it: the advance will conflict *)
(* on the revision, unless the batch ends before the scan comes to it.     *)
Overtaken(s) == Dropped(s, 0) \/ (ToAdvance(s) /\ Dropped(s, 1))

(* Faulty: what was claimed before a failure is still handed to workers.   *)
AdvanceLost(s) ==
  /\ Fault
  /\ Recorded(s) \/ UNCHANGED <<rec, occ>>
  /\ scan' = Idle
  /\ online' = Never
  /\ jobs' = IF Verdict(s) = "submitted" THEN Append(jobs, Job(s, rec[s])) ELSE jobs

(* AdvanceWorkbenchSchedule failed, with an unknown outcome: the scan ends *)
(* and neither this occurrence nor those claimed before it are run.        *)
AdvanceFails(s) ==
  /\ Fault
  /\ Recorded(s) \/ UNCHANGED <<rec, occ>>
  /\ scan' = Idle
  /\ online' = Never
  /\ UNCHANGED jobs

AdvanceWorkbenchSchedule(s) ==
  /\ ToAdvance(s)
  /\ \/ /\ Recorded(s)
        /\ scan' = [scan EXCEPT
             !.left = @ - 1,
             !.listed = IF s \in Recurring THEN @ ELSE @ \ {s},
             !.claimed = IF Verdict(s) = "submitted" THEN Append(@, Job(s, rec[s])) ELSE @]
        /\ UNCHANGED <<jobs, online, faults>>
     \/ /\ occ[s][rec[s].due] # "none"
        /\ Dropped(s, 1)
        /\ UNCHANGED <<rec, occ, jobs, online, faults>>
     \/ AdvanceFails(s)
  /\ UNCHANGED <<now, poll, up, published, repeated, crashes>>

(* Faulty: a claim without an owner stays claimed.                         *)
DueNow(s) == rec[s].status = "pending" /\ rec[s].due <= scan.at

Claimable(s) ==
  \/ rec[s].status = "pending" /\ rec[s].due <= scan.at
  \/ rec[s].status = "sending" /\ rec[s].stale

Claims(q) == [s \in Schedules |->
  IF \E i \in 1..Len(q) : q[i] = s THEN [rec[s] EXCEPT !.status = "sending", !.stale = FALSE]
                                   ELSE rec[s]]
Rows(q) == [i \in 1..Len(q) |-> Job(q[i], Claims(q)[q[i]])]

(* Claimable service schedules, as many as a batch takes.                  *)
BatchOf(due) ==
  {q \in UNION {[1..n -> due] : n \in 0..Batch} :
     /\ \A i, k \in 1..Len(q) : q[i] = q[k] => i = k
     /\ Len(q) = Batch \/ \A s \in due : \E i \in 1..Len(q) : q[i] = s}

(* ClaimDueReminders ends the scan; the workbench batch is handed over     *)
(* even when it fails, with an unknown outcome.                            *)
ClaimDue ==
  /\ scan.stage = "advance"
  /\ \A s \in Workbench : ~ToAdvance(s)
  /\ scan' = Idle
  /\ \E q \in BatchOf({s \in Service : Claimable(s)}) :
       \/ /\ rec' = Claims(q)
          /\ jobs' = jobs \o scan.claimed \o Rows(q)
          /\ poll' = [poll EXCEPT !.unavailable = FALSE]
          /\ online' = IF online = Never THEN scan.at ELSE online
          /\ UNCHANGED faults
       \/ /\ Fault
          /\ rec' = Claims(q) \/ rec' = rec
          /\ jobs' = jobs \o scan.claimed
          /\ online' = Never
          /\ UNCHANGED poll
  /\ UNCHANGED <<now, occ, up, published, repeated, crashes>>

-----------------------------------------------------------------------------
(* The workers, which take jobs in the order of the channel.               *)

(* Faulty: a publication that was refused is queued again at once.         *)
ToAgain(i, stage) ==
  jobs' = [jobs EXCEPT ![i].stage = IF stage = "retryable" THEN "queued" ELSE stage]

To(i, stage) == jobs' = [jobs EXCEPT ![i].stage = stage]
Done(i) == jobs' = Without(i)

(* process: publication under the identity of the occurrence.  When the    *)
(* job's context has ended the claim is left to its lease; otherwise the   *)
(* answer is kept for the save.                                            *)
Publish(i) ==
  LET s == jobs[i].s  o == <<s, jobs[i].row.due>> IN
  /\ jobs[i].stage = "queued"
  /\ \A k \in 1..(i - 1) : jobs[k].stage # "queued"
  /\ i <= Workers
  /\ \/ \E outcome \in {"sent", "retryable", "blocked"} : To(i, outcome) /\ UNCHANGED faults
     \/ s \in Service /\ Fault /\ Done(i)
  /\ IF s \in Workbench
     THEN /\ published' = published \cup {o}
          /\ repeated' = IF o \in published THEN repeated \cup {o} ELSE repeated
     ELSE UNCHANGED <<published, repeated>>
  /\ UNCHANGED <<now, rec, occ, poll, scan, up, online, crashes>>

(* Attempts from maxDeliveryAttempts on make no difference.                *)
Attempt(i) ==
  IF jobs[i].row.attempt < MaxAttempts THEN jobs[i].row.attempt + 1 ELSE MaxAttempts

(* The outcome of a workbench occurrence.                                  *)
Settled(i) == IF jobs[i].stage = "sent" THEN "sent" ELSE "unknown"

(* SaveReminderDelivery.  A failed workbench publication is `unknown` and  *)
(* leaves the row's status.  The row's revision moves on.                  *)
Delivered(i) ==
  LET s == jobs[i].s  sent == jobs[i].stage = "sent" IN
  [rec[s] EXCEPT
     !.attempt = Attempt(i),
     !.stale = FALSE,
     !.status = CASE s \in Service -> IF sent THEN "sent" ELSE "failed"
                  [] s \in Workbench /\ sent /\ @ = "submitted" -> "sent"
                  [] OTHER -> @]

Again(i) == jobs[i].stage = "sent" /\ jobs[i].s \in Recurring
Retry(i) == jobs[i].stage = "retryable" /\ Attempt(i) < MaxAttempts

(* A save that fails leaves the row as it was, and the job ends.  A        *)
(* delivered service schedule is rearmed when it recurs or may be retried. *)
SaveReminderDelivery(i) ==
  LET s == jobs[i].s IN
  /\ jobs[i].stage \in {"sent", "retryable", "blocked"}
  /\ \/ /\ rec' = [rec EXCEPT ![s] = Delivered(i)]
        /\ Overtaken(s)
        /\ IF s \in Workbench
           THEN occ' = [occ EXCEPT ![s][jobs[i].row.due] = Settled(i)]
           ELSE UNCHANGED occ
        /\ IF s \in Service /\ (Again(i) \/ Retry(i))
           THEN To(i, IF Again(i) THEN "again" ELSE "retry")
           ELSE Done(i)
        /\ UNCHANGED faults
     \/ Fault /\ Done(i) /\ UNCHANGED <<rec, occ, scan>>
  /\ UNCHANGED <<now, poll, up, history, crashes>>

(* rearm reads the row ...                                                 *)
RearmRead(i) ==
  /\ jobs[i].stage \in {"again", "retry"}
  /\ jobs' = [jobs EXCEPT ![i].row = rec[jobs[i].s],
                          ![i].stage = IF @ = "again" THEN "saveAgain" ELSE "saveRetry"]
  /\ UNCHANGED <<now, rec, occ, poll, scan, up, history, faults, crashes>>

(* ... and saves it with a new due time, whatever it has become meanwhile. *)
Rearmed(i) ==
  IF jobs[i].stage = "saveAgain"
  THEN [jobs[i].row EXCEPT !.status = "pending", !.attempt = 0,
                           !.due = Bounded(NextOccurrence(@, now))]
  ELSE [jobs[i].row EXCEPT !.status = "pending", !.due = now + 1]

RearmSave(i) ==
  /\ jobs[i].stage \in {"saveAgain", "saveRetry"}
  /\ Done(i)
  /\ \/ rec' = [rec EXCEPT ![jobs[i].s] = Rearmed(i)] /\ UNCHANGED faults
     \/ Fault /\ UNCHANGED rec
  /\ UNCHANGED <<now, occ, poll, scan, up, history, crashes>>

-----------------------------------------------------------------------------
(* The owner, time and the process.                                        *)

(* CancelPending and UpdatePending: a compare-and-swap on a pending row,   *)
(* in the middle of a scan or not.  The new due time may be any, past ones *)
(* and that of a recorded occurrence included.                             *)
CancelPending(s) ==
  /\ rec[s].status = "pending"
  /\ rec' = [rec EXCEPT ![s].status = "canceled"]
  /\ Overtaken(s)
  /\ UNCHANGED <<now, occ, jobs, poll, up, published, repeated, online, faults, crashes>>

UpdatePending(s) ==
  /\ rec[s].status = "pending"
  /\ \E due \in Times : <<s, due>> \in Edits /\ rec' = [rec EXCEPT ![s].due = due]
  /\ Overtaken(s)
  /\ UNCHANGED <<now, occ, jobs, poll, up, history, faults, crashes>>

Tick ==
  /\ now < MaxTime
  /\ now' = now + 1
  /\ UNCHANGED <<rec, occ, process, history, faults, crashes>>

(* sendingLease has passed since the row was claimed.                      *)
LeaseEnds(s) ==
  /\ rec[s].status = "sending"
  /\ ~rec[s].stale
  /\ rec' = [rec EXCEPT ![s].stale = TRUE]
  /\ UNCHANGED <<now, occ, process, history, faults, crashes>>

Down ==
  /\ up
  /\ crashes < MaxCrashes
  /\ crashes' = crashes + 1
  /\ up' = FALSE
  /\ jobs' = <<>>
  /\ poll' = NoPoll
  /\ scan' = Idle
  /\ online' = Never
  /\ UNCHANGED <<now, rec, occ, published, repeated, faults>>

Restart ==
  /\ ~up
  /\ up' = TRUE
  /\ UNCHANGED <<now, rec, occ, jobs, poll, scan, history, faults, crashes>>

Poller == PollBusy \/ PollStart \/ (\E s \in Workbench : AdvanceWorkbenchSchedule(s)) \/ ClaimDue
Worker(i) == Publish(i) \/ SaveReminderDelivery(i) \/ RearmRead(i) \/ RearmSave(i)
Owner(s) == CancelPending(s) \/ UpdatePending(s)

Next ==
  \/ Poller
  \/ \E i \in 1..Len(jobs) : Worker(i)
  \/ \E s \in Schedules : Owner(s)
  \/ \E s \in Service : LeaseEnds(s)
  \/ Tick \/ Down \/ Restart

(* The ticker fires, workers run, publications end or time out, leases     *)
(* expire and the service manager restarts the process.                    *)
Fairness ==
  /\ WF_vars(PollStart)
  /\ \A s \in Workbench : WF_vars(AdvanceWorkbenchSchedule(s))
  /\ WF_vars(ClaimDue)
  /\ WF_vars(\E i \in 1..Len(jobs) : Worker(i))
  /\ \A s \in Service : WF_vars(LeaseEnds(s))
  /\ WF_vars(Restart)

Spec == Init /\ [][Next]_vars
FairSpec == Spec /\ Fairness

-----------------------------------------------------------------------------
(* Properties.                                                             *)

TypeOK ==
  /\ now \in 0..MaxTime
  /\ rec \in [Schedules -> Row]
  /\ occ \in [Workbench -> [Times -> {"none", "missed", "submitted", "sent", "unknown"}]]
  /\ jobs \in Seq(Jobs)
  /\ poll \in [polled : BOOLEAN, last : 0..MaxTime, eligible : 0..MaxTime, unavailable : BOOLEAN]
  /\ scan \in [stage : {"idle", "advance"}, at : 0..MaxTime, left : 0..Batch,
              listed : SUBSET Workbench, claimed : Seq(Jobs)]
  /\ up \in BOOLEAN
  /\ published \subseteq Workbench \X Times
  /\ online \in Times
  /\ faults \in Nat /\ crashes \in Nat

(* A workbench occurrence is handed to the runtime once at most, and only  *)
(* after its record said `submitted`: a failed or unknown advance, an edit  *)
(* in the middle of a scan or a restart never runs it again or after all.  *)
NoReplay ==
  /\ repeated = {}
  /\ \A o \in published : occ[o[1]][o[2]] \in {"submitted", "sent", "unknown"}

Ledger == INSTANCE OccurrenceLedger WITH
  Occurrences <- Workbench \X Times,
  record      <- [o \in Workbench \X Times |-> occ[o[1]][o[2]]],
  handed      <- [o \in Workbench \X Times |->
                    IF o \in repeated THEN 2 ELSE IF o \in published THEN 1 ELSE 0]

(* The timer implements the ledger of occurrences, which counts what the   *)
(* runtime is given: whatever fails and however the owner edits, an        *)
(* occurrence is recorded once, handed over once at most and only when it  *)
(* was recorded as submitted, settled only after that and then unchanged   *)
(* ("never replayed", workbench.go).                                       *)
LedgerKept == Ledger!LedgerSpec

(* Work that was due while the scheduler was not scanning the store is     *)
(* never submitted afterwards: its due time is after a scan or pulse since *)
(* which the process has polled without a failure, a gap or a restart.     *)
SubmittedWasOnline ==
  [][\A s \in Workbench, d \in Times :
       occ[s][d] = "none" /\ occ'[s][d] = "submitted" => online < d]_vars

(* A claimed service schedule does not stay claimed: its worker finishes,  *)
(* or its lease ends and it is claimed again.                              *)
ClaimsEnd == \A s \in Service : rec[s].status = "sending" ~> rec[s].status # "sending"
=============================================================================
