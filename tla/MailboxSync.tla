----------------------------- MODULE MailboxSync -----------------------------
(***************************************************************************)
(* The synchronisation of one mailbox (services/gateway/internal/store:    *)
(* email_management_jobs.go, email_management_poll.go,                     *)
(* email_management_timeline.go, email_management_intake.go; and           *)
(* emailmanagement: service.go, page_intake.go).                           *)
(*                                                                         *)
(* A hint or a refresh raises the mailbox's signal revision and makes its  *)
(* discovery job due.  A worker claims the job under a lease, freezes an   *)
(* interval and the revision it answers for, lists the interval, commits   *)
(* the page, and so on until no signal is open; then it finishes the job.  *)
(* Every store operation is one transaction of the owner and one action.   *)
(*                                                                         *)
(* An instant is written as the number of messages that had arrived by it: *)
(* an interval <<a, b>> holds the messages a+1 .. b.  Two intervals that   *)
(* end at different instants are told apart by an identity.  The receipts  *)
(* of the commands, which refuse a second page for the same checkpoint     *)
(* revision, are left out: a late commit has more chances here.            *)
(***************************************************************************)
EXTENDS Naturals

CONSTANTS
  WorkerCount,   \* workers, which are alike: the first idle one claims
  None,          \* no interval, no worker
  MaxMails,      \* bound: messages that arrive
  MaxSignals,    \* bound: hints and refreshes
  MaxFailures,   \* bound: failed, overflowing and abandoned lists
  MaxDisruptions \* bound: changes of the binding, lost leases and crashes

Workers == 1..WorkerCount
Ids == 1..(WorkerCount + 2)

(* A frozen interval with its revision, the tail of the last complete one, *)
(* and an overflow to confirm.                                             *)
Queries == [id : Ids, final : BOOLEAN, start : Nat, end : Nat, overlap : BOOLEAN, rev : Nat]
Tails == [id : Ids, start : Nat]
Confirmations == [id : Ids, end : Nat]

ASSUME MailboxAssumption ==
  /\ WorkerCount \in Nat \ {0}
  /\ None \notin Nat \cup Queries \cup Tails \cup Confirmations
  /\ {MaxMails, MaxSignals, MaxFailures, MaxDisruptions} \subseteq Nat

VARIABLES
  mails,     \* messages the provider has
  signal,    \* SignalRevision, and mails when the last signal was accepted
  captured,  \* messages in the store
  gaps,      \* messages of recorded coverage gaps
  box,       \* the mailbox row
  job,       \* the discovery job of the current binding
  lane,      \* a job of an earlier binding still holds the mailbox's browser
  work,      \* what each worker does
  failures, disruptions

vars == <<mails, signal, captured, gaps, box, job, lane, work, failures, disruptions>>

-----------------------------------------------------------------------------

SignalRevision == signal.revision

Off == [stage |-> "idle", gen |-> 0, trigger |-> FALSE, final |-> FALSE, upper |-> 0, iv |-> None]
NoJob == [state |-> "none", due |-> FALSE, holder |-> None, live |-> FALSE, error |-> FALSE,
          trigger |-> FALSE, pending |-> FALSE, rev |-> 0]
Queued == [NoJob EXCEPT !.state = "queued", !.due = TRUE]

Init ==
  /\ mails = 0
  /\ signal = [revision |-> 0, at |-> 0]
  /\ captured = {}
  /\ gaps = {}
  /\ box = [on |-> TRUE, gen |-> 0, reconciled |-> 0, through |-> 0, last |-> None,
            inflight |-> None, confirm |-> None, sync |-> "idle", error |-> FALSE]
  /\ job = NoJob
  /\ lane = FALSE
  /\ work = [w \in Workers |-> Off]
  /\ failures = 0
  /\ disruptions = 0

Failure == failures < MaxFailures /\ failures' = failures + 1
Disruption == disruptions < MaxDisruptions /\ disruptions' = disruptions + 1

(* emailBound and activeMailbox.                                           *)
Bound(gen) == box.on /\ box.gen = gen

(* emailLeaseCheck for the holder of the job's token.                      *)
Leased(w) == job.state = "running" /\ job.holder = w /\ job.live /\ Bound(work[w].gen)

-----------------------------------------------------------------------------
(* Signals and bindings.                                                   *)

(* The job after a request that is not automatic: created if absent; an    *)
(* idle polling delay without an error is cut short, if it still runs.     *)
Woken ==
  CASE job.state = "none" -> [Queued EXCEPT !.trigger = TRUE]
    [] job.state = "queued" /\ ~job.error /\ ~job.due -> [job EXCEPT !.due = TRUE, !.trigger = TRUE]
    [] OTHER -> job

(* emailRequest and emailPollRequest for an observer's hint ...            *)
Hint ==
  /\ box.on
  /\ SignalRevision < MaxSignals
  /\ signal' = [revision |-> SignalRevision + 1, at |-> mails]
  /\ job' = Woken
  /\ UNCHANGED <<mails, captured, gaps, box, lane, work, failures, disruptions>>

(* ... and for a manual refresh, which also leaves its own revision.       *)
Refresh ==
  /\ box.on
  /\ SignalRevision < MaxSignals
  /\ signal' = [revision |-> SignalRevision + 1, at |-> mails]
  /\ job' = [Woken EXCEPT !.pending = TRUE, !.rev = SignalRevision + 1,
                          !.trigger = @ \/ job.state # "running"]
  /\ UNCHANGED <<mails, captured, gaps, box, lane, work, failures, disruptions>>

(* The planner requests the job of a binding that has none.                *)
Plan ==
  /\ box.on
  /\ job.state = "none"
  /\ job' = Queued
  /\ UNCHANGED <<mails, signal, captured, gaps, box, lane, work, failures, disruptions>>

(* Faulty: the new binding starts from now.                                *)
ReanchorNow(on) == [box EXCEPT !.on = on, !.gen = @ + 1, !.inflight = None, !.last = None,
                               !.through = mails]

(* emailReanchorBinding drops the frozen query and the overlap.            *)
Reanchor(on) == [box EXCEPT !.on = on, !.gen = @ + 1, !.inflight = None, !.last = None]

(* emailBind and emailPause: another generation, without a job yet.  The   *)
(* lease of a running one keeps its place until it ends.                   *)
Bind ==
  /\ Disruption
  /\ \E on \in BOOLEAN : box' = Reanchor(on)
  /\ lane' = (lane \/ job.live)
  /\ job' = NoJob
  /\ UNCHANGED <<mails, signal, captured, gaps, work, failures>>

Arrive ==
  /\ mails < MaxMails
  /\ mails' = mails + 1
  /\ UNCHANGED <<signal, captured, gaps, box, job, lane, work, failures, disruptions>>

-----------------------------------------------------------------------------
(* The job's lease and deadlines.                                          *)

(* Faulty: a job is claimed only when it waits for its deadline.           *)
ClaimableIdle == job.state \in {"queued", "retry"} /\ job.due

Claimable ==
  \/ job.state \in {"queued", "retry"} /\ job.due
  \/ job.state = "running" /\ ~job.live

(* emailClaim, one browser job of the mailbox at a time; emailPollClaim.   *)
Claim(w) ==
  /\ work[w].stage = "idle"
  /\ \A v \in 1..(w - 1) : work[v].stage # "idle"
  /\ box.on
  /\ ~lane
  /\ Claimable
  /\ job' = [job EXCEPT !.state = "running", !.holder = w, !.live = TRUE, !.due = FALSE,
                        !.trigger = @ \/ job.pending]
  /\ work' = [work EXCEPT ![w] = [Off EXCEPT !.stage = "look", !.gen = box.gen,
                                             !.trigger = job.trigger \/ job.pending]]
  /\ UNCHANGED <<mails, signal, captured, gaps, box, lane, failures, disruptions>>

Elapse ==
  /\ job.state \in {"queued", "retry"}
  /\ ~job.due
  /\ job' = [job EXCEPT !.due = TRUE]
  /\ UNCHANGED <<mails, signal, captured, gaps, box, lane, work, failures, disruptions>>

(* A lease whose worker is gone ends.                                      *)
LeaseEnds ==
  /\ job.live
  /\ work[job.holder].stage = "idle"
  /\ job' = [job EXCEPT !.live = FALSE]
  /\ UNCHANGED <<mails, signal, captured, gaps, box, lane, work, failures, disruptions>>

LaneEnds ==
  /\ lane
  /\ lane' = FALSE
  /\ UNCHANGED <<mails, signal, captured, gaps, box, job, work, failures, disruptions>>

(* emailRenew comes too late, after a suspension or a slow store.          *)
LeaseLost ==
  /\ job.live
  /\ work[job.holder].stage # "idle"
  /\ Disruption
  /\ job' = [job EXCEPT !.live = FALSE]
  /\ UNCHANGED <<mails, signal, captured, gaps, box, lane, work, failures>>

Crash ==
  /\ \E w \in Workers : work[w] # Off
  /\ Disruption
  /\ work' = [w \in Workers |-> Off]
  /\ UNCHANGED <<mails, signal, captured, gaps, box, job, lane, failures>>

-----------------------------------------------------------------------------
(* A worker's round: collectPages and collectPageIncrement.                *)

(* The worker leaves its round, to finish the job.                         *)
End(w, stage) == work' = [work EXCEPT ![w] = [Off EXCEPT !.stage = stage, !.gen = work[w].gen]]

(* The mailbox is read, and the upper bound is taken from the clock.  A    *)
(* frozen final check is resumed before anything else.                     *)
Look(w) ==
  LET final == work[w].stage = "check" \/ (box.inflight # None /\ box.inflight.final) IN
  /\ work[w].stage \in {"look", "check"}
  /\ IF Bound(work[w].gen)
     THEN work' = [work EXCEPT ![w].stage = "begin", ![w].final = final,
                               ![w].upper = IF final THEN box.through ELSE mails,
                               ![w].trigger = @ \/ SignalRevision > box.reconciled]
     ELSE End(w, "failed")
  /\ UNCHANGED <<mails, signal, captured, gaps, box, job, lane, failures, disruptions>>

(* An identity no worker and no overflow has.  It may be that of the last  *)
(* tail: the overlap tells the new interval from a check of that tail.     *)
Fresh == CHOOSE i \in Ids :
  /\ \A w \in Workers : work[w].iv = None \/ work[w].iv.id # i
  /\ box.confirm = None \/ box.confirm.id # i

(* The interval of emailBeginSync: the frozen one, the last tail for a     *)
(* final check, the one to confirm, or a new tail and the one before it.   *)
(* The tail of an interval has the same identity, and no overlap; so a     *)
(* final check cannot be told from a tail that was listed without one.     *)
Interval(w) ==
  CASE box.inflight # None -> box.inflight
    [] box.inflight = None /\ work[w].final ->
         [id |-> box.last.id, final |-> TRUE, start |-> box.last.start, end |-> box.through,
          overlap |-> FALSE, rev |-> box.reconciled]
    [] box.inflight = None /\ ~work[w].final /\ box.confirm # None ->
         [id |-> box.confirm.id, final |-> FALSE, start |-> box.through, end |-> box.confirm.end,
          overlap |-> FALSE, rev |-> SignalRevision]
    [] OTHER ->
         [id |-> Fresh, final |-> FALSE, end |-> work[w].upper, rev |-> SignalRevision,
          overlap |-> box.last # None,
          start |-> IF box.last # None THEN box.last.start ELSE box.through]

Admissible(w) ==
  /\ Bound(work[w].gen)
  /\ box.inflight # None => box.inflight.final = work[w].final
  /\ IF work[w].final THEN box.confirm = None /\ box.last # None /\ work[w].upper = box.through
                      ELSE work[w].upper >= box.through

(* emailBeginSync freezes the interval and the revision before the list.   *)
Begin(w) ==
  /\ work[w].stage = "begin"
  /\ IF Admissible(w)
     THEN /\ box' = [box EXCEPT !.inflight = Interval(w), !.sync = "running", !.error = FALSE]
          /\ work' = [work EXCEPT ![w].stage = "list", ![w].upper = 0, ![w].iv = Interval(w)]
     ELSE End(w, "failed") /\ UNCHANGED box
  /\ UNCHANGED <<mails, signal, captured, gaps, job, lane, failures, disruptions>>

Messages(iv) == {m \in 1..mails : iv.start < m /\ m <= iv.end}

(* The frozen interval is the worker's.                                    *)
Matches(w) ==
  /\ box.inflight # None
  /\ box.inflight.id = work[w].iv.id
  /\ box.inflight.overlap = work[w].iv.overlap

(* The commit is accepted; a page with messages needs the lease.           *)
Accepts(w, page) == Bound(work[w].gen) /\ Matches(w) /\ (page # {} => Leased(w))

(* A complete list: the watermark and the reconciled revision move on, and *)
(* a refresh that is now answered is settled.                              *)
CommitComplete ==
  LET iv == box.inflight  rev == IF iv.rev > box.reconciled THEN iv.rev ELSE box.reconciled IN
  /\ box' = [box EXCEPT
       !.through = iv.end,
       !.reconciled = rev,
       !.last = IF iv.final THEN @ ELSE [id |-> iv.id, start |-> box.through],
       !.confirm = IF @ # None /\ @.id = iv.id /\ ~iv.overlap THEN None ELSE @,
       !.inflight = None, !.sync = "idle", !.error = FALSE]
  /\ job' = IF job.pending /\ job.rev <= rev THEN [job EXCEPT !.pending = FALSE] ELSE job
  /\ UNCHANGED gaps

(* An overflow is frozen once; the second time it is a coverage gap.  (A   *)
(* final check that overflows has failed.)                                 *)
CommitOverflow ==
  LET iv == box.inflight IN
  /\ ~iv.final
  /\ \/ /\ box.confirm = None
        /\ Failure
        /\ box' = [box EXCEPT !.confirm = [id |-> iv.id, end |-> iv.end],
                              !.inflight = None, !.sync = "overflow", !.error = TRUE]
        /\ UNCHANGED gaps
     \/ /\ box.confirm # None
        /\ box' = [box EXCEPT !.confirm = None, !.through = iv.end, !.last = None,
                              !.inflight = None, !.sync = "gap", !.error = TRUE]
        /\ gaps' = gaps \cup {m \in Messages(iv) : m > box.through}
        /\ UNCHANGED failures
  /\ UNCHANGED job

(* A failed list opens the interval again; a final check keeps it.  The    *)
(* page of an incomplete one may give no reason.  (An overflow of an       *)
(* interval with its overlap is never committed: its parts are listed.)    *)
CommitFailure ==
  /\ \E error \in BOOLEAN :
       box' = [box EXCEPT !.inflight = IF box.inflight.final THEN @ ELSE None,
                          !.sync = "incomplete", !.error = error]
  /\ UNCHANGED <<job, gaps>>

(* The list and emailCommitSync.  The messages of an interval arrived      *)
(* before its end, so it does not matter when the provider is asked.       *)
Commit(w) ==
  LET all == Messages(work[w].iv) IN
  /\ work[w].stage = "list"
  /\ \/ /\ Accepts(w, all)
        /\ captured' = captured \cup all
        /\ CommitComplete
        /\ work' = [work EXCEPT ![w].stage = "next", ![w].iv = None]
        /\ UNCHANGED failures
     \/ /\ \E page \in SUBSET all : Accepts(w, page) /\ captured' = captured \cup page
        /\ \/ CommitFailure /\ Failure
           \/ CommitOverflow
        /\ work' = [work EXCEPT ![w].stage = "next", ![w].iv = None]
     \/ /\ ~Accepts(w, all)
        /\ End(w, "failed")
        /\ UNCHANGED <<captured, gaps, box, job, failures>>
  /\ UNCHANGED <<mails, signal, lane, disruptions>>

(* The browser is busy, or the job's time is over, before a commit.        *)
Stopped(w) ==
  /\ work[w].stage \in {"begin", "list"}
  /\ Failure
  /\ End(w, "failed") \/ (work[w].stage = "list" /\ End(w, "busy"))
  /\ UNCHANGED <<mails, signal, captured, gaps, box, job, lane, disruptions>>

(* execute: a renewal that is refused cancels the worker's context.        *)
RenewalFails(w) ==
  /\ work[w].stage \in {"look", "begin", "list", "check", "next"}
  /\ ~Leased(w)
  /\ End(w, "failed")
  /\ UNCHANGED <<mails, signal, captured, gaps, box, job, lane, failures, disruptions>>

(* What collectPages does with the mailbox it finds after the commit.      *)
Onward(w) ==
  CASE box.sync \notin {"idle", "gap"} -> IF work[w].final THEN "failed" ELSE "done"
    [] box.sync = "gap" /\ box.error -> "done"
    [] OTHER -> IF SignalRevision > box.reconciled THEN "look"
                ELSE IF ~work[w].final /\ work[w].trigger /\ box.last # None THEN "check"
                ELSE "done"

NextSlice(w) ==
  /\ work[w].stage = "next"
  /\ IF Onward(w) \in {"look", "check"}
     THEN work' = [work EXCEPT ![w].final = FALSE, ![w].stage = Onward(w)]
     ELSE End(w, Onward(w))
  /\ UNCHANGED <<mails, signal, captured, gaps, box, job, lane, failures, disruptions>>

-----------------------------------------------------------------------------
(* The end of a job.                                                       *)

Released == [job EXCEPT !.holder = None, !.live = FALSE, !.due = FALSE]

(* Faulty: the refresh of a finished round is settled.                     *)
PollFinishSettles(error) ==
  LET failed == error \/ box.error
      qualified == box.sync \in {"idle", "gap"} /\ ~failed
      pending == job.pending /\ failed
      followup == qualified /\ SignalRevision > box.reconciled
  IN [Released EXCEPT !.state = "queued", !.error = failed, !.due = followup, !.trigger = followup,
                      !.pending = pending]

(* emailPollFinish of a job that does not wait for a retry: it is queued,  *)
(* at once for a signal nothing answered yet, or else for the next poll.   *)
(* (A refresh that is open is an open signal: RefreshActiveID adds none.)  *)
PollFinish(error) ==
  LET failed == error \/ box.error
      qualified == box.sync \in {"idle", "gap"} /\ ~failed
      pending == job.pending /\ ~(job.rev > 0 /\ box.reconciled >= job.rev)
      followup == qualified /\ SignalRevision > box.reconciled
  IN [Released EXCEPT !.state = "queued", !.error = failed, !.due = followup, !.trigger = followup,
                      !.pending = pending]

(* emailFinish.  A busy browser is not an attempt; a failure waits for its *)
(* retry, or for the next poll when its attempts are exhausted.            *)
Finish(w) ==
  /\ work[w].stage \in {"busy", "failed", "done"}
  /\ work' = [work EXCEPT ![w] = Off]
  /\ \/ ~Leased(w) /\ UNCHANGED job
     \/ /\ Leased(w)
        /\ CASE work[w].stage = "busy" -> job' = [Released EXCEPT !.state = "retry", !.error = FALSE]
             [] work[w].stage = "failed" -> \/ job' = [Released EXCEPT !.state = "retry", !.error = TRUE]
                                            \/ job' = PollFinish(TRUE)
             [] work[w].stage = "done" -> job' = PollFinish(FALSE)
  /\ UNCHANGED <<mails, signal, captured, gaps, box, lane, failures, disruptions>>

(* emailClaim of an abandoned job whose attempts are exhausted.            *)
Exhausted ==
  /\ box.on
  /\ ~lane
  /\ job.state = "running"
  /\ ~job.live
  /\ job' = PollFinish(TRUE)
  /\ UNCHANGED <<mails, signal, captured, gaps, box, lane, work, failures, disruptions>>

Work(w) == Look(w) \/ Begin(w) \/ Commit(w) \/ NextSlice(w) \/ Finish(w)

Next ==
  \/ Hint \/ Refresh \/ Plan \/ Bind \/ Arrive
  \/ Elapse \/ LeaseEnds \/ LaneEnds \/ LeaseLost \/ Crash \/ Exhausted
  \/ \E w \in Workers : Claim(w) \/ Work(w) \/ Stopped(w) \/ RenewalFails(w)

(* The planner, the workers and the renewals poll, time passes, and every  *)
(* store call and every read of a page returns or times out.               *)
Fairness ==
  /\ WF_vars(Plan)
  /\ WF_vars(Elapse)
  /\ WF_vars(LeaseEnds)
  /\ WF_vars(LaneEnds)
  /\ WF_vars(\E w \in Workers : Claim(w))
  /\ \A w \in Workers : WF_vars(Work(w)) /\ WF_vars(RenewalFails(w))

Spec == Init /\ [][Next]_vars
FairSpec == Spec /\ Fairness

-----------------------------------------------------------------------------
(* Properties.                                                             *)

TypeOK ==
  /\ mails \in 0..MaxMails
  /\ signal \in [revision : 0..MaxSignals, at : 0..mails]
  /\ captured \subseteq 1..mails /\ gaps \subseteq 1..mails
  /\ box.through \in 0..mails /\ box.reconciled \in 0..SignalRevision
  /\ job.state \in {"none", "queued", "retry", "running"}
  /\ job.live => job.state = "running" /\ job.holder \in Workers
  /\ lane \in BOOLEAN

(* The watermark passes no message that is neither in the store nor in a   *)
(* recorded coverage gap, whatever overlaps, confirmations, crashes, late  *)
(* commits and changes of the binding happen (emailCommitSync).            *)
NothingLost == \A m \in 1..box.through : m \in captured \cup gaps

(* email-notification-wakeup-design.md:69: a refresh shows as pending      *)
(* exactly while no qualified commit has reached its revision, through     *)
(* retries, exhausted attempts and takeovers of the job.                   *)
RefreshShown == job.pending <=> job.rev > box.reconciled

(* email-notification-wakeup-design.md:67: a signal above the reconciled   *)
(* revision gets its query: at any moment of a round, a retry, a takeover  *)
(* or a change of the binding that it is accepted.                         *)
EverySignalSettles ==
  box.on /\ SignalRevision > box.reconciled ~> box.reconciled = SignalRevision \/ ~box.on

(* email-notification-wakeup-design.md:300-304 and                         *)
(* email_management_poll.go:60: the revision and the upper bound of a      *)
(* query are frozen together, so a query settles no signal it could not    *)
(* observe: what had arrived when it was accepted is below the watermark.  *)
SettledWasQueried == box.reconciled = SignalRevision => signal.at <= box.through
=============================================================================
