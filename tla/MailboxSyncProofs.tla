--------------------------- MODULE MailboxSyncProofs ---------------------------
(***************************************************************************)
(* The synchronisation of a mailbox passes no message over and settles no  *)
(* refresh too early or too late, for every number of workers and every    *)
(* number of messages, signals, failures and disruptions.                  *)
(*                                                                         *)
(* The heart of it is what an identity says: a commit is accepted from any *)
(* worker whose interval has the identity of the frozen one, a worker that *)
(* lost its lease long ago included, and moves the watermark to the end of *)
(* the frozen one.  So whoever holds an interval of that identity must     *)
(* have listed the same messages (Known): the last tail included, as its   *)
(* final check has the identity of whoever listed that tail alone.         *)
(***************************************************************************)
EXTENDS MailboxSync, FiniteSetTheorems, TLAPS

Boxes == [on : BOOLEAN, gen : Nat, reconciled : Nat, through : Nat, last : Tails \cup {None},
          inflight : Queries \cup {None}, confirm : Confirmations \cup {None},
          sync : {"idle", "running", "overflow", "gap", "incomplete"}, error : BOOLEAN]
Jobs == [state : {"none", "queued", "retry", "running"}, due : BOOLEAN,
         holder : Workers \cup {None}, live : BOOLEAN, error : BOOLEAN, trigger : BOOLEAN,
         pending : BOOLEAN, rev : Nat]
Rounds == [stage : {"idle", "look", "check", "begin", "list", "next", "busy", "failed", "done"},
           gen : Nat, trigger : BOOLEAN, final : BOOLEAN, upper : Nat, iv : Queries \cup {None}]

Types ==
  /\ mails \in Nat
  /\ signal \in [revision : Nat, at : Nat]
  /\ box \in Boxes /\ job \in Jobs /\ work \in [Workers -> Rounds]

(* While this overflow waits, the last tail is not checked.                *)
TailConfirmed == box.confirm # None /\ box.confirm.id = box.last.id

(* The frozen interval reaches from the watermark or below to a point the  *)
(* provider had passed; a final check is of the last tail, which ends at   *)
(* the watermark; an interval without an overlap starts at it, and has the *)
(* identity of the last tail only to confirm an overflow; while one waits  *)
(* for its confirmation only its tail is frozen.                           *)
Frozen(iv) ==
  /\ iv.start <= box.through /\ box.through <= iv.end /\ iv.end <= mails
  /\ iv.rev <= SignalRevision
  /\ iv.final => /\ iv.end = box.through /\ ~iv.overlap /\ box.confirm = None
                 /\ box.last # None /\ iv.id = box.last.id /\ iv.start = box.last.start
  /\ ~iv.final /\ ~iv.overlap =>
       /\ iv.start = box.through
       /\ box.last # None /\ iv.id = box.last.id => TailConfirmed
  /\ box.confirm # None =>
       iv.id = box.confirm.id /\ ~iv.final /\ ~iv.overlap /\ iv.end = box.confirm.end

BoxInv ==
  /\ box.reconciled <= SignalRevision /\ box.through <= mails
  /\ box.last # None => box.last.start <= box.through
  /\ box.inflight # None => Frozen(box.inflight)
  /\ box.confirm # None => box.through <= box.confirm.end /\ box.confirm.end <= mails

(* What a worker's interval has in common with one of its identity.        *)
Alike(iv, jv) ==
  /\ iv.overlap = jv.overlap => iv.start = jv.start /\ iv.end = jv.end
  /\ jv.overlap => iv.overlap

(* It is alike with the frozen one; without an overlap, it is the tail of  *)
(* the overflow, or the last one, of its identity.                         *)
Known(iv) ==
  /\ box.inflight # None /\ iv.id = box.inflight.id => Alike(iv, box.inflight)
  /\ box.confirm # None /\ iv.id = box.confirm.id /\ ~iv.overlap =>
       iv.start = box.through /\ iv.end = box.confirm.end
  /\ box.last # None /\ iv.id = box.last.id /\ ~TailConfirmed /\ ~iv.overlap =>
       iv.start = box.last.start /\ iv.end = box.through

RoundInv(w) ==
  /\ work[w].upper <= mails
  /\ work[w].stage = "list" => work[w].iv # None
  /\ work[w].iv # None => Known(work[w].iv)

WorkInv == \A w \in Workers : RoundInv(w)

MailboxInv == Types /\ BoxInv /\ WorkInv /\ NothingLost /\ RefreshShown

-----------------------------------------------------------------------------
(* Values.                                                                 *)

LEMMA NoneIs ==
  /\ None \notin Nat /\ None \notin Queries /\ None \notin Tails /\ None \notin Confirmations
  /\ \A w \in Workers : w # None
  BY MailboxAssumption DEF Workers

LEMMA Values ==
  /\ Off \in Rounds /\ Off.iv = None /\ Off.upper = 0 /\ Off.stage = "idle"
  /\ NoJob \in Jobs /\ ~NoJob.pending /\ NoJob.rev = 0 /\ NoJob.state = "none"
  /\ Queued \in Jobs /\ ~Queued.pending /\ Queued.rev = 0
  BY DEF Off, NoJob, Queued, Rounds, Jobs

(* There is an identity nobody uses: the workers and the overflow use at   *)
(* most one each.                                                          *)
LEMMA FreshIsNew ==
  ASSUME Types
  PROVE  /\ Fresh \in Ids
         /\ \A w \in Workers : work[w].iv = None \/ work[w].iv.id # Fresh
         /\ box.confirm = None \/ box.confirm.id # Fresh
<1> DEFINE User(w, i) == \/ w \in Workers /\ work[w].iv # None /\ work[w].iv.id = i
                         \/ w = 0 /\ box.confirm # None /\ box.confirm.id = i
           user == [i \in Ids |-> CHOOSE w \in 0..WorkerCount : User(w, i)]
<1>1. WorkerCount \in Nat /\ Workers \subseteq 0..WorkerCount /\ 0 \notin Workers
  BY MailboxAssumption DEF Workers
<1>2. /\ IsFiniteSet(Ids) /\ Cardinality(Ids) = WorkerCount + 2
      /\ IsFiniteSet(0..WorkerCount) /\ Cardinality(0..WorkerCount) = WorkerCount + 1
  BY <1>1, FS_Interval DEF Ids
<1>3. \E i \in Ids : \A w \in 0..WorkerCount : ~User(w, i)
  <2> SUFFICES ASSUME \A i \in Ids : \E w \in 0..WorkerCount : User(w, i) PROVE FALSE
    OBVIOUS
  <2>1. \A i \in Ids : user[i] \in 0..WorkerCount /\ User(user[i], i)
    OBVIOUS
  <2> HIDE DEF user
  <2>2. user \in [Ids -> 0..WorkerCount] BY <2>1 DEF user
  <2>3. PICK x \in Ids, y \in Ids : x # y /\ user[x] = user[y]
    BY <1>1, <1>2, <2>2, FS_PigeonHole
  <2>4. User(user[x], x) /\ User(user[x], y) BY <2>1, <2>3
  <2> QED BY <1>1, <2>3, <2>4
<1>4. \E i \in Ids : /\ \A w \in Workers : work[w].iv = None \/ work[w].iv.id # i
                     /\ box.confirm = None \/ box.confirm.id # i
  BY <1>1, <1>3
<1> QED BY <1>4 DEF Fresh

-----------------------------------------------------------------------------
(* Types.                                                                  *)

(* A worker's round is replaced by one of its type.                        *)
LEMMA RoundType ==
  ASSUME Types, NEW w \in Workers, NEW r \in Rounds, work' = [work EXCEPT ![w] = r]
  PROVE  /\ work' \in [Workers -> Rounds] /\ work'[w] = r
         /\ \A v \in Workers \ {w} : work'[v] = work[v]
  BY DEF Types

(* End leaves a round that holds nothing.                                  *)
LEMMA EndRound ==
  ASSUME Types, NEW w \in Workers, NEW s \in {"busy", "failed", "done"}, End(w, s)
  PROVE  /\ work' \in [Workers -> Rounds]
         /\ work'[w].iv = None /\ work'[w].upper = 0 /\ work'[w].stage = s
         /\ \A v \in Workers \ {w} : work'[v] = work[v]
<1>1. PICK r : r = [Off EXCEPT !.stage = s, !.gen = work[w].gen] OBVIOUS
<1>2. work[w].gen \in Nat BY DEF Types, Rounds
<1>3. r \in Rounds /\ r.iv = None /\ r.upper = 0 /\ r.stage = s
  BY <1>1, <1>2 DEF Off, Rounds
<1> QED BY <1>1, <1>3, RoundType DEF End

(* The job when its lease ends.                                            *)
LEMMA ReleasedType ==
  ASSUME job \in Jobs
  PROVE  /\ Released \in Jobs
         /\ Released.pending = job.pending /\ Released.rev = job.rev
         /\ \A s \in {"queued", "retry"}, b \in BOOLEAN :
              LET j == [Released EXCEPT !.state = s, !.error = b] IN
              j \in Jobs /\ j.pending = job.pending /\ j.rev = job.rev
  BY DEF Released, Jobs

LEMMA PollFinishType ==
  ASSUME job \in Jobs, box \in Boxes, RefreshShown, NEW b \in BOOLEAN
  PROVE  /\ PollFinish(b) \in Jobs /\ PollFinish(b).rev = job.rev
         /\ PollFinish(b).pending <=> job.rev > box.reconciled
<1>1. job.rev \in Nat /\ box.reconciled \in Nat /\ job.pending \in BOOLEAN BY DEF Jobs, Boxes
<1>2. job.pending <=> job.pending /\ ~(job.rev > 0 /\ box.reconciled >= job.rev)
  BY <1>1 DEF RefreshShown
<1> DEFINE failed == b \/ box.error
           qualified == box.sync \in {"idle", "gap"} /\ ~failed
           pending == job.pending /\ ~(job.rev > 0 /\ box.reconciled >= job.rev)
           followup == qualified /\ SignalRevision > box.reconciled
<1>3. failed \in BOOLEAN /\ pending \in BOOLEAN /\ followup \in BOOLEAN BY <1>1 DEF Boxes
<1>4. PollFinish(b) = [Released EXCEPT !.state = "queued", !.error = failed, !.due = followup,
                                       !.trigger = followup, !.pending = pending]
  BY DEF PollFinish
<1> HIDE DEF failed, pending, followup
<1>5. PollFinish(b) \in Jobs /\ PollFinish(b).rev = job.rev /\ PollFinish(b).pending = pending
  BY ZenonT(40), <1>3, <1>4, ReleasedType DEF Jobs
<1> QED BY <1>2, <1>5 DEF RefreshShown, pending

LEMMA WokenType ==
  ASSUME job \in Jobs, RefreshShown, box \in Boxes
  PROVE  /\ Woken \in Jobs
         /\ Woken.pending <=> Woken.rev > box.reconciled
<1>1. CASE job.state = "none"
  <2>1. Woken = [Queued EXCEPT !.trigger = TRUE] BY <1>1 DEF Woken
  <2>2. Woken \in Jobs /\ ~Woken.pending /\ Woken.rev = 0 BY <2>1, Values DEF Jobs
  <2> QED BY <2>2 DEF Boxes
<1>2. CASE job.state = "queued" /\ ~job.error /\ ~job.due
  <2>1. Woken = [job EXCEPT !.due = TRUE, !.trigger = TRUE] BY <1>2 DEF Woken
  <2> QED BY <2>1 DEF Jobs, RefreshShown
<1>3. CASE ~(job.state = "none") /\ ~(job.state = "queued" /\ ~job.error /\ ~job.due)
  BY <1>3 DEF Woken, RefreshShown
<1> QED BY <1>1, <1>2, <1>3

-----------------------------------------------------------------------------
(* The invariant.                                                          *)

(* A step that leaves the mailbox row, the store and the gaps alone, while *)
(* workers give intervals up and messages and signals come.                *)
LEMMA Steady ==
  ASSUME MailboxInv,
         mails' \in Nat, mails' >= mails,
         signal' \in [revision : Nat, at : Nat], signal'.revision >= signal.revision,
         UNCHANGED <<box, captured, gaps>>,
         job' \in Jobs, job'.pending <=> job'.rev > box.reconciled,
         work' \in [Workers -> Rounds],
         \A w \in Workers : /\ work'[w].upper <= mails'
                            /\ work'[w].stage = "list" => work'[w].iv # None
                            /\ work'[w].iv \in {None, work[w].iv}
  PROVE  MailboxInv'
<1>1. Types' BY DEF MailboxInv, Types
<1>2. NothingLost' BY DEF MailboxInv, NothingLost
<1>3. RefreshShown' BY DEF RefreshShown
<1>4. mails \in Nat /\ signal.revision \in Nat /\ signal'.revision \in Nat /\ box \in Boxes
  BY DEF MailboxInv, Types
<1>5. BoxInv'
  <2>1. ASSUME box.inflight # None PROVE Frozen(box.inflight)'
    <3>1. Frozen(box.inflight) /\ box.inflight \in Queries
      BY <1>4, <2>1 DEF MailboxInv, BoxInv, Boxes
    <3> QED BY <3>1, <1>4 DEF Frozen, TailConfirmed, Queries, Boxes, SignalRevision
  <2> QED BY <2>1, <1>4 DEF MailboxInv, BoxInv, Boxes, SignalRevision, Confirmations
<1>6. WorkInv'
  <2> SUFFICES ASSUME NEW w \in Workers PROVE RoundInv(w)' BY DEF WorkInv
  <2>1. work'[w].iv # None => Known(work'[w].iv)
    BY DEF MailboxInv, WorkInv, RoundInv
  <2> QED BY <2>1 DEF RoundInv, Known, TailConfirmed
<1> QED BY <1>1, <1>2, <1>3, <1>5, <1>6 DEF MailboxInv

(* A step of the job alone.                                                *)
LEMMA JobSteps ==
  ASSUME MailboxInv,
         mails' \in Nat, mails' >= mails,
         signal' \in [revision : Nat, at : Nat], signal'.revision >= signal.revision,
         UNCHANGED <<box, captured, gaps, work>>,
         job' \in Jobs, job'.pending <=> job'.rev > box.reconciled
  PROVE  MailboxInv'
<1>1. \A w \in Workers : work[w].upper <= mails' 
  <2> SUFFICES ASSUME NEW w \in Workers PROVE work[w].upper <= mails' OBVIOUS
  <2>1. work[w].upper \in Nat /\ work[w].upper <= mails /\ mails \in Nat
    BY DEF MailboxInv, Types, Rounds, WorkInv, RoundInv
  <2> QED BY <2>1
<1>2. work' = work /\ work \in [Workers -> Rounds] BY DEF MailboxInv, Types
<1>3. \A w \in Workers : work[w].stage = "list" => work[w].iv # None
  BY DEF MailboxInv, WorkInv, RoundInv
<1> QED BY <1>1, <1>2, <1>3, Steady

(* Signals, time and the planner.                                          *)
LEMMA SignalSteps ==
  ASSUME MailboxInv, Hint \/ Refresh \/ Plan \/ Arrive
  PROVE  MailboxInv'
<1>1. mails \in Nat /\ signal \in [revision : Nat, at : Nat] /\ job \in Jobs /\ box \in Boxes
      /\ (job.pending <=> job.rev > box.reconciled)
  BY DEF MailboxInv, Types, RefreshShown
<1>2. Woken \in Jobs /\ (Woken.pending <=> Woken.rev > box.reconciled)
  BY <1>1, WokenType DEF MailboxInv
<1>3. CASE Hint
  <2>1. /\ mails' = mails /\ UNCHANGED <<box, captured, gaps, work>> /\ job' = Woken
        /\ signal' = [revision |-> signal.revision + 1, at |-> mails]
    BY <1>3 DEF Hint, SignalRevision
  <2> QED BY <1>1, <1>2, <2>1, JobSteps
<1>4. CASE Refresh
  <2>1. /\ mails' = mails /\ UNCHANGED <<box, captured, gaps, work>>
        /\ signal' = [revision |-> signal.revision + 1, at |-> mails]
        /\ job' = [Woken EXCEPT !.pending = TRUE, !.rev = signal.revision + 1,
                                !.trigger = @ \/ job.state # "running"]
    BY <1>4 DEF Refresh, SignalRevision
  <2>2. PICK t \in BOOLEAN :
          job' = [Woken EXCEPT !.pending = TRUE, !.rev = signal.revision + 1, !.trigger = t]
    BY <1>2, <2>1 DEF Jobs
  <2>4. Woken \in Jobs /\ signal.revision + 1 \in Nat BY <1>1, <1>2
  <2>5. job' \in Jobs /\ job'.pending /\ job'.rev = signal.revision + 1
    <3> HIDE DEF Woken
    <3> QED BY <2>2, <2>4 DEF Jobs
  <2>3. box.reconciled \in Nat /\ box.reconciled <= signal.revision
    BY <1>1 DEF MailboxInv, BoxInv, SignalRevision, Boxes
  <2> QED BY <1>1, <2>1, <2>3, <2>5, JobSteps
<1>5. CASE Plan
  <2>1. mails' = mails /\ UNCHANGED <<box, captured, gaps, work>> /\ job' = Queued /\ signal' = signal
    BY <1>5 DEF Plan
  <2>2. box.reconciled \in Nat BY <1>1 DEF Boxes
  <2> QED BY <1>1, <2>1, <2>2, Values, JobSteps
<1>6. CASE Arrive
  <2>1. mails' = mails + 1 /\ UNCHANGED <<box, captured, gaps, work, job, signal>>
    BY <1>6 DEF Arrive
  <2> QED BY <1>1, <2>1, JobSteps
<1> QED BY <1>3, <1>4, <1>5, <1>6

(* The job's lease, its deadline and its last attempt.                     *)
LEMMA LeaseSteps ==
  ASSUME MailboxInv, Elapse \/ LeaseEnds \/ LaneEnds \/ LeaseLost \/ Exhausted
  PROVE  MailboxInv'
<1>1. mails \in Nat /\ signal \in [revision : Nat, at : Nat] /\ job \in Jobs /\ box \in Boxes
      /\ (job.pending <=> job.rev > box.reconciled)
  BY DEF MailboxInv, Types, RefreshShown
<1>2. UNCHANGED <<mails, signal, box, captured, gaps, work>>
  BY DEF Elapse, LeaseEnds, LaneEnds, LeaseLost, Exhausted
<1>3. job' \in Jobs /\ (job'.pending <=> job'.rev > box.reconciled)
  <2>1. \/ job' = [job EXCEPT !.due = TRUE] \/ job' = [job EXCEPT !.live = FALSE]
        \/ job' = job \/ job' = PollFinish(TRUE)
    BY DEF Elapse, LeaseEnds, LaneEnds, LeaseLost, Exhausted
  <2>2. CASE job' = PollFinish(TRUE) BY <2>2, <1>1, PollFinishType DEF MailboxInv
  <2>3. CASE job' = [job EXCEPT !.due = TRUE] BY <2>3, <1>1 DEF Jobs
  <2>4. CASE job' = [job EXCEPT !.live = FALSE] BY <2>4, <1>1 DEF Jobs
  <2>5. CASE job' = job BY <2>5, <1>1
  <2> QED BY <2>1, <2>2, <2>3, <2>4, <2>5
<1>4. mails' = mails /\ signal' = signal BY <1>2
<1>5. mails' \in Nat /\ mails' >= mails BY <1>1, <1>4
<1>6. signal' \in [revision : Nat, at : Nat] /\ signal'.revision >= signal.revision BY <1>1, <1>4
<1> QED BY <1>2, <1>3, <1>5, <1>6, JobSteps

(* A change of the binding: the frozen interval is dropped, the overflow   *)
(* that waits for its confirmation and the watermark stay.                 *)
LEMMA BindStep ==
  ASSUME MailboxInv, Bind
  PROVE  MailboxInv'
<1>1. PICK on \in BOOLEAN : box' = Reanchor(on) BY DEF Bind
<1>2. UNCHANGED <<mails, signal, captured, gaps, work>> /\ job' = NoJob BY DEF Bind
<1>3. box \in Boxes BY DEF MailboxInv, Types
<1>4. /\ box' \in Boxes /\ box'.inflight = None /\ box'.last = None
      /\ box'.through = box.through /\ box'.confirm = box.confirm
      /\ box'.reconciled = box.reconciled
  <2>1. PICK g \in Nat : g = box.gen + 1 BY <1>3 DEF Boxes
  <2>2. box' = [box EXCEPT !.on = on, !.gen = g, !.inflight = None, !.last = None]
    BY <1>1, <1>3, <2>1 DEF Reanchor, Boxes
  <2> QED BY <1>3, <2>2 DEF Boxes
<1>5. Types' BY <1>2, <1>4, Values DEF MailboxInv, Types
<1>6. BoxInv' BY <1>2, <1>4 DEF MailboxInv, BoxInv, SignalRevision
<1>7. WorkInv' BY <1>2, <1>4 DEF MailboxInv, WorkInv, RoundInv, Known, TailConfirmed
<1>8. NothingLost' BY <1>2, <1>4 DEF MailboxInv, NothingLost
<1>9. RefreshShown'
  <2>1. box'.reconciled \in Nat BY <1>4 DEF Boxes
  <2> QED BY <1>2, <2>1, Values DEF RefreshShown
<1> QED BY <1>5, <1>6, <1>7, <1>8, <1>9 DEF MailboxInv

(* A worker's round without its interval, or with it and at most the       *)
(* upper bound the clock gives, while the job stays or is finished.        *)
LEMMA RoundStep ==
  ASSUME MailboxInv, NEW w \in Workers,
         UNCHANGED <<mails, signal, box, captured, gaps>>,
         job' \in Jobs, job'.pending <=> job'.rev > box.reconciled,
         work' \in [Workers -> Rounds],
         \A v \in Workers \ {w} : work'[v] = work[v],
         work'[w].upper <= mails,
         work'[w].stage = "list" => work'[w].iv # None,
         work'[w].iv \in {None, work[w].iv}
  PROVE  MailboxInv'
<1>1. mails' = mails /\ mails \in Nat /\ signal' = signal
      /\ signal \in [revision : Nat, at : Nat]
  BY DEF MailboxInv, Types
<1>2. \A v \in Workers : /\ work'[v].upper <= mails'
                         /\ work'[v].stage = "list" => work'[v].iv # None
                         /\ work'[v].iv \in {None, work[v].iv}
  BY <1>1 DEF MailboxInv, WorkInv, RoundInv
<1>3. mails' >= mails /\ signal'.revision >= signal.revision /\ mails' \in Nat
      /\ signal' \in [revision : Nat, at : Nat]
  BY <1>1
<1> QED BY <1>2, <1>3, Steady

(* The job as it was.                                                      *)
LEMMA SameJob ==
  ASSUME MailboxInv, job' = job
  PROVE  job' \in Jobs /\ (job'.pending <=> job'.rev > box.reconciled)
  BY DEF MailboxInv, Types, RefreshShown

LEMMA EndStep ==
  ASSUME MailboxInv, NEW w \in Workers, NEW s \in {"busy", "failed", "done"}, End(w, s),
         UNCHANGED <<mails, signal, box, captured, gaps>>,
         job' \in Jobs, job'.pending <=> job'.rev > box.reconciled
  PROVE  MailboxInv'
<1>1. /\ work' \in [Workers -> Rounds]
      /\ work'[w].iv = None /\ work'[w].upper = 0 /\ work'[w].stage = s
      /\ \A v \in Workers \ {w} : work'[v] = work[v]
  BY EndRound DEF MailboxInv
<1>2. work'[w].upper <= mails BY <1>1 DEF MailboxInv, Types
<1> QED BY <1>1, <1>2, RoundStep

(* The claim, the reads of the mailbox and what leaves a round.            *)
LEMMA ClaimStep ==
  ASSUME MailboxInv, NEW w \in Workers, Claim(w)
  PROVE  MailboxInv'
<1>1. job \in Jobs /\ box \in Boxes /\ mails \in Nat BY DEF MailboxInv, Types
<1>2. UNCHANGED <<mails, signal, box, captured, gaps>> BY DEF Claim
<1>3. job' \in Jobs /\ job'.pending = job.pending /\ job'.rev = job.rev
  <2>1. PICK t \in BOOLEAN : job' = [job EXCEPT !.state = "running", !.holder = w, !.live = TRUE,
                                                 !.due = FALSE, !.trigger = t]
    BY <1>1 DEF Claim, Jobs
  <2> QED BY <1>1, <2>1 DEF Jobs
<1>4. PICK r : /\ r = [Off EXCEPT !.stage = "look", !.gen = box.gen,
                                  !.trigger = job.trigger \/ job.pending]
               /\ work' = [work EXCEPT ![w] = r]
  BY DEF Claim
<1>5. r \in Rounds /\ r.iv = None /\ r.upper = 0 /\ r.stage = "look"
  <2>1. PICK t \in BOOLEAN : r = [Off EXCEPT !.stage = "look", !.gen = box.gen, !.trigger = t]
    BY <1>1, <1>4 DEF Jobs
  <2>2. box.gen \in Nat BY <1>1 DEF Boxes
  <2> QED BY <2>1, <2>2 DEF Off, Rounds
<1>6. work' \in [Workers -> Rounds] /\ work'[w] = r /\ \A v \in Workers \ {w} : work'[v] = work[v]
  BY <1>4, <1>5, RoundType DEF MailboxInv
<1>7. job'.pending <=> job'.rev > box.reconciled BY <1>3 DEF MailboxInv, RefreshShown
<1>8. work'[w].upper <= mails /\ work'[w].stage # "list" /\ work'[w].iv = None
  BY <1>1, <1>5, <1>6
<1> QED BY <1>2, <1>3, <1>6, <1>7, <1>8, RoundStep

LEMMA LookStep ==
  ASSUME MailboxInv, NEW w \in Workers, Look(w)
  PROVE  MailboxInv'
<1>1. box \in Boxes /\ mails \in Nat /\ signal.revision \in Nat /\ work \in [Workers -> Rounds]
  BY DEF MailboxInv, Types
<1>2. UNCHANGED <<mails, signal, box, captured, gaps, job>> BY DEF Look
<1>3. CASE End(w, "failed") BY <1>2, <1>3, SameJob, EndStep
<1>4. CASE ~End(w, "failed")
  <2> DEFINE final == work[w].stage = "check" \/ (box.inflight # None /\ box.inflight.final)
             upper == IF final THEN box.through ELSE mails
             trigger == work[w].trigger \/ SignalRevision > box.reconciled
  <2>1. work' = [work EXCEPT ![w].stage = "begin", ![w].final = final, ![w].upper = upper,
                             ![w].trigger = @ \/ SignalRevision > box.reconciled]
    BY <1>4 DEF Look
  <2>2. work[w] \in Rounds BY <1>1
  <2>3. final \in BOOLEAN /\ upper \in Nat /\ upper <= mails /\ trigger \in BOOLEAN
    <3>1. box.inflight # None => box.inflight.final \in BOOLEAN BY <1>1 DEF Boxes, Queries
    <3>2. work[w].trigger \in BOOLEAN /\ box.reconciled \in Nat /\ box.through \in Nat
      BY <1>1, <2>2 DEF Rounds, Boxes
    <3>3. box.through <= mails BY DEF MailboxInv, BoxInv
    <3> QED BY <1>1, <3>1, <3>2, <3>3 DEF SignalRevision
  <2> HIDE DEF final, upper
  <2>4. PICK r : r = [work[w] EXCEPT !.stage = "begin", !.final = final, !.upper = upper,
                                     !.trigger = trigger]
    OBVIOUS
  <2>5. work' = [work EXCEPT ![w] = r] BY <1>1, <2>1, <2>2, <2>4 DEF Rounds
  <2> HIDE DEF trigger
  <2>6. r \in Rounds /\ r.iv = work[w].iv /\ r.stage = "begin" /\ r.upper = upper
    BY <2>2, <2>3, <2>4 DEF Rounds
  <2>7. work' \in [Workers -> Rounds] /\ work'[w] = r /\ \A v \in Workers \ {w} : work'[v] = work[v]
    BY <2>5, <2>6, RoundType DEF MailboxInv
  <2>8. work'[w].upper <= mails /\ work'[w].stage # "list" /\ work'[w].iv = work[w].iv
    BY <2>3, <2>6, <2>7
  <2>9. job' \in Jobs /\ (job'.pending <=> job'.rev > box.reconciled) BY <1>2, SameJob
  <2> QED BY <1>2, <2>7, <2>8, <2>9, RoundStep
<1> QED BY <1>3, <1>4

LEMMA NextSliceStep ==
  ASSUME MailboxInv, NEW w \in Workers, NextSlice(w)
  PROVE  MailboxInv'
<1>1. UNCHANGED <<mails, signal, box, captured, gaps, job>> BY DEF NextSlice
<1>2. work \in [Workers -> Rounds] /\ work[w] \in Rounds BY DEF MailboxInv, Types
<1>3. Onward(w) \in {"look", "check", "failed", "done"} BY DEF Onward
<1>4. CASE Onward(w) \in {"look", "check"}
  <2>1. PICK r : r = [work[w] EXCEPT !.final = FALSE, !.stage = Onward(w)] OBVIOUS
  <2>2. work' = [work EXCEPT ![w].final = FALSE, ![w].stage = Onward(w)]
    BY <1>4 DEF NextSlice
  <2> HIDE DEF Onward
  <2>3. work' = [work EXCEPT ![w] = r] BY <1>2, <2>1, <2>2 DEF Rounds
  <2>4. r \in Rounds /\ r.iv = work[w].iv /\ r.stage # "list" /\ r.upper = work[w].upper
    BY <1>2, <1>4, <2>1 DEF Rounds
  <2>5. work' \in [Workers -> Rounds] /\ work'[w] = r /\ \A v \in Workers \ {w} : work'[v] = work[v]
    BY <2>3, <2>4, RoundType DEF MailboxInv
  <2>6. work[w].upper <= mails BY DEF MailboxInv, WorkInv, RoundInv
  <2>7. job' \in Jobs /\ (job'.pending <=> job'.rev > box.reconciled) BY <1>1, SameJob
  <2> QED BY <1>1, <2>4, <2>5, <2>6, <2>7, RoundStep
<1>5. CASE Onward(w) \notin {"look", "check"}
  <2>1. End(w, Onward(w)) BY <1>5 DEF NextSlice
  <2>2. Onward(w) \in {"busy", "failed", "done"} BY <1>3, <1>5
  <2>3. job' \in Jobs /\ (job'.pending <=> job'.rev > box.reconciled) BY <1>1, SameJob
  <2> QED BY <1>1, <2>1, <2>2, <2>3, EndStep
<1> QED BY <1>4, <1>5

LEMMA StopSteps ==
  ASSUME MailboxInv, NEW w \in Workers, Stopped(w) \/ RenewalFails(w)
  PROVE  MailboxInv'
<1>1. UNCHANGED <<mails, signal, box, captured, gaps, job>> BY DEF Stopped, RenewalFails
<1>2. End(w, "failed") \/ End(w, "busy") BY DEF Stopped, RenewalFails
<1> QED BY <1>1, <1>2, SameJob, EndStep

LEMMA FinishStep ==
  ASSUME MailboxInv, NEW w \in Workers, Finish(w)
  PROVE  MailboxInv'
<1>1. UNCHANGED <<mails, signal, box, captured, gaps>> /\ work' = [work EXCEPT ![w] = Off]
  BY DEF Finish
<1>2. job \in Jobs /\ box \in Boxes /\ RefreshShown /\ mails \in Nat BY DEF MailboxInv, Types
<1>3. job' \in Jobs /\ (job'.pending <=> job'.rev > box.reconciled)
  <2>1. \/ job' = job \/ \E b \in BOOLEAN : job' = [Released EXCEPT !.state = "retry", !.error = b]
        \/ \E b \in BOOLEAN : job' = PollFinish(b)
    BY DEF Finish
  <2>2. CASE job' = job BY <2>2, SameJob
  <2>3. ASSUME NEW b \in BOOLEAN, job' = [Released EXCEPT !.state = "retry", !.error = b]
        PROVE  job' \in Jobs /\ job'.pending = job.pending /\ job'.rev = job.rev
    BY <1>2, <2>3, ReleasedType
  <2>4. ASSUME NEW b \in BOOLEAN, job' = PollFinish(b)
        PROVE  job' \in Jobs /\ (job'.pending <=> job'.rev > box.reconciled)
    BY <1>2, <2>4, PollFinishType
  <2> QED BY <1>2, <2>1, <2>2, <2>3, <2>4 DEF RefreshShown
<1>4. work' \in [Workers -> Rounds] /\ work'[w] = Off /\ \A v \in Workers \ {w} : work'[v] = work[v]
  BY <1>1, Values, RoundType DEF MailboxInv
<1>5. work'[w].upper <= mails /\ work'[w].stage # "list" /\ work'[w].iv = None
  BY <1>2, <1>4, Values
<1> QED BY <1>1, <1>3, <1>4, <1>5, RoundStep

LEMMA CrashStep ==
  ASSUME MailboxInv, Crash
  PROVE  MailboxInv'
<1>1. UNCHANGED <<mails, signal, box, captured, gaps, job>> /\ work' = [w \in Workers |-> Off]
  BY DEF Crash
<1>2. mails \in Nat /\ signal \in [revision : Nat, at : Nat] BY DEF MailboxInv, Types
<1>3. mails' \in Nat /\ mails' >= mails /\ signal'.revision >= signal.revision
      /\ signal' \in [revision : Nat, at : Nat]
  BY <1>1, <1>2
<1>4. work' \in [Workers -> Rounds]
      /\ \A w \in Workers : /\ work'[w].upper <= mails' /\ work'[w].stage # "list"
                            /\ work'[w].iv = None
  BY <1>1, <1>2, Values
<1>5. job' \in Jobs /\ (job'.pending <=> job'.rev > box.reconciled) BY <1>1, SameJob
<1> QED BY <1>1, <1>3, <1>4, <1>5, Steady

-----------------------------------------------------------------------------
(* The query.                                                              *)

(* What emailBeginSync freezes has the shape of a frozen interval, and     *)
(* every worker that has an interval of its identity lists the same.       *)
LEMMA IntervalFits ==
  ASSUME MailboxInv, NEW w \in Workers, Admissible(w)
  PROVE  LET iv == Interval(w) IN
         /\ iv \in Queries /\ Frozen(iv)
         /\ \A v \in Workers :
              work[v].iv # None /\ work[v].iv.id = iv.id => Alike(work[v].iv, iv)
<1> DEFINE iv == Interval(w)
           Same(v) == work[v].iv # None /\ work[v].iv.id = iv.id => Alike(work[v].iv, iv)
<1> SUFFICES iv \in Queries /\ Frozen(iv) /\ \A v \in Workers : Same(v) OBVIOUS
<1>1. /\ box \in Boxes /\ mails \in Nat /\ signal.revision \in Nat /\ work[w] \in Rounds
      /\ \A v \in Workers : work[v] \in Rounds
  BY DEF MailboxInv, Types
<1>2. /\ box.through \in Nat /\ box.reconciled \in Nat /\ work[w].upper \in Nat
      /\ box.through <= mails /\ box.reconciled <= signal.revision /\ work[w].upper <= mails
  BY <1>1 DEF MailboxInv, BoxInv, WorkInv, RoundInv, Boxes, Rounds, SignalRevision
<1>3. /\ Fresh \in Ids /\ \A v \in Workers : work[v].iv = None \/ work[v].iv.id # Fresh
      /\ box.confirm = None \/ box.confirm.id # Fresh
  BY FreshIsNew DEF MailboxInv
<1>4. box.last # None => box.last \in Tails /\ box.last.start <= box.through
  BY <1>1 DEF MailboxInv, BoxInv, Boxes
<1>9. /\ \A v \in Workers : work[v].iv # None => work[v].iv \in Queries /\ Known(work[v].iv)
  BY <1>1 DEF MailboxInv, WorkInv, RoundInv, Rounds
<1>5. CASE box.inflight # None
  <2>1. iv = box.inflight BY <1>5 DEF Interval
  <2>2. iv \in Queries /\ Frozen(iv) BY <1>1, <1>5, <2>1 DEF MailboxInv, BoxInv, Boxes
  <2>3. \A v \in Workers : Same(v) BY <1>5, <1>9, <2>1 DEF Known
  <2> QED BY <2>2, <2>3
<1>6. CASE box.inflight = None /\ work[w].final
  <2>1. iv = [id |-> box.last.id, final |-> TRUE, start |-> box.last.start,
              end |-> box.through, overlap |-> FALSE, rev |-> box.reconciled]
    BY <1>6 DEF Interval
  <2>2. box.confirm = None /\ box.last # None BY <1>6 DEF Admissible
  <2> HIDE DEF iv
  <2>3. iv \in Queries BY <1>2, <1>4, <2>1, <2>2 DEF Queries, Tails
  <2>4. Frozen(iv) BY <1>2, <1>4, <2>1, <2>2 DEF Frozen, SignalRevision
  <2>5. \A v \in Workers : Same(v)
    BY <1>9, <2>1, <2>2 DEF Known, Alike, TailConfirmed, Queries
  <2> QED BY <2>3, <2>4, <2>5 DEF iv
<1>7. CASE box.inflight = None /\ ~work[w].final /\ box.confirm # None
  <2>1. iv = [id |-> box.confirm.id, final |-> FALSE, start |-> box.through,
              end |-> box.confirm.end, overlap |-> FALSE, rev |-> SignalRevision]
    BY <1>7 DEF Interval
  <2>2. /\ box.confirm \in Confirmations
        /\ box.through <= box.confirm.end /\ box.confirm.end <= mails
    BY <1>1, <1>7 DEF Boxes, MailboxInv, BoxInv
  <2> HIDE DEF iv
  <2>4. iv \in Queries
    BY <1>1, <1>2, <2>1, <2>2 DEF Queries, Confirmations, SignalRevision
  <2>5. Frozen(iv)
    BY <1>1, <1>2, <1>7, <2>1, <2>2 DEF Frozen, SignalRevision, TailConfirmed
  <2>6. \A v \in Workers : Same(v) BY <1>7, <1>9, <2>1 DEF Known, Alike, Queries
  <2> QED BY <2>4, <2>5, <2>6 DEF iv
<1>8. CASE box.inflight = None /\ ~work[w].final /\ box.confirm = None
  <2>1. iv = [id |-> Fresh, final |-> FALSE, end |-> work[w].upper, rev |-> SignalRevision,
              overlap |-> box.last # None,
              start |-> IF box.last # None THEN box.last.start ELSE box.through]
    BY <1>8 DEF Interval
  <2>2. work[w].upper >= box.through BY <1>8 DEF Admissible
  <2> HIDE DEF iv
  <2>3. iv \in Queries
    <3>1. (box.last # None) \in BOOLEAN OBVIOUS
    <3>2. (IF box.last # None THEN box.last.start ELSE box.through) \in Nat
      BY <1>2, <1>4 DEF Tails
    <3> QED BY <1>1, <1>2, <1>3, <2>1, <3>1, <3>2 DEF Queries, SignalRevision
  <2>4. Frozen(iv)
    <3>1. /\ iv.start <= box.through
          /\ ~iv.overlap => iv.start = box.through /\ box.last = None
      <4>1. CASE box.last # None BY <1>2, <1>4, <2>1, <4>1
      <4>2. CASE box.last = None BY <1>2, <2>1, <4>2
      <4> QED BY <4>1, <4>2
    <3>2. iv.end = work[w].upper /\ ~iv.final /\ iv.rev = SignalRevision BY <2>1
    <3> QED BY <1>1, <1>2, <1>8, <2>2, <3>1, <3>2 DEF Frozen, SignalRevision
  <2>5. \A v \in Workers : Same(v) BY <1>3, <2>1
  <2> QED BY <2>3, <2>4, <2>5 DEF iv
<1> QED BY <1>5, <1>6, <1>7, <1>8

LEMMA BeginStep ==
  ASSUME MailboxInv, NEW w \in Workers, Begin(w)
  PROVE  MailboxInv'
<1>1. UNCHANGED <<mails, signal, captured, gaps, job>> BY DEF Begin
<1>2. CASE ~Admissible(w)
  <2>1. End(w, "failed") /\ UNCHANGED box BY <1>2 DEF Begin
  <2> QED BY <1>1, <2>1, SameJob, EndStep
<1>3. CASE Admissible(w)
  <2>1. PICK iv : iv = Interval(w) OBVIOUS
  <2>2. /\ iv \in Queries /\ Frozen(iv)
        /\ \A v \in Workers :
             work[v].iv # None /\ work[v].iv.id = iv.id => Alike(work[v].iv, iv)
    BY <1>3, <2>1, IntervalFits
  <2>3. /\ box' = [box EXCEPT !.inflight = iv, !.sync = "running", !.error = FALSE]
        /\ work' = [work EXCEPT ![w].stage = "list", ![w].upper = 0, ![w].iv = iv]
    BY <1>3, <2>1 DEF Begin
  <2>4. iv # None BY <2>2, NoneIs
  <2>5. box \in Boxes /\ mails \in Nat /\ work \in [Workers -> Rounds] BY DEF MailboxInv, Types
  <2>6. /\ box' \in Boxes /\ box'.inflight = iv /\ box'.through = box.through
        /\ box'.confirm = box.confirm /\ box'.reconciled = box.reconciled /\ box'.last = box.last
    BY <2>2, <2>3, <2>5 DEF Boxes
  <2>7. PICK r : r = [work[w] EXCEPT !.stage = "list", !.upper = 0, !.iv = iv] OBVIOUS
  <2>8. r \in Rounds /\ r.iv = iv /\ r.upper = 0 BY <2>2, <2>5, <2>7 DEF Rounds
  <2>9. work' = [work EXCEPT ![w] = r] BY <2>3, <2>5, <2>7 DEF Rounds
  <2>10. /\ work' \in [Workers -> Rounds] /\ work'[w] = r
         /\ \A v \in Workers \ {w} : work'[v] = work[v]
    BY <2>8, <2>9, RoundType DEF MailboxInv
  <2>11. Types' BY <1>1, <2>6, <2>10 DEF MailboxInv, Types
  <2>12. BoxInv'
    <3>1. Frozen(iv)' BY <1>1, <2>2, <2>6 DEF Frozen, SignalRevision, TailConfirmed
    <3> QED BY <1>1, <2>6, <3>1 DEF MailboxInv, BoxInv, SignalRevision
  <2>13. WorkInv'
    <3> SUFFICES ASSUME NEW v \in Workers PROVE RoundInv(v)' BY DEF WorkInv
    <3>1. CASE v = w
      <4>1. Known(iv)' BY <2>2, <2>6 DEF Known, Frozen, Alike, TailConfirmed
      <4> QED BY <1>1, <2>4, <2>5, <2>8, <2>10, <3>1, <4>1 DEF RoundInv
    <3>2. CASE v # w
      <4>1. RoundInv(v) /\ work'[v] = work[v] BY <2>10, <3>2 DEF MailboxInv, WorkInv
      <4>2. ASSUME work[v].iv # None PROVE Known(work[v].iv)'
        <5>1. Known(work[v].iv) BY <4>1, <4>2 DEF RoundInv
        <5> QED BY <2>2, <2>6, <4>1, <4>2, <5>1 DEF Known, TailConfirmed, Alike
      <4> QED BY <1>1, <4>1, <4>2 DEF RoundInv
    <3> QED BY <3>1, <3>2
  <2>14. NothingLost' BY <1>1, <2>6 DEF MailboxInv, NothingLost
  <2>15. RefreshShown' BY <1>1, <2>6 DEF MailboxInv, RefreshShown
  <2> QED BY <2>11, <2>12, <2>13, <2>14, <2>15 DEF MailboxInv
<1> QED BY <1>2, <1>3

(* What an accepted page's interval is: the frozen one, as the worker may  *)
(* have lost its lease but not the identity.                               *)
LEMMA AcceptedIsFrozen ==
  ASSUME MailboxInv, NEW w \in Workers, work[w].stage = "list", Matches(w)
  PROVE  /\ box.inflight # None /\ box.inflight \in Queries /\ Frozen(box.inflight)
         /\ Messages(work[w].iv) = Messages(box.inflight)
<1>1. box.inflight # None /\ box.inflight \in Queries /\ Frozen(box.inflight)
  BY DEF Matches, MailboxInv, Types, Boxes, BoxInv
<1>2. work[w].iv # None /\ Known(work[w].iv) BY DEF MailboxInv, WorkInv, RoundInv
<1>3. work[w].iv.end = box.inflight.end /\ work[w].iv.start = box.inflight.start
  BY <1>2 DEF Known, Matches, Alike
<1> QED BY <1>1, <1>3 DEF Messages

(* The worker's round after the commit.                                    *)
LEMMA CommittedRound ==
  ASSUME MailboxInv, NEW w \in Workers,
         work' = [work EXCEPT ![w].stage = "next", ![w].iv = None]
  PROVE  /\ work' \in [Workers -> Rounds]
         /\ \A v \in Workers : /\ work'[v].upper = work[v].upper
                               /\ work'[v].stage = "list" => work'[v].iv # None
                               /\ work'[v].iv \in {None, work[v].iv}
<1>1. work \in [Workers -> Rounds] /\ work[w] \in Rounds BY DEF MailboxInv, Types
<1>2. PICK r : r = [work[w] EXCEPT !.stage = "next", !.iv = None] OBVIOUS
<1>3. r \in Rounds /\ r.upper = work[w].upper /\ r.stage # "list" /\ r.iv = None
  BY <1>1, <1>2 DEF Rounds
<1>4. work' = [work EXCEPT ![w] = r] BY <1>1, <1>2 DEF Rounds
<1>5. work' \in [Workers -> Rounds] /\ work'[w] = r /\ \A v \in Workers \ {w} : work'[v] = work[v]
  BY <1>3, <1>4, RoundType DEF MailboxInv
<1> QED BY <1>3, <1>5 DEF MailboxInv, WorkInv, RoundInv

(* A commit, of which it is known what the row becomes: that the interval  *)
(* is not frozen any more, or as it was, and that the watermark moves over *)
(* messages the store or a gap has.                                        *)
LEMMA CommitChange ==
  ASSUME MailboxInv, NEW w \in Workers,
         work' = [work EXCEPT ![w].stage = "next", ![w].iv = None],
         UNCHANGED <<mails, signal>>,
         captured \subseteq captured', gaps \subseteq gaps',
         box' \in Boxes, job' \in Jobs,
         \A m \in 1..box'.through :
           m \in 1..box.through \/ m \in captured' \cup gaps',
         BoxInv',
         \A i \in Queries : Known(i) => Known(i)',
         job'.pending <=> job'.rev > box'.reconciled
  PROVE  MailboxInv'
<1>1. /\ work' \in [Workers -> Rounds]
      /\ \A v \in Workers : /\ work'[v].upper = work[v].upper
                            /\ work'[v].stage = "list" => work'[v].iv # None
                            /\ work'[v].iv \in {None, work[v].iv}
  BY CommittedRound
<1>2. Types' BY <1>1 DEF MailboxInv, Types
<1>3. NothingLost' BY DEF MailboxInv, NothingLost
<1>4. WorkInv'
  <2> SUFFICES ASSUME NEW v \in Workers PROVE RoundInv(v)' BY DEF WorkInv
  <2>1. work'[v].iv # None => Known(work[v].iv)'
    <3> SUFFICES ASSUME work'[v].iv # None PROVE Known(work[v].iv)' OBVIOUS
    <3>1. PICK i : i = work[v].iv OBVIOUS
    <3>2. i # None /\ work'[v].iv = i BY <1>1, <3>1
    <3>3. i \in Queries /\ Known(i)
      BY <3>1, <3>2 DEF MailboxInv, Types, Rounds, WorkInv, RoundInv
    <3>4. Known(i)' BY <3>3
    <3> QED BY <3>2, <3>4 DEF Known, TailConfirmed
  <2> QED BY <1>1, <2>1 DEF MailboxInv, WorkInv, RoundInv
<1>5. RefreshShown' BY DEF RefreshShown
<1> QED BY <1>2, <1>3, <1>4, <1>5 DEF MailboxInv

LEMMA CompleteStep ==
  ASSUME MailboxInv, NEW w \in Workers, work[w].stage = "list", Matches(w),
         work' = [work EXCEPT ![w].stage = "next", ![w].iv = None],
         UNCHANGED <<mails, signal>>,
         captured' = captured \cup Messages(work[w].iv), CommitComplete
  PROVE  MailboxInv'
<1> DEFINE iv == box.inflight
           rev == IF iv.rev > box.reconciled THEN iv.rev ELSE box.reconciled
           last == IF iv.final THEN box.last ELSE [id |-> iv.id, start |-> box.through]
           confirm == IF box.confirm # None /\ box.confirm.id = iv.id /\ ~iv.overlap
                      THEN None ELSE box.confirm
<1>1. /\ iv # None /\ iv \in Queries /\ Frozen(iv)
      /\ Messages(work[w].iv) = Messages(iv)
  BY AcceptedIsFrozen
<1>2. /\ box \in Boxes /\ mails \in Nat /\ signal.revision \in Nat /\ job \in Jobs
      /\ iv.start \in Nat /\ iv.end \in Nat /\ iv.rev \in Nat /\ iv.final \in BOOLEAN
      /\ box.through \in Nat /\ box.reconciled \in Nat /\ box.reconciled <= SignalRevision
  BY <1>1 DEF MailboxInv, Types, Queries, Boxes, BoxInv
<1>3. confirm = None
  BY <1>1 DEF Frozen
<1>4. rev \in Nat /\ rev >= box.reconciled /\ rev <= SignalRevision
  BY <1>1, <1>2 DEF Frozen, SignalRevision
<1>5. last \in Tails \cup {None} /\ (last # None => last.start <= iv.end)
  <2>1. /\ box.last \in Tails \cup {None}
        /\ box.last # None => box.last.start <= box.through
    BY <1>2 DEF Boxes, MailboxInv, BoxInv
  <2>2. box.through <= iv.end /\ iv.id \in Ids BY <1>1 DEF Frozen, Queries
  <2>3. [id |-> iv.id, start |-> box.through] \in Tails BY <1>2, <2>2 DEF Tails
  <2> QED BY <1>2, <2>1, <2>2, <2>3 DEF Tails
<1>14. \A i \in Queries :
         Known(i) /\ last # None /\ i.id = last.id /\ ~i.overlap =>
           i.start = last.start /\ i.end = iv.end
  <2> SUFFICES ASSUME NEW i \in Queries, Known(i), last # None, i.id = last.id, ~i.overlap
               PROVE  i.start = last.start /\ i.end = iv.end
    OBVIOUS
  <2>1. CASE iv.final
    BY <1>1, <2>1 DEF Known, Frozen, TailConfirmed
  <2>2. CASE ~iv.final
    <3>1. last.id = iv.id /\ last.start = box.through BY <2>2
    <3>2. Alike(i, iv) BY <1>1, <3>1 DEF Known
    <3>3. iv.overlap \in BOOLEAN /\ i.overlap = FALSE BY <1>1 DEF Queries
    <3>4. ~iv.overlap /\ iv.start = box.through BY <1>1, <2>2, <3>2, <3>3 DEF Alike, Frozen
    <3> QED BY <3>1, <3>2, <3>3, <3>4 DEF Alike
  <2> QED BY <2>1, <2>2
<1>6. box' = [box EXCEPT !.through = iv.end, !.reconciled = rev, !.last = last,
                         !.confirm = confirm, !.inflight = None, !.sync = "idle",
                         !.error = FALSE]
  BY DEF CommitComplete
<1>7. job' = IF job.pending /\ job.rev <= rev THEN [job EXCEPT !.pending = FALSE] ELSE job
  BY DEF CommitComplete
<1>8. UNCHANGED gaps BY DEF CommitComplete
<1> HIDE DEF rev, last, confirm
<1>9. /\ box' \in Boxes /\ box'.through = iv.end /\ box'.reconciled = rev /\ box'.last = last
      /\ box'.confirm = None /\ box'.inflight = None
  BY <1>2, <1>3, <1>4, <1>5, <1>6 DEF Boxes
<1>10. job' \in Jobs /\ (job'.pending <=> job'.rev > box'.reconciled)
  <2>1. job.pending <=> job.rev > box.reconciled BY DEF MailboxInv, RefreshShown
  <2>2. job.rev \in Nat /\ job.pending \in BOOLEAN BY <1>2 DEF Jobs
  <2>3. CASE job.pending /\ job.rev <= rev
    <3>1. job' \in Jobs /\ ~job'.pending /\ job'.rev = job.rev BY <1>2, <1>7, <2>3 DEF Jobs
    <3> QED BY <1>4, <1>9, <2>2, <2>3, <3>1
  <2>4. CASE ~(job.pending /\ job.rev <= rev)
    BY <1>2, <1>4, <1>7, <1>9, <2>1, <2>2, <2>4
  <2> QED BY <2>3, <2>4
<1>11. BoxInv'
  <2>1. iv.end <= mails BY <1>1 DEF Frozen
  <2> QED BY <1>4, <1>5, <1>9, <2>1 DEF BoxInv, SignalRevision
<1>12. \A i \in Queries : Known(i) => Known(i)'
  BY <1>9, <1>14 DEF Known
<1>13. \A m \in 1..box'.through : m \in 1..box.through \/ m \in captured' \cup gaps'
  <2> SUFFICES ASSUME NEW m \in 1..box'.through, m \notin 1..box.through
               PROVE  m \in Messages(iv)
    BY <1>1
  <2>1. iv.start <= box.through /\ iv.end <= mails BY <1>1 DEF Frozen
  <2> QED BY <1>2, <1>9, <2>1 DEF Messages
<1> QED BY <1>8, <1>9, <1>10, <1>11, <1>12, <1>13, CommitChange

(* An overflow that is frozen, and one that becomes a gap.                 *)
LEMMA OverflowStep ==
  ASSUME MailboxInv, NEW w \in Workers, work[w].stage = "list", Matches(w),
         work' = [work EXCEPT ![w].stage = "next", ![w].iv = None],
         UNCHANGED <<mails, signal>>,
         captured \subseteq captured', CommitOverflow
  PROVE  MailboxInv'
<1> DEFINE iv == box.inflight
<1>1. iv # None /\ iv \in Queries /\ Frozen(iv) /\ ~iv.final
  BY AcceptedIsFrozen DEF CommitOverflow
<1>2. /\ box \in Boxes /\ mails \in Nat /\ signal.revision \in Nat /\ job \in Jobs
      /\ iv.start \in Nat /\ iv.end \in Nat /\ iv.id \in Ids
      /\ box.through \in Nat /\ box.reconciled \in Nat /\ box.reconciled <= SignalRevision
      /\ box.last # None => box.last.start <= box.through
      /\ box.through <= iv.end /\ iv.end <= mails /\ iv.start <= box.through
      /\ ~iv.overlap => iv.start = box.through
  BY <1>1 DEF MailboxInv, Types, Queries, Boxes, BoxInv, Frozen
<1>3. job' = job /\ job' \in Jobs /\ (job'.pending <=> job'.rev > box.reconciled)
  BY SameJob DEF CommitOverflow
<1>5. CASE box.confirm = None
  <2>1. /\ box' = [box EXCEPT !.confirm = [id |-> iv.id, end |-> iv.end], !.inflight = None,
                              !.sync = "overflow", !.error = TRUE]
        /\ UNCHANGED gaps
    BY <1>5 DEF CommitOverflow
  <2>2. PICK c \in Confirmations : c = [id |-> iv.id, end |-> iv.end]
    BY <1>2 DEF Confirmations
  <2>3. c # None /\ c.id = iv.id /\ c.end = iv.end BY <2>2, NoneIs
  <2>4. box' = [box EXCEPT !.confirm = c, !.inflight = None, !.sync = "overflow", !.error = TRUE]
    BY <2>1, <2>2
  <2> HIDE DEF iv
  <2>5. /\ box' \in Boxes /\ box'.confirm = c /\ box'.inflight = None /\ box'.last = box.last
        /\ box'.through = box.through /\ box'.reconciled = box.reconciled
    BY <1>2, <2>4 DEF Boxes
  <2>6. BoxInv' BY <1>2, <2>3, <2>5 DEF BoxInv, SignalRevision
  <2>7. \A i \in Queries : Known(i) => Known(i)'
    <3> SUFFICES ASSUME NEW i \in Queries, Known(i), i.id = iv.id,
                        ~i.overlap
                 PROVE  i.start = box.through /\ i.end = iv.end
      BY <1>5, <2>3, <2>5 DEF Known, TailConfirmed
    <3>1. Alike(i, iv) BY <1>1 DEF Known, iv
    <3>2. i.overlap \in BOOLEAN /\ iv.overlap \in BOOLEAN BY <1>1 DEF Queries
    <3> QED BY <1>2, <3>1, <3>2 DEF Alike
  <2> QED BY <1>3, <2>1, <2>5, <2>6, <2>7, CommitChange
<1>6. CASE box.confirm # None
  <2>1. /\ box' = [box EXCEPT !.confirm = None, !.through = iv.end, !.last = None,
                              !.inflight = None, !.sync = "gap", !.error = TRUE]
        /\ gaps' = gaps \cup {m \in Messages(iv) : m > box.through}
    BY <1>6 DEF CommitOverflow
  <2> HIDE DEF iv
  <2>2. /\ box' \in Boxes /\ box'.confirm = None /\ box'.inflight = None /\ box'.last = None
        /\ box'.through = iv.end /\ box'.reconciled = box.reconciled
    BY <1>2, <2>1 DEF Boxes
  <2>3. BoxInv' BY <1>2, <2>2 DEF BoxInv, SignalRevision
  <2>4. \A i \in Queries : Known(i) => Known(i)' BY <2>2 DEF Known
  <2>5. \A m \in 1..box'.through : m \in 1..box.through \/ m \in captured' \cup gaps'
    BY <1>2, <2>1, <2>2 DEF Messages
  <2> QED BY <1>3, <2>1, <2>2, <2>3, <2>4, <2>5, CommitChange
<1> QED BY <1>5, <1>6

(* A list that failed.                                                     *)
LEMMA FailureStep ==
  ASSUME MailboxInv, NEW w \in Workers, work[w].stage = "list", Matches(w),
         work' = [work EXCEPT ![w].stage = "next", ![w].iv = None],
         UNCHANGED <<mails, signal>>,
         captured \subseteq captured', CommitFailure
  PROVE  MailboxInv'
<1>1. box \in Boxes BY DEF MailboxInv, Types
<1>2. PICK i \in {None, box.inflight}, e \in BOOLEAN :
        box' = [box EXCEPT !.inflight = i, !.sync = "incomplete", !.error = e]
  BY <1>1 DEF CommitFailure, Boxes
<1>3. /\ box' \in Boxes /\ box'.confirm = box.confirm /\ box'.inflight = i
      /\ box'.last = box.last
      /\ box'.through = box.through /\ box'.reconciled = box.reconciled
  BY <1>1, <1>2 DEF Boxes
<1>4. UNCHANGED <<job, gaps>> BY DEF CommitFailure
<1>5. job' \in Jobs /\ (job'.pending <=> job'.rev > box'.reconciled)
  BY <1>3, <1>4, SameJob
<1>6. BoxInv'
  <2>1. box'.inflight # None => Frozen(box.inflight)'
    <3>1. ASSUME box'.inflight # None PROVE box'.inflight = box.inflight /\ box.inflight # None
      BY <1>3, <3>1
    <3>2. ASSUME box'.inflight # None PROVE Frozen(box.inflight)
      BY <3>1, <3>2 DEF MailboxInv, BoxInv
    <3> QED BY <1>3, <3>1, <3>2 DEF Frozen, SignalRevision, TailConfirmed
  <2> QED BY <1>3, <2>1 DEF MailboxInv, BoxInv, SignalRevision
<1>7. \A j \in Queries : Known(j) => Known(j)' BY <1>3 DEF Known, TailConfirmed
<1>8. \A m \in 1..box'.through : m \in 1..box.through \/ m \in captured' \cup gaps'
  BY <1>3
<1> QED BY <1>3, <1>4, <1>5, <1>6, <1>7, <1>8, CommitChange

LEMMA CommitStep ==
  ASSUME MailboxInv, NEW w \in Workers, Commit(w)
  PROVE  MailboxInv'
<1>1. UNCHANGED <<mails, signal>> /\ work[w].stage = "list" BY DEF Commit
<1>2. CASE End(w, "failed") /\ UNCHANGED <<captured, gaps, box, job>>
  BY <1>1, <1>2, SameJob, EndStep
<1>3. ASSUME ~(End(w, "failed") /\ UNCHANGED <<captured, gaps, box, job>>)
      PROVE  /\ work' = [work EXCEPT ![w].stage = "next", ![w].iv = None]
             /\ Matches(w)
             /\ \/ captured' = captured \cup Messages(work[w].iv) /\ CommitComplete
                \/ captured \subseteq captured' /\ (CommitFailure \/ CommitOverflow)
  BY <1>3 DEF Commit, Accepts
<1> QED BY <1>1, <1>2, <1>3, CompleteStep, FailureStep, OverflowStep
-----------------------------------------------------------------------------
(* The theorems.                                                           *)

LEMMA InitInv == Init => MailboxInv
<1> SUFFICES ASSUME Init PROVE MailboxInv OBVIOUS
<1>1. /\ mails = 0 /\ signal = [revision |-> 0, at |-> 0] /\ job = NoJob
      /\ box = [on |-> TRUE, gen |-> 0, reconciled |-> 0, through |-> 0, last |-> None,
                inflight |-> None, confirm |-> None, sync |-> "idle", error |-> FALSE]
      /\ work = [w \in Workers |-> Off]
  BY DEF Init
<1>2. Types BY <1>1, Values DEF Types, Boxes
<1>3. BoxInv BY <1>1 DEF BoxInv, SignalRevision
<1>4. WorkInv BY <1>1, Values DEF WorkInv, RoundInv
<1>5. NothingLost BY <1>1 DEF NothingLost
<1>6. RefreshShown BY <1>1, Values DEF RefreshShown
<1> QED BY <1>2, <1>3, <1>4, <1>5, <1>6 DEF MailboxInv

LEMMA NextInv == MailboxInv /\ [Next]_vars => MailboxInv'
<1> SUFFICES ASSUME MailboxInv, [Next]_vars PROVE MailboxInv' OBVIOUS
<1>1. CASE Hint \/ Refresh \/ Plan \/ Arrive BY <1>1, SignalSteps
<1>2. CASE Elapse \/ LeaseEnds \/ LaneEnds \/ LeaseLost \/ Exhausted BY <1>2, LeaseSteps
<1>3. CASE Bind BY <1>3, BindStep
<1>4. CASE Crash BY <1>4, CrashStep
<1>5. ASSUME NEW w \in Workers, Claim(w) \/ Work(w) \/ Stopped(w) \/ RenewalFails(w)
      PROVE  MailboxInv'
  BY <1>5, ClaimStep, LookStep, BeginStep, CommitStep, NextSliceStep, FinishStep, StopSteps
     DEF Work
<1>6. CASE UNCHANGED vars
  BY <1>6 DEF vars, MailboxInv, Types, BoxInv, Frozen, WorkInv, RoundInv, Known,
              TailConfirmed, NothingLost, RefreshShown, SignalRevision
<1> QED BY <1>1, <1>2, <1>3, <1>4, <1>5, <1>6 DEF Next

(* The inductive invariant of a mailbox's synchronisation.                 *)
THEOREM MailboxInvariant == Spec => []MailboxInv
BY InitInv, NextInv, PTL DEF Spec

(* Whatever overlaps, confirmations, crashes, late commits of workers that *)
(* lost their lease and changes of the binding happen, the watermark       *)
(* passes no message that is neither in the store nor in a recorded        *)
(* coverage gap (emailCommitSync).                                         *)
THEOREM NoMessageLost == Spec => []NothingLost
<1>1. MailboxInv => NothingLost BY DEF MailboxInv
<1> QED BY <1>1, MailboxInvariant, PTL

(* A refresh shows as pending exactly while no qualified commit has        *)
(* reached its revision (emailPollRequest, emailCommitSync and             *)
(* emailPollFinish agree, through retries and takeovers).                  *)
THEOREM RefreshesShown == Spec => []RefreshShown
<1>1. MailboxInv => RefreshShown BY DEF MailboxInv
<1> QED BY <1>1, MailboxInvariant, PTL
=============================================================================
