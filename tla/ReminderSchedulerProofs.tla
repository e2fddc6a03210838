------------------------ MODULE ReminderSchedulerProofs ------------------------
(***************************************************************************)
(* No occurrence of a workbench schedule is replayed, its record is that   *)
(* of OccurrenceLedger, and none that was due offline is submitted, for    *)
(* every value of the constants of ReminderScheduler.                      *)
(*                                                                         *)
(* The work of the process is the queue followed by what the scan under    *)
(* way has claimed.  The first argument keeps track of the occurrence each *)
(* piece of it stands for, the second of the availability horizon.         *)
(***************************************************************************)
EXTENDS ReminderScheduler, SequenceTheorems, TLAPS

Work == jobs \o scan.claimed

(* A piece of work for a workbench schedule stands for an occurrence that  *)
(* is recorded as submitted, and waits exactly until it is handed over.    *)
Owned(j) ==
  /\ j.row.due \in Times
  /\ j.stage \in {"queued", "sent", "retryable", "blocked"}
  /\ occ[j.s][j.row.due] = "submitted"
  /\ j.stage = "queued" <=> <<j.s, j.row.due>> \notin published

(* No two pieces stand for the same occurrence.                            *)
Distinct(w) ==
  \A i, k \in 1..Len(w) :
    w[i].s \in Workbench /\ w[i].s = w[k].s /\ w[i].row.due = w[k].row.due => i = k

WorkInv ==
  /\ \A s \in Workbench : rec[s].due \in Times
  /\ \A i \in 1..Len(Work) : Work[i].s \in Workbench => Owned(Work[i])
  /\ Distinct(Work)

ReplayInv == TypeOK /\ WorkInv /\ NoReplay

(* The horizon is not before the time since which the process is online,   *)
(* and covers the whole scan while it is not.                              *)
OnlineInv ==
  /\ poll.eligible <= now
  /\ online # Never => online <= poll.eligible
  /\ ~poll.polled => jobs = <<>> /\ scan.stage = "idle"
  /\ scan.stage = "idle" => scan.listed = {}
  /\ scan.stage = "idle" /\ online = Never => ~poll.polled \/ poll.unavailable
  /\ scan.stage = "advance" =>
       /\ poll.unavailable /\ poll.last = scan.at
       /\ online = Never => poll.eligible >= scan.at

-----------------------------------------------------------------------------
(* Types.                                                                  *)

LEMMA Constants ==
  /\ Batch \in Nat \ {0} /\ Places \in Nat \ {0} /\ MaxGap \in Nat \ {0}
  /\ MaxTime \in Nat \ {0} /\ MaxAttempts \in Nat \ {0} /\ MaxFaults \in Nat
  /\ \A s \in Workbench : s \notin Service /\ s \in Schedules
  /\ \A s \in Service : s \in Schedules
  BY SchedulerAssumption DEF Schedules

LEMMA JobType ==
  ASSUME NEW s \in Schedules, NEW row \in Row PROVE Job(s, row) \in Jobs
  BY DEF Job, Jobs

LEMMA StageType ==
  ASSUME NEW j \in Jobs, NEW st \in {"queued", "sent", "retryable", "blocked", "again", "retry"}
  PROVE  /\ [j EXCEPT !.stage = st] \in Jobs
         /\ [j EXCEPT !.stage = st].s = j.s
         /\ [j EXCEPT !.stage = st].row = j.row
         /\ [j EXCEPT !.stage = st].stage = st
  BY DEF Jobs

(* A piece of work leaves the queue, and those behind it move up.          *)
LEMMA WithoutType ==
  ASSUME jobs \in Seq(Jobs), NEW i \in 1..Len(jobs)
  PROVE  /\ Without(i) \in Seq(Jobs)
         /\ Len(Without(i)) = Len(jobs) - 1
         /\ \A k \in 1..(Len(jobs) - 1) : Without(i)[k] = IF k < i THEN jobs[k] ELSE jobs[k + 1]
<1> DEFINE front == SubSeq(jobs, 1, i - 1)
           back == SubSeq(jobs, i + 1, Len(jobs))
<1>1. Len(jobs) \in Nat /\ \A k \in 1..Len(jobs) : jobs[k] \in Jobs
  BY LenProperties, ElementOfSeq
<1>2. /\ front \in Seq(Jobs) /\ Len(front) = i - 1
      /\ \A k \in 1..(i - 1) : front[k] = jobs[k]
  <2>1. \A k \in 1..(i - 1) : jobs[k] \in Jobs BY <1>1
  <2>2. /\ front \in Seq(Jobs) /\ Len(front) = IF 1 <= i - 1 THEN (i - 1) - 1 + 1 ELSE 0
        /\ \A k \in 1..((i - 1) - 1 + 1) : front[k] = jobs[1 + k - 1]
    BY <1>1, <2>1, SubSeqProperties
  <2>3. Len(front) = i - 1 BY <1>1, <2>2
  <2>4. ASSUME NEW k \in 1..(i - 1) PROVE front[k] = jobs[k]
    <3>1. k \in 1..((i - 1) - 1 + 1) /\ 1 + k - 1 = k BY <1>1
    <3> QED BY <2>2, <3>1
  <2> QED BY <2>2, <2>3, <2>4
<1>3. /\ back \in Seq(Jobs) /\ Len(back) = Len(jobs) - i
      /\ \A k \in 1..(Len(jobs) - i) : back[k] = jobs[i + k]
  <2>1. \A k \in (i + 1)..Len(jobs) : jobs[k] \in Jobs BY <1>1
  <2>2. /\ back \in Seq(Jobs)
        /\ Len(back) = IF i + 1 <= Len(jobs) THEN Len(jobs) - (i + 1) + 1 ELSE 0
        /\ \A k \in 1..(Len(jobs) - (i + 1) + 1) : back[k] = jobs[(i + 1) + k - 1]
    BY <1>1, <2>1, SubSeqProperties
  <2>3. Len(back) = Len(jobs) - i BY <1>1, <2>2
  <2>4. ASSUME NEW k \in 1..(Len(jobs) - i) PROVE back[k] = jobs[i + k]
    <3>1. k \in 1..(Len(jobs) - (i + 1) + 1) /\ (i + 1) + k - 1 = i + k BY <1>1
    <3> QED BY <2>2, <3>1
  <2> QED BY <2>2, <2>3, <2>4
<1> HIDE DEF front, back
<1>4. /\ front \o back \in Seq(Jobs) /\ Len(front \o back) = Len(front) + Len(back)
      /\ \A k \in 1..(Len(front) + Len(back)) :
           (front \o back)[k] = IF k <= Len(front) THEN front[k] ELSE back[k - Len(front)]
  BY <1>2, <1>3, ConcatProperties
<1>5. Len(front) + Len(back) = Len(jobs) - 1 BY <1>1, <1>2, <1>3
<1>6. ASSUME NEW k \in 1..(Len(jobs) - 1)
      PROVE  (front \o back)[k] = IF k < i THEN jobs[k] ELSE jobs[k + 1]
  <2>1. CASE k < i
    <3>1. k \in 1..(i - 1) BY <1>1, <2>1
    <3> QED BY <1>2, <1>4, <1>5, <2>1, <3>1
  <2>2. CASE ~(k < i)
    <3>1. k - (i - 1) \in 1..(Len(jobs) - i) /\ i + (k - (i - 1)) = k + 1 /\ ~(k <= i - 1)
      BY <1>1, <2>2
    <3> QED BY <1>2, <1>3, <1>4, <1>5, <2>2, <3>1, ZenonT(40)
  <2> QED BY <2>1, <2>2
<1> QED BY <1>4, <1>5, <1>6 DEF Without, front, back

(* A piece of work changes in its place.                                   *)
LEMMA ToType ==
  ASSUME jobs \in Seq(Jobs), NEW i \in 1..Len(jobs),
         NEW st \in {"queued", "sent", "retryable", "blocked", "again", "retry"}, To(i, st)
  PROVE  /\ jobs' \in Seq(Jobs) /\ Len(jobs') = Len(jobs)
         /\ \A k \in 1..Len(jobs) :
              jobs'[k] = IF k = i THEN [jobs[i] EXCEPT !.stage = st] ELSE jobs[k]
<1>1. jobs[i] \in Jobs BY ElementOfSeq
<1>2. [jobs[i] EXCEPT !.stage = st] \in Jobs BY <1>1, StageType
<1>3. jobs' = [jobs EXCEPT ![i] = [jobs[i] EXCEPT !.stage = st]] BY DEF To
<1> QED BY <1>2, <1>3, ExceptSeq

LEMMA ObserveType ==
  ASSUME TypeOK, NEW u \in BOOLEAN, Observe(u)
  PROVE  /\ poll' \in [polled : BOOLEAN, last : 0..MaxTime, eligible : 0..MaxTime,
                       unavailable : BOOLEAN]
         /\ online' \in Times
<1>1. now \in 0..MaxTime /\ poll.eligible \in 0..MaxTime /\ online \in Times BY DEF TypeOK
<1>2. Never \in Times /\ now \in Times BY <1>1, Constants DEF Never, Times
<1>3. online' \in {online, Never, now}
  <2>1. now - poll.last <= MaxGap \/ now - poll.last > MaxGap
    BY <1>1, Constants DEF TypeOK
  <2> QED BY <2>1 DEF Observe
<1>4. poll' = [polled |-> TRUE, last |-> now,
               eligible |-> IF Offline THEN now ELSE poll.eligible, unavailable |-> u]
  BY DEF Observe
<1> QED BY <1>1, <1>2, <1>3, <1>4

LEMMA IdleType ==
  /\ Idle \in [stage : {"idle", "advance"}, at : 0..MaxTime, left : 0..Batch,
               listed : SUBSET Workbench, claimed : Seq(Jobs)]
  /\ Idle.claimed = <<>> /\ Idle.stage = "idle" /\ Idle.listed = {}
<1>1. <<>> \in Seq(Jobs) BY EmptySeq
<1> QED BY <1>1, Constants DEF Idle

(* What a scan that goes on may become.                                    *)
(* A scan that is done with a schedule, or was overtaken by a change of it. *)
Narrowed ==
  /\ scan' \in [stage : {"idle", "advance"}, at : 0..MaxTime, left : 0..Batch,
                listed : SUBSET Workbench, claimed : Seq(Jobs)]
  /\ scan'.claimed = scan.claimed /\ scan'.stage = scan.stage /\ scan'.at = scan.at
  /\ scan'.listed \subseteq scan.listed

LEMMA DroppedScan ==
  ASSUME TypeOK, NEW s, NEW used \in {0, 1}, used = 0 \/ scan.left > 0, Dropped(s, used)
  PROVE  Narrowed
<1> DEFINE listed == scan.listed \ {s}
           left == scan.left - used
<1>1. scan' = [scan EXCEPT !.listed = listed, !.left = left] BY DEF Dropped
<1>2. listed \in SUBSET Workbench /\ listed \subseteq scan.listed BY DEF TypeOK
<1>3. left \in 0..Batch BY Constants DEF TypeOK
<1> HIDE DEF listed, left
<1> QED BY <1>1, <1>2, <1>3 DEF Narrowed, TypeOK

LEMMA OvertakenScan ==
  ASSUME TypeOK, NEW s, Overtaken(s) PROVE Narrowed
<1>1. CASE Dropped(s, 0) BY <1>1, DroppedScan
<1>2. CASE ToAdvance(s) /\ Dropped(s, 1) BY <1>2, DroppedScan DEF ToAdvance
<1> QED BY <1>1, <1>2 DEF Overtaken

LEMMA VerdictType ==
  ASSUME NEW s PROVE Verdict(s) \in {"missed", "submitted"}
  BY DEF Verdict

(* One occurrence is recorded, and it was not before.                      *)
LEMMA RecordedType ==
  ASSUME TypeOK, \A s \in Workbench : rec[s].due \in Times, NEW w \in Workbench,
         rec[w].due <= scan.at, Recorded(w)
  PROVE  /\ rec' \in [Schedules -> Row]
         /\ occ' \in [Workbench -> [Times -> {"none", "missed", "submitted", "sent", "unknown"}]]
         /\ \A s \in Workbench : rec'[s].due \in Times
         /\ occ'[w][rec[w].due] = Verdict(w)
         /\ \A s \in Workbench, d \in Times :
              <<s, d>> # <<w, rec[w].due>> => occ'[s][d] = occ[s][d]
<1>1. w \in Schedules /\ rec[w] \in Row /\ rec[w].due \in Times /\ scan.at \in 0..MaxTime
  BY Constants DEF TypeOK
<1> DEFINE due == IF w \in Recurring THEN NextOccurrence(rec[w].due, rec[w].due) ELSE rec[w].due
           status == IF w \in Recurring THEN "pending" ELSE Verdict(w)
           row == [rec[w] EXCEPT !.due = due, !.status = status, !.attempt = 0]
<1>2. due \in Times BY <1>1, Constants DEF NextOccurrence, Times
<1>3. status \in {"pending", "missed", "submitted"} BY VerdictType
<1>4. rec' = [rec EXCEPT ![w] = row] BY DEF Recorded, Advanced
<1> HIDE DEF due, status
<1>5. row \in Row /\ row.due = due
  <2>1. due \in Nat BY <1>2 DEF Times
  <2> QED BY <1>1, <1>3, <2>1 DEF Row
<1>6. rec' \in [Schedules -> Row] /\ \A s \in Workbench : rec'[s].due \in Times
  <2> HIDE DEF row
  <2> QED BY <1>1, <1>2, <1>4, <1>5, Constants DEF TypeOK
<1>7. occ' = [occ EXCEPT ![w] = [occ[w] EXCEPT ![rec[w].due] = Verdict(w)]] BY DEF Recorded
<1>8. occ[w] \in [Times -> {"none", "missed", "submitted", "sent", "unknown"}] BY DEF TypeOK
<1>9. [occ[w] EXCEPT ![rec[w].due] = Verdict(w)]
        \in [Times -> {"none", "missed", "submitted", "sent", "unknown"}]
  BY <1>8, VerdictType
<1>10. /\ occ' \in [Workbench -> [Times -> {"none", "missed", "submitted", "sent", "unknown"}]]
       /\ occ'[w] = [occ[w] EXCEPT ![rec[w].due] = Verdict(w)]
       /\ \A s \in Workbench \ {w} : occ'[s] = occ[s]
  BY <1>7, <1>9 DEF TypeOK
<1>11. ASSUME NEW s \in Workbench, NEW d \in Times, <<s, d>> # <<w, rec[w].due>>
       PROVE  occ'[s][d] = occ[s][d]
  <2>1. CASE s = w BY <1>8, <1>10, <1>11, <2>1
  <2>2. CASE s # w BY <1>10, <2>2
  <2> QED BY <2>1, <2>2
<1> QED BY <1>1, <1>6, <1>8, <1>10, <1>11

LEMMA SameInterval ==
  ASSUME NEW m \in Nat, NEW n \in Nat, 1..m = 1..n PROVE m = n
<1>1. ASSUME NEW a \in Nat, NEW b \in Nat, a < b PROVE 1..a # 1..b
  <2>1. b \in 1..b /\ b \notin 1..a BY <1>1
  <2> QED BY <2>1
<1> QED BY <1>1

(* The service schedules of a batch and the work made of them.             *)
LEMMA BatchType ==
  ASSUME TypeOK, NEW q \in BatchOf({s \in Service : Claimable(s)})
  PROVE  /\ Claims(q) \in [Schedules -> Row]
         /\ \A s \in Schedules : Claims(q)[s].due = rec[s].due
         /\ Rows(q) \in Seq(Jobs)
         /\ \A i \in 1..Len(Rows(q)) : Rows(q)[i].s \in Service
<1>1. PICK n \in 0..Batch : q \in [1..n -> Service] BY DEF BatchOf
<1>2. n \in Nat /\ q \in Seq(Service) BY <1>1, Constants, SeqDef
<1>3. DOMAIN q = 1..Len(q) /\ Len(q) \in Nat /\ \A i \in 1..Len(q) : q[i] \in Service
  BY <1>2, LenProperties, ElementOfSeq
<1>4. ASSUME NEW s \in Schedules
      PROVE  Claims(q)[s] \in Row /\ Claims(q)[s].due = rec[s].due
  <2>1. rec[s] \in Row BY DEF TypeOK
  <2>2. /\ [rec[s] EXCEPT !.status = "sending", !.stale = FALSE] \in Row
        /\ [rec[s] EXCEPT !.status = "sending", !.stale = FALSE].due = rec[s].due
    BY <2>1 DEF Row
  <2>3. \/ Claims(q)[s] = [rec[s] EXCEPT !.status = "sending", !.stale = FALSE]
        \/ Claims(q)[s] = rec[s]
    BY DEF Claims
  <2> QED BY <2>1, <2>2, <2>3
<1>5. Claims(q) \in [Schedules -> Row] BY <1>4 DEF Claims
<1>6. ASSUME NEW i \in 1..Len(q) PROVE Rows(q)[i] \in Jobs /\ Rows(q)[i].s = q[i]
  <2>1. q[i] \in Schedules /\ Claims(q)[q[i]] \in Row BY <1>3, <1>4, Constants
  <2>2. Rows(q)[i] = Job(q[i], Claims(q)[q[i]]) BY DEF Rows
  <2>3. Job(q[i], Claims(q)[q[i]]).s = q[i] BY DEF Job
  <2> QED BY <2>1, <2>2, <2>3, JobType
<1>7. Rows(q) \in [1..Len(q) -> Jobs] BY <1>6 DEF Rows
<1>8. Rows(q) \in Seq(Jobs) BY <1>3, <1>7, SeqDef
<1>9. Len(Rows(q)) = Len(q)
  <2>1. DOMAIN Rows(q) = 1..Len(Rows(q)) /\ Len(Rows(q)) \in Nat BY <1>8, LenProperties
  <2>2. DOMAIN Rows(q) = 1..Len(q) BY DEF Rows
  <2> QED BY <1>3, <2>1, <2>2, SameInterval
<1> QED BY <1>3, <1>4, <1>5, <1>6, <1>8, <1>9

LEMMA TypeInit == Init => TypeOK
<1> SUFFICES ASSUME Init PROVE TypeOK OBVIOUS
<1>1. Blank \in Row BY DEF Blank, Row
<1>2. <<>> \in Seq(Jobs) BY EmptySeq
<1>3. Never \in Times /\ 0 \in 0..MaxTime BY Constants DEF Never, Times
<1> QED BY <1>1, <1>2, <1>3, IdleType DEF Init, TypeOK, NoPoll

(* The poller.                                                             *)
LEMMA PollType ==
  ASSUME TypeOK, PollBusy \/ PollStart PROVE TypeOK'
<1>1. CASE PollBusy
  <2>1. poll.unavailable \in BOOLEAN BY DEF TypeOK
  <2> QED BY <1>1, <2>1, ObserveType DEF PollBusy, TypeOK
<1>2. CASE PollStart
  <2>1. <<>> \in Seq(Jobs) BY EmptySeq
  <2>2. scan' \in [stage : {"idle", "advance"}, at : 0..MaxTime, left : 0..Batch,
                   listed : SUBSET Workbench, claimed : Seq(Jobs)]
    BY <1>2, <2>1, Constants DEF PollStart, TypeOK
  <2> QED BY <1>2, <2>2, ObserveType DEF PollStart, TypeOK
<1> QED BY <1>1, <1>2

LEMMA AdvanceType ==
  ASSUME TypeOK, \A s \in Workbench : rec[s].due \in Times, NEW w \in Workbench,
         AdvanceWorkbenchSchedule(w)
  PROVE  TypeOK'
<1>1. rec[w].due <= scan.at BY DEF AdvanceWorkbenchSchedule, ToAdvance
<1>2. Never \in Times BY Constants DEF Never, Times
<1>3. CASE AdvanceFails(w)
  <2>1. /\ rec' \in [Schedules -> Row]
        /\ occ' \in [Workbench -> [Times -> {"none", "missed", "submitted", "sent", "unknown"}]]
    BY <1>1, <1>3, RecordedType DEF AdvanceFails, TypeOK
  <2>2. faults' \in Nat BY <1>3 DEF AdvanceFails, Fault, TypeOK
  <2> QED BY <1>2, <1>3, <2>1, <2>2, IdleType DEF AdvanceFails, AdvanceWorkbenchSchedule, TypeOK
<1>4. CASE /\ Recorded(w)
           /\ scan' = [scan EXCEPT
                !.left = @ - 1,
                !.listed = IF w \in Recurring THEN @ ELSE @ \ {w},
                !.claimed = IF Verdict(w) = "submitted" THEN Append(@, Job(w, rec[w])) ELSE @]
           /\ UNCHANGED <<jobs, online, faults>>
  <2> DEFINE c == IF Verdict(w) = "submitted" THEN Append(scan.claimed, Job(w, rec[w]))
                                              ELSE scan.claimed
             l == IF w \in Recurring THEN scan.listed ELSE scan.listed \ {w}
  <2>1. scan.claimed \in Seq(Jobs) /\ Job(w, rec[w]) \in Jobs
    BY JobType, Constants DEF TypeOK
  <2>2. c \in Seq(Jobs) BY <2>1, AppendProperties
  <2>3. l \in SUBSET Workbench BY DEF TypeOK
  <2>4. scan' = [scan EXCEPT !.left = @ - 1, !.listed = l, !.claimed = c] BY <1>4
  <2>5. scan.left - 1 \in 0..Batch BY Constants DEF AdvanceWorkbenchSchedule, ToAdvance, TypeOK
  <2> HIDE DEF c, l
  <2>6. scan' \in [stage : {"idle", "advance"}, at : 0..MaxTime, left : 0..Batch,
                   listed : SUBSET Workbench, claimed : Seq(Jobs)]
    BY <2>2, <2>3, <2>4, <2>5 DEF TypeOK
  <2>7. /\ rec' \in [Schedules -> Row]
        /\ occ' \in [Workbench -> [Times -> {"none", "missed", "submitted", "sent", "unknown"}]]
    BY <1>1, <1>4, RecordedType
  <2> QED BY <1>4, <2>6, <2>7 DEF AdvanceWorkbenchSchedule, TypeOK
<1>5. CASE Dropped(w, 1) /\ UNCHANGED <<rec, occ, jobs, online, faults>>
  <2>1. Narrowed BY <1>5, DroppedScan DEF AdvanceWorkbenchSchedule, ToAdvance
  <2> QED BY <1>5, <2>1 DEF Narrowed, AdvanceWorkbenchSchedule, TypeOK
<1> QED BY <1>3, <1>4, <1>5 DEF AdvanceWorkbenchSchedule

(* What ClaimDue appends to the queue.                                     *)
LEMMA ClaimedWork ==
  ASSUME TypeOK, ClaimDue
  PROVE  \E r \in Seq(Jobs) :
           /\ \A i \in 1..Len(r) : r[i].s \in Service
           /\ jobs' = Work \o r
           /\ Work \in Seq(Jobs)
<1>1. Work \in Seq(Jobs) BY ConcatProperties DEF TypeOK, Work
<1>2. <<>> \in Seq(Jobs) /\ Len(<<>>) = 0 BY EmptySeq
<1>3. Work \o <<>> = Work BY <1>1, ConcatEmptySeq
<1>4. PICK q \in BatchOf({s \in Service : Claimable(s)}) :
        \/ jobs' = jobs \o scan.claimed \o Rows(q)
        \/ jobs' = jobs \o scan.claimed
  BY DEF ClaimDue
<1>5. Rows(q) \in Seq(Jobs) /\ \A i \in 1..Len(Rows(q)) : Rows(q)[i].s \in Service BY BatchType
<1>6. CASE jobs' = jobs \o scan.claimed \o Rows(q)
  <2>1. jobs' = Work \o Rows(q) BY <1>6 DEF Work
  <2> QED BY <1>1, <1>5, <2>1
<1>7. CASE jobs' = jobs \o scan.claimed
  <2>1. jobs' = Work \o <<>> BY <1>3, <1>7 DEF Work
  <2>2. \A i \in 1..Len(<<>>) : <<>>[i].s \in Service BY <1>2
  <2> QED BY <1>1, <1>2, <2>1, <2>2
<1> QED BY <1>4, <1>6, <1>7

LEMMA ClaimType ==
  ASSUME TypeOK, ClaimDue
  PROVE  TypeOK' /\ \A s \in Schedules : rec'[s].due = rec[s].due
<1>1. jobs' \in Seq(Jobs) BY ClaimedWork, ConcatProperties
<1>2. PICK q \in BatchOf({s \in Service : Claimable(s)}) : rec' = Claims(q) \/ rec' = rec
  BY DEF ClaimDue
<1>3. rec' \in [Schedules -> Row] /\ \A s \in Schedules : rec'[s].due = rec[s].due
  <2>1. CASE rec' = Claims(q) BY <2>1, BatchType
  <2>2. CASE rec' = rec BY <2>2 DEF TypeOK
  <2> QED BY <1>2, <2>1, <2>2
<1>4. online' \in Times /\ faults' \in Nat
  <2>1. Never \in Times /\ scan.at \in Times BY Constants DEF TypeOK, Never, Times
  <2>2. online' \in {Never, scan.at, online} BY DEF ClaimDue
  <2>3. faults' \in Nat BY DEF ClaimDue, Fault, TypeOK
  <2> QED BY <2>1, <2>2, <2>3 DEF TypeOK
<1>5. poll' = [poll EXCEPT !.unavailable = FALSE] \/ poll' = poll BY DEF ClaimDue
<1>6. poll' \in [polled : BOOLEAN, last : 0..MaxTime, eligible : 0..MaxTime, unavailable : BOOLEAN]
  BY <1>5 DEF TypeOK
<1>7. scan' = Idle /\ UNCHANGED <<now, occ, up, published, repeated, crashes>> BY DEF ClaimDue
<1> QED BY <1>1, <1>3, <1>4, <1>6, <1>7, IdleType DEF TypeOK

-----------------------------------------------------------------------------
(* Work that stays.                                                        *)

(* Records change by entry only.                                           *)
RecordsKept == \A s \in Workbench, d \in Times : occ[s][d] # "none" => occ'[s][d] = occ[s][d]

(* The work of a state: the queue and what follows it.                     *)
LEMMA WorkType ==
  ASSUME NEW p \in Seq(Jobs), NEW c \in Seq(Jobs)
  PROVE  /\ p \o c \in Seq(Jobs) /\ Len(p) \in Nat /\ Len(c) \in Nat
         /\ Len(p \o c) = Len(p) + Len(c)
         /\ \A i \in 1..Len(p) : (p \o c)[i] = p[i]
         /\ \A i \in (Len(p) + 1)..(Len(p) + Len(c)) : (p \o c)[i] = c[i - Len(p)]
<1>1. Len(p) \in Nat /\ Len(c) \in Nat BY LenProperties
<1>2. /\ p \o c \in Seq(Jobs) /\ Len(p \o c) = Len(p) + Len(c)
      /\ \A i \in 1..(Len(p) + Len(c)) :
           (p \o c)[i] = IF i <= Len(p) THEN p[i] ELSE c[i - Len(p)]
  BY ConcatProperties
<1>3. ASSUME NEW i \in 1..Len(p) PROVE (p \o c)[i] = p[i]
  <2>1. i \in 1..(Len(p) + Len(c)) /\ i <= Len(p) BY <1>1
  <2> QED BY <1>2, <2>1
<1>4. ASSUME NEW i \in (Len(p) + 1)..(Len(p) + Len(c)) PROVE (p \o c)[i] = c[i - Len(p)]
  <2>1. i \in 1..(Len(p) + Len(c)) /\ ~(i <= Len(p)) BY <1>1
  <2> QED BY <1>2, <2>1
<1> QED BY <1>1, <1>2, <1>3, <1>4

(* Every piece of work for a workbench schedule was there before, in a     *)
(* place of its own.                                                       *)
LEMMA PlacedWork ==
  ASSUME WorkInv, NEW h,
         \A s \in Workbench : rec'[s].due \in Times,
         \A i \in 1..Len(Work') : Work'[i].s \in Workbench =>
           /\ h[i] \in 1..Len(Work) /\ Work'[i] = Work[h[i]]
           /\ occ'[Work'[i].s][Work'[i].row.due] = "submitted",
         \A i, k \in 1..Len(Work') : h[i] = h[k] => i = k,
         published' = published
  PROVE  WorkInv'
<1>1. ASSUME NEW i \in 1..Len(Work'), Work'[i].s \in Workbench
      PROVE  /\ Work'[i].row.due \in Times
             /\ Work'[i].stage \in {"queued", "sent", "retryable", "blocked"}
             /\ occ'[Work'[i].s][Work'[i].row.due] = "submitted"
             /\ Work'[i].stage = "queued" <=> <<Work'[i].s, Work'[i].row.due>> \notin published'
  <2>1. h[i] \in 1..Len(Work) /\ Work'[i] = Work[h[i]] BY <1>1
  <2> QED BY <1>1, <2>1 DEF WorkInv, Owned
<1>2. Distinct(Work')
  <2> SUFFICES ASSUME NEW i \in 1..Len(Work'), NEW k \in 1..Len(Work'),
                      Work'[i].s \in Workbench, Work'[i].s = Work'[k].s,
                      Work'[i].row.due = Work'[k].row.due
               PROVE  i = k
    BY DEF Distinct
  <2>1. /\ h[i] \in 1..Len(Work) /\ Work'[i] = Work[h[i]]
        /\ h[k] \in 1..Len(Work) /\ Work'[k] = Work[h[k]]
    OBVIOUS
  <2>2. h[i] = h[k] BY <2>1 DEF WorkInv, Distinct
  <2> QED BY <2>2
<1> QED BY <1>1, <1>2 DEF WorkInv, Owned, Distinct

(* Nothing is handed over or settled, and the work is where it was.        *)
LEMMA QuietWork ==
  ASSUME ReplayInv, TypeOK',
         \A s \in Workbench : rec'[s].due \in Times,
         \A i \in 1..Len(Work') : Work'[i].s \in Workbench =>
           i \in 1..Len(Work) /\ Work'[i] = Work[i],
         RecordsKept, UNCHANGED <<published, repeated>>
  PROVE  ReplayInv'
<1> DEFINE h == [i \in 1..Len(Work') |-> i]
<1>1. \A i, k \in 1..Len(Work') : h[i] = h[k] => i = k OBVIOUS
<1>2. ASSUME NEW i \in 1..Len(Work'), Work'[i].s \in Workbench
      PROVE  /\ h[i] \in 1..Len(Work) /\ Work'[i] = Work[h[i]]
             /\ occ'[Work'[i].s][Work'[i].row.due] = "submitted"
  <2>1. i \in 1..Len(Work) /\ Work'[i] = Work[i] BY <1>2
  <2>2. Work[i].row.due \in Times /\ occ[Work[i].s][Work[i].row.due] = "submitted"
    BY <1>2, <2>1 DEF ReplayInv, WorkInv, Owned
  <2> QED BY <1>2, <2>1, <2>2 DEF RecordsKept
<1> HIDE DEF h
<1>3. WorkInv' BY <1>1, <1>2, PlacedWork DEF ReplayInv
<1>4. NoReplay'
  <2> SUFFICES ASSUME NEW o \in published
               PROVE  occ'[o[1]][o[2]] \in {"submitted", "sent", "unknown"}
    BY DEF ReplayInv, NoReplay
  <2>1. o[1] \in Workbench /\ o[2] \in Times BY DEF ReplayInv, TypeOK
  <2>2. occ[o[1]][o[2]] \in {"submitted", "sent", "unknown"} BY DEF ReplayInv, NoReplay
  <2> QED BY <2>1, <2>2 DEF RecordsKept
<1> QED BY <1>3, <1>4 DEF ReplayInv

(* The same, with a queue that stays as it is.                             *)
LEMMA QueueKept ==
  ASSUME ReplayInv, TypeOK', jobs' = jobs, scan'.claimed \in {scan.claimed, <<>>},
         \A s \in Workbench : rec'[s].due \in Times, RecordsKept,
         UNCHANGED <<published, repeated>>
  PROVE  ReplayInv'
<1>1. jobs \in Seq(Jobs) /\ scan.claimed \in Seq(Jobs) /\ Len(<<>>) = 0 /\ <<>> \in Seq(Jobs)
  BY EmptySeq DEF ReplayInv, TypeOK
<1>2. CASE scan'.claimed = scan.claimed
  <2>1. Work' = Work BY <1>2 DEF Work
  <2> QED BY <2>1, QuietWork
<1>3. CASE scan'.claimed = <<>>
  <2>1. Work' = jobs BY <1>1, <1>3, ConcatEmptySeq DEF Work
  <2>2. \A i \in 1..Len(Work') : i \in 1..Len(Work) /\ Work'[i] = Work[i]
    BY <1>1, <2>1, WorkType DEF Work
  <2> QED BY <2>2, QuietWork
<1> QED BY <1>2, <1>3

(* The queue loses one piece.  If that stood for an occurrence, its record *)
(* may become final.                                                       *)
LEMMA DoneWork ==
  ASSUME ReplayInv, TypeOK', NEW i \in 1..Len(jobs), Done(i), scan'.claimed = scan.claimed,
         \A s \in Workbench : rec'[s].due \in Times,
         \A s \in Workbench, d \in Times :
           \/ occ'[s][d] = occ[s][d]
           \/ /\ s = jobs[i].s /\ d = jobs[i].row.due
              /\ occ'[s][d] \in {"sent", "unknown"},
         UNCHANGED <<published, repeated>>
  PROVE  ReplayInv'
<1> DEFINE n == Len(jobs)
           m == Len(scan.claimed)
           h == [k \in 1..Len(Work') |-> IF k < i THEN k ELSE k + 1]
<1>1. jobs \in Seq(Jobs) /\ scan.claimed \in Seq(Jobs) BY DEF ReplayInv, TypeOK
<1>2. /\ jobs' \in Seq(Jobs) /\ Len(jobs') = n - 1
      /\ \A k \in 1..(n - 1) : jobs'[k] = IF k < i THEN jobs[k] ELSE jobs[k + 1]
  BY <1>1, WithoutType DEF Done
<1>3. /\ n \in Nat /\ m \in Nat /\ Len(Work) = n + m
      /\ \A k \in 1..n : Work[k] = jobs[k]
      /\ \A k \in (n + 1)..(n + m) : Work[k] = scan.claimed[k - n]
  BY <1>1, WorkType DEF Work
<1>4. /\ Len(Work') = (n - 1) + m
      /\ \A k \in 1..(n - 1) : Work'[k] = jobs'[k]
      /\ \A k \in ((n - 1) + 1)..((n - 1) + m) : Work'[k] = scan.claimed[k - (n - 1)]
  <2>1. Work' = jobs' \o scan.claimed BY DEF Work
  <2> DEFINE l == Len(jobs')
  <2> HIDE DEF n, m, l
  <2>2. /\ Len(Work') = l + m
        /\ \A k \in 1..l : Work'[k] = jobs'[k]
        /\ \A k \in (l + 1)..(l + m) : Work'[k] = scan.claimed[k - l]
    BY <1>1, <1>2, <2>1, WorkType DEF m, l
  <2>3. l = n - 1 BY <1>2 DEF l
  <2> QED BY <2>2, <2>3
<1>5. ASSUME NEW k \in 1..Len(Work')
      PROVE  h[k] \in 1..Len(Work) /\ h[k] # i /\ Work'[k] = Work[h[k]]
  <2>1. k \in 1..((n - 1) + m) BY <1>4
  <2>2. CASE k < i
    <3>1. /\ k \in 1..(n - 1) /\ k \in 1..n /\ k \in 1..(n + m) /\ h[k] = k
          /\ k # i
      BY <1>3, <2>1, <2>2
    <3>2. Work'[k] = jobs'[k] /\ jobs'[k] = jobs[k] /\ Work[k] = jobs[k]
      BY <1>2, <1>3, <1>4, <2>2, <3>1
    <3> HIDE DEF h, n, m
    <3> QED BY <1>3, <3>1, <3>2
  <2>3. CASE ~(k < i) /\ k <= n - 1
    <3>1. /\ k \in 1..(n - 1) /\ k + 1 \in 1..n /\ k + 1 \in 1..(n + m) /\ h[k] = k + 1
          /\ k + 1 # i
      BY <1>3, <2>1, <2>3
    <3> QED BY <1>2, <1>3, <1>4, <2>3, <3>1
  <2>4. CASE ~(k < i) /\ k > n - 1
    <3>1. /\ k \in ((n - 1) + 1)..((n - 1) + m) /\ k + 1 \in (n + 1)..(n + m) /\ h[k] = k + 1
          /\ k + 1 \in 1..(n + m) /\ k + 1 # i /\ k - (n - 1) = (k + 1) - n
      BY <1>3, <2>1, <2>4
    <3> QED BY <1>3, <1>4, <3>1
  <2>5. k < i \/ (~(k < i) /\ k <= n - 1) \/ (~(k < i) /\ k > n - 1) BY <1>3, <2>1
  <2> HIDE DEF h, n
  <2> QED BY <2>2, <2>3, <2>4, <2>5
<1>6. \A k, l \in 1..Len(Work') : h[k] = h[l] => k = l BY <1>3, <1>4
<1>7. Work[i] = jobs[i] /\ i \in 1..Len(Work) BY <1>3
<1> HIDE DEF h, n, m
<1>8. ASSUME NEW k \in 1..Len(Work'), Work'[k].s \in Workbench
      PROVE  occ'[Work'[k].s][Work'[k].row.due] = "submitted"
  <2>1. h[k] \in 1..Len(Work) /\ h[k] # i /\ Work'[k] = Work[h[k]] BY <1>5
  <2>2. Work[h[k]].row.due \in Times /\ occ[Work[h[k]].s][Work[h[k]].row.due] = "submitted"
    BY <1>8, <2>1 DEF ReplayInv, WorkInv, Owned
  <2>3. ~(Work[h[k]].s = Work[i].s /\ Work[h[k]].row.due = Work[i].row.due)
    BY <1>7, <1>8, <2>1 DEF ReplayInv, WorkInv, Distinct
  <2> QED BY <1>7, <1>8, <2>1, <2>2, <2>3
<1>9. WorkInv'
  <2>1. \A k \in 1..Len(Work') : Work'[k].s \in Workbench =>
          /\ h[k] \in 1..Len(Work) /\ Work'[k] = Work[h[k]]
          /\ occ'[Work'[k].s][Work'[k].row.due] = "submitted"
    BY <1>5, <1>8
  <2>2. WorkInv /\ published' = published BY DEF ReplayInv
  <2> QED BY <1>6, <2>1, <2>2, PlacedWork
<1>10. NoReplay'
  <2> SUFFICES ASSUME NEW o \in published
               PROVE  occ'[o[1]][o[2]] \in {"submitted", "sent", "unknown"}
    BY DEF ReplayInv, NoReplay
  <2>1. o[1] \in Workbench /\ o[2] \in Times BY DEF ReplayInv, TypeOK
  <2>2. occ[o[1]][o[2]] \in {"submitted", "sent", "unknown"} BY DEF ReplayInv, NoReplay
  <2> QED BY <2>1, <2>2
<1> QED BY <1>9, <1>10 DEF ReplayInv

-----------------------------------------------------------------------------
(* The actions.                                                            *)

LEMMA PollInv ==
  ASSUME ReplayInv, PollBusy \/ PollStart PROVE ReplayInv'
<1>1. TypeOK' BY PollType DEF ReplayInv
<1>2. jobs' = jobs /\ rec' = rec /\ occ' = occ /\ UNCHANGED <<published, repeated>>
  BY DEF PollBusy, PollStart
<1>3. scan'.claimed \in {scan.claimed, <<>>}
  <2>1. CASE PollBusy BY <2>1 DEF PollBusy
  <2>2. CASE PollStart
    <3>1. scan'.claimed = <<>> BY <2>2 DEF PollStart
    <3> QED BY <3>1
  <2> QED BY <2>1, <2>2
<1>4. (\A s \in Workbench : rec'[s].due \in Times) /\ RecordsKept
  BY <1>2 DEF ReplayInv, WorkInv, RecordsKept
<1> QED BY <1>1, <1>2, <1>3, <1>4, QueueKept

(* The scan claims the occurrence it has just recorded.                    *)
LEMMA AppendedWork ==
  ASSUME ReplayInv, TypeOK', NEW w \in Workbench, Recorded(w), Verdict(w) = "submitted",
         rec[w].due <= scan.at, occ[w][rec[w].due] = "none", jobs' = jobs,
         scan'.claimed = Append(scan.claimed, Job(w, rec[w])),
         UNCHANGED <<published, repeated>>
  PROVE  ReplayInv'
<1> DEFINE j == Job(w, rec[w])
           n == Len(Work)
<1>1. /\ TypeOK /\ NoReplay /\ WorkInv /\ j \in Jobs /\ rec[w].due \in Times
      /\ jobs \in Seq(Jobs) /\ scan.claimed \in Seq(Jobs)
  BY JobType, Constants DEF ReplayInv, TypeOK, WorkInv
<1>2. j.s = w /\ j.row = rec[w] /\ j.stage = "queued" BY DEF Job
<1>3. /\ occ'[w][rec[w].due] = "submitted"
      /\ \A s \in Workbench : rec'[s].due \in Times
      /\ \A s \in Workbench, d \in Times :
           <<s, d>> # <<w, rec[w].due>> => occ'[s][d] = occ[s][d]
  BY <1>1, RecordedType DEF WorkInv
<1> HIDE DEF j
<1>4. /\ n \in Nat /\ Len(Work') = n + 1 /\ Work'[n + 1] = j
      /\ \A i \in 1..n : Work'[i] = Work[i]
  <2> DEFINE a == Len(jobs)
             b == Len(scan.claimed)
             c == Append(scan.claimed, j)
  <2>1. /\ c \in Seq(Jobs) /\ Len(c) = b + 1 /\ c[b + 1] = j
        /\ \A i \in 1..b : c[i] = scan.claimed[i]
    BY <1>1, AppendProperties
  <2>2. /\ a \in Nat /\ b \in Nat /\ n = a + b
        /\ \A i \in 1..a : Work[i] = jobs[i]
        /\ \A i \in (a + 1)..(a + b) : Work[i] = scan.claimed[i - a]
    BY <1>1, WorkType DEF Work
  <2>3. Work' = jobs \o c BY DEF Work, j
  <2> DEFINE l == Len(c)
  <2> HIDE DEF a, b, c, n, l
  <2>4. /\ Len(Work') = a + l
        /\ \A i \in 1..a : Work'[i] = jobs[i]
        /\ \A i \in (a + 1)..(a + l) : Work'[i] = c[i - a]
    BY <1>1, <2>1, <2>3, WorkType DEF a, l
  <2>5. l = b + 1 BY <2>1 DEF l
  <2>6. Work'[n + 1] = j
    <3>1. n + 1 \in (a + 1)..(a + l) /\ (n + 1) - a = b + 1 BY <2>2, <2>5
    <3> QED BY <2>1, <2>4, <3>1
  <2>7. ASSUME NEW i \in 1..n PROVE Work'[i] = Work[i]
    <3>1. CASE i \in 1..a BY <2>2, <2>4, <3>1
    <3>2. CASE i \in (a + 1)..(a + b)
      <4>1. i \in (a + 1)..(a + l) /\ i - a \in 1..b BY <2>2, <2>5, <3>2
      <4> QED BY <2>1, <2>2, <2>4, <3>2, <4>1
    <3> QED BY <2>2, <3>1, <3>2
  <2> QED BY <2>2, <2>4, <2>5, <2>6, <2>7
<1> HIDE DEF n
<1>5. \A i \in 1..Len(Work') : i \in 1..n \/ i = n + 1 BY <1>4
<1>6. <<w, rec[w].due>> \notin published BY <1>1 DEF NoReplay
<1>7. ASSUME NEW i \in 1..n, Work[i].s \in Workbench
      PROVE  /\ Work[i].row.due \in Times
             /\ Work[i].stage \in {"queued", "sent", "retryable", "blocked"}
             /\ occ[Work[i].s][Work[i].row.due] = "submitted"
             /\ Work[i].stage = "queued" <=> <<Work[i].s, Work[i].row.due>> \notin published
             /\ ~(Work[i].s = w /\ Work[i].row.due = rec[w].due)
  BY <1>1, <1>7 DEF WorkInv, Owned, n
<1>8. ASSUME NEW i \in 1..Len(Work'), Work'[i].s \in Workbench
      PROVE  /\ Work'[i].row.due \in Times
             /\ Work'[i].stage \in {"queued", "sent", "retryable", "blocked"}
             /\ occ'[Work'[i].s][Work'[i].row.due] = "submitted"
             /\ Work'[i].stage = "queued" <=> <<Work'[i].s, Work'[i].row.due>> \notin published'
  <2>1. CASE i \in 1..n
    <3>1. Work'[i] = Work[i] BY <1>4, <2>1
    <3>2. /\ Work[i].row.due \in Times
          /\ Work[i].stage \in {"queued", "sent", "retryable", "blocked"}
          /\ occ[Work[i].s][Work[i].row.due] = "submitted"
          /\ Work[i].stage = "queued" <=> <<Work[i].s, Work[i].row.due>> \notin published
          /\ ~(Work[i].s = w /\ Work[i].row.due = rec[w].due)
      BY <1>7, <1>8, <2>1, <3>1
    <3>3. occ'[Work[i].s][Work[i].row.due] = occ[Work[i].s][Work[i].row.due]
      BY <1>3, <1>8, <3>1, <3>2
    <3> QED BY <3>1, <3>2, <3>3
  <2>2. CASE i = n + 1 BY <1>1, <1>2, <1>3, <1>4, <1>6, <2>2
  <2> QED BY <1>5, <2>1, <2>2
<1>9. Distinct(Work')
  <2> SUFFICES ASSUME NEW i \in 1..Len(Work'), NEW k \in 1..Len(Work'),
                      Work'[i].s \in Workbench, Work'[i].s = Work'[k].s,
                      Work'[i].row.due = Work'[k].row.due
               PROVE  i = k
    BY DEF Distinct
  <2>1. CASE i \in 1..n /\ k \in 1..n
    BY <1>1, <1>4, <2>1 DEF WorkInv, Distinct, n
  <2>2. CASE i \in 1..n /\ k = n + 1 BY <1>2, <1>4, <1>7, <2>2
  <2>3. CASE i = n + 1 /\ k \in 1..n BY <1>2, <1>4, <1>7, <2>3, ZenonT(40)
  <2> QED BY <1>5, <2>1, <2>2, <2>3
<1>10. WorkInv' BY <1>3, <1>8, <1>9 DEF WorkInv, Owned, Distinct
<1>11. NoReplay'
  <2> SUFFICES ASSUME NEW o \in published
               PROVE  occ'[o[1]][o[2]] \in {"submitted", "sent", "unknown"}
    BY <1>1 DEF NoReplay
  <2>1. o[1] \in Workbench /\ o[2] \in Times BY <1>1 DEF TypeOK
  <2>2. occ[o[1]][o[2]] \in {"submitted", "sent", "unknown"} BY <1>1 DEF NoReplay
  <2> QED BY <1>1, <1>3, <2>1, <2>2
<1> QED BY <1>10, <1>11 DEF ReplayInv

LEMMA AdvanceInv ==
  ASSUME ReplayInv, NEW w \in Workbench, AdvanceWorkbenchSchedule(w) PROVE ReplayInv'
<1>1. /\ TypeOK /\ \A s \in Workbench : rec[s].due \in Times
      /\ rec[w].due <= scan.at /\ UNCHANGED <<published, repeated>>
  BY DEF ReplayInv, WorkInv, AdvanceWorkbenchSchedule, ToAdvance
<1>2. TypeOK' BY <1>1, AdvanceType
<1>3. ASSUME Recorded(w)
      PROVE  RecordsKept /\ \A s \in Workbench : rec'[s].due \in Times
  BY ZenonT(40), <1>1, <1>3, RecordedType DEF RecordsKept, Recorded
<1>4. CASE AdvanceFails(w)
  <2>1. RecordsKept /\ \A s \in Workbench : rec'[s].due \in Times
    BY <1>1, <1>3, <1>4 DEF AdvanceFails, RecordsKept
  <2>2. scan'.claimed = <<>> BY <1>4, IdleType DEF AdvanceFails
  <2>3. jobs' = jobs BY <1>4 DEF AdvanceFails
  <2> QED BY <1>1, <1>2, <2>1, <2>2, <2>3, QueueKept
<1>5. CASE /\ Recorded(w)
           /\ scan' = [scan EXCEPT
                !.left = @ - 1,
                !.listed = IF w \in Recurring THEN @ ELSE @ \ {w},
                !.claimed = IF Verdict(w) = "submitted" THEN Append(@, Job(w, rec[w])) ELSE @]
           /\ UNCHANGED <<jobs, online, faults>>
  <2>1. scan'.claimed = IF Verdict(w) = "submitted" THEN Append(scan.claimed, Job(w, rec[w]))
                                                    ELSE scan.claimed
    BY <1>1, <1>5 DEF TypeOK
  <2>2. occ[w][rec[w].due] = "none" BY <1>5 DEF Recorded
  <2>3. CASE Verdict(w) = "submitted" BY <1>1, <1>2, <1>5, <2>1, <2>2, <2>3, AppendedWork
  <2>4. CASE Verdict(w) # "submitted" BY <1>1, <1>2, <1>3, <1>5, <2>1, <2>4, QueueKept
  <2> QED BY <2>3, <2>4
<1>6. CASE Dropped(w, 1) /\ UNCHANGED <<rec, occ, jobs, online, faults>>
  <2>1. Narrowed BY <1>1, <1>6, DroppedScan DEF AdvanceWorkbenchSchedule, ToAdvance
  <2>2. scan'.claimed = scan.claimed BY <2>1 DEF Narrowed
  <2>3. RecordsKept /\ \A s \in Workbench : rec'[s].due \in Times
    BY <1>1, <1>6 DEF RecordsKept
  <2> QED BY <1>1, <1>2, <1>6, <2>2, <2>3, QueueKept
<1> QED BY <1>4, <1>5, <1>6 DEF AdvanceWorkbenchSchedule

LEMMA ClaimInv ==
  ASSUME ReplayInv, ClaimDue PROVE ReplayInv'
<1>1. TypeOK BY DEF ReplayInv
<1>2. TypeOK' /\ \A s \in Schedules : rec'[s].due = rec[s].due BY <1>1, ClaimType
<1>3. \A s \in Workbench : rec'[s].due \in Times
  BY <1>2, Constants DEF ReplayInv, WorkInv
<1>4. RecordsKept /\ UNCHANGED <<published, repeated>> BY DEF ClaimDue, RecordsKept
<1>5. PICK r \in Seq(Jobs) : /\ \A i \in 1..Len(r) : r[i].s \in Service
                             /\ jobs' = Work \o r /\ Work \in Seq(Jobs)
  BY <1>1, ClaimedWork
<1>6. Work' = Work \o r
  <2>1. scan'.claimed = <<>> BY IdleType DEF ClaimDue
  <2>2. jobs' \in Seq(Jobs) BY <1>2 DEF TypeOK
  <2> QED BY <1>5, <2>1, <2>2, ConcatEmptySeq DEF Work
<1>7. ASSUME NEW i \in 1..Len(Work'), Work'[i].s \in Workbench
      PROVE  i \in 1..Len(Work) /\ Work'[i] = Work[i]
  <2> DEFINE n == Len(Work)
             m == Len(r)
  <2>1. /\ n \in Nat /\ m \in Nat /\ Len(Work') = n + m
        /\ \A k \in 1..n : Work'[k] = Work[k]
        /\ \A k \in (n + 1)..(n + m) : Work'[k] = r[k - n]
    BY <1>5, <1>6, WorkType
  <2> HIDE DEF n, m
  <2>2. CASE i \in 1..n BY <2>1, <2>2 DEF n
  <2>3. CASE i \in (n + 1)..(n + m)
    <3>1. i - n \in 1..m BY <2>1, <2>3
    <3>2. Work'[i].s \in Service BY <1>5, <2>1, <2>3, <3>1 DEF m
    <3> QED BY <1>7, <3>2, Constants
  <2> QED BY <2>1, <2>2, <2>3
<1> QED BY <1>2, <1>3, <1>4, <1>7, QuietWork

(* A piece of the queue is work.                                           *)
LEMMA QueuedWork ==
  ASSUME ReplayInv, NEW i \in 1..Len(jobs)
  PROVE  /\ jobs \in Seq(Jobs) /\ jobs[i] \in Jobs
         /\ i \in 1..Len(Work) /\ Work[i] = jobs[i]
         /\ jobs[i].s \in Workbench =>
              /\ jobs[i].row.due \in Times
              /\ jobs[i].stage \in {"queued", "sent", "retryable", "blocked"}
              /\ occ[jobs[i].s][jobs[i].row.due] = "submitted"
              /\ jobs[i].stage = "queued" <=> <<jobs[i].s, jobs[i].row.due>> \notin published
<1>1. jobs \in Seq(Jobs) /\ scan.claimed \in Seq(Jobs) BY DEF ReplayInv, TypeOK
<1>2. i \in 1..Len(Work) /\ Work[i] = jobs[i] BY <1>1, WorkType DEF Work
<1>3. jobs[i] \in Jobs BY <1>1, ElementOfSeq
<1> QED BY <1>1, <1>2, <1>3 DEF ReplayInv, WorkInv, Owned

(* A piece of the queue changes in its place, and nothing else of the work.*)
LEMMA InPlace ==
  ASSUME ReplayInv, NEW i \in 1..Len(jobs), NEW j \in Jobs,
         jobs' = [jobs EXCEPT ![i] = j], scan'.claimed = scan.claimed
  PROVE  /\ jobs' \in Seq(Jobs) /\ Len(Work') = Len(Work)
         /\ \A k \in 1..Len(Work) : Work'[k] = IF k = i THEN j ELSE Work[k]
<1> DEFINE n == Len(jobs)
           m == Len(scan.claimed)
<1>1. jobs \in Seq(Jobs) /\ scan.claimed \in Seq(Jobs) BY DEF ReplayInv, TypeOK
<1>2. /\ jobs' \in Seq(Jobs) /\ Len(jobs') = n
      /\ \A k \in 1..n : jobs'[k] = IF k = i THEN j ELSE jobs[k]
  BY <1>1, ExceptSeq
<1>3. /\ n \in Nat /\ m \in Nat /\ Len(Work) = n + m
      /\ \A k \in 1..n : Work[k] = jobs[k]
      /\ \A k \in (n + 1)..(n + m) : Work[k] = scan.claimed[k - n]
  BY <1>1, WorkType DEF Work
<1>4. Work' = jobs' \o scan.claimed BY DEF Work
<1>5. i \in 1..n OBVIOUS
<1> DEFINE l == Len(jobs')
<1> HIDE DEF n, m, l
<1>6. /\ Len(Work') = l + m
      /\ \A k \in 1..l : Work'[k] = jobs'[k]
      /\ \A k \in (l + 1)..(l + m) : Work'[k] = scan.claimed[k - l]
  BY <1>1, <1>2, <1>4, WorkType DEF l, m
<1>7. l = n BY <1>2 DEF l
<1>8. ASSUME NEW k \in 1..Len(Work) PROVE Work'[k] = IF k = i THEN j ELSE Work[k]
  <2>1. CASE k \in 1..n BY <1>2, <1>3, <1>6, <1>7, <2>1
  <2>2. CASE k \in (n + 1)..(n + m)
    <3>1. k # i BY <1>3, <1>5, <2>2
    <3> QED BY <1>3, <1>6, <1>7, <2>2, <3>1
  <2> QED BY <1>3, <2>1, <2>2
<1> QED BY <1>2, <1>3, <1>6, <1>7, <1>8

(* Work of a service schedule changes in its place.                        *)
LEMMA ServiceWork ==
  ASSUME ReplayInv, TypeOK', NEW i \in 1..Len(jobs), NEW j \in Jobs, j.s \in Service,
         jobs' = [jobs EXCEPT ![i] = j], scan'.claimed = scan.claimed,
         \A s \in Workbench : rec'[s].due \in Times, RecordsKept,
         UNCHANGED <<published, repeated>>
  PROVE  ReplayInv'
<1>1. /\ Len(Work') = Len(Work)
      /\ \A k \in 1..Len(Work) : Work'[k] = IF k = i THEN j ELSE Work[k]
  BY InPlace
<1>2. ASSUME NEW k \in 1..Len(Work'), Work'[k].s \in Workbench
      PROVE  k \in 1..Len(Work) /\ Work'[k] = Work[k]
  BY <1>1, <1>2, Constants
<1> QED BY <1>2, QuietWork

(* An occurrence is handed over for the first time.                        *)
LEMMA HandedWork ==
  ASSUME ReplayInv, TypeOK', NEW i \in 1..Len(jobs), jobs[i].s \in Workbench,
         jobs[i].stage = "queued", NEW st \in {"sent", "retryable", "blocked"}, To(i, st),
         published' = published \cup {<<jobs[i].s, jobs[i].row.due>>}, repeated' = repeated,
         UNCHANGED <<rec, occ, scan>>
  PROVE  ReplayInv'
<1> DEFINE j == [jobs[i] EXCEPT !.stage = st]
<1>1. /\ jobs[i] \in Jobs /\ i \in 1..Len(Work) /\ Work[i] = jobs[i]
      /\ jobs[i].row.due \in Times /\ occ[jobs[i].s][jobs[i].row.due] = "submitted"
  BY QueuedWork
<1>2. j \in Jobs /\ j.s = jobs[i].s /\ j.row = jobs[i].row /\ j.stage = st
  <2>1. st \in {"queued", "sent", "retryable", "blocked", "again", "retry"} OBVIOUS
  <2> QED BY <1>1, <2>1, StageType
<1>3. jobs' = [jobs EXCEPT ![i] = j] BY DEF To
<1> HIDE DEF j
<1>4. /\ Len(Work') = Len(Work)
      /\ \A k \in 1..Len(Work) : Work'[k] = IF k = i THEN j ELSE Work[k]
  BY <1>2, <1>3, InPlace
<1>5. ASSUME NEW k \in 1..Len(Work'), Work'[k].s \in Workbench
      PROVE  /\ Work'[k].row.due \in Times
             /\ Work'[k].stage \in {"queued", "sent", "retryable", "blocked"}
             /\ occ'[Work'[k].s][Work'[k].row.due] = "submitted"
             /\ Work'[k].stage = "queued" <=> <<Work'[k].s, Work'[k].row.due>> \notin published'
  <2>1. CASE k = i BY <1>1, <1>2, <1>4, <2>1
  <2>2. CASE k # i
    <3>1. k \in 1..Len(Work) /\ Work'[k] = Work[k] /\ Work[k].s \in Workbench
      BY <1>4, <1>5, <2>2
    <3>2. /\ Work[k].row.due \in Times
          /\ Work[k].stage \in {"queued", "sent", "retryable", "blocked"}
          /\ occ[Work[k].s][Work[k].row.due] = "submitted"
          /\ Work[k].stage = "queued" <=> <<Work[k].s, Work[k].row.due>> \notin published
      BY <3>1 DEF ReplayInv, WorkInv, Owned
    <3>3. ~(Work[k].s = Work[i].s /\ Work[k].row.due = Work[i].row.due)
      BY <1>1, <2>2, <3>1 DEF ReplayInv, WorkInv, Distinct
    <3>4. <<Work[k].s, Work[k].row.due>> # <<jobs[i].s, jobs[i].row.due>> BY <1>1, <3>3
    <3> QED BY <3>1, <3>2, <3>4
  <2> QED BY <2>1, <2>2
<1>6. Distinct(Work')
  <2> SUFFICES ASSUME NEW a \in 1..Len(Work'), NEW b \in 1..Len(Work'),
                      Work'[a].s \in Workbench, Work'[a].s = Work'[b].s,
                      Work'[a].row.due = Work'[b].row.due
               PROVE  a = b
    BY DEF Distinct
  <2>1. ASSUME NEW k \in 1..Len(Work')
        PROVE  k \in 1..Len(Work) /\ Work'[k].s = Work[k].s /\ Work'[k].row = Work[k].row
    BY <1>1, <1>2, <1>4
  <2> QED BY <2>1 DEF ReplayInv, WorkInv, Distinct
<1>7. WorkInv' BY <1>5, <1>6 DEF ReplayInv, WorkInv, Owned, Distinct
<1>8. NoReplay'
  <2>1. repeated' = {} BY DEF ReplayInv, NoReplay
  <2>2. ASSUME NEW o \in published'
        PROVE  occ'[o[1]][o[2]] \in {"submitted", "sent", "unknown"}
    <3>1. CASE o \in published BY <3>1 DEF ReplayInv, NoReplay
    <3>2. CASE o = <<jobs[i].s, jobs[i].row.due>> BY <1>1, <3>2
    <3> QED BY <2>2, <3>1, <3>2
  <2> QED BY <2>1, <2>2 DEF NoReplay
<1> QED BY <1>7, <1>8 DEF ReplayInv

LEMMA PublishInv ==
  ASSUME ReplayInv, NEW i \in 1..Len(jobs), Publish(i) PROVE ReplayInv'
<1>1. /\ TypeOK /\ jobs \in Seq(Jobs) /\ jobs[i] \in Jobs /\ jobs[i].s \in Schedules
  BY QueuedWork DEF ReplayInv, Jobs
<1>2. /\ jobs[i].stage = "queued"
      /\ UNCHANGED <<now, rec, occ, poll, scan, up, online, crashes>>
      /\ faults' \in Nat
  BY <1>1 DEF Publish, Fault, TypeOK
<1>3. \/ \E st \in {"sent", "retryable", "blocked"} : To(i, st)
      \/ jobs[i].s \in Service /\ Done(i)
  BY DEF Publish
<1>4. jobs' \in Seq(Jobs)
  <2>1. ASSUME NEW st \in {"sent", "retryable", "blocked"}, To(i, st) PROVE jobs' \in Seq(Jobs)
    <3>1. st \in {"queued", "sent", "retryable", "blocked", "again", "retry"} OBVIOUS
    <3> QED BY <1>1, <2>1, <3>1, ToType
  <2>2. CASE Done(i) BY <1>1, <2>2, WithoutType DEF Done
  <2> QED BY <1>3, <2>1, <2>2
<1>5. (\A s \in Workbench : rec'[s].due \in Times) /\ RecordsKept
  BY <1>2 DEF ReplayInv, WorkInv, RecordsKept
<1>6. CASE jobs[i].s \in Workbench
  <2> DEFINE o == <<jobs[i].s, jobs[i].row.due>>
  <2>1. jobs[i].row.due \in Times /\ o \notin published BY <1>2, <1>6, QueuedWork
  <2>2. published' = published \cup {o} /\ repeated' = repeated BY <1>6, <2>1 DEF Publish
  <2>3. published' \subseteq Workbench \X Times BY <1>1, <1>6, <2>1, <2>2 DEF TypeOK
  <2>4. TypeOK' BY <1>1, <1>2, <1>4, <2>3 DEF TypeOK
  <2>5. jobs[i].s \notin Service BY <1>6, Constants
  <2> QED BY <1>2, <1>3, <1>6, <2>2, <2>4, <2>5, HandedWork
<1>7. CASE jobs[i].s \notin Workbench
  <2>1. UNCHANGED <<published, repeated>> BY <1>7 DEF Publish
  <2>2. TypeOK' BY <1>1, <1>2, <1>4, <2>1 DEF TypeOK
  <2>3. jobs[i].s \in Service BY <1>1, <1>7 DEF Schedules
  <2>4. ASSUME NEW st \in {"sent", "retryable", "blocked"}, To(i, st) PROVE ReplayInv'
    <3> DEFINE j == [jobs[i] EXCEPT !.stage = st]
    <3>1. st \in {"queued", "sent", "retryable", "blocked", "again", "retry"} OBVIOUS
    <3>2. j \in Jobs /\ j.s \in Service BY <1>1, <2>3, <3>1, StageType
    <3>3. jobs' = [jobs EXCEPT ![i] = j] BY <2>4 DEF To
    <3> HIDE DEF j
    <3> QED BY <1>2, <1>5, <2>1, <2>2, <3>2, <3>3, ServiceWork
  <2>5. CASE Done(i)
    <3>1. \A s \in Workbench, d \in Times : occ'[s][d] = occ[s][d] BY <1>2
    <3> QED BY <1>2, <1>5, <2>1, <2>2, <2>5, <3>1, DoneWork
  <2> QED BY <1>3, <2>4, <2>5
<1> QED BY <1>6, <1>7

LEMMA DeliveredType ==
  ASSUME TypeOK, NEW i \in 1..Len(jobs), jobs[i] \in Jobs
  PROVE  Delivered(i) \in Row /\ Delivered(i).due = rec[jobs[i].s].due
<1> DEFINE s == jobs[i].s
           st == CASE s \in Service -> IF jobs[i].stage = "sent" THEN "sent" ELSE "failed"
                   [] s \in Workbench /\ jobs[i].stage = "sent" /\ rec[s].status = "submitted" -> "sent"
                   [] OTHER -> rec[s].status
           a == Attempt(i)
<1>1. s \in Schedules /\ rec[s] \in Row BY DEF TypeOK, Jobs
<1>2. a \in Nat BY Constants DEF Attempt, Jobs, Row
<1>3. st \in {"sent", "failed", rec[s].status}
  BY Constants
<1>4. Delivered(i) = [rec[s] EXCEPT !.attempt = a, !.stale = FALSE, !.status = st]
  BY <1>1 DEF Delivered, Row
<1> HIDE DEF st, a, s
<1>5. [rec[s] EXCEPT !.attempt = a, !.stale = FALSE, !.status = st] \in Row
  BY <1>1, <1>2, <1>3 DEF Row
<1>6. [rec[s] EXCEPT !.attempt = a, !.stale = FALSE, !.status = st].due = rec[s].due
  BY <1>1 DEF Row
<1> QED BY <1>4, <1>5, <1>6 DEF s

(* The outcome of an occurrence is recorded and its work is done; what     *)
(* other work stands for is not touched.                                   *)
LEMMA SaveInv ==
  ASSUME ReplayInv, NEW i \in 1..Len(jobs), SaveReminderDelivery(i) PROVE ReplayInv'
<1>1. /\ TypeOK /\ jobs \in Seq(Jobs) /\ jobs[i] \in Jobs /\ jobs[i].s \in Schedules
  BY QueuedWork DEF ReplayInv, Jobs
<1>2. UNCHANGED <<now, poll, up, online, published, repeated, crashes>> /\ faults' \in Nat
  BY <1>1 DEF SaveReminderDelivery, history, Fault, TypeOK
<1>3. CASE Done(i) /\ UNCHANGED <<rec, occ, scan>>
  <2>1. jobs' \in Seq(Jobs) BY <1>1, <1>3, WithoutType DEF Done
  <2>2. TypeOK' BY <1>1, <1>2, <1>3, <2>1 DEF TypeOK
  <2>3. \A s \in Workbench : rec'[s].due \in Times BY <1>3 DEF ReplayInv, WorkInv
  <2>4. \A s \in Workbench, d \in Times : occ'[s][d] = occ[s][d] BY <1>3
  <2> QED BY <1>2, <1>3, <2>2, <2>3, <2>4, DoneWork
<1>4. CASE /\ rec' = [rec EXCEPT ![jobs[i].s] = Delivered(i)]
           /\ Overtaken(jobs[i].s)
           /\ IF jobs[i].s \in Workbench
              THEN occ' = [occ EXCEPT ![jobs[i].s][jobs[i].row.due] = Settled(i)]
              ELSE UNCHANGED occ
           /\ IF jobs[i].s \in Service /\ (Again(i) \/ Retry(i))
              THEN To(i, IF Again(i) THEN "again" ELSE "retry")
              ELSE Done(i)
  <2>1. rec' \in [Schedules -> Row] /\ \A s \in Schedules : rec'[s].due = rec[s].due
    BY <1>1, <1>4, DeliveredType DEF TypeOK
  <2>2. \A s \in Workbench : rec'[s].due \in Times
    BY <2>1, Constants DEF ReplayInv, WorkInv
  <2>3. /\ scan' \in [stage : {"idle", "advance"}, at : 0..MaxTime, left : 0..Batch,
                      listed : SUBSET Workbench, claimed : Seq(Jobs)]
        /\ scan'.claimed = scan.claimed
    BY <1>1, <1>4, OvertakenScan DEF Narrowed
  <2>4. CASE jobs[i].s \in Workbench
    <3>1. jobs[i].s \notin Service BY <2>4, Constants
    <3>2. Done(i) BY <1>4, <3>1
    <3>3. jobs' \in Seq(Jobs) BY <1>1, <3>2, WithoutType DEF Done
    <3> DEFINE s == jobs[i].s
               d == jobs[i].row.due
               row == [occ[s] EXCEPT ![d] = Settled(i)]
    <3>4. occ[s] \in [Times -> {"none", "missed", "submitted", "sent", "unknown"}]
      BY <1>1, <2>4 DEF TypeOK
    <3>5. Settled(i) \in {"sent", "unknown"} BY DEF Settled
    <3>6. /\ row \in [Times -> {"none", "missed", "submitted", "sent", "unknown"}]
          /\ \A e \in Times : row[e] = IF e = d THEN Settled(i) ELSE occ[s][e]
      BY <3>4, <3>5
    <3>7. occ' = [occ EXCEPT ![s] = row] BY <1>4, <2>4
    <3> HIDE DEF row
    <3>8. /\ occ' \in [Workbench -> [Times -> {"none", "missed", "submitted", "sent", "unknown"}]]
          /\ \A w \in Workbench : occ'[w] = IF w = s THEN row ELSE occ[w]
      BY <1>1, <2>4, <3>6, <3>7 DEF TypeOK
    <3>9. TypeOK' BY <1>1, <1>2, <2>1, <2>3, <3>3, <3>8 DEF TypeOK
    <3>10. ASSUME NEW w \in Workbench, NEW e \in Times
           PROVE  \/ occ'[w][e] = occ[w][e]
                  \/ w = s /\ e = d /\ occ'[w][e] \in {"sent", "unknown"}
      <4>1. CASE w = s
        <5>1. occ'[w] = row BY <3>8, <4>1
        <5> QED BY <3>5, <3>6, <4>1, <5>1
      <4>2. CASE w # s BY <3>8, <4>2
      <4> QED BY <4>1, <4>2
    <3> QED BY <1>2, <2>2, <2>3, <3>2, <3>9, <3>10, DoneWork
  <2>5. CASE jobs[i].s \notin Workbench
    <3>1. jobs[i].s \in Service BY <1>1, <2>5 DEF Schedules
    <3>2. occ' = occ /\ RecordsKept BY <1>4, <2>5 DEF RecordsKept
    <3>3. CASE Done(i)
      <4>1. jobs' \in Seq(Jobs) BY <1>1, <3>3, WithoutType DEF Done
      <4>2. TypeOK' BY <1>1, <1>2, <2>1, <2>3, <3>2, <4>1 DEF TypeOK
      <4>3. \A s \in Workbench, d \in Times : occ'[s][d] = occ[s][d] BY <3>2
      <4> QED BY <1>2, <2>2, <2>3, <3>3, <4>2, <4>3, DoneWork
    <3>4. ASSUME NEW st \in {"again", "retry"}, To(i, st) PROVE ReplayInv'
      <4> DEFINE j == [jobs[i] EXCEPT !.stage = st]
      <4>1. st \in {"queued", "sent", "retryable", "blocked", "again", "retry"} OBVIOUS
      <4>2. j \in Jobs /\ j.s \in Service BY <1>1, <3>1, <4>1, StageType
      <4>3. jobs' = [jobs EXCEPT ![i] = j] BY <3>4 DEF To
      <4>4. jobs' \in Seq(Jobs) BY <1>1, <3>4, <4>1, ToType
      <4>5. TypeOK' BY <1>1, <1>2, <2>1, <2>3, <3>2, <4>4 DEF TypeOK
      <4> HIDE DEF j
      <4> QED BY <1>2, <2>2, <2>3, <3>2, <4>2, <4>3, <4>5, ServiceWork
    <3> QED BY <1>4, <3>3, <3>4
  <2> QED BY <2>4, <2>5
<1> QED BY <1>3, <1>4 DEF SaveReminderDelivery

(* Only a service schedule is rearmed.                                     *)
LEMMA RearmInv ==
  ASSUME ReplayInv, NEW i \in 1..Len(jobs), RearmRead(i) \/ RearmSave(i) PROVE ReplayInv'
<1> DEFINE s == jobs[i].s
<1>1. /\ TypeOK /\ jobs \in Seq(Jobs) /\ jobs[i] \in Jobs /\ s \in Schedules
      /\ rec[s] \in Row
  BY QueuedWork DEF ReplayInv, Jobs, TypeOK
<1>2. jobs[i].stage \in {"again", "retry", "saveAgain", "saveRetry"} BY DEF RearmRead, RearmSave
<1>3. s \notin Workbench /\ s \in Service
  <2>1. s \notin Workbench BY <1>2, QueuedWork
  <2> QED BY <1>1, <2>1 DEF Schedules
<1>4. /\ UNCHANGED <<now, occ, poll, scan, up, published, repeated, online, crashes>>
      /\ faults' \in Nat
  BY <1>1 DEF RearmRead, RearmSave, history, Fault, TypeOK
<1>5. RecordsKept /\ \A w \in Workbench, d \in Times : occ'[w][d] = occ[w][d]
  BY <1>4 DEF RecordsKept
<1>6. CASE RearmRead(i)
  <2> DEFINE st == IF jobs[i].stage = "again" THEN "saveAgain" ELSE "saveRetry"
             j == [jobs[i] EXCEPT !.row = rec[s], !.stage = st]
  <2>1. j \in Jobs /\ j.s \in Service BY <1>1, <1>3 DEF Jobs
  <2>2. jobs' = [jobs EXCEPT ![i] = j] /\ rec' = rec BY <1>1, <1>6 DEF RearmRead, Jobs
  <2> HIDE DEF j
  <2>3. jobs' \in Seq(Jobs) BY <1>1, <2>1, <2>2, ExceptSeq
  <2>4. TypeOK' BY <1>1, <1>4, <2>2, <2>3 DEF TypeOK
  <2>5. \A w \in Workbench : rec'[w].due \in Times BY <2>2 DEF ReplayInv, WorkInv
  <2> QED BY <1>4, <1>5, <2>1, <2>2, <2>4, <2>5, ServiceWork
<1>7. CASE RearmSave(i)
  <2>1. Rearmed(i) \in Row
    <3> DEFINE row == jobs[i].row
               next == Bounded(NextOccurrence(row.due, now))
    <3>0. row \in Row /\ now \in Nat BY <1>1 DEF Jobs, TypeOK
    <3>1. row \in Row /\ row.due \in Nat /\ now \in Nat BY <3>0 DEF Row
    <3>2. next \in Nat /\ now + 1 \in Nat BY <3>1, Constants DEF NextOccurrence, Bounded
    <3>3. Rearmed(i) = IF jobs[i].stage = "saveAgain"
                       THEN [row EXCEPT !.status = "pending", !.attempt = 0, !.due = next]
                       ELSE [row EXCEPT !.status = "pending", !.due = now + 1]
      BY DEF Rearmed
    <3> HIDE DEF row, next
    <3>4. [row EXCEPT !.status = "pending", !.attempt = 0, !.due = next] \in Row
      BY <3>1, <3>2 DEF Row
    <3>5. [row EXCEPT !.status = "pending", !.due = now + 1] \in Row BY <3>1, <3>2 DEF Row
    <3> QED BY <3>3, <3>4, <3>5
  <2>2. Done(i) /\ (rec' = [rec EXCEPT ![s] = Rearmed(i)] \/ rec' = rec) BY <1>7 DEF RearmSave
  <2>3. rec' \in [Schedules -> Row] BY <1>1, <2>1, <2>2 DEF TypeOK
  <2>4. \A w \in Workbench : rec'[w] = rec[w] BY <1>1, <1>3, <2>2, Constants DEF TypeOK
  <2>5. \A w \in Workbench : rec'[w].due \in Times BY <2>4 DEF ReplayInv, WorkInv
  <2>6. jobs' \in Seq(Jobs) BY <1>1, <2>2, WithoutType DEF Done
  <2>7. TypeOK' BY <1>1, <1>4, <2>3, <2>6 DEF TypeOK
  <2> QED BY <1>4, <1>5, <2>2, <2>5, <2>7, DoneWork
<1> QED BY <1>6, <1>7

LEMMA OwnerInv ==
  ASSUME ReplayInv, NEW s \in Schedules, CancelPending(s) \/ UpdatePending(s) PROVE ReplayInv'
<1>1. /\ TypeOK /\ rec[s] \in Row /\ now \in 0..MaxTime
      /\ \A w \in Workbench : rec[w].due \in Times
  BY DEF ReplayInv, WorkInv, TypeOK
<1>2. UNCHANGED <<now, occ, jobs, poll, up, published, repeated, online, faults, crashes>>
  BY DEF CancelPending, UpdatePending, history
<1>3. PICK row \in Row : rec' = [rec EXCEPT ![s] = row] /\ row.due \in {rec[s].due} \cup Times
  <2>1. /\ [rec[s] EXCEPT !.status = "canceled"] \in Row
        /\ [rec[s] EXCEPT !.status = "canceled"].due = rec[s].due
    BY <1>1 DEF Row
  <2>2. CASE CancelPending(s) BY <2>1, <2>2 DEF CancelPending
  <2>3. CASE UpdatePending(s)
    <3>1. PICK due \in Times : rec' = [rec EXCEPT ![s].due = due] BY <2>3 DEF UpdatePending
    <3>2. due \in Nat BY Constants DEF Times
    <3>3. [rec[s] EXCEPT !.due = due] \in Row /\ [rec[s] EXCEPT !.due = due].due = due
      BY <1>1, <3>2 DEF Row
    <3> QED BY <3>1, <3>3
  <2> QED BY <2>2, <2>3
<1>4. rec' \in [Schedules -> Row] BY <1>1, <1>3 DEF TypeOK
<1>6. ASSUME NEW w \in Workbench PROVE rec'[w].due \in Times
  <2>1. CASE w = s BY <1>1, <1>3, <2>1 DEF TypeOK
  <2>2. CASE w # s BY <1>1, <1>3, <2>2, Constants DEF TypeOK
  <2> QED BY <2>1, <2>2
<1>9. /\ scan' \in [stage : {"idle", "advance"}, at : 0..MaxTime, left : 0..Batch,
                    listed : SUBSET Workbench, claimed : Seq(Jobs)]
      /\ scan'.claimed = scan.claimed
  BY <1>1, OvertakenScan DEF CancelPending, UpdatePending, Narrowed
<1>10. TypeOK' BY <1>1, <1>2, <1>4, <1>9 DEF TypeOK
<1>11. RecordsKept BY <1>2 DEF RecordsKept
<1> QED BY <1>2, <1>6, <1>9, <1>10, <1>11, QueueKept

(* Time passes, a lease ends, the process ends or starts.                  *)
LEMMA ClockInv ==
  ASSUME ReplayInv, Tick \/ (\E s \in Service : LeaseEnds(s)) \/ Restart PROVE ReplayInv'
<1>1. TypeOK BY DEF ReplayInv
<1>2. UNCHANGED <<occ, jobs, poll, scan, published, repeated, online, faults, crashes>>
  BY DEF Tick, LeaseEnds, Restart, process, history
<1>3. now' \in 0..MaxTime /\ up' \in BOOLEAN
  <2>1. now \in 0..MaxTime /\ up \in BOOLEAN /\ MaxTime \in Nat BY <1>1, Constants DEF TypeOK
  <2>2. CASE Tick BY <2>1, <2>2 DEF Tick, process
  <2>3. CASE \E s \in Service : LeaseEnds(s) BY <2>1, <2>3 DEF LeaseEnds, process
  <2>4. CASE Restart BY <2>1, <2>4 DEF Restart
  <2> QED BY <2>2, <2>3, <2>4
<1>4. rec' \in [Schedules -> Row] /\ \A w \in Workbench : rec'[w].due \in Times
  <2>1. CASE rec' = rec BY <1>1, <2>1 DEF TypeOK, ReplayInv, WorkInv
  <2>2. ASSUME NEW s \in Service, LeaseEnds(s)
        PROVE  rec' \in [Schedules -> Row] /\ \A w \in Workbench : rec'[w].due \in Times
    <3> DEFINE row == [rec[s] EXCEPT !.stale = TRUE]
    <3>1. s \in Schedules /\ rec[s] \in Row BY <1>1, Constants DEF TypeOK
    <3>2. row \in Row BY <3>1 DEF Row
    <3>3. rec' = [rec EXCEPT ![s] = row] BY <2>2 DEF LeaseEnds
    <3> HIDE DEF row
    <3>4. rec' \in [Schedules -> Row] BY <1>1, <3>2, <3>3 DEF TypeOK
    <3>5. \A w \in Workbench : rec'[w] = rec[w] BY <1>1, <3>3, Constants DEF TypeOK
    <3> QED BY <3>4, <3>5 DEF ReplayInv, WorkInv
  <2> QED BY <2>1, <2>2 DEF Tick, Restart
<1>5. TypeOK' BY <1>1, <1>2, <1>3, <1>4 DEF TypeOK
<1>6. scan'.claimed = scan.claimed /\ RecordsKept BY <1>2 DEF RecordsKept
<1> QED BY <1>2, <1>4, <1>5, <1>6, QueueKept

(* A crash forgets the work.                                               *)
LEMMA DownInv ==
  ASSUME ReplayInv, Down PROVE ReplayInv'
<1>1. TypeOK BY DEF ReplayInv
<1>2. <<>> \in Seq(Jobs) /\ Len(<<>>) = 0 BY EmptySeq
<1>3. /\ UNCHANGED <<now, rec, occ, published, repeated, faults>>
      /\ up' = FALSE /\ jobs' = <<>> /\ scan' = Idle /\ poll' = NoPoll /\ online' = Never
      /\ crashes' \in Nat
  BY <1>1 DEF Down, TypeOK
<1>4. Never \in Times /\ 0 \in 0..MaxTime BY Constants DEF Never, Times
<1>5. TypeOK' BY <1>1, <1>2, <1>3, <1>4, IdleType DEF TypeOK, NoPoll
<1>6. Work' = <<>> BY <1>2, <1>3, IdleType, ConcatEmptySeq DEF Work
<1>7. Len(Work') = 0 BY <1>2, <1>6
<1>8. ASSUME NEW i \in 1..Len(Work') PROVE i \in 1..Len(Work) /\ Work'[i] = Work[i] BY <1>7
<1>9. (\A s \in Workbench : rec'[s].due \in Times) /\ RecordsKept
  BY <1>3 DEF ReplayInv, WorkInv, RecordsKept
<1> QED BY <1>3, <1>5, <1>8, <1>9, QuietWork

LEMMA ReplayInit == Init => ReplayInv
<1> SUFFICES ASSUME Init PROVE ReplayInv OBVIOUS
<1>1. TypeOK BY TypeInit
<1>2. <<>> \in Seq(Jobs) /\ Len(<<>>) = 0 BY EmptySeq
<1>3. Work = <<>> BY <1>2, IdleType, ConcatEmptySeq DEF Init, Work
<1>4. Len(Work) = 0 BY <1>2, <1>3
<1>5. ASSUME NEW s \in Workbench PROVE rec[s].due \in Times
  <2>1. rec[s] = Blank BY <1>5, Constants DEF Init
  <2>2. Blank.due = 1 /\ 1 \in Times BY Constants DEF Blank, Times
  <2> QED BY <2>1, <2>2
<1>6. WorkInv BY <1>4, <1>5 DEF WorkInv, Distinct
<1>7. NoReplay BY DEF Init, NoReplay
<1> QED BY <1>1, <1>6, <1>7 DEF ReplayInv

LEMMA ReplayNext == ReplayInv /\ [Next]_vars => ReplayInv'
<1> SUFFICES ASSUME ReplayInv, [Next]_vars PROVE ReplayInv' OBVIOUS
<1>1. CASE Poller BY <1>1, PollInv, AdvanceInv, ClaimInv DEF Poller
<1>2. ASSUME NEW i \in 1..Len(jobs), Worker(i) PROVE ReplayInv'
  BY <1>2, PublishInv, SaveInv, RearmInv DEF Worker
<1>3. ASSUME NEW s \in Schedules, Owner(s) PROVE ReplayInv' BY <1>3, OwnerInv DEF Owner
<1>4. CASE (\E s \in Service : LeaseEnds(s)) \/ Tick \/ Restart BY <1>4, ClockInv
<1>5. CASE Down BY <1>5, DownInv
<1>6. CASE UNCHANGED vars
  <2>1. UNCHANGED <<now, rec, occ, jobs, poll, scan, up, published, repeated, online, faults,
                    crashes>>
    BY <1>6 DEF vars, process, history
  <2>2. TypeOK' BY <2>1 DEF ReplayInv, TypeOK
  <2>3. (\A s \in Workbench : rec'[s].due \in Times) /\ RecordsKept
    BY <2>1 DEF ReplayInv, WorkInv, RecordsKept
  <2> QED BY <2>1, <2>2, <2>3, QueueKept
<1> QED BY <1>1, <1>2, <1>3, <1>4, <1>5, <1>6 DEF Next

(* Of the schedules, their occurrences and the work under way: types, the  *)
(* occurrence each piece of work stands for and NoReplay are inductive.    *)
THEOREM ReplayInvariant == Spec => []ReplayInv
  BY ReplayInit, ReplayNext, PTL DEF Spec

(* claimWorkbenchDue, the workers and SaveReminderDelivery hand over no    *)
(* occurrence twice and none that is not recorded as submitted, for any    *)
(* schedules, batch, queue, workers, faults and crashes.                   *)
THEOREM NeverReplayed == Spec => []NoReplay
<1>1. ReplayInv => NoReplay BY DEF ReplayInv
<1> QED BY <1>1, ReplayInvariant, PTL

-----------------------------------------------------------------------------
(* The ledger of occurrences.                                              *)

Records == [o \in Workbench \X Times |-> occ[o[1]][o[2]]]

Handed ==
  [o \in Workbench \X Times |-> IF o \in repeated THEN 2 ELSE IF o \in published THEN 1 ELSE 0]

(* The record of one occurrence changes.                                   *)
LEMMA RecordChanged ==
  ASSUME NEW w \in Workbench, NEW d \in Times, NEW v,
         occ'[w][d] = v,
         \A s \in Workbench, e \in Times : <<s, e>> # <<w, d>> => occ'[s][e] = occ[s][e]
  PROVE  Records' = [Records EXCEPT ![<<w, d>>] = v]
<1> DEFINE new == [Records EXCEPT ![<<w, d>>] = v]
<1>1. new = [o \in Workbench \X Times |-> IF o = <<w, d>> THEN v ELSE Records[o]] BY DEF Records
<1>2. ASSUME NEW o \in Workbench \X Times PROVE Records'[o] = new[o]
  <2>1. o = <<o[1], o[2]>> /\ o[1] \in Workbench /\ o[2] \in Times OBVIOUS
  <2>2. Records'[o] = occ'[o[1]][o[2]] /\ Records[o] = occ[o[1]][o[2]] BY DEF Records
  <2>3. CASE o = <<w, d>> BY <1>1, <2>2, <2>3
  <2>4. CASE o # <<w, d>>
    <3>1. occ'[o[1]][o[2]] = occ[o[1]][o[2]] BY <2>1, <2>4
    <3> QED BY <1>1, <2>2, <2>4, <3>1
  <2> QED BY <2>3, <2>4
<1> HIDE DEF new
<1>3. Records' = [o \in Workbench \X Times |-> Records'[o]] BY DEF Records
<1>4. new = [o \in Workbench \X Times |-> new[o]] BY <1>1
<1>5. Records' = new BY <1>2, <1>3, <1>4
<1> QED BY <1>5 DEF new

(* An occurrence is handed over for the first time.                        *)
LEMMA HandedChanged ==
  ASSUME NEW o \in Workbench \X Times, repeated = {}, repeated' = {},
         published' = published \cup {o}
  PROVE  Handed' = [Handed EXCEPT ![o] = 1]
<1> DEFINE new == [Handed EXCEPT ![o] = 1]
<1>1. new = [p \in Workbench \X Times |-> IF p = o THEN 1 ELSE Handed[p]] BY DEF Handed
<1>2. ASSUME NEW p \in Workbench \X Times PROVE Handed'[p] = new[p]
  <2>1. Handed'[p] = IF p \in published' THEN 1 ELSE 0 BY DEF Handed
  <2>2. Handed[p] = IF p \in published THEN 1 ELSE 0 BY DEF Handed
  <2> HIDE DEF new
  <2>3. new[p] = IF p = o THEN 1 ELSE Handed[p] BY <1>1
  <2> QED BY <2>1, <2>2, <2>3
<1> HIDE DEF new
<1>3. Handed' = [p \in Workbench \X Times |-> Handed'[p]] BY DEF Handed
<1>4. new = [p \in Workbench \X Times |-> new[p]] BY <1>1
<1>5. Handed' = new BY <1>2, <1>3, <1>4
<1> QED BY <1>5 DEF new

(* A move of one occurrence is a step of the ledger.                       *)
LEMMA LedgerMove ==
  ASSUME NEW o \in Workbench \X Times, Ledger!Enter(o) \/ Ledger!HandOver(o) \/ Ledger!Settle(o)
  PROVE  Ledger!LedgerNext
<1> DEFINE all == Workbench \X Times
<1>1. o \in all OBVIOUS
<1> HIDE DEF all
<1>2. \E p \in all : Ledger!Enter(p) \/ Ledger!HandOver(p) \/ Ledger!Settle(p) BY <1>1
<1> QED BY <1>2 DEF all, Ledger!LedgerNext

LEMMA LedgerStart == Init => Ledger!LedgerInit
<1> SUFFICES ASSUME Init PROVE Ledger!LedgerInit OBVIOUS
<1>1. [o \in Workbench \X Times |-> occ[o[1]][o[2]]] = [o \in Workbench \X Times |-> "none"]
  BY DEF Init
<1>2. [o \in Workbench \X Times |->
         IF o \in repeated THEN 2 ELSE IF o \in published THEN 1 ELSE 0]
        = [o \in Workbench \X Times |-> 0]
  BY DEF Init
<1> QED BY <1>1, <1>2 DEF Ledger!LedgerInit

(* An advance that was written enters its occurrence, also when its answer *)
(* is lost.                                                                *)
LEMMA AdvanceEnters ==
  ASSUME ReplayInv, NEW w \in Workbench, AdvanceWorkbenchSchedule(w)
  PROVE  Ledger!LedgerNext \/ UNCHANGED <<Records, Handed>>
<1>1. /\ TypeOK /\ \A s \in Workbench : rec[s].due \in Times
      /\ rec[w].due <= scan.at /\ Handed' = Handed
  BY DEF ReplayInv, WorkInv, AdvanceWorkbenchSchedule, ToAdvance, Handed
<1>2. CASE UNCHANGED <<rec, occ>> BY <1>1, <1>2 DEF Records
<1>3. CASE Recorded(w)
  <2>0. PICK o \in Workbench \X Times : o = <<w, rec[w].due>> BY <1>1
  <2>1. /\ occ'[w][rec[w].due] = Verdict(w)
        /\ \A s \in Workbench, d \in Times : <<s, d>> # o => occ'[s][d] = occ[s][d]
    BY <1>1, <1>3, <2>0, RecordedType
  <2>2. Records' = [Records EXCEPT ![o] = Verdict(w)] BY <1>1, <2>0, <2>1, RecordChanged
  <2>3. Records[o] = "none" BY <1>1, <1>3, <2>0 DEF Records, Recorded
  <2>4. Verdict(w) \in {"missed", "submitted"} BY VerdictType
  <2>5. Ledger!Enter(o) BY <1>1, <2>2, <2>3, <2>4 DEF Ledger!Enter, Records, Handed
  <2> QED BY <2>5, LedgerMove
<1>4. Recorded(w) \/ UNCHANGED <<rec, occ>> BY DEF AdvanceWorkbenchSchedule, AdvanceFails
<1> QED BY <1>2, <1>3, <1>4

LEMMA PublishHandsOver ==
  ASSUME ReplayInv, NEW i \in 1..Len(jobs), Publish(i)
  PROVE  Ledger!LedgerNext \/ UNCHANGED <<Records, Handed>>
<1>1. Records' = Records BY DEF Publish, Records
<1>2. CASE jobs[i].s \in Workbench
  <2>1. /\ jobs[i].row.due \in Times /\ <<jobs[i].s, jobs[i].row.due>> \notin published
        /\ occ[jobs[i].s][jobs[i].row.due] = "submitted"
    BY <1>2, QueuedWork DEF Publish
  <2>2. PICK o \in Workbench \X Times : o = <<jobs[i].s, jobs[i].row.due>> BY <1>2, <2>1
  <2>3. published' = published \cup {o} /\ repeated' = repeated /\ repeated = {}
    BY <1>2, <2>1, <2>2 DEF Publish, ReplayInv, NoReplay
  <2>4. Handed[o] = 0 /\ Records[o] = "submitted" BY <1>2, <2>1, <2>2, <2>3 DEF Records, Handed
  <2>5. Handed' = [Handed EXCEPT ![o] = 1] BY <2>3, HandedChanged
  <2>6. Ledger!HandOver(o) BY <1>1, <2>4, <2>5 DEF Ledger!HandOver, Records, Handed
  <2> QED BY <2>6, LedgerMove
<1>3. CASE jobs[i].s \notin Workbench BY <1>1, <1>3 DEF Publish, Handed
<1> QED BY <1>2, <1>3

LEMMA SaveSettles ==
  ASSUME ReplayInv, NEW i \in 1..Len(jobs), SaveReminderDelivery(i)
  PROVE  Ledger!LedgerNext \/ UNCHANGED <<Records, Handed>>
<1>1. Handed' = Handed BY DEF SaveReminderDelivery, history, Handed
<1>2. CASE occ' = occ BY <1>1, <1>2 DEF Records
<1>3. CASE /\ jobs[i].s \in Workbench
           /\ occ' = [occ EXCEPT ![jobs[i].s][jobs[i].row.due] = Settled(i)]
  <2> DEFINE w == jobs[i].s
             d == jobs[i].row.due
             v == Settled(i)
  <2>0. d \in Times /\ <<w, d>> \in published /\ occ[w][d] = "submitted"
    BY <1>3, QueuedWork DEF SaveReminderDelivery
  <2>1. PICK o \in Workbench \X Times : o = <<w, d>> /\ o \in published BY <1>3, <2>0
  <2>2. occ \in [Workbench -> [Times -> {"none", "missed", "submitted", "sent", "unknown"}]]
    BY DEF ReplayInv, TypeOK
  <2>3. v \in {"sent", "unknown"} BY DEF Settled
  <2> HIDE DEF v
  <2>4. /\ occ'[w][d] = v
        /\ \A s \in Workbench, e \in Times : <<s, e>> # o => occ'[s][e] = occ[s][e]
    <3> DEFINE row == [occ[w] EXCEPT ![d] = v]
    <3>1. /\ row[d] = v
          /\ \A e \in Times \ {d} : row[e] = occ[w][e]
      BY <1>3, <2>0, <2>2
    <3>2. occ' = [occ EXCEPT ![w] = row] BY <1>3 DEF v
    <3> HIDE DEF row
    <3>3. occ'[w] = row /\ \A s \in Workbench \ {w} : occ'[s] = occ[s] BY <1>3, <2>2, <3>2
    <3>4. ASSUME NEW s \in Workbench, NEW e \in Times, <<s, e>> # o PROVE occ'[s][e] = occ[s][e]
      <4>1. CASE s = w
        <5>1. e # d BY <2>1, <3>4, <4>1
        <5> QED BY <3>1, <3>3, <4>1, <5>1
      <4>2. CASE s # w BY <3>3, <4>2
      <4> QED BY <4>1, <4>2
    <3> QED BY <3>1, <3>3, <3>4
  <2>5. Records' = [Records EXCEPT ![o] = v] BY <1>3, <2>0, <2>1, <2>4, RecordChanged
  <2>6. Records[o] = "submitted" BY <1>3, <2>0, <2>1 DEF Records
  <2>7. Handed[o] = 1 BY <2>1 DEF Handed, ReplayInv, NoReplay
  <2>8. Ledger!Settle(o)
    BY <1>1, <2>1, <2>3, <2>5, <2>6, <2>7 DEF Ledger!Settle, Records, Handed
  <2> QED BY <2>8, LedgerMove
<1> QED BY <1>2, <1>3 DEF SaveReminderDelivery

LEMMA LedgerStep == ReplayInv /\ [Next]_vars => [Ledger!LedgerNext]_(Ledger!ledger)
<1> SUFFICES ASSUME ReplayInv, [Next]_vars
             PROVE  Ledger!LedgerNext \/ UNCHANGED <<Records, Handed>>
  BY DEF Ledger!ledger, Records, Handed
<1>1. ASSUME UNCHANGED <<occ, published, repeated>> PROVE UNCHANGED <<Records, Handed>>
  BY <1>1 DEF Records, Handed
<1>2. CASE Poller
  <2>1. ASSUME NEW s \in Workbench, AdvanceWorkbenchSchedule(s)
        PROVE  Ledger!LedgerNext \/ UNCHANGED <<Records, Handed>>
    BY <2>1, AdvanceEnters
  <2>2. CASE PollBusy \/ PollStart \/ ClaimDue BY <1>1, <2>2 DEF PollBusy, PollStart, ClaimDue
  <2> QED BY <1>2, <2>1, <2>2 DEF Poller
<1>3. ASSUME NEW i \in 1..Len(jobs), Worker(i)
      PROVE  Ledger!LedgerNext \/ UNCHANGED <<Records, Handed>>
  <2>1. CASE RearmRead(i) \/ RearmSave(i) BY <1>1, <2>1 DEF RearmRead, RearmSave, history
  <2>2. CASE Publish(i) BY <2>2, PublishHandsOver
  <2>3. CASE SaveReminderDelivery(i) BY <2>3, SaveSettles
  <2> QED BY <1>3, <2>1, <2>2, <2>3 DEF Worker
<1>4. ASSUME NEW s \in Schedules, Owner(s) PROVE UNCHANGED <<Records, Handed>>
  BY <1>1, <1>4 DEF Owner, CancelPending, UpdatePending, history
<1>5. CASE (\E s \in Service : LeaseEnds(s)) \/ Tick \/ Restart
  BY <1>1, <1>5 DEF LeaseEnds, Tick, Restart, history
<1>6. CASE Down BY <1>1, <1>6 DEF Down
<1>7. CASE UNCHANGED vars BY <1>1, <1>7 DEF vars, history
<1> QED BY <1>2, <1>3, <1>4, <1>5, <1>6, <1>7 DEF Next

(* The timer implements OccurrenceLedger: an advance enters an occurrence, *)
(* a publication hands it over, a save settles it, and no other step, lost *)
(* answer or crash moves it.                                               *)
THEOREM TimerImplementsLedger == Spec => LedgerKept
<1>1. Init => Ledger!LedgerInit BY LedgerStart
<1>2. ReplayInv /\ [Next]_vars => [Ledger!LedgerNext]_(Ledger!ledger) BY LedgerStep
<1> QED BY <1>1, <1>2, ReplayInvariant, PTL DEF Spec, LedgerKept, Ledger!LedgerSpec

-----------------------------------------------------------------------------
(* The horizon.                                                            *)

(* A pulse or the start of a scan.                                         *)
LEMMA ObserveKeeps ==
  ASSUME TypeOK, OnlineInv, scan.stage = "idle", NEW u \in BOOLEAN, Observe(u), now' = now,
         poll.unavailable => u, u \/ poll.polled
  PROVE  /\ poll'.polled /\ poll'.last = now /\ poll'.unavailable = u /\ poll'.eligible <= now
         /\ online' # Never => online' <= poll'.eligible
         /\ online' = Never => u
         /\ online' = Never => poll'.eligible >= now
<1>1. /\ now \in 0..MaxTime /\ poll.last \in 0..MaxTime /\ poll.eligible \in 0..MaxTime
      /\ poll.polled \in BOOLEAN /\ poll.unavailable \in BOOLEAN
      /\ MaxTime \in Nat /\ online \in Times
  BY Constants DEF TypeOK
<1>2. /\ poll'.polled /\ poll'.last = now /\ poll'.unavailable = u
      /\ poll'.eligible = IF Offline THEN now ELSE poll.eligible
  BY DEF Observe
<1>3. CASE now - poll.last > MaxGap
  <2>1. Offline BY <1>3 DEF Offline
  <2>2. online' = IF u THEN Never ELSE now
    <3>1. ~(now - poll.last <= MaxGap) BY <1>1, <1>3, Constants
    <3> QED BY <1>3, <3>1 DEF Observe
  <2> QED BY <1>1, <1>2, <2>1, <2>2 DEF Never
<1>4. CASE now - poll.last <= MaxGap
  <2>1. online' = online
    <3>1. ~(now - poll.last > MaxGap) BY <1>1, <1>4, Constants
    <3> QED BY <1>4, <3>1 DEF Observe
  <2>2. CASE Offline
    <3>1. poll'.eligible = now BY <1>2, <2>2
    <3>2. online # Never => online <= now BY <1>1 DEF OnlineInv, Times
    <3>3. online = Never => u BY DEF OnlineInv
    <3> QED BY <1>1, <1>2, <2>1, <3>1, <3>2, <3>3
  <2>3. CASE ~Offline
    <3>1. poll'.eligible = poll.eligible BY <1>2, <2>3
    <3>2. poll.polled /\ ~poll.unavailable BY <2>3 DEF Offline
    <3>3. online # Never BY <3>2 DEF OnlineInv
    <3> QED BY <1>2, <2>1, <3>1, <3>3 DEF OnlineInv
  <2> QED BY <2>2, <2>3
<1> QED BY <1>1, <1>3, <1>4, Constants

LEMMA PollOnline ==
  ASSUME TypeOK, OnlineInv, PollBusy \/ PollStart PROVE OnlineInv'
<1>1. CASE PollBusy
  <2>1. poll.polled
    <3>1. Len(jobs) > Places BY <1>1 DEF PollBusy
    <3>2. Len(<<>>) = 0 BY EmptySeq
    <3>3. jobs # <<>> BY <3>1, <3>2, Constants
    <3> QED BY <3>3 DEF OnlineInv
  <2>2. /\ scan.stage = "idle" /\ now' = now /\ Observe(poll.unavailable)
        /\ poll.unavailable \in BOOLEAN
    BY <1>1 DEF PollBusy, TypeOK
  <2>3. /\ poll'.polled /\ poll'.unavailable = poll.unavailable /\ poll'.eligible <= now
        /\ online' # Never => online' <= poll'.eligible
        /\ online' = Never => poll.unavailable
    BY <2>1, <2>2, ObserveKeeps
  <2>4. scan'.stage = "idle" /\ scan'.listed = {} BY <1>1 DEF PollBusy, OnlineInv
  <2>5. Never' = Never BY DEF Never
  <2> QED BY <2>2, <2>3, <2>4, <2>5 DEF OnlineInv
<1>2. CASE PollStart
  <2>1. scan.stage = "idle" /\ now' = now /\ Observe(TRUE) BY <1>2 DEF PollStart
  <2>2. /\ poll'.polled /\ poll'.last = now /\ poll'.unavailable /\ poll'.eligible <= now
        /\ online' # Never => online' <= poll'.eligible
        /\ online' = Never => poll'.eligible >= now
    BY <2>1, ObserveKeeps
  <2>3. scan'.stage = "advance" /\ scan'.at = now BY <1>2 DEF PollStart
  <2> QED BY <2>1, <2>2, <2>3 DEF OnlineInv
<1> QED BY <1>1, <1>2

(* The end of a scan, with and without a failure.                          *)
LEMMA FailureOnline ==
  ASSUME TypeOK, OnlineInv, scan.stage = "advance", scan' = Idle, online' = Never,
         UNCHANGED <<now, poll>>
  PROVE  OnlineInv'
<1>1. poll.polled BY DEF OnlineInv
<1>2. poll.unavailable BY DEF OnlineInv
<1>3. scan'.stage = "idle" /\ scan'.listed = {} BY IdleType
<1> QED BY <1>1, <1>2, <1>3 DEF OnlineInv

(* Only a scan advances.                                                   *)
LEMMA AdvanceScans ==
  ASSUME TypeOK, OnlineInv, NEW w \in Workbench, AdvanceWorkbenchSchedule(w)
  PROVE  scan.stage = "advance"
<1>1. w \in scan.listed BY DEF AdvanceWorkbenchSchedule, ToAdvance
<1>2. scan.stage # "idle" BY <1>1 DEF OnlineInv
<1> QED BY <1>2 DEF TypeOK

LEMMA AdvanceOnline ==
  ASSUME TypeOK, OnlineInv, NEW w \in Workbench, AdvanceWorkbenchSchedule(w)
  PROVE  OnlineInv'
<1>1. UNCHANGED <<now, poll>> /\ scan.stage = "advance"
  BY AdvanceScans DEF AdvanceWorkbenchSchedule
<1>2. CASE AdvanceFails(w) BY <1>1, <1>2, FailureOnline DEF AdvanceFails
<1>3. CASE /\ scan' = [scan EXCEPT
                !.left = @ - 1,
                !.listed = IF w \in Recurring THEN @ ELSE @ \ {w},
                !.claimed = IF Verdict(w) = "submitted" THEN Append(@, Job(w, rec[w])) ELSE @]
           /\ UNCHANGED <<jobs, online, faults>>
  <2>1. scan'.stage = scan.stage /\ scan'.at = scan.at BY <1>3 DEF TypeOK
  <2> QED BY <1>1, <1>3, <2>1 DEF OnlineInv
<1>4. CASE Dropped(w, 1) /\ UNCHANGED <<rec, occ, jobs, online, faults>>
  <2>1. Narrowed BY <1>4, DroppedScan DEF AdvanceWorkbenchSchedule, ToAdvance
  <2> QED BY <1>1, <1>4, <2>1 DEF OnlineInv, Narrowed
<1> QED BY <1>2, <1>3, <1>4 DEF AdvanceWorkbenchSchedule

LEMMA ClaimOnline ==
  ASSUME TypeOK, OnlineInv, ClaimDue PROVE OnlineInv'
<1>1. /\ scan.stage = "advance" /\ now' = now
      /\ scan' = Idle /\ scan'.stage = "idle" /\ scan'.listed = {}
      /\ poll.polled /\ poll.unavailable
  BY IdleType DEF ClaimDue, OnlineInv
<1>2. CASE online' = Never /\ poll' = poll BY <1>1, <1>2, FailureOnline
<1>3. CASE /\ poll' = [poll EXCEPT !.unavailable = FALSE]
           /\ online' = IF online = Never THEN scan.at ELSE online
  <2>1. poll'.polled /\ poll'.eligible = poll.eligible BY <1>1, <1>3 DEF TypeOK
  <2>2. scan.at \in 0..MaxTime /\ scan.at # Never BY Constants DEF TypeOK, Never
  <2>3. online' # Never BY <1>3, <2>2
  <2>4. online' <= poll'.eligible
    <3>1. CASE online = Never
      <4>1. poll.eligible \in 0..MaxTime /\ poll.eligible >= scan.at
        BY <1>1, <3>1 DEF OnlineInv, TypeOK
      <4> QED BY <1>3, <2>1, <2>2, <3>1, <4>1
    <3>2. CASE online # Never BY <1>3, <2>1, <3>2 DEF OnlineInv
    <3> QED BY <3>1, <3>2
  <2> QED BY <1>1, <2>1, <2>3, <2>4 DEF OnlineInv
<1> QED BY <1>2, <1>3 DEF ClaimDue

(* Nothing else touches the horizon; a crash takes it away.                *)
LEMMA OtherOnline ==
  ASSUME TypeOK, OnlineInv, UNCHANGED <<poll, online>>, now' \in {now, now + 1},
         scan'.stage = scan.stage, scan'.at = scan.at, scan'.listed \subseteq scan.listed,
         jobs = <<>> => jobs' = <<>>
  PROVE  OnlineInv'
<1>1. poll.eligible <= now' BY Constants DEF OnlineInv, TypeOK
<1> QED BY <1>1 DEF OnlineInv

LEMMA WorkerOnline ==
  ASSUME TypeOK, OnlineInv, NEW i \in 1..Len(jobs), Worker(i) PROVE OnlineInv'
<1>1. UNCHANGED <<poll, online>> /\ now' = now
  BY DEF Worker, Publish, SaveReminderDelivery, RearmRead, RearmSave, history
<1>2. scan'.stage = scan.stage /\ scan'.at = scan.at /\ scan'.listed \subseteq scan.listed
  <2>1. CASE UNCHANGED scan BY <2>1
  <2>2. CASE Overtaken(jobs[i].s) BY <2>2, OvertakenScan DEF Narrowed
  <2> QED BY <2>1, <2>2 DEF Worker, Publish, SaveReminderDelivery, RearmRead, RearmSave
<1>3. jobs # <<>> BY EmptySeq
<1> QED BY <1>1, <1>2, <1>3, OtherOnline

LEMMA OwnerOnline ==
  ASSUME TypeOK, OnlineInv, NEW s \in Schedules, Owner(s) PROVE OnlineInv'
<1>1. UNCHANGED <<poll, online, jobs>> /\ now' = now
  BY DEF Owner, CancelPending, UpdatePending, history
<1>2. Overtaken(s) BY DEF Owner, CancelPending, UpdatePending
<1>3. scan'.stage = scan.stage /\ scan'.at = scan.at /\ scan'.listed \subseteq scan.listed
  BY <1>2, OvertakenScan DEF Narrowed
<1> QED BY <1>1, <1>3, OtherOnline

LEMMA OnlineInit == Init => OnlineInv
  BY IdleType, Constants DEF Init, OnlineInv, NoPoll, Never

LEMMA OnlineNext == TypeOK /\ OnlineInv /\ [Next]_vars => OnlineInv'
<1> SUFFICES ASSUME TypeOK, OnlineInv, [Next]_vars PROVE OnlineInv' OBVIOUS
<1>1. CASE Poller BY <1>1, PollOnline, AdvanceOnline, ClaimOnline DEF Poller
<1>2. ASSUME NEW i \in 1..Len(jobs), Worker(i) PROVE OnlineInv' BY <1>2, WorkerOnline
<1>3. ASSUME NEW s \in Schedules, Owner(s) PROVE OnlineInv' BY <1>3, OwnerOnline
<1>4. CASE (\E s \in Service : LeaseEnds(s)) \/ Tick \/ Restart \/ UNCHANGED vars
  <2>1. UNCHANGED <<jobs, poll, scan, online>> /\ now' \in {now, now + 1}
    BY <1>4 DEF LeaseEnds, Tick, Restart, vars, process, history
  <2> QED BY <2>1, OtherOnline
<1>5. CASE Down
  <2>1. poll' = NoPoll /\ online' = Never /\ scan' = Idle /\ jobs' = <<>> /\ now' = now
    BY <1>5 DEF Down
  <2>2. now >= 0 BY DEF TypeOK
  <2> QED BY <2>1, <2>2, IdleType DEF OnlineInv, NoPoll
<1> QED BY <1>1, <1>2, <1>3, <1>4, <1>5 DEF Next

(* What is submitted is due after the horizon and within the scan.         *)
LEMMA SubmitsOnline ==
  ASSUME ReplayInv, OnlineInv, [Next]_vars, NEW s \in Workbench, NEW d \in Times,
         occ[s][d] = "none", occ'[s][d] = "submitted"
  PROVE  online < d
<1>1. TypeOK BY DEF ReplayInv
<1>2. PICK w \in Workbench : AdvanceWorkbenchSchedule(w) /\ Recorded(w)
  <2>1. occ' # occ BY DEF ReplayInv
  <2>2. ASSUME NEW i \in 1..Len(jobs), Worker(i) PROVE FALSE
    <3>1. SaveReminderDelivery(i) /\ jobs[i].s \in Workbench
      BY <2>1, <2>2 DEF Worker, Publish, RearmRead, RearmSave, SaveReminderDelivery
    <3>2. occ' = [occ EXCEPT ![jobs[i].s][jobs[i].row.due] = Settled(i)]
      BY <2>1, <3>1 DEF SaveReminderDelivery
    <3>3. Settled(i) \in {"sent", "unknown"} BY DEF Settled
    <3>4. occ'[s][d] \in {occ[s][d], Settled(i)} BY <1>1, <3>2 DEF TypeOK
    <3> QED BY <3>3, <3>4
  <2>3. ~PollBusy /\ ~PollStart /\ ~ClaimDue BY <2>1 DEF PollBusy, PollStart, ClaimDue
  <2>4. \A t \in Schedules : ~Owner(t) BY <2>1 DEF Owner, CancelPending, UpdatePending
  <2>5. /\ ~Tick /\ ~Down /\ ~Restart /\ vars' # vars
        /\ \A t \in Service : ~LeaseEnds(t)
    BY <2>1 DEF Tick, Down, Restart, LeaseEnds, vars
  <2>6. PICK w \in Workbench : AdvanceWorkbenchSchedule(w)
    BY <2>2, <2>3, <2>4, <2>5 DEF Next, Poller
  <2>7. Recorded(w) BY <2>1, <2>6 DEF AdvanceWorkbenchSchedule, AdvanceFails
  <2> QED BY <2>6, <2>7
<1>3. /\ rec[w].due <= scan.at /\ \A t \in Workbench : rec[t].due \in Times
  BY <1>2 DEF AdvanceWorkbenchSchedule, ToAdvance, ReplayInv, WorkInv
<1>4. /\ occ'[w][rec[w].due] = Verdict(w)
      /\ \A t \in Workbench, e \in Times : <<t, e>> # <<w, rec[w].due>> => occ'[t][e] = occ[t][e]
  BY <1>1, <1>2, <1>3, RecordedType
<1>5. <<s, d>> = <<w, rec[w].due>> BY <1>4
<1>6. s = w /\ d = rec[w].due /\ Verdict(w) = "submitted" BY <1>4, <1>5
<1>7. ~(d <= poll.eligible) BY <1>6 DEF Verdict
<1>8. /\ d \in Nat /\ poll.eligible \in Nat /\ scan.at \in Nat /\ online \in Nat
  BY <1>1, Constants DEF TypeOK, Times
<1>9. scan.stage = "advance" BY <1>1, <1>2, AdvanceScans
<1>10. online # Never
  <2>1. online = Never => poll.eligible >= scan.at BY <1>9 DEF OnlineInv
  <2> QED BY <1>3, <1>6, <1>7, <1>8, <2>1
<1> QED BY <1>7, <1>8, <1>10 DEF OnlineInv

(* observePollLocked keeps a horizon before which nothing is submitted,    *)
(* over failed scans, gaps, busy pulses and restarts.                      *)
THEOREM OfflineWorkIsMissed == Spec => SubmittedWasOnline
<1>1. Init => OnlineInv BY OnlineInit
<1>2. ReplayInv /\ OnlineInv /\ [Next]_vars => OnlineInv' BY OnlineNext DEF ReplayInv
<1>3. ReplayInv /\ OnlineInv /\ [Next]_vars =>
        \A s \in Workbench, d \in Times :
          occ[s][d] = "none" /\ occ'[s][d] = "submitted" => online < d
  BY SubmitsOnline
<1> QED BY <1>1, <1>2, <1>3, ReplayInvariant, PTL DEF Spec, SubmittedWasOnline
=============================================================================
