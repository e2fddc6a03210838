----------------------------- MODULE HandleStage -----------------------------
(***************************************************************************)
(* Files an execution asks its client for while it runs: the stage of the  *)
(* execution service (execution/handle_inputs.go) under the materializer   *)
(* that brings them into the workspace (gateway/                           *)
(* execution_conversation_files.go) and its budget (execution/budget.go).  *)
(*                                                                         *)
(* The module is one execution, already admitted.  A read goes through the *)
(* materializer, which lets one read of a file at a time through, and then *)
(* through AwaitHandle; a direct one calls AwaitHandle itself, as          *)
(* handle_inputs_test.go does, so that reads share a wait.  Each critical  *)
(* section of the service or of the materializer is an action, and a       *)
(* select whose channel is ready is joined with the section after it.      *)
(*                                                                         *)
(* Sizes are small numbers.  Content is not modelled: uploads of another   *)
(* size or digest than the manifest's are refused and change nothing.      *)
(***************************************************************************)
EXTENDS Naturals, FiniteSets

CONSTANTS
  Files,     \* declared handles
  Readers,   \* calls that read
  Direct,    \* those without a materializer
  Size,      \* the manifest's size of each file
  Room,      \* TaskBytes without the context and the inputs of the request
  Limit,     \* what the execution's budget has left
  NoReader,
  MaxReads,  \* bound: reads that start
  MaxFaults  \* bound: file operations that fail

ASSUME StageAssumption ==
  /\ IsFiniteSet(Files)
  /\ IsFiniteSet(Readers)
  /\ Direct \subseteq Readers
  /\ Size \in [Files -> Nat]
  /\ {Room, Limit, MaxReads, MaxFaults} \subseteq Nat
  /\ NoReader \notin Readers

VARIABLES
  open,      \* s.handles has the stage: the execution has not ended
  late,      \* the deadline of the fence has passed
  pending,   \* stage.pending
  waiters,   \* handleWait.waiters
  uploaded,  \* stage.uploaded
  reserved,  \* stage.reserved
  reader,    \* where each call is
  inflight,  \* the read that materializes a file
  ready,     \* m.ready
  charged,   \* m.reserved
  used,      \* budget.used
  disk,      \* the file in the workspace
  spent,     \* history: bytes of the execution's other content
  reads, faults

stage == <<open, late, pending, waiters, uploaded, reserved>>
copies == <<inflight, ready, charged, used, disk, spent>>
vars == <<stage, reader, copies, reads, faults>>

-----------------------------------------------------------------------------

(* A call: its step, its file, whether the file was complete when it came  *)
(* through, whether its context ended and its timer fired.                 *)
Call(step, f) == [at |-> step, file |-> f, known |-> FALSE, ended |-> FALSE, fired |-> FALSE]
NoCall == Call("idle", "none")

At(r, step) == reader[r].at = step
File(r) == reader[r].file
Moved(r, step) == reader' = [reader EXCEPT ![r].at = step]

Stopped(r) == reader' = [reader EXCEPT ![r] = NoCall]

(* AwaitHandle fails: only a materializer has something to give up.        *)
Returned(r) == IF r \in Direct THEN Stopped(r) ELSE Moved(r, "leaving")

(* What files weigh together: their bytes, each counted in its own file.   *)
BytesIn(f) == {f} \X (1..Size[f])
Bytes(files) == Cardinality(UNION {BytesIn(f) : f \in files})

(* The states in which the service serves the stage.                       *)
Serving == open /\ ~late

Init ==
  /\ open = TRUE
  /\ late = FALSE
  /\ pending = {}
  /\ waiters = [f \in Files |-> 0]
  /\ uploaded = {}
  /\ reserved = 0
  /\ reader = [r \in Readers |-> NoCall]
  /\ inflight = [f \in Files |-> NoReader]
  /\ ready = {}
  /\ charged = {}
  /\ used = 0
  /\ disk = [f \in Files |-> "absent"]
  /\ spent = 0
  /\ reads = 0
  /\ faults = 0

-----------------------------------------------------------------------------
(* The stage.                                                              *)

(* AwaitHandle up to its select: refused, served from what was uploaded    *)
(* before, or waiting, the first for a file with its bytes reserved.       *)
Refused(r) ==
  reader[r].ended \/ ~Serving \/
    (File(r) \notin uploaded \cup pending /\ reserved + Size[File(r)] > Room)

Wait(r) ==
  /\ pending' = pending \cup {File(r)}
  /\ waiters' = [waiters EXCEPT ![File(r)] = @ + 1]
  /\ reserved' = IF File(r) \in pending THEN reserved ELSE reserved + Size[File(r)]
  /\ Moved(r, "waiting")
  /\ UNCHANGED <<open, late, uploaded>>

AwaitHandle(r) ==
  /\ At(r, "owner") /\ ~reader[r].known
  /\ \/ Refused(r) /\ Returned(r) /\ UNCHANGED stage
     \/ ~Refused(r) /\ File(r) \in uploaded /\ Moved(r, "holding") /\ UNCHANGED stage
     \/ ~Refused(r) /\ File(r) \notin uploaded /\ Wait(r)
  /\ UNCHANGED <<copies, reads, faults>>

(* The last waiter of a file forgets the wait.  kept: the bytes stay.      *)
Departs(r, kept) ==
  LET last == waiters[File(r)] = 1 IN
  /\ waiters' = [waiters EXCEPT ![File(r)] = @ - 1]
  /\ pending' = IF last THEN pending \ {File(r)} ELSE pending
  /\ reserved' = IF last /\ ~kept THEN reserved - Size[File(r)] ELSE reserved
  /\ UNCHANGED <<open, late, uploaded>>

(* Faulty: a read that gives up returns the bytes of a file that arrived.  *)
ResumeReleasing(r) ==
  \/ ~open /\ Returned(r) /\ UNCHANGED stage
  \/ open /\ (late \/ reader[r].ended) /\ Returned(r) /\ Departs(r, FALSE)
  \/ Serving /\ ~reader[r].ended /\ Departs(r, File(r) \in uploaded)
       /\ IF File(r) \in uploaded THEN Moved(r, "holding") ELSE Returned(r)

(* AwaitHandle after its select.  What has arrived meanwhile is kept, also *)
(* by a read that can no longer take it, and taken also after the timer.   *)
Resume(r) ==
  \/ ~open /\ Returned(r) /\ UNCHANGED stage
  \/ /\ open
     /\ Departs(r, File(r) \in uploaded)
     /\ IF Serving /\ ~reader[r].ended /\ File(r) \in uploaded
        THEN Moved(r, "holding") ELSE Returned(r)

Wake(r) ==
  /\ At(r, "waiting")
  /\ File(r) \in uploaded \/ ~open \/ reader[r].ended \/ reader[r].fired
  /\ Resume(r)
  /\ UNCHANGED <<copies, reads, faults>>

(* A direct read takes the bytes with it.                                  *)
TakeBytes(r) ==
  /\ r \in Direct
  /\ At(r, "holding")
  /\ Stopped(r)
  /\ UNCHANGED <<stage, copies, reads, faults>>

(* uploadHandleLocked.  A repeated upload is accepted and changes nothing; *)
(* one that nobody waits for is refused.                                   *)
Upload(f) ==
  /\ Serving
  /\ f \in pending \ uploaded
  /\ uploaded' = uploaded \cup {f}
  /\ UNCHANGED <<open, late, pending, waiters, reserved, reader, copies, reads, faults>>

(* dropHandleStageLocked, by finish, Cancel, RevokeWorkbenchClient, Close  *)
(* and, after the deadline, Sweep.                                         *)
DropHandleStage ==
  /\ open
  /\ open' = FALSE
  /\ UNCHANGED <<late, pending, waiters, uploaded, reserved, reader, copies, reads, faults>>

DeadlinePasses ==
  /\ ~late
  /\ late' = TRUE
  /\ UNCHANGED <<open, pending, waiters, uploaded, reserved, reader, copies, reads, faults>>

-----------------------------------------------------------------------------
(* The materializer.                                                       *)

Start(r, f) ==
  /\ At(r, "idle")
  /\ reads < MaxReads
  /\ reads' = reads + 1
  /\ reader' = [reader EXCEPT ![r] = Call(IF r \in Direct THEN "owner" ELSE "entering", f)]
  /\ UNCHANGED <<stage, copies, faults>>

(* Faulty: a read does not look for one under way.                         *)
EnterAnyway(r) ==
  /\ At(r, "entering")
  /\ inflight' = [inflight EXCEPT ![File(r)] = r]
  /\ reader' = [reader EXCEPT ![r].at = "owner", ![r].known = File(r) \in ready]
  /\ UNCHANGED <<stage, ready, charged, used, disk, spent, reads, faults>>

(* One round of the loop in read: it gives up, waits for the read that is  *)
(* under way, or becomes it, knowing whether the file was complete.        *)
Enter(r) ==
  /\ At(r, "entering")
  /\ \/ reader[r].ended /\ Stopped(r) /\ UNCHANGED inflight
     \/ /\ ~reader[r].ended /\ inflight[File(r)] # NoReader
        /\ Moved(r, "queued") /\ UNCHANGED inflight
     \/ /\ ~reader[r].ended /\ inflight[File(r)] = NoReader
        /\ inflight' = [inflight EXCEPT ![File(r)] = r]
        /\ reader' = [reader EXCEPT ![r].at = "owner", ![r].known = File(r) \in ready]
  /\ UNCHANGED <<stage, ready, charged, used, disk, spent, reads, faults>>

GiveUp(r) ==
  /\ At(r, "queued")
  /\ reader[r].ended
  /\ Stopped(r)
  /\ UNCHANGED <<stage, copies, reads, faults>>

(* A file that was complete is read back and verified, or the read fails.  *)
ReadBack(r) ==
  /\ At(r, "owner") /\ reader[r].known
  /\ Moved(r, "leaving")
  /\ UNCHANGED <<stage, copies, reads, faults>>

(* Budget.Reserve, once for each file of the execution.                    *)
Charge(r) ==
  \/ File(r) \in charged /\ Moved(r, "charged") /\ UNCHANGED <<charged, used>>
  \/ /\ File(r) \notin charged /\ used + Size[File(r)] > Limit
     /\ Moved(r, "leaving") /\ UNCHANGED <<charged, used>>
  \/ /\ File(r) \notin charged /\ used + Size[File(r)] <= Limit
     /\ charged' = charged \cup {File(r)}
     /\ used' = used + Size[File(r)]
     /\ Moved(r, "charged")

Account(r) ==
  /\ r \notin Direct
  /\ At(r, "holding")
  /\ Charge(r)
  /\ UNCHANGED <<stage, inflight, ready, disk, spent, reads, faults>>

(* The directories and the file, which must not exist.                     *)
Create(r) ==
  /\ At(r, "charged")
  /\ \/ /\ reader[r].ended \/ disk[File(r)] # "absent"
        /\ Moved(r, "leaving") /\ UNCHANGED <<disk, faults>>
     \/ /\ ~reader[r].ended /\ faults < MaxFaults /\ faults' = faults + 1
        /\ Moved(r, "leaving") /\ UNCHANGED disk
     \/ /\ ~reader[r].ended /\ disk[File(r)] = "absent"
        /\ disk' = [disk EXCEPT ![File(r)] = "partial"]
        /\ Moved(r, "writing") /\ UNCHANGED faults
  /\ UNCHANGED <<stage, inflight, ready, charged, used, spent, reads>>

(* Only a file that was written and closed becomes ready.  A failed one is *)
(* removed, as far as that succeeds.                                       *)
Write(r) ==
  /\ At(r, "writing")
  /\ \/ /\ disk' = [disk EXCEPT ![File(r)] = "whole"]
        /\ ready' = ready \cup {File(r)} /\ UNCHANGED faults
     \/ /\ faults < MaxFaults /\ faults' = faults + 1
        /\ \E left \in {"absent", "partial"} : disk' = [disk EXCEPT ![File(r)] = left]
        /\ UNCHANGED ready
  /\ Moved(r, "leaving")
  /\ UNCHANGED <<stage, inflight, charged, used, spent, reads>>

(* However the read ended, the channel is closed and those behind it look  *)
(* again.                                                                  *)
Release(r) ==
  /\ inflight' = [inflight EXCEPT ![File(r)] = NoReader]
  /\ reader' = [q \in Readers |->
       IF q = r THEN NoCall
       ELSE IF At(q, "queued") /\ File(q) = File(r) THEN [reader[q] EXCEPT !.at = "entering"]
       ELSE reader[q]]

(* Faulty: only a read that succeeded lets the next one in.                *)
LeaveOnSuccess(r) ==
  /\ At(r, "leaving")
  /\ \/ File(r) \in ready /\ Release(r)
     \/ File(r) \notin ready /\ Stopped(r) /\ UNCHANGED inflight
  /\ UNCHANGED <<stage, ready, charged, used, disk, spent, reads, faults>>

Leave(r) ==
  /\ At(r, "leaving")
  /\ Release(r)
  /\ UNCHANGED <<stage, ready, charged, used, disk, spent, reads, faults>>

-----------------------------------------------------------------------------
(* Contexts, timers and other content of the execution.                    *)

(* A tool is cut off, or the execution's context ends.  A caller may have  *)
(* failed to derive its context from it, so neither implies the other.     *)
ContextEnds(r) ==
  /\ ~At(r, "idle")
  /\ ~reader[r].ended
  /\ reader' = [reader EXCEPT ![r].ended = TRUE]
  /\ UNCHANGED <<stage, copies, reads, faults>>

(* At most 60 s, the deadline of the fence and that of the context.        *)
TimerFires(r) ==
  /\ At(r, "waiting")
  /\ ~reader[r].fired
  /\ reader' = [reader EXCEPT ![r].fired = TRUE]
  /\ UNCHANGED <<stage, copies, reads, faults>>

(* Stores, artifacts and outputs draw on the same budget, and an output    *)
(* that was removed gives its bytes back.                                  *)
Spend ==
  /\ \/ used + 1 <= Limit /\ used' = used + 1 /\ spent' = spent + 1
     \/ spent > 0 /\ used' = used - 1 /\ spent' = spent - 1
  /\ UNCHANGED <<stage, reader, inflight, ready, charged, disk, reads, faults>>

Move(r) ==
  \/ Enter(r) \/ GiveUp(r) \/ ReadBack(r) \/ AwaitHandle(r) \/ Wake(r) \/ TakeBytes(r)
  \/ Account(r) \/ Create(r) \/ Write(r) \/ Leave(r)

Next ==
  \/ \E r \in Readers : Move(r) \/ ContextEnds(r) \/ TimerFires(r)
  \/ \E r \in Readers, f \in Files : Start(r, f)
  \/ \E f \in Files : Upload(f)
  \/ DropHandleStage \/ DeadlinePasses \/ Spend

Spec == Init /\ [][Next]_vars

(* Goroutines run and timers fire.  Nothing is assumed of the client, who  *)
(* may never upload, or of contexts.                                       *)
Fairness == \A r \in Readers : WF_vars(Move(r)) /\ WF_vars(TimerFires(r))
FairSpec == Spec /\ Fairness

-----------------------------------------------------------------------------
(* Properties.                                                             *)

Waiting(f) == {r \in Readers : At(r, "waiting") /\ File(r) = f}

(* While the execution lives, its stage reserves the bytes of each file    *)
(* that is awaited or was received, once and within the limit, however     *)
(* many reads share a wait and whichever of upload, timer, deadline and    *)
(* cancellation comes first; a file is awaited exactly while reads wait.   *)
StageExact ==
  open =>
    /\ reserved = Bytes(pending \cup uploaded) /\ reserved <= Room
    /\ \A f \in Files :
         waiters[f] = Cardinality(Waiting(f)) /\ (f \in pending <=> waiters[f] > 0)

(* The budget holds each file once, however often its write is repeated.   *)
BudgetExact == used = spent + Bytes(charged) /\ used <= Limit

(* No byte of the stage or of the budget is lost or counted twice.         *)
ReservationsExact == StageExact /\ BudgetExact

(* Reads of the materializer that came through and have not left.          *)
Materializing(r) ==
  /\ r \notin Direct
  /\ reader[r].at \in {"owner", "waiting", "holding", "charged", "writing", "leaving"}

(* At most one read of a file is under way in the materializer, and it is  *)
(* the one inflight names, so that a queued read always has someone to let *)
(* it in; a file is ready only when it is whole, whatever failed before,   *)
(* and nothing of it lies in the workspace that the budget does not hold.  *)
FilesSound ==
  /\ \A r \in Readers, f \in Files : inflight[f] = r <=> Materializing(r) /\ File(r) = f
  /\ \A r \in Readers : At(r, "queued") => inflight[File(r)] # NoReader
  /\ \A f \in Files : (f \in ready => disk[f] = "whole") /\ (disk[f] # "absent" => f \in charged)

(* Every read ends, although the client sends nothing, the read before it  *)
(* failed and its own context lives on.                                    *)
ReadsEnd == \A r \in Readers : ~At(r, "idle") ~> At(r, "idle")
=============================================================================
