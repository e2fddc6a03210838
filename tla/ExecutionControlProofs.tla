----------------------- MODULE ExecutionControlProofs -----------------------
(***************************************************************************)
(* Proofs about ExecutionControl, for every value of its constants, in     *)
(* three parts.                                                            *)
(*                                                                         *)
(* 1. Types, and what the operators on fences do.                          *)
(* 2. Durability: executions, decisions and ledgers survive failed saves,  *)
(*    crashes and restarts; the service implements RequestLifecycle.       *)
(* 3. Capacity: what the service counts and what it refuses.               *)
(***************************************************************************)
EXTENDS ExecutionRefinement, FiniteSetTheorems, TLAPS

-----------------------------------------------------------------------------
(* Types of the operators on fences and ledgers.                           *)

LEMMA RowType ==
  ASSUME NEW s \in {"absent", "pending", "decided", "decision_unknown", "invalidated"},
         NEW d \in Decisions \cup {"none"}, NEW n \in Nat
  PROVE  Row(s, d, n) \in Record
  BY DEF Row, Record

LEMMA MovedType ==
  ASSUME NEW f \in Fence, NEW s \in States PROVE Moved(f, s) \in Fence
<1>1. f.revision + 1 \in Nat BY DEF Fence
<1> QED BY <1>1 DEF Moved, Fence

LEMMA UpdateType ==
  ASSUME NEW f \in Fence
  PROVE  /\ \A r \in Reasons : [f EXCEPT !.reason = r] \in Fence
         /\ \A s \in States : [f EXCEPT !.state = s] \in Fence
         /\ \A b \in BOOLEAN : [f EXCEPT !.issued = b] \in Fence
         /\ \A b \in BOOLEAN : [f EXCEPT !.receipt = b] \in Fence
         /\ \A n \in Nat, a \in Approvals, r \in Record :
              [f EXCEPT !.revision = n, !.approvals[a] = r] \in Fence
  BY DEF Fence

LEMMA InvalidateType ==
  ASSUME NEW f \in Fence PROVE InvalidateApprovals(f) \in Fence
<1> DEFINE Void(a) == [f.approvals[a] EXCEPT !.state = "invalidated", !.revision = f.revision]
           rows == [a \in Approvals |-> IF a \in Pending(f) THEN Void(a) ELSE f.approvals[a]]
<1>1. f.revision \in Nat /\ \A a \in Approvals : f.approvals[a] \in Record
  BY DEF Fence
<1>2. \A a \in Approvals : Void(a) \in Record
  BY <1>1 DEF Record
<1>3. rows \in [Approvals -> Record]
  BY <1>1, <1>2
<1>4. [f EXCEPT !.approvals = rows] \in Fence
  BY <1>3 DEF Fence
<1> QED BY <1>4 DEF InvalidateApprovals

LEMMA EndedType ==
  ASSUME NEW f \in Fence, NEW s \in States PROVE Ended(f, s) \in Fence
  BY MovedType, InvalidateType DEF Ended

LEMMA InterruptType ==
  ASSUME NEW f \in Fence PROVE InterruptApprovalExecution(f) \in Fence
<1> DEFINE s == IF Pending(f) # {} /\ Approved(f) = {} THEN "failed" ELSE "unknown"
           r == IF Pending(f) # {} THEN "awaiting_approval"
                ELSE IF Asked(f) # {} THEN "after_approval" ELSE f.reason
<1>1. s \in States BY DEF States
<1>2. r \in Reasons BY DEF Reasons, Fence
<1>3. [Moved(f, s) EXCEPT !.reason = r] \in Fence
  BY <1>1, <1>2, MovedType, UpdateType
<1> QED BY <1>3, InvalidateType DEF InterruptApprovalExecution

LEMMA DecidedType ==
  ASSUME NEW f \in Fence, NEW a \in Approvals, NEW d \in Decisions
  PROVE  Decided(f, a, d) \in Fence /\ Uncertain(f, a, d) \in Fence
<1>1. f.revision + 1 \in Nat /\ f.revision + 2 \in Nat BY DEF Fence
<1>2. /\ Row("decided", d, f.revision + 1) \in Record
      /\ Row("decision_unknown", d, f.revision + 2) \in Record
  BY <1>1, RowType
<1> QED BY <1>1, <1>2, UpdateType DEF Decided, Uncertain

LEMMA AwaitRowType ==
  ASSUME NEW f \in Fence, NEW a \in Approvals PROVE Await(f, a) \in Fence
<1>1. f.revision + 1 \in Nat BY DEF Fence
<1>2. Row("pending", "none", f.revision + 1) \in Record BY <1>1, RowType
<1> QED BY <1>1, <1>2, UpdateType DEF Await

LEMMA EmptyType == NoFence \in Fence /\ Admitted \in Fence /\ EmptyLedger \in Ledger
<1>1. NoRecord \in Record BY DEF NoRecord, Record
<1>2. NoFence \in Fence BY <1>1 DEF NoFence, Fence, Reasons
<1>3. Admitted \in Fence BY <1>2 DEF Admitted, Fence, States, Live
<1> QED BY <1>2, <1>3 DEF EmptyLedger, Ledger

LEMMA RecoveredType ==
  ASSUME NEW L \in Ledger PROVE Recovered(L) \in Ledger
  BY InterruptType DEF Recovered, Ledger

LEMMA SweptType ==
  ASSUME NEW L \in Ledger PROVE Swept(L) \in Ledger
<1> SUFFICES ASSUME NEW k \in Requests PROVE Swept(L)[k] \in Fence
  BY DEF Swept, Ledger
<1>1. L[k] \in Fence BY DEF Ledger
<1> QED BY <1>1, MovedType DEF Swept, States

LEMMA WorkerType ==
  /\ Idle \in Worker /\ Spawned \in Worker /\ Executing \in Worker
  /\ Idle.approval = NoApproval /\ Spawned.approval = NoApproval
  /\ Executing.approval = NoApproval
  /\ Idle.at = "idle" /\ Spawned.at = "spawned" /\ Executing.at = "executing"
  BY DEF Idle, Spawned, Executing, Worker, Steps

LEMMA FinishingType ==
  ASSUME NEW o \in {"ok", "error", "unknown"}, NEW k
  PROVE  /\ Finishing(o) \in Worker /\ Returning(k, o) \in Worker
         /\ Finishing(o).at = "finishing" /\ Returning(k, o).at = "finishing"
         /\ Finishing(o).approval = NoApproval /\ Returning(k, o).approval = NoApproval
  BY DEF Idle, Finishing, Returning, Worker, Steps

-----------------------------------------------------------------------------
(* Type correctness.                                                       *)

(* The saves keep the disk a set of ledgers and count failures.            *)
LEMMA SaveType ==
  ASSUME disk \subseteq Ledger, faults \in Nat, fences' \in Ledger,
         \/ Saved(fences') \/ SaveFailed({fences'}) \/ SaveIgnored(fences')
         \/ \E L \in Ledger : Saved(L) \/ SaveFailed({L}) \/ SaveTwice(L, fences')
  PROVE  disk' \subseteq Ledger /\ faults' \in Nat
<1>1. faults + 1 \in Nat OBVIOUS
<1>2. CASE Saved(fences') BY <1>2 DEF Saved
<1>3. CASE SaveFailed({fences'}) BY <1>3, <1>1 DEF SaveFailed
<1>4. CASE \E L \in Ledger : Saved(L) \/ SaveFailed({L}) \/ SaveTwice(L, fences')
  <2>1. PICK L \in Ledger : Saved(L) \/ SaveFailed({L}) \/ SaveTwice(L, fences') BY <1>4
  <2>2. CASE Saved(L) BY <2>2 DEF Saved
  <2>3. CASE SaveFailed({L}) BY <2>3, <1>1 DEF SaveFailed
  <2>4. CASE SaveTwice(L, fences')
    <3>1. {fences'} \subseteq Ledger /\ disk \cup {L, fences'} \subseteq Ledger OBVIOUS
    <3> QED BY <2>4, <3>1, <1>1 DEF SaveTwice
  <2> QED BY <2>1, <2>2, <2>3, <2>4
<1> QED BY <1>2, <1>3, <1>4 DEF SaveIgnored

LEMMA DiskType == TypeOK => disk \subseteq Ledger /\ faults \in Nat /\ fences \in Ledger
  BY DEF TypeOK

LEMMA OneFenceType ==
  ASSUME NEW L \in Ledger, NEW k \in Requests, NEW f \in Fence
  PROVE  L[k] \in Fence /\ [L EXCEPT ![k] = f] \in Ledger
  BY DEF Ledger

LEMMA NoWaitsType == NoWaits \in [Approvals -> {"none"}]
  BY DEF NoWaits

LEMMA TypeInit == Init => TypeOK
<1> SUFFICES ASSUME Init PROVE TypeOK OBVIOUS
<1>1. fences \in Ledger /\ disk \subseteq Ledger BY EmptyType DEF Init
<1>2. worker \in [Requests -> Worker] BY WorkerType DEF Init
<1>3. waits = [k \in Requests |-> NoWaits] /\ told = [k \in Requests |-> NoWaits] BY DEF Init
<1>4. toolRuns \in [Requests -> [Approvals -> Nat]] BY DEF Init
<1> QED BY <1>1, <1>2, <1>3, <1>4, NoWaitsType DEF Init, TypeOK

LEMMA OneWorkerType ==
  ASSUME TypeOK, NEW k \in Requests, NEW w \in Worker
  PROVE  worker[k] \in Worker /\ [worker EXCEPT ![k] = w] \in [Requests -> Worker]
  BY DEF TypeOK

LEMMA OneWaitType ==
  ASSUME TypeOK, NEW k \in Requests, NEW a \in Approvals,
         NEW d \in Decisions \cup {"none", "waiting"}
  PROVE  /\ [waits EXCEPT ![k] = NoWaits]
              \in [Requests -> [Approvals -> Decisions \cup {"none", "waiting"}]]
         /\ [waits EXCEPT ![k][a] = d]
              \in [Requests -> [Approvals -> Decisions \cup {"none", "waiting"}]]
  BY NoWaitsType DEF TypeOK

(* A step of a worker that changes nothing but its place.                  *)
LEMMA MoveType ==
  ASSUME TypeOK, NEW k \in Requests, NEW w \in Worker, worker' = [worker EXCEPT ![k] = w],
         active' \subseteq active,
         UNCHANGED <<phase, fences, disk, content, clock, staged, waits, ctxDone, revoked,
                     dirty, history, faults, crashes>>
  PROVE  TypeOK'
<1>1. worker' \in [Requests -> Worker] BY OneWorkerType
<1> QED BY <1>1 DEF TypeOK, history

LEMMA AwaitType ==
  ASSUME TypeOK, NEW k \in Requests, NEW a \in Approvals, AwaitApproval(k, a),
         fences[k] \in Fence
  PROVE  TypeOK'
<1>3. PICK asked \in Fence : asked = Await(fences[k], a) BY AwaitRowType
<1>4. Ended(asked, "unknown") \in Fence BY EndedType DEF States
<1>5. PICK first \in Ledger : first = [fences EXCEPT ![k] = asked]
  BY OneFenceType, DiskType
<1>6. [fences EXCEPT ![k] = Ended(asked, "unknown")] \in Ledger
  BY <1>4, OneFenceType, DiskType
<1>7. CASE /\ fences' = first /\ Saved(fences')
           /\ waits' = [waits EXCEPT ![k][a] = "waiting"]
           /\ worker' = [worker EXCEPT ![k] = [Idle EXCEPT !.at = "waiting", !.approval = a]]
           /\ UNCHANGED ctxDone
  <2>1. disk' \subseteq Ledger /\ faults' \in Nat /\ fences' \in Ledger
    BY <1>7, SaveType, DiskType
  <2>2. [Idle EXCEPT !.at = "waiting", !.approval = a] \in Worker
    BY ConstantsAssumption DEF Idle, Worker, Steps
  <2>3. worker' \in [Requests -> Worker] BY <1>7, <2>2, OneWorkerType
  <2>4. waits' \in [Requests -> [Approvals -> Decisions \cup {"none", "waiting"}]]
    BY <1>7, OneWaitType
  <2> QED BY <1>7, <2>1, <2>3, <2>4 DEF AwaitApproval, TypeOK, history
<1>8. CASE FailApprovalPersistence(k, asked) /\ worker' = [worker EXCEPT ![k] = Finishing("unknown")]
  <2>1. fences' \in Ledger BY <1>8, <1>6 DEF FailApprovalPersistence
  <2>2. disk' \subseteq Ledger /\ faults' \in Nat
    BY <1>8, <1>5, <2>1, SaveType, DiskType DEF FailApprovalPersistence
  <2>3. worker' \in [Requests -> Worker] BY <1>8, FinishingType, OneWorkerType
  <2>4. waits' \in [Requests -> [Approvals -> Decisions \cup {"none", "waiting"}]]
    BY <1>8, NoWaitsType DEF FailApprovalPersistence, TypeOK
  <2>5. ctxDone' \subseteq Requests BY <1>8 DEF FailApprovalPersistence, TypeOK
  <2> QED BY <1>8, <2>1, <2>2, <2>3, <2>4, <2>5 DEF AwaitApproval, TypeOK, history
<1> QED BY <1>3, <1>5, <1>7, <1>8 DEF AwaitApproval

(* The steps of a worker.                                                  *)
LEMMA WorkType ==
  ASSUME TypeOK, NEW k \in Requests, Work(k) PROVE TypeOK'
<1>0. fences[k] \in Fence /\ worker[k] \in Worker BY DEF TypeOK, Ledger
<1>1. CASE RunFenced(k)
  BY <1>1, WorkerType, MoveType DEF RunFenced
<1>2. CASE Run(k)
  <2>1. Moved(fences[k], "running") \in Fence BY <1>0, MovedType DEF States, Live
  <2>2. fences' \in Ledger BY <1>2, <2>1, OneFenceType DEF Run, TypeOK
  <2>3. disk' \subseteq Ledger /\ faults' \in Nat
    BY <1>2, <2>2, SaveType, DiskType DEF Run
  <2>4. worker' \in [Requests -> Worker]
    BY <1>2, OneWorkerType, WorkerType, FinishingType DEF Run
  <2>5. starts' \in [Requests -> Nat]
    <3>1. starts \in [Requests -> Nat] BY DEF TypeOK
    <3> QED BY <1>2, <3>1 DEF Run
  <2> QED
    BY <1>2, <2>2, <2>3, <2>4, <2>5 DEF Run, TypeOK
<1>3. CASE Return(k)
  BY <1>3, FinishingType, MoveType DEF Return
<1>4. CASE Finish(k)
  <2>1. worker' \in [Requests -> Worker] BY <1>4, OneWorkerType, WorkerType DEF Finish
  <2>2. waits' \in [Requests -> [Approvals -> Decisions \cup {"none", "waiting"}]]
    BY <1>4, NoWaitsType DEF Finish, TypeOK
  <2>3. /\ fences' \in Ledger /\ disk' \subseteq Ledger
        /\ content' \subseteq Requests /\ faults' \in Nat
    <3>1. CASE FinishFenced(k) BY <3>1 DEF FinishFenced, TypeOK
    <3>2. CASE FinishInterrupted(k)
      <4>1. fences' \in Ledger
        BY <3>2, <1>0, InterruptType, OneFenceType DEF FinishInterrupted, TypeOK
      <4>2. disk' \subseteq Ledger /\ faults' \in Nat
        BY <3>2, <4>1, SaveType, DiskType DEF FinishInterrupted
      <4> QED BY <3>2, <4>1, <4>2 DEF FinishInterrupted, TypeOK
    <3>3. CASE FinishWithoutResult(k)
      <4>1. fences' \in Ledger
        BY <3>3, <1>0, EndedType, OneFenceType DEF FinishWithoutResult, TypeOK, States
      <4>2. disk' \subseteq Ledger /\ faults' \in Nat
        BY <3>3, <4>1, SaveType, DiskType DEF FinishWithoutResult
      <4> QED BY <3>3, <4>1, <4>2 DEF FinishWithoutResult, TypeOK
    <3>4. CASE FinishUnsealed(k)
      <4>1. fences' \in Ledger
        BY <3>4, <1>0, EndedType, OneFenceType DEF FinishUnsealed, TypeOK, States
      <4>2. disk' \subseteq Ledger /\ faults' \in Nat
        BY <3>4, <4>1, SaveType, DiskType DEF FinishUnsealed
      <4>3. content' \subseteq Requests BY <3>4 DEF FinishUnsealed, TypeOK
      <4> QED BY <4>1, <4>2, <4>3
    <3>5. CASE FinishSealed(k)
      <4>1. PICK issued \in BOOLEAN :
              LET result == [Ended(fences[k], "completed") EXCEPT !.issued = issued]
                  completed == [fences EXCEPT ![k] = result]
              IN \/ /\ fences' = completed
                    /\ Saved(completed)
                    /\ content' = content \cup {k}
                 \/ /\ fences' = [fences EXCEPT ![k] = [result EXCEPT !.state = "unknown"]]
                    /\ SaveTwice(completed, fences')
                    /\ content' \in {content \ {k}, content \cup {k}}
        BY <3>5 DEF FinishSealed
      <4>2. PICK result \in Fence : result = [Ended(fences[k], "completed") EXCEPT !.issued = issued]
        BY <1>0, EndedType, UpdateType DEF States
      <4>3. [result EXCEPT !.state = "unknown"] \in Fence BY UpdateType DEF States
      <4>4. PICK completed \in Ledger : completed = [fences EXCEPT ![k] = result]
        BY OneFenceType, DiskType
      <4>5. fences' \in Ledger
        <5>1. \/ fences' = completed
              \/ fences' = [fences EXCEPT ![k] = [result EXCEPT !.state = "unknown"]]
          BY <4>1, <4>2, <4>4
        <5>2. [fences EXCEPT ![k] = [result EXCEPT !.state = "unknown"]] \in Ledger
          BY <4>3, OneFenceType, DiskType
        <5> QED BY <5>1, <5>2
      <4>6. disk' \subseteq Ledger /\ faults' \in Nat
        BY <4>1, <4>2, <4>4, <4>5, SaveType, DiskType
      <4>7. content' \subseteq Requests
        <5>1. content \subseteq Requests BY DEF TypeOK
        <5> QED BY <4>1, <5>1
      <4> QED BY <4>5, <4>6, <4>7
    <3> QED BY <1>4, <3>1, <3>2, <3>3, <3>4, <3>5 DEF Finish
  <2> QED BY <1>4, <2>1, <2>2, <2>3 DEF Finish, TypeOK, history
<1>5. CASE WakeDone(k)
  BY <1>5, FinishingType, MoveType DEF WakeDone
<1>6. CASE WakeDecided(k)
  <2>1. [worker[k] EXCEPT !.at = "decided"] \in Worker
    BY <1>0, <1>6 DEF WakeDecided, Worker, Steps
  <2> QED BY <1>6, <2>1, FinishingType, MoveType DEF WakeDecided
<1>7. CASE TakeInputs(k)
  <2>1. [worker[k] EXCEPT !.at = "authorized"] \in Worker
    BY <1>0, <1>7 DEF TakeInputs, Worker, Steps
  <2> QED BY <1>7, <2>1, FinishingType, MoveType DEF TakeInputs
<1>8. CASE RunTool(k)
  <2>1. worker' \in [Requests -> Worker]
    BY <1>8, WorkerType, FinishingType, OneWorkerType DEF RunTool
  <2>2. worker[k].approval \in Approvals
    BY <1>0, <1>8 DEF RunTool, Worker
  <2>3. toolRuns' \in [Requests -> [Approvals -> Nat]]
    BY <1>8, <2>2 DEF RunTool, TypeOK
  <2> QED BY <1>8, <2>1, <2>3 DEF RunTool, TypeOK
<1>9. CASE StopRejected(k)
  BY <1>9, FinishingType, MoveType DEF StopRejected
<1>10. ASSUME NEW a \in Approvals, AwaitApproval(k, a) PROVE TypeOK'
  BY <1>10, <1>0, AwaitType
<1> QED BY <1>1, <1>2, <1>3, <1>4, <1>5, <1>6, <1>7, <1>8, <1>9, <1>10 DEF Work

(* The calls of the owner and of the client.                               *)
LEMMA DecideType ==
  ASSUME TypeOK, NEW k \in Requests, NEW a \in Approvals, NEW d \in Decisions,
         DecideApproval(k, a, d)
  PROVE  TypeOK'
<1>0. fences[k] \in Fence /\ worker[k] \in Worker BY DEF TypeOK, Ledger
<1>1. PICK decided \in Fence : decided = Decided(fences[k], a, d) BY <1>0, DecidedType
<1>2. PICK first \in Ledger : first = [fences EXCEPT ![k] = decided]
  BY OneFenceType, DiskType
<1>3. CASE DecisionSaved(k, a, d)
  <2>1. fences' \in Ledger BY <1>1, <1>2, <1>3 DEF DecisionSaved
  <2>2. disk' \subseteq Ledger /\ faults' \in Nat
    BY <1>3, <2>1, SaveType, DiskType DEF DecisionSaved
  <2>3. worker' \in [Requests -> Worker]
    <3>1. [worker[k] EXCEPT !.ready = d] \in Worker BY <1>0 DEF Worker
    <3>2. [worker EXCEPT ![k].ready = d] = [worker EXCEPT ![k] = [worker[k] EXCEPT !.ready = d]]
      OBVIOUS
    <3> QED BY <1>3, <3>1, <3>2, OneWorkerType DEF DecisionSaved, Deliver, TypeOK
  <2>4. waits' \in [Requests -> [Approvals -> Decisions \cup {"none", "waiting"}]]
    BY <1>3, OneWaitType DEF DecisionSaved
  <2>5. told' \in [Requests -> [Approvals -> Decisions \cup {"none"}]]
    <3>1. told \in [Requests -> [Approvals -> Decisions \cup {"none"}]] BY DEF TypeOK
    <3> QED BY <1>3, <3>1 DEF DecisionSaved
  <2> QED
    BY <1>3, <2>1, <2>2, <2>3, <2>4, <2>5 DEF DecisionSaved, DecideApproval, TypeOK
<1>4. CASE DecisionUnsaved(k, a, d)
  <2>1. Ended(Uncertain(fences[k], a, d), "unknown") \in Fence
    BY <1>0, DecidedType, EndedType DEF States
  <2>2. fences' \in Ledger BY <1>4, <2>1, OneFenceType, DiskType DEF DecisionUnsaved
  <2>3. disk' \subseteq Ledger /\ faults' \in Nat
    BY <1>1, <1>2, <1>4, <2>2, SaveType, DiskType DEF DecisionUnsaved
  <2>4. waits' \in [Requests -> [Approvals -> Decisions \cup {"none", "waiting"}]]
    BY <1>4, NoWaitsType DEF DecisionUnsaved, TypeOK
  <2> QED BY <1>4, <2>2, <2>3, <2>4 DEF DecisionUnsaved, DecideApproval, TypeOK
<1> QED BY <1>3, <1>4 DEF DecideApproval

LEMMA AckType ==
  ASSUME TypeOK, NEW k \in Requests, NEW b \in BOOLEAN, AckWithClientAction(k, b)
  PROVE  TypeOK'
<1>0. fences[k] \in Fence BY DEF TypeOK, Ledger
<1>1. [Moved(fences[k], "delivered") EXCEPT !.receipt = b] \in Fence
  BY <1>0, MovedType, UpdateType DEF States
<1>2. PICK acked \in Ledger :
        acked = [fences EXCEPT ![k] = [Moved(fences[k], "delivered") EXCEPT !.receipt = b]]
  BY <1>1, OneFenceType, DiskType
<1>3. \/ fences' = acked /\ Saved(acked) /\ RemoveContent(k)
      \/ SaveFailed({acked}) /\ UNCHANGED <<fences, content>>
  BY <1>2 DEF AckWithClientAction
<1>4. fences' \in Ledger BY <1>3, DiskType
<1>5. disk' \subseteq Ledger /\ faults' \in Nat BY <1>3, <1>4, SaveType, DiskType
<1>6. content' \subseteq Requests BY <1>3 DEF RemoveContent, TypeOK
<1> QED BY <1>4, <1>5, <1>6 DEF AckWithClientAction, TypeOK, process, history

LEMMA SubmitType ==
  ASSUME TypeOK, NEW k \in Requests, NEW b \in BOOLEAN, Submit(k, b)
  PROVE  TypeOK'
<1>1. PICK admitted \in Ledger : admitted = [fences EXCEPT ![k] = Admitted]
  BY EmptyType, OneFenceType, DiskType
<1>2. fences' \in Ledger BY <1>1, DiskType DEF Submit
<1>3. disk' \subseteq Ledger /\ faults' \in Nat
  BY <1>1, <1>2, SaveType, DiskType DEF Submit
<1>4. worker' \in [Requests -> Worker]
  BY ZenonT(40), WorkerType, OneWorkerType DEF Submit, TypeOK
<1> QED BY <1>2, <1>3, <1>4 DEF Submit, TypeOK, history

LEMMA CallType ==
  ASSUME TypeOK, NEW k \in Requests, Call(k) PROVE TypeOK'
<1>0. fences[k] \in Fence BY DEF TypeOK, Ledger
<1>1. CASE Upload(k) BY <1>1 DEF Upload, TypeOK, history
<1>2. CASE Cancel(k)
  <2>1. fences' \in Ledger
    BY <1>0, <1>2, EndedType, OneFenceType, DiskType DEF Cancel, States
  <2>2. disk' \subseteq Ledger /\ faults' \in Nat BY <1>2, <2>1, SaveType, DiskType DEF Cancel
  <2>3. waits' \in [Requests -> [Approvals -> Decisions \cup {"none", "waiting"}]]
    BY <1>2, NoWaitsType DEF Cancel, TypeOK
  <2> QED BY <1>2, <2>1, <2>2, <2>3 DEF Cancel, TypeOK, history
<1>3. CASE AckAgain(k) BY <1>3 DEF AckAgain, TypeOK, process, history
<1> QED BY <1>1, <1>2, <1>3, SubmitType, AckType, DecideType DEF Call

LEMMA TickType ==
  ASSUME TypeOK, NEW k \in Requests, Tick(k) PROVE TypeOK'
<1>1. CASE DeadlinePasses(k) BY <1>1 DEF DeadlinePasses, TypeOK, process, history
<1>2. CASE ContextDeadline(k) BY <1>2 DEF ContextDeadline, TypeOK, history
<1>3. CASE RetentionPasses(k) BY <1>3 DEF RetentionPasses, TypeOK, process, history
<1>4. CASE StageAges(k) BY <1>4 DEF StageAges, TypeOK, history
<1> QED BY <1>1, <1>2, <1>3, <1>4 DEF Tick

LEMMA RevokeType ==
  ASSUME TypeOK, NEW c \in Clients, RevokeWorkbenchClient(c) PROVE TypeOK'
<1> DEFINE stopped == {k \in Requests : ClientOf[k] = c /\ fences[k].state \in Live}
<1>1. \A k \in Requests : fences[k] \in Fence BY DEF TypeOK, Ledger
<1>2. \A k \in Requests : Ended(fences[k], "unknown") \in Fence BY <1>1, EndedType DEF States
<1>3. fences' = [k \in Requests |->
                  IF k \in stopped THEN Ended(fences[k], "unknown") ELSE fences[k]]
  BY DEF RevokeWorkbenchClient
<1>4. fences' \in Ledger BY <1>1, <1>2, <1>3 DEF Ledger
<1>5. disk' \subseteq Ledger /\ faults' \in Nat /\ dirty' \in BOOLEAN
  <2>1. CASE UNCHANGED <<disk, dirty, faults>> BY <2>1 DEF TypeOK
  <2>2. CASE Saved(fences') /\ dirty' = FALSE BY <2>2, <1>4, SaveType, DiskType
  <2>3. CASE SaveFailed({fences'}) /\ dirty' = TRUE BY <2>3, <1>4, SaveType, DiskType
  <2> QED BY <2>1, <2>2, <2>3 DEF RevokeWorkbenchClient
<1>6. /\ waits' \in [Requests -> [Approvals -> Decisions \cup {"none", "waiting"}]]
      /\ staged' \in [Requests -> {"none", "fresh", "stale"}]
      /\ ctxDone' \subseteq Requests /\ revoked' \subseteq Clients
  BY NoWaitsType DEF RevokeWorkbenchClient, TypeOK
<1> QED BY <1>4, <1>5, <1>6 DEF RevokeWorkbenchClient, TypeOK, history

(* The steps of the process.                                               *)
LEMMA SweepType == ASSUME TypeOK, Sweep PROVE TypeOK'
<1>1. fences' \in Ledger BY SweptType, DiskType DEF Sweep
<1>2. disk' \subseteq Ledger /\ faults' \in Nat BY <1>1, SaveType, DiskType DEF Sweep
<1>3. content' \subseteq Requests BY DEF Sweep, RemoveFiles, TypeOK
<1> QED BY <1>1, <1>2, <1>3 DEF Sweep, TypeOK, history

LEMMA CloseType == ASSUME TypeOK, Close PROVE TypeOK'
<1> DEFINE interrupted == {k \in Requests : fences[k].state \in Live /\ Asked(fences[k]) # {}}
<1>1. \A k \in Requests : fences[k] \in Fence BY DEF TypeOK, Ledger
<1>2. fences' = [k \in Requests |-> IF k \in interrupted
                 THEN InterruptApprovalExecution(fences[k]) ELSE fences[k]]
  BY DEF Close
<1>3. fences' \in Ledger BY <1>1, <1>2, InterruptType DEF Ledger
<1>4. disk' \subseteq Ledger /\ faults' \in Nat
  <2>1. CASE UNCHANGED <<disk, faults>> BY <2>1, DiskType
  <2>2. CASE SaveIgnored(fences') BY <2>2, <1>3, SaveType, DiskType
  <2> QED BY <2>1, <2>2 DEF Close
<1> QED BY <1>3, <1>4, NoWaitsType DEF Close, TypeOK, history

LEMMA StopType == ASSUME TypeOK, Stop PROVE TypeOK'
<1>1. fences' \in Ledger BY EmptyType DEF Stop
<1>2. worker' \in [Requests -> Worker] BY WorkerType DEF Stop
<1>3. waits' \in [Requests -> [Approvals -> Decisions \cup {"none", "waiting"}]]
  BY NoWaitsType DEF Stop
<1>4. crashes' \in Nat
  <2>1. crashes \in Nat BY DEF TypeOK
  <2> QED BY <2>1 DEF Stop
<1>6. staged' \in [Requests -> {"none", "fresh", "stale"}] BY DEF Stop
<1>7. /\ active' \subseteq Requests /\ ctxDone' \subseteq Requests
      /\ revoked' \subseteq Clients /\ dirty' \in BOOLEAN /\ phase' = "down"
  BY DEF Stop
<1>5. UNCHANGED <<disk, content, clock, starts, toolRuns, told, faults>> BY DEF Stop, history
<1> HIDE DEF Stop
<1> QED BY <1>1, <1>2, <1>3, <1>4, <1>5, <1>6, <1>7 DEF TypeOK

LEMMA NewType == ASSUME TypeOK, New PROVE TypeOK'
<1>1. PICK L \in disk :
        LET loaded == Swept(Recovered(L)) IN
          \/ /\ phase' = "up"
             /\ fences' = loaded
             /\ Saved(loaded)
             /\ content' = content \cap Kept(loaded)
          \/ /\ faults < MaxFaults
             /\ faults' = faults + 1
             /\ UNCHANGED <<phase, fences>>
             /\ \/ disk' = {L, loaded} /\ UNCHANGED content
                \/ disk' = {loaded} /\ RemoveFiles(Kept(loaded))
  BY DEF New
<1>2. L \in Ledger BY DiskType
<1>3. PICK loaded \in Ledger : loaded = Swept(Recovered(L))
  BY <1>2, RecoveredType, SweptType
<1>4. CASE /\ phase' = "up" /\ fences' = loaded /\ Saved(loaded)
           /\ content' = content \cap Kept(loaded)
  <2>1. disk' \subseteq Ledger /\ faults' \in Nat BY <1>4, SaveType, DiskType
  <2> QED BY <1>4, <2>1 DEF New, TypeOK, process, history
<1>5. CASE /\ faults' = faults + 1 /\ UNCHANGED <<phase, fences>>
           /\ \/ disk' = {L, loaded} /\ UNCHANGED content
              \/ disk' = {loaded} /\ RemoveFiles(Kept(loaded))
  <2>1. disk' \subseteq Ledger BY <1>2, <1>5
  <2>2. content' \subseteq Requests BY <1>5 DEF RemoveFiles, TypeOK
  <2>3. faults' \in Nat BY <1>5, DiskType
  <2> QED BY <1>5, <2>1, <2>2, <2>3 DEF New, TypeOK, process, history
<1> QED BY <1>1, <1>3, <1>4, <1>5

LEMMA TypeNext == TypeOK /\ [Next]_vars => TypeOK'
<1> SUFFICES ASSUME TypeOK, [Next]_vars PROVE TypeOK' OBVIOUS
<1>1. CASE \E k \in Requests : Work(k) \/ Call(k) \/ Tick(k)
  BY <1>1, WorkType, CallType, TickType
<1>2. CASE \E c \in Clients : RevokeWorkbenchClient(c) BY <1>2, RevokeType
<1>3. CASE Sweep BY <1>3, SweepType
<1>4. CASE BeginShutdown BY <1>4 DEF BeginShutdown, TypeOK, process, history
<1>5. CASE Close BY <1>5, CloseType
<1>6. CASE Exit \/ Crash BY <1>6, StopType DEF Exit, Crash
<1>7. CASE New BY <1>7, NewType
<1>8. CASE UNCHANGED vars BY <1>8 DEF vars, process, history, TypeOK
<1> QED BY <1>1, <1>2, <1>3, <1>4, <1>5, <1>6, <1>7, <1>8 DEF Next

(* Every variable keeps its type in every behavior of the specification.   *)
THEOREM TypeCorrect == Spec => []TypeOK
  BY TypeInit, TypeNext, PTL DEF Spec

-----------------------------------------------------------------------------
(* What the operators on fences do to approvals.  Follows relates a fence  *)
(* to what it may be replaced with while its process lives; each operator  *)
(* produces a fence that follows the one it is given.                      *)

(* A change is a new revision, and a move that RequestLifecycle allows.    *)
Advances(f, g) == g.revision > f.revision /\ g.state \in Promise!Moves(f.state)

(* What a fence may be replaced with while its process lives.              *)
Follows(f, g) ==
  /\ FenceInv(g)
  /\ g = f \/ Advances(f, g)
  /\ f.state # "absent" => g.state # "absent"
  /\ f.state \notin {"absent", "accepted"} => g.state \notin {"absent", "accepted"}
  /\ \A a \in Approvals : f.approvals[a].state = "decided" =>
       /\ g.approvals[a].state = "decided"
       /\ g.approvals[a].decision = f.approvals[a].decision

LEMMA MovesTable ==
  /\ \A s \in States \cup {"absent"} : s \in Promise!Moves(s)
  /\ "accepted" \in Promise!Moves("absent")
  /\ "running" \in Promise!Moves("accepted") /\ "unknown" \in Promise!Moves("accepted")
  /\ {"completed", "failed", "unknown"} \subseteq Promise!Moves("running")
  /\ {"delivered", "delivery_expired"} \subseteq Promise!Moves("completed")
  BY DEF Promise!Moves, Promise!Edges, Promise!Answers, States, Live

LEMMA FenceFields ==
  ASSUME NEW f \in Fence
  PROVE  /\ f.state \in States \cup {"absent"} /\ f.revision \in Nat /\ f.reason \in Reasons
         /\ f.issued \in BOOLEAN /\ f.receipt \in BOOLEAN
         /\ \A a \in Approvals : /\ f.approvals[a] \in Record
                                 /\ f.approvals[a].revision \in Nat
  BY DEF Fence, Record

LEMMA MovedEffect ==
  ASSUME NEW f \in Fence, NEW s \in States
  PROVE  LET g == Moved(f, s) IN
         /\ g.state = s /\ g.revision = f.revision + 1 /\ g.approvals = f.approvals
         /\ g.reason = f.reason /\ g.issued = f.issued /\ g.receipt = f.receipt
         /\ Asked(g) = Asked(f) /\ Pending(g) = Pending(f) /\ Approved(g) = Approved(f)
  BY DEF Moved, Fence, Asked, Pending, Approved

LEMMA InvalidateEffect ==
  ASSUME NEW f \in Fence
  PROVE  LET g == InvalidateApprovals(f) IN
         /\ g.state = f.state /\ g.revision = f.revision /\ g.reason = f.reason
         /\ g.issued = f.issued /\ g.receipt = f.receipt
         /\ Asked(g) = Asked(f) /\ Pending(g) = {} /\ Approved(g) = Approved(f)
         /\ \A a \in Approvals :
              /\ g.approvals[a].decision = f.approvals[a].decision
              /\ a \notin Pending(f) => g.approvals[a] = f.approvals[a]
              /\ a \in Pending(f) => /\ g.approvals[a].state = "invalidated"
                                     /\ g.approvals[a].revision = f.revision
<1> DEFINE g == InvalidateApprovals(f)
<1>1. /\ g.state = f.state /\ g.revision = f.revision /\ g.reason = f.reason
      /\ g.issued = f.issued /\ g.receipt = f.receipt
  BY DEF InvalidateApprovals, Fence
<1>2. \A a \in Approvals :
        /\ g.approvals[a].decision = f.approvals[a].decision
        /\ a \notin Pending(f) => g.approvals[a] = f.approvals[a]
        /\ a \in Pending(f) => /\ g.approvals[a].state = "invalidated"
                               /\ g.approvals[a].revision = f.revision
  BY DEF InvalidateApprovals, Fence, Record
<1> HIDE DEF g
<1>3. Asked(g) = Asked(f) /\ Pending(g) = {} /\ Approved(g) = Approved(f)
  BY <1>2 DEF Asked, Pending, Approved
<1> QED BY <1>1, <1>2, <1>3 DEF g

(* A fence without pending rows is valid in every state that has no        *)
(* condition of its own.                                                   *)
LEMMA ValidAfterInvalidate ==
  ASSUME NEW f \in Fence, NEW g \in Fence, ValidFence(f), g.revision \in Nat,
         g.revision >= f.revision, f.receipt = FALSE, g.receipt = FALSE,
         g.reason # "none" => g.state \in {"failed", "unknown"},
         Asked(g) = Asked(f),
         \A a \in Approvals :
           /\ g.approvals[a].decision = f.approvals[a].decision
           /\ a \notin Pending(f) => g.approvals[a] = f.approvals[a]
           /\ a \in Pending(f) => /\ g.approvals[a].state = "invalidated"
                                  /\ g.approvals[a].revision = g.revision
  PROVE  ValidFence(g)
<1>1. f.revision \in Nat /\ f.revision > 0 BY FenceFields DEF ValidFence
<1>2. ASSUME NEW a \in Asked(g)
      PROVE  /\ g.approvals[a].revision \in 1..g.revision
             /\ g.approvals[a].state = "pending" => g.state = "running"
             /\ (g.approvals[a].state \in {"decided", "decision_unknown"})
                  <=> (g.approvals[a].decision # "none")
  <2>1. a \in Approvals /\ a \in Asked(f) BY <1>2 DEF Asked
  <2>2. /\ f.approvals[a].revision \in 1..f.revision
        /\ (f.approvals[a].state \in {"decided", "decision_unknown"})
             <=> (f.approvals[a].decision # "none")
    BY <2>1 DEF ValidFence
  <2>3. CASE a \in Pending(f)
    <3>1. f.approvals[a].state = "pending" BY <2>3 DEF Pending
    <3> QED BY <1>1, <2>1, <2>2, <2>3, <3>1
  <2>4. CASE a \notin Pending(f)
    <3>1. f.approvals[a].state # "pending" BY <2>1, <2>4 DEF Pending
    <3> QED BY <1>1, <2>1, <2>2, <2>4, <3>1
  <2> QED BY <2>3, <2>4
<1>3. Cardinality(Asked(g)) <= MaxApprovals BY DEF ValidFence
<1>4. g.revision > 0 BY <1>1
<1> QED BY <1>2, <1>3, <1>4 DEF ValidFence

LEMMA FollowsSelf == ASSUME NEW f \in Fence, FenceInv(f) PROVE Follows(f, f)
  BY DEF Follows

LEMMA FollowsChain ==
  ASSUME NEW f \in Fence, NEW g \in Fence, NEW e \in Fence, Follows(f, g), Follows(g, e),
         g.state = f.state
  PROVE  Follows(f, e)
<1>1. f.revision \in Nat /\ g.revision \in Nat /\ e.revision \in Nat BY FenceFields
<1>2. e = f \/ Advances(f, e) BY <1>1 DEF Follows, Advances
<1> QED BY <1>2 DEF Follows

LEMMA EndedEffect ==
  ASSUME NEW f \in Fence, NEW s \in States
  PROVE  LET g == Ended(f, s) IN
         /\ g.state = s /\ g.revision = f.revision + 1 /\ g.reason = f.reason
         /\ g.issued = f.issued /\ g.receipt = f.receipt
         /\ Asked(g) = Asked(f) /\ Pending(g) = {} /\ Approved(g) = Approved(f)
         /\ \A a \in Approvals :
              /\ g.approvals[a].decision = f.approvals[a].decision
              /\ a \notin Pending(f) => g.approvals[a] = f.approvals[a]
              /\ a \in Pending(f) => /\ g.approvals[a].state = "invalidated"
                                     /\ g.approvals[a].revision = g.revision
  BY MovedType, MovedEffect, InvalidateEffect DEF Ended

(* Any end of a live fence that voids its pending rows follows it.         *)
LEMMA FollowsEnd ==
  ASSUME NEW f \in Fence, FenceInv(f), f.state \in Live, NEW s \in States, NEW g \in Fence,
         g.state \in {"failed", "unknown", "completed"}, g.state # "unknown" => f.state = "running",
         g.revision = f.revision + 1, g.reason = f.reason, g.receipt = f.receipt,
         g.approvals = Ended(f, s).approvals
  PROVE  Follows(f, g)
<1>1. Asked(g) = Asked(f) /\ Approved(g) = Approved(f)
  <2>1. Asked(g) = Asked(Ended(f, s)) /\ Approved(g) = Approved(Ended(f, s))
    BY DEF Asked, Approved
  <2> QED BY <2>1, EndedEffect
<1>2. \A a \in Approvals :
        /\ g.approvals[a].decision = f.approvals[a].decision
        /\ a \notin Pending(f) => g.approvals[a] = f.approvals[a]
        /\ a \in Pending(f) => /\ g.approvals[a].state = "invalidated"
                               /\ g.approvals[a].revision = g.revision
  BY EndedEffect
<1>3. f.state # "absent" /\ f.reason = "none" /\ f.receipt = FALSE
  BY FenceFields DEF FenceInv, Live, ValidFence
<1>4. g.revision \in Nat /\ g.revision >= f.revision BY FenceFields
<1>5. ValidFence(g)
  BY <1>1, <1>2, <1>3, <1>4, ValidAfterInvalidate DEF FenceInv
<1>6. FenceInv(g) BY <1>1, <1>3, <1>5 DEF FenceInv, Live
<1>7. Advances(f, g) BY FenceFields, MovesTable DEF Advances, Live
<1> QED BY <1>2, <1>6, <1>7 DEF Follows, Pending

LEMMA FollowsEnded ==
  ASSUME NEW f \in Fence, FenceInv(f), f.state \in Live,
         NEW s \in {"failed", "unknown", "completed"}, NEW b \in BOOLEAN,
         s # "unknown" => f.state = "running"
  PROVE  /\ Follows(f, Ended(f, s))
         /\ Follows(f, [Ended(f, s) EXCEPT !.issued = b])
<1>1. s \in States BY DEF States
<1>2. Ended(f, s) \in Fence /\ [Ended(f, s) EXCEPT !.issued = b] \in Fence
  BY <1>1, EndedType, UpdateType
<1>3. Follows(f, Ended(f, s)) BY <1>1, <1>2, EndedEffect, FollowsEnd
<1>4. Follows(f, [Ended(f, s) EXCEPT !.issued = b])
  <2> DEFINE g == [Ended(f, s) EXCEPT !.issued = b]
  <2>1. /\ g.state = s /\ g.revision = f.revision + 1 /\ g.reason = f.reason
        /\ g.receipt = f.receipt /\ g.approvals = Ended(f, s).approvals
    BY <1>1, <1>2, EndedEffect DEF Fence
  <2> HIDE DEF g
  <2> QED BY <1>1, <1>2, <2>1, FollowsEnd DEF g
<1> QED BY <1>3, <1>4

(* finish replaces the completion it could not save.                       *)
LEMMA FollowsUnsaved ==
  ASSUME NEW f \in Fence, FenceInv(f), f.state \in Live, NEW b \in BOOLEAN
  PROVE  Follows(f, [[Ended(f, "completed") EXCEPT !.issued = b] EXCEPT !.state = "unknown"])
<1> DEFINE c == [Ended(f, "completed") EXCEPT !.issued = b]
           g == [c EXCEPT !.state = "unknown"]
<1>1. "completed" \in States /\ "unknown" \in States BY DEF States
<1>2. Ended(f, "completed") \in Fence /\ c \in Fence BY <1>1, EndedType, UpdateType
<1>3. g \in Fence BY <1>1, <1>2, UpdateType
<1>4. /\ c.revision = f.revision + 1 /\ c.reason = f.reason
      /\ c.receipt = f.receipt /\ c.approvals = Ended(f, "completed").approvals
  BY <1>1, <1>2, EndedEffect DEF Fence
<1> HIDE DEF c
<1>5. /\ g.state = "unknown" /\ g.revision = c.revision /\ g.reason = c.reason
      /\ g.receipt = c.receipt /\ g.approvals = c.approvals
  BY <1>2 DEF Fence
<1> HIDE DEF g
<1>6. Follows(f, g) BY <1>1, <1>3, <1>4, <1>5, FollowsEnd
<1> QED BY <1>6 DEF c, g

LEMMA FollowsInterrupt ==
  ASSUME NEW f \in Fence, FenceInv(f), f.state \in Live
  PROVE  /\ Follows(f, InterruptApprovalExecution(f))
         /\ InterruptApprovalExecution(f).state \in {"failed", "unknown"}
<1> DEFINE s == IF Pending(f) # {} /\ Approved(f) = {} THEN "failed" ELSE "unknown"
           r == IF Pending(f) # {} THEN "awaiting_approval"
                ELSE IF Asked(f) # {} THEN "after_approval" ELSE f.reason
           m == [Moved(f, s) EXCEPT !.reason = r]
           g == InterruptApprovalExecution(f)
<1>1. s \in States /\ s \in {"failed", "unknown"} BY DEF States
<1>2. r \in Reasons BY DEF Reasons, Fence
<1>3. Moved(f, s) \in Fence BY <1>1, MovedType
<1>4. m \in Fence BY <1>2, <1>3, UpdateType
<1>5. /\ m.state = s /\ m.revision = f.revision + 1 /\ m.reason = r
      /\ m.receipt = f.receipt /\ m.approvals = f.approvals
  BY <1>1, <1>3, MovedEffect DEF Fence
<1>6. Asked(m) = Asked(f) /\ Pending(m) = Pending(f) /\ Approved(m) = Approved(f)
  BY <1>5 DEF Asked, Pending, Approved
<1>7. g = InvalidateApprovals(m) BY DEF InterruptApprovalExecution
<1>8. g \in Fence BY <1>4, <1>7, InvalidateType
<1> HIDE DEF m, g
<1>9. /\ g.state = s /\ g.revision = f.revision + 1 /\ g.reason = r /\ g.receipt = f.receipt
      /\ Asked(g) = Asked(f) /\ Approved(g) = Approved(f)
      /\ \A a \in Approvals :
           /\ g.approvals[a].decision = f.approvals[a].decision
           /\ a \notin Pending(f) => g.approvals[a] = f.approvals[a]
           /\ a \in Pending(f) => /\ g.approvals[a].state = "invalidated"
                                  /\ g.approvals[a].revision = g.revision
  BY <1>4, <1>5, <1>6, <1>7, InvalidateEffect
<1>10. f.state # "absent" /\ f.reason = "none" /\ f.receipt = FALSE
  BY FenceFields DEF FenceInv, Live, ValidFence
<1>11. g.revision \in Nat /\ g.revision >= f.revision BY <1>9, FenceFields
<1>12. ValidFence(g)
  BY <1>1, <1>8, <1>9, <1>10, <1>11, ValidAfterInvalidate DEF FenceInv
<1>13. FenceInv(g)
  BY <1>1, <1>9, <1>10, <1>12 DEF FenceInv, Live
<1>14. Pending(f) # {} => f.state = "running" BY DEF FenceInv, Asked, Pending, Live
<1>15. Advances(f, g) BY <1>9, <1>14, FenceFields, MovesTable DEF Advances, Live
<1>16. Follows(f, g) BY <1>1, <1>9, <1>13, <1>15 DEF Follows, Pending
<1> QED BY <1>1, <1>9, <1>16 DEF g

LEMMA FollowsAdmitted ==
  ASSUME NEW f \in Fence, FenceInv(f), f.state = "absent" PROVE Follows(f, Admitted)
<1>1. /\ Admitted.state = "accepted" /\ Admitted.revision = 1 /\ Admitted.reason = "none"
      /\ Admitted.receipt = FALSE
      /\ \A a \in Approvals : Admitted.approvals[a].state = "absent"
      /\ \A a \in Approvals : Admitted.approvals[a].decision = "none"
  BY DEF Admitted, NoFence, NoRecord
<1>2. Asked(Admitted) = {} /\ Approved(Admitted) = {} BY <1>1 DEF Asked, Approved
<1>3. IsFiniteSet(Asked(Admitted)) /\ Cardinality(Asked(Admitted)) = 0
  BY <1>2, FS_EmptySet
<1>4. ValidFence(Admitted) BY <1>1, <1>2, <1>3, ConstantsAssumption DEF ValidFence
<1>5. FenceInv(Admitted) BY <1>1, <1>2, <1>3, <1>4 DEF FenceInv, Live
<1>6. Asked(f) = {} BY DEF FenceInv
<1>7. \A a \in Approvals : f.approvals[a].state # "decided" BY <1>6 DEF Asked
<1>8. Advances(f, Admitted) BY <1>1, MovesTable DEF Advances, FenceInv
<1> QED BY <1>1, <1>5, <1>7, <1>8 DEF Follows

(* A valid fence without pending rows stays valid as it moves on.          *)
LEMMA FollowsMoved ==
  ASSUME NEW f \in Fence, FenceInv(f), NEW s \in States,
         \/ f.state = "accepted" /\ s = "running"
         \/ f.state = "completed" /\ s = "delivery_expired"
  PROVE  Follows(f, Moved(f, s))
<1> DEFINE g == Moved(f, s)
<1>1. /\ g.state = s /\ g.revision = f.revision + 1 /\ g.approvals = f.approvals
      /\ g.reason = f.reason /\ g.issued = f.issued /\ g.receipt = f.receipt
      /\ Asked(g) = Asked(f) /\ Approved(g) = Approved(f)
  BY MovedEffect
<1> HIDE DEF g
<1>2. f.revision \in Nat /\ \A a \in Approvals : f.approvals[a].revision \in Nat
  BY FenceFields
<1>3. ValidFence(f) /\ f.reason = "none" /\ f.receipt = FALSE
  BY FenceFields DEF FenceInv, ValidFence
<1>4. \A a \in Asked(f) : f.approvals[a].state # "pending"
  BY <1>3 DEF ValidFence
<1>5. Asked(f) \subseteq Approvals BY DEF Asked
<1>6. ValidFence(g) BY <1>1, <1>2, <1>3, <1>4, <1>5 DEF ValidFence
<1>7. FenceInv(g) BY <1>1, <1>3, <1>6 DEF FenceInv
<1>8. Advances(f, g) BY <1>1, <1>2, MovesTable DEF Advances
<1> QED BY <1>1, <1>7, <1>8 DEF Follows, g

LEMMA FollowsDelivered ==
  ASSUME NEW f \in Fence, FenceInv(f), f.state \in {"completed", "delivered"},
         NEW b \in BOOLEAN, b => f.issued
  PROVE  Follows(f, [Moved(f, "delivered") EXCEPT !.receipt = b])
<1> DEFINE m == Moved(f, "delivered")
           g == [m EXCEPT !.receipt = b]
<1>1. m \in Fence /\ "delivered" \in States BY MovedType DEF States
<1>2. /\ g.state = "delivered" /\ g.revision = f.revision + 1 /\ g.approvals = f.approvals
      /\ g.reason = f.reason /\ g.issued = f.issued /\ g.receipt = b
  BY <1>1, MovedEffect DEF Fence
<1> HIDE DEF m, g
<1>3. Asked(g) = Asked(f) /\ Approved(g) = Approved(f) BY <1>2 DEF Asked, Approved
<1>4. f.revision \in Nat /\ \A a \in Approvals : f.approvals[a].revision \in Nat
  BY FenceFields
<1>5. ValidFence(f) /\ f.reason = "none"
  BY FenceFields DEF FenceInv, ValidFence
<1>6. \A a \in Asked(f) : f.approvals[a].state # "pending"
  BY <1>5 DEF ValidFence
<1>7. Asked(f) \subseteq Approvals BY DEF Asked
<1>8. ValidFence(g) BY <1>2, <1>3, <1>4, <1>5, <1>6, <1>7 DEF ValidFence
<1>9. FenceInv(g) BY <1>2, <1>3, <1>5, <1>8 DEF FenceInv
<1>10. Advances(f, g) BY <1>2, <1>4, MovesTable DEF Advances, States
<1> QED BY <1>2, <1>9, <1>10 DEF Follows, g, m

LEMMA FollowsAsked ==
  ASSUME NEW f \in Fence, FenceInv(f), f.state = "running", NEW a \in Approvals,
         a \notin Asked(f), Cardinality(Asked(f)) < MaxApprovals, NEW g \in Fence,
         g = Await(f, a)
  PROVE  /\ Follows(f, g) /\ g.state = "running" /\ Asked(g) = Asked(f) \cup {a}
<1> DEFINE row == Row("pending", "none", f.revision + 1)
<1>1. row.state = "pending" /\ row.revision = f.revision + 1 /\ row.decision = "none"
  BY DEF Row
<1> HIDE DEF row
<1>2. /\ g.state = f.state /\ g.revision = f.revision + 1 /\ g.reason = f.reason
      /\ g.issued = f.issued /\ g.receipt = f.receipt
      /\ g.approvals[a] = row
      /\ \A b \in Approvals \ {a} : g.approvals[b] = f.approvals[b]
  BY DEF Fence, row, Await
<1>3. Asked(g) = Asked(f) \cup {a} BY <1>1, <1>2 DEF Asked
<1>4. f.approvals[a].state # "decided" /\ f.revision \in Nat
  BY FenceFields DEF Asked
<1>5. IsFiniteSet(Asked(g)) /\ Cardinality(Asked(g)) = Cardinality(Asked(f)) + 1
  BY <1>3, FS_AddElement DEF FenceInv
<1>6. Cardinality(Asked(f)) \in Nat /\ MaxApprovals \in Nat
  BY FS_CardinalityType, ConstantsAssumption DEF FenceInv
<1>7. ValidFence(f) /\ f.reason = "none" BY DEF FenceInv, Live
<1>8. ASSUME NEW b \in Asked(g)
      PROVE  /\ g.approvals[b].revision \in 1..g.revision
             /\ g.approvals[b].state = "pending" => g.state = "running"
             /\ (g.approvals[b].state \in {"decided", "decision_unknown"})
                  <=> (g.approvals[b].decision # "none")
  <2>1. CASE b = a BY <2>1, <1>1, <1>2, <1>4
  <2>2. CASE b # a
    <3>1. b \in Asked(f) BY <2>2, <1>3
    <3>3. b \in Approvals BY <3>1 DEF Asked
    <3>2. f.approvals[b].revision \in 1..f.revision
          /\ ((f.approvals[b].state \in {"decided", "decision_unknown"})
                <=> (f.approvals[b].decision # "none"))
      BY <3>1, <1>7 DEF ValidFence
    <3> QED BY <2>2, <3>2, <3>3, <1>2, <1>4
  <2> QED BY <2>1, <2>2
<1>9. ValidFence(g) BY <1>2, <1>4, <1>5, <1>6, <1>7, <1>8 DEF ValidFence
<1>10. FenceInv(g) BY <1>2, <1>5, <1>7, <1>9 DEF FenceInv
<1>11. Advances(f, g) BY <1>2, <1>4, MovesTable DEF Advances, States, Live
<1> QED BY <1>2, <1>3, <1>4, <1>10, <1>11 DEF Follows

(* A row that is pending is replaced by one with a decision.               *)
LEMMA FollowsRow ==
  ASSUME NEW f \in Fence, FenceInv(f), f.state = "running", NEW a \in Pending(f), NEW g \in Fence,
         NEW d \in Decisions, NEW n \in Nat, NEW m \in Nat, m >= n, n > f.revision,
         NEW s \in {"decided", "decision_unknown"}, g.state \in {"running", "unknown"},
         g.revision = m, g.reason = f.reason, g.issued = f.issued, g.receipt = f.receipt,
         g.approvals[a] = Row(s, d, n), Asked(g) = Asked(f),
         \A b \in Approvals \ {a} :
           /\ g.approvals[b].decision = f.approvals[b].decision
           /\ \/ g.approvals[b] = f.approvals[b] /\ (g.state = "running" \/ b \notin Pending(f))
              \/ /\ b \in Pending(f) /\ g.approvals[b].state = "invalidated"
                 /\ g.approvals[b].revision = m
  PROVE  Follows(f, g)
<1>1. a \in Approvals /\ f.approvals[a].state = "pending" BY DEF Pending
<1>2. ValidFence(f) /\ f.reason = "none" /\ f.revision \in Nat /\ f.receipt = FALSE
  BY FenceFields DEF FenceInv, Live, ValidFence
<1>3. g.approvals[a].state = s /\ g.approvals[a].decision = d /\ g.approvals[a].revision = n
  BY DEF Row
<1>4. ASSUME NEW b \in Asked(g)
      PROVE  /\ g.approvals[b].revision \in 1..g.revision
             /\ g.approvals[b].state = "pending" => g.state = "running"
             /\ (g.approvals[b].state \in {"decided", "decision_unknown"})
                  <=> (g.approvals[b].decision # "none")
  <2>1. CASE b = a BY <2>1, <1>2, <1>3 DEF Decisions
  <2>2. CASE b # a
    <3>1. b \in Asked(f) /\ b \in Approvals BY DEF Asked
    <3>2. f.approvals[b].revision \in 1..f.revision
          /\ ((f.approvals[b].state \in {"decided", "decision_unknown"})
                <=> (f.approvals[b].decision # "none"))
      BY <3>1, <1>2 DEF ValidFence
    <3>3. CASE b \in Pending(f)
      <4>1. f.approvals[b].state = "pending" BY <3>3 DEF Pending
      <4> QED BY <2>2, <3>1, <3>2, <3>3, <4>1, <1>2
    <3>4. CASE b \notin Pending(f)
      <4>1. f.approvals[b].state # "pending" BY <3>1, <3>4 DEF Pending
      <4> QED BY <2>2, <3>1, <3>2, <3>4, <4>1, <1>2
    <3> QED BY <3>3, <3>4
  <2> QED BY <2>1, <2>2
<1>5. ValidFence(g) BY <1>2, <1>4 DEF ValidFence
<1>6. FenceInv(g) BY <1>2, <1>5 DEF FenceInv, Live
<1>7. ASSUME NEW b \in Approvals, f.approvals[b].state = "decided"
      PROVE  g.approvals[b].state = "decided" /\ g.approvals[b].decision = f.approvals[b].decision
  <2>1. b # a /\ b \notin Pending(f) BY <1>1, <1>7 DEF Pending
  <2> QED BY <2>1, <1>7
<1>8. Advances(f, g) BY <1>2, MovesTable DEF Advances, States, Live
<1> QED BY <1>6, <1>7, <1>8 DEF Follows

LEMMA FollowsDecided ==
  ASSUME NEW f \in Fence, FenceInv(f), f.state = "running", NEW a \in Pending(f), NEW d \in Decisions
  PROVE  /\ Follows(f, Decided(f, a, d))
         /\ Follows(f, Ended(Uncertain(f, a, d), "unknown"))
<1>1. a \in Approvals /\ f.approvals[a].state = "pending" BY DEF Pending
<1>2. f.revision \in Nat BY FenceFields
<1>3. Follows(f, Decided(f, a, d))
  <2> DEFINE g == Decided(f, a, d)
  <2>1. g \in Fence BY <1>1, DecidedType
  <2>2. /\ g.state = f.state /\ g.revision = f.revision + 1 /\ g.reason = f.reason
        /\ g.issued = f.issued /\ g.receipt = f.receipt
        /\ g.approvals[a] = Row("decided", d, f.revision + 1)
        /\ \A b \in Approvals \ {a} : g.approvals[b] = f.approvals[b]
    BY <1>1 DEF Decided, Fence
  <2> HIDE DEF g
  <2>3. Asked(g) = Asked(f) BY <1>1, <2>2 DEF Asked, Row
  <2>4. Follows(f, g)
    BY <1>2, <2>1, <2>2, <2>3, FollowsRow
  <2> QED BY <2>4 DEF g
<1>4. Follows(f, Ended(Uncertain(f, a, d), "unknown"))
  <2> DEFINE u == Uncertain(f, a, d)
             g == Ended(u, "unknown")
  <2>1. u \in Fence BY <1>1, DecidedType
  <2>2. /\ u.state = f.state /\ u.revision = f.revision + 1 /\ u.reason = f.reason
        /\ u.issued = f.issued /\ u.receipt = f.receipt
        /\ u.approvals[a] = Row("decision_unknown", d, f.revision + 2)
        /\ \A b \in Approvals \ {a} : u.approvals[b] = f.approvals[b]
    BY <1>1 DEF Uncertain, Fence
  <2> HIDE DEF u
  <2>3. Asked(u) = Asked(f) /\ Pending(u) = Pending(f) \ {a}
    BY <1>1, <2>2 DEF Asked, Pending, Row
  <2>4. "unknown" \in States BY DEF States
  <2>5. g \in Fence BY <2>1, <2>4, EndedType
  <2>6. /\ g.state = "unknown" /\ g.revision = f.revision + 2 /\ g.reason = f.reason
        /\ g.issued = f.issued /\ g.receipt = f.receipt /\ Asked(g) = Asked(f)
    BY <1>2, <2>1, <2>2, <2>3, <2>4, EndedEffect
  <2>7. \A b \in Approvals :
          /\ g.approvals[b].decision = u.approvals[b].decision
          /\ b \notin Pending(u) => g.approvals[b] = u.approvals[b]
          /\ b \in Pending(u) => /\ g.approvals[b].state = "invalidated"
                                 /\ g.approvals[b].revision = g.revision
    BY <2>1, <2>4, EndedEffect
  <2> HIDE DEF g
  <2>8. g.approvals[a] = Row("decision_unknown", d, f.revision + 2)
    BY <1>1, <2>2, <2>3, <2>7
  <2>9. ASSUME NEW b \in Approvals \ {a}
        PROVE  /\ g.approvals[b].decision = f.approvals[b].decision
               /\ \/ g.approvals[b] = f.approvals[b] /\ b \notin Pending(f)
                  \/ /\ b \in Pending(f) /\ g.approvals[b].state = "invalidated"
                     /\ g.approvals[b].revision = f.revision + 2
    BY <2>2, <2>3, <2>6, <2>7
  <2>10. Follows(f, g)
    BY <1>2, <2>5, <2>6, <2>8, <2>9, FollowsRow
  <2> QED BY <2>10 DEF g, u
<1> QED BY <1>3, <1>4

-----------------------------------------------------------------------------
(***************************************************************************)
(* PART 2.  Durability.                                                    *)
(*                                                                         *)
(* LiveStep: whatever an action of a live process writes, in memory or to  *)
(* the disk, follows the ledger in memory fence by fence, or was on the    *)
(* disk before.  The invariants are consequences of that, of what workers  *)
(* do (ReadyInv, ToolInv), and of what a new process reads.                *)
(* Read as steps, the same facts show that the service implements          *)
(* RequestLifecycle.                                                       *)
(***************************************************************************)

Grown(L) == L \in disk \/ \A k \in Requests : Follows(fences[k], L[k])

LiveStep ==
  /\ phase # "down" /\ phase' # "down"
  /\ \A k \in Requests : Follows(fences[k], fences'[k])
  /\ \A L \in disk' : Grown(L)

Inv == TypeOK /\ DurabilityInv

-----------------------------------------------------------------------------
(* Which actions are live steps.                                           *)

LEMMA SelfFollows ==
  ASSUME TypeOK, LedgerInv PROVE \A k \in Requests : Follows(fences[k], fences[k])
  BY FollowsSelf DEF TypeOK, Ledger, LedgerInv

(* One fence is replaced.                                                  *)
LEMMA OneFollows ==
  ASSUME TypeOK, LedgerInv, NEW k \in Requests, NEW g, Follows(fences[k], g)
  PROVE  \A j \in Requests : Follows(fences[j], [fences EXCEPT ![k] = g][j])
  BY SelfFollows DEF TypeOK, Ledger

(* A save of a ledger that follows the one in memory.                      *)
LEMMA SaveGrows ==
  ASSUME \A k \in Requests : Follows(fences[k], fences'[k]),
         Saved(fences') \/ SaveFailed({fences'}) \/ SaveIgnored(fences') \/ UNCHANGED disk
  PROVE  \A L \in disk' : Grown(L)
  BY DEF Saved, SaveFailed, SaveIgnored, Grown

LEMMA SaveTwiceGrows ==
  ASSUME NEW M, \A k \in Requests : Follows(fences[k], M[k]),
         \A k \in Requests : Follows(fences[k], fences'[k]), SaveTwice(M, fences')
  PROVE  \A L \in disk' : Grown(L)
<1>1. \A L \in disk' : L \in disk \/ L = M \/ L = fences' BY DEF SaveTwice
<1> QED BY <1>1 DEF Grown

(* Only a live process has a fence in any state but absent.                *)
LEMMA LiveProcess ==
  ASSUME DownInv, NEW k \in Requests, fences[k].state # "absent"
  PROVE  phase # "down"
  BY DEF DownInv, EmptyLedger, NoFence

LEMMA RunLive ==
  ASSUME TypeOK, LedgerInv, DownInv, NEW k \in Requests, Run(k) PROVE LiveStep
<1>0. fences[k] \in Fence /\ FenceInv(fences[k]) BY DEF TypeOK, Ledger, LedgerInv
<1>1. Follows(fences[k], Moved(fences[k], "running"))
  BY <1>0, FollowsMoved DEF Run, States, Live
<1>2. \A j \in Requests : Follows(fences[j], fences'[j]) BY <1>1, OneFollows DEF Run
<1>3. \A L \in disk' : Grown(L) BY <1>2, SaveGrows DEF Run
<1> QED BY <1>2, <1>3, LiveProcess DEF LiveStep, Run

LEMMA FinishLive ==
  ASSUME TypeOK, LedgerInv, DownInv, NEW k \in Requests, Finish(k), StillRunning(k)
  PROVE  LiveStep /\ fences'[k].state \notin {"absent"} \cup Live
         /\ \A j \in Requests \ {k} : fences'[j] = fences[j]
<1> DEFINE f == fences[k]
<1>0. f \in Fence /\ FenceInv(f) /\ f.state = "running" /\ f.state \in Live
  BY DEF TypeOK, Ledger, LedgerInv, StillRunning, Live
<1>p. phase # "down" /\ phase' # "down" BY <1>0, LiveProcess DEF Finish
<1> SUFFICES ASSUME NEW g \in Fence, Follows(f, g), fences' = [fences EXCEPT ![k] = g],
                    g.state \in {"failed", "unknown", "completed"},
                    \/ SaveIgnored(fences')
                    \/ Saved(fences')
                    \/ \E M : /\ \A j \in Requests : Follows(fences[j], M[j])
                              /\ SaveTwice(M, fences')
             PROVE  LiveStep /\ fences'[k].state \notin {"absent"} \cup Live
                    /\ \A j \in Requests \ {k} : fences'[j] = fences[j]
  <2>1. CASE FinishInterrupted(k)
    <3>1. InterruptApprovalExecution(f) \in Fence BY <1>0, InterruptType
    <3> QED BY <2>1, <3>1, <1>0, FollowsInterrupt DEF FinishInterrupted
  <2>2. CASE FinishWithoutResult(k)
    <3>1. PICK s \in {"failed", "unknown"} : fences' = [fences EXCEPT ![k] = Ended(f, s)]
      BY <2>2 DEF FinishWithoutResult
    <3>2. s \in States BY DEF States
    <3>3. Ended(f, s) \in Fence /\ Ended(f, s).state = s /\ Follows(f, Ended(f, s))
      BY <3>2, <1>0, EndedType, EndedEffect, FollowsEnded
    <3> QED BY <2>2, <3>1, <3>3 DEF FinishWithoutResult
  <2>3. CASE FinishUnsealed(k)
    <3>1. "unknown" \in States BY DEF States
    <3>2. /\ Ended(f, "unknown") \in Fence /\ Ended(f, "unknown").state = "unknown"
          /\ Follows(f, Ended(f, "unknown"))
      BY <3>1, <1>0, EndedType, EndedEffect, FollowsEnded
    <3>3. \A j \in Requests : Follows(fences[j], fences'[j])
      BY <2>3, <3>2, OneFollows DEF FinishUnsealed
    <3> QED BY <2>3, <3>2, <3>3 DEF FinishUnsealed
  <2>4. CASE FinishSealed(k)
    <3>1. PICK b \in BOOLEAN :
            LET result == [Ended(f, "completed") EXCEPT !.issued = b]
                completed == [fences EXCEPT ![k] = result]
            IN \/ fences' = completed /\ Saved(completed)
               \/ /\ fences' = [fences EXCEPT ![k] = [result EXCEPT !.state = "unknown"]]
                  /\ SaveTwice(completed, fences')
      BY <2>4 DEF FinishSealed
    <3> DEFINE result == [Ended(f, "completed") EXCEPT !.issued = b]
               other == [result EXCEPT !.state = "unknown"]
    <3>2. "completed" \in States /\ "unknown" \in States BY DEF States
    <3>3. Ended(f, "completed") \in Fence /\ result \in Fence /\ other \in Fence
      BY <1>0, <3>2, EndedType, UpdateType
    <3>4. result.state = "completed" /\ other.state = "unknown"
      BY <1>0, <3>2, <3>3, EndedEffect DEF Fence
    <3>5. Follows(f, result) /\ Follows(f, other)
      BY <1>0, FollowsEnded, FollowsUnsaved
    <3> HIDE DEF result, other
    <3>6. \A j \in Requests : Follows(fences[j], [fences EXCEPT ![k] = result][j])
      BY <3>5, OneFollows
    <3>7. CASE fences' = [fences EXCEPT ![k] = result] /\ Saved(fences')
      BY <3>3, <3>4, <3>5, <3>7
    <3>8. CASE /\ fences' = [fences EXCEPT ![k] = other]
               /\ SaveTwice([fences EXCEPT ![k] = result], fences')
      BY <3>3, <3>4, <3>5, <3>6, <3>8
    <3> QED BY <3>1, <3>7, <3>8 DEF result, other
  <2> QED BY <2>1, <2>2, <2>3, <2>4 DEF Finish, FinishFenced
<1>1. \A j \in Requests : Follows(fences[j], fences'[j]) BY OneFollows
<1>2. \A L \in disk' : Grown(L) BY <1>1, SaveGrows, SaveTwiceGrows
<1>3. fences'[k] = g /\ \A j \in Requests \ {k} : fences'[j] = fences[j]
  BY DEF TypeOK, Ledger
<1> QED BY <1>p, <1>1, <1>2, <1>3 DEF LiveStep, Live

LEMMA AwaitLive ==
  ASSUME TypeOK, LedgerInv, DownInv, WaitInv, NEW k \in Requests, NEW a \in Approvals,
         AwaitApproval(k, a)
  PROVE  /\ LiveStep /\ a \notin Asked(fences[k])
         /\ \/ /\ worker' = [worker EXCEPT ![k] = [Idle EXCEPT !.at = "waiting", !.approval = a]]
               /\ waits' = [waits EXCEPT ![k][a] = "waiting"]
               /\ fences' = [fences EXCEPT ![k] = Await(fences[k], a)]
               /\ Asked(fences'[k]) = Asked(fences[k]) \cup {a}
            \/ /\ worker' = [worker EXCEPT ![k] = Finishing("unknown")]
               /\ fences'[k].state = "unknown"
               /\ waits' = [waits EXCEPT ![k] = NoWaits]
         /\ \A j \in Requests \ {k} : fences'[j] = fences[j]
<1> DEFINE f == fences[k]
<1>0. f \in Fence /\ FenceInv(f) /\ f.state = "running"
  BY DEF TypeOK, Ledger, LedgerInv, AwaitApproval, MayAsk
<1>p. phase # "down" /\ phase' # "down" BY <1>0, LiveProcess DEF AwaitApproval
<1>1. a \notin Asked(f) /\ Cardinality(Asked(f)) < MaxApprovals
  BY <1>0, <1>p DEF AwaitApproval, MayAsk, WaitInv
<1>2. PICK g \in Fence : g = Await(f, a) BY <1>0, AwaitRowType
<1>3. Follows(f, g) /\ g.state = "running" /\ Asked(g) = Asked(f) \cup {a}
  BY <1>0, <1>1, <1>2, FollowsAsked
<1>4. \A j \in Requests : Follows(fences[j], [fences EXCEPT ![k] = g][j])
  BY <1>3, OneFollows
<1>5. CASE /\ fences' = [fences EXCEPT ![k] = Await(f, a)] /\ Saved(fences')
           /\ waits' = [waits EXCEPT ![k][a] = "waiting"]
           /\ worker' = [worker EXCEPT ![k] = [Idle EXCEPT !.at = "waiting", !.approval = a]]
  <2>1. \A j \in Requests : Follows(fences[j], fences'[j]) BY <1>2, <1>4, <1>5
  <2>2. \A L \in disk' : Grown(L) BY <1>5, <2>1, SaveGrows
  <2>3. fences'[k] = g /\ \A j \in Requests \ {k} : fences'[j] = fences[j]
    BY <1>2, <1>5 DEF TypeOK, Ledger
  <2> QED BY <1>p, <1>1, <1>3, <1>5, <2>1, <2>2, <2>3 DEF LiveStep
<1>6. CASE FailApprovalPersistence(k, Await(f, a)) /\ worker' = [worker EXCEPT ![k] = Finishing("unknown")]
  <2> DEFINE e == Ended(g, "unknown")
  <2>1. "unknown" \in States BY DEF States
  <2>2. FenceInv(g) /\ g.state \in Live BY <1>3 DEF Follows, Live
  <2>3. e \in Fence /\ e.state = "unknown" /\ Follows(g, e)
    BY <2>1, <2>2, EndedType, EndedEffect, FollowsEnded
  <2>4. Follows(f, e) BY <1>0, <1>3, <2>3, FollowsChain
  <2>5. fences' = [fences EXCEPT ![k] = e] /\ SaveTwice([fences EXCEPT ![k] = g], fences')
        /\ waits' = [waits EXCEPT ![k] = NoWaits]
    BY <1>2, <1>6 DEF FailApprovalPersistence
  <2> HIDE DEF e
  <2>6. \A j \in Requests : Follows(fences[j], fences'[j]) BY <2>4, <2>5, OneFollows
  <2>7. \A L \in disk' : Grown(L) BY <1>4, <2>5, <2>6, SaveTwiceGrows
  <2>8. fences'[k] = e /\ \A j \in Requests \ {k} : fences'[j] = fences[j]
    BY <2>5 DEF TypeOK, Ledger
  <2> QED BY <1>p, <1>1, <1>6, <2>3, <2>5, <2>6, <2>7, <2>8 DEF LiveStep
<1> QED BY <1>5, <1>6 DEF AwaitApproval

LEMMA DecideLive ==
  ASSUME TypeOK, LedgerInv, DownInv, NEW k \in Requests, NEW a \in Approvals,
         NEW d \in Decisions, DecideApproval(k, a, d)
  PROVE  /\ LiveStep /\ a \in Pending(fences[k])
         /\ \/ DecisionSaved(k, a, d) /\ Asked(fences'[k]) = Asked(fences[k])
            \/ DecisionUnsaved(k, a, d) /\ fences'[k].state = "unknown"
         /\ \A j \in Requests \ {k} : fences'[j] = fences[j]
<1> DEFINE f == fences[k]
<1>0. f \in Fence /\ FenceInv(f) /\ f.state = "running" /\ a \in Pending(f)
  BY DEF TypeOK, Ledger, LedgerInv, DecideApproval
<1>p. phase # "down" /\ phase' # "down" BY <1>0, LiveProcess DEF DecideApproval
<1>1. PICK g \in Fence : g = Decided(f, a, d) BY <1>0, DecidedType
<1>2. PICK u \in Fence : u = Uncertain(f, a, d) BY <1>0, DecidedType
<1>3. Follows(f, g) /\ Follows(f, Ended(u, "unknown")) BY <1>0, <1>1, <1>2, FollowsDecided
<1>4. \A j \in Requests : Follows(fences[j], [fences EXCEPT ![k] = g][j])
  BY <1>3, OneFollows
<1>5. CASE DecisionSaved(k, a, d)
  <2>1. \A j \in Requests : Follows(fences[j], fences'[j])
    BY <1>1, <1>4, <1>5 DEF DecisionSaved
  <2>2. \A L \in disk' : Grown(L) BY <1>5, <2>1, SaveGrows DEF DecisionSaved
  <2>3. fences'[k] = g /\ \A j \in Requests \ {k} : fences'[j] = fences[j]
    BY <1>1, <1>5 DEF TypeOK, Ledger, DecisionSaved
  <2>4. Asked(g) = Asked(f)
    <3>1. /\ g.approvals[a] = Row("decided", d, f.revision + 1)
          /\ \A b \in Approvals \ {a} : g.approvals[b] = f.approvals[b]
      BY <1>0, <1>1 DEF Decided, Fence
    <3> QED BY <1>0, <3>1 DEF Asked, Pending, Row
  <2> QED BY <1>p, <1>0, <1>5, <2>1, <2>2, <2>3, <2>4 DEF LiveStep
<1>6. CASE DecisionUnsaved(k, a, d)
  <2> DEFINE e == Ended(u, "unknown")
  <2>1. e.state = "unknown" BY EndedEffect DEF States
  <2>2. fences' = [fences EXCEPT ![k] = e] /\ SaveTwice([fences EXCEPT ![k] = g], fences')
    BY <1>1, <1>2, <1>6 DEF DecisionUnsaved
  <2> HIDE DEF e
  <2>3. \A j \in Requests : Follows(fences[j], fences'[j]) BY <1>3, <2>2, OneFollows DEF e
  <2>4. \A L \in disk' : Grown(L) BY <1>4, <2>2, <2>3, SaveTwiceGrows
  <2>5. fences'[k] = e /\ \A j \in Requests \ {k} : fences'[j] = fences[j]
    BY <2>2 DEF TypeOK, Ledger
  <2> QED BY <1>p, <1>0, <1>6, <2>1, <2>3, <2>4, <2>5 DEF LiveStep
<1> QED BY <1>5, <1>6 DEF DecideApproval

LEMMA SubmitLive ==
  ASSUME TypeOK, LedgerInv, DownInv, NEW k \in Requests, NEW b \in BOOLEAN, Submit(k, b)
  PROVE  /\ LiveStep
         /\ \/ UNCHANGED <<fences, worker>>
            \/ /\ fences'[k].state = "accepted" /\ fences[k].state = "absent"
               /\ worker' = [worker EXCEPT ![k] = Spawned]
               /\ \A j \in Requests \ {k} : fences'[j] = fences[j]
<1>0. fences[k] \in Fence /\ FenceInv(fences[k]) /\ fences[k].state = "absent"
  BY DEF TypeOK, Ledger, LedgerInv, Submit, Admissible
<1>p. phase # "down" /\ phase' # "down" BY DEF Submit, Admissible, Open
<1>1. PICK M \in Ledger : M = [fences EXCEPT ![k] = Admitted]
  BY EmptyType, OneFenceType, DiskType
<1>2. \A j \in Requests : Follows(fences[j], M[j]) BY <1>0, <1>1, FollowsAdmitted, OneFollows
<1>3. CASE fences' = M /\ Saved(M) /\ worker' = [worker EXCEPT ![k] = Spawned]
  <2>1. \A L \in disk' : Grown(L) BY <1>2, <1>3, SaveGrows
  <2>2. fences'[k] = Admitted /\ \A j \in Requests \ {k} : fences'[j] = fences[j]
    BY <1>1, <1>3 DEF TypeOK, Ledger
  <2>3. Admitted.state = "accepted" BY DEF Admitted, NoFence
  <2> QED BY <1>p, <1>0, <1>2, <1>3, <2>1, <2>2, <2>3 DEF LiveStep
<1>4. CASE SaveFailed({M}) /\ UNCHANGED <<fences, worker>>
  <2>1. \A L \in disk' : Grown(L) BY <1>2, <1>4 DEF SaveFailed, Grown
  <2> QED BY <1>p, <1>4, <2>1, SelfFollows DEF LiveStep
<1> QED BY <1>1, <1>3, <1>4 DEF Submit

LEMMA CancelLive ==
  ASSUME TypeOK, LedgerInv, DownInv, NEW k \in Requests, Cancel(k)
  PROVE  LiveStep /\ fences'[k].state = "unknown"
         /\ \A j \in Requests \ {k} : fences'[j] = fences[j]
<1> DEFINE e == Ended(fences[k], "unknown")
<1>0. fences[k] \in Fence /\ FenceInv(fences[k]) /\ fences[k].state \in Live
  BY DEF TypeOK, Ledger, LedgerInv, Cancel
<1>1. e.state = "unknown" /\ Follows(fences[k], e) BY ZenonT(40), <1>0, EndedEffect, FollowsEnded DEF States
<1>2. fences' = [fences EXCEPT ![k] = e] /\ SaveIgnored(fences') BY DEF Cancel
<1> HIDE DEF e
<1>3. \A j \in Requests : Follows(fences[j], fences'[j]) BY <1>1, <1>2, OneFollows
<1>4. \A L \in disk' : Grown(L) BY <1>2, <1>3, SaveGrows
<1>5. fences'[k] = e /\ \A j \in Requests \ {k} : fences'[j] = fences[j]
  BY <1>2 DEF TypeOK, Ledger
<1> QED BY <1>1, <1>3, <1>4, <1>5 DEF LiveStep, Cancel

LEMMA RevokeLive ==
  ASSUME TypeOK, LedgerInv, NEW c \in Clients, RevokeWorkbenchClient(c)
  PROVE  LiveStep /\ \A j \in Requests :
           fences'[j].state = "unknown" \/ (fences'[j] = fences[j] /\ waits'[j] = waits[j])
<1> DEFINE stopped == {k \in Requests : ClientOf[k] = c /\ fences[k].state \in Live}
<1>0. \A k \in Requests : fences[k] \in Fence /\ FenceInv(fences[k])
  BY DEF TypeOK, Ledger, LedgerInv
<1>1. /\ fences' = [k \in Requests |->
                      IF k \in stopped THEN Ended(fences[k], "unknown") ELSE fences[k]]
      /\ waits' = [k \in Requests |-> IF k \in stopped THEN NoWaits ELSE waits[k]]
      /\ phase # "down" /\ phase' = phase
      /\ UNCHANGED disk \/ Saved(fences') \/ SaveFailed({fences'})
  BY DEF RevokeWorkbenchClient
<1>2. ASSUME NEW k \in stopped
      PROVE  /\ Ended(fences[k], "unknown").state = "unknown"
             /\ Follows(fences[k], Ended(fences[k], "unknown"))
  <2>1. fences[k] \in Fence /\ FenceInv(fences[k]) /\ fences[k].state \in Live
    BY <1>0
  <2>2. "unknown" \in States BY DEF States
  <2> QED BY <2>1, <2>2, EndedEffect, FollowsEnded
<1> HIDE DEF stopped
<1>3. \A k \in Requests : Follows(fences[k], fences'[k])
  BY <1>1, <1>2, SelfFollows
<1>4. \A L \in disk' : Grown(L) BY <1>1, <1>3, SaveGrows
<1> QED BY <1>1, <1>2, <1>3, <1>4 DEF LiveStep

LEMMA AckLive ==
  ASSUME TypeOK, LedgerInv, NEW k \in Requests, NEW b \in BOOLEAN, AckWithClientAction(k, b)
  PROVE  LiveStep /\ \A j \in Requests : fences'[j].state = "running" => fences'[j] = fences[j]
<1>0. fences[k] \in Fence /\ FenceInv(fences[k]) BY DEF TypeOK, Ledger, LedgerInv
<1>1. PICK g : g = [Moved(fences[k], "delivered") EXCEPT !.receipt = b] OBVIOUS
<1>2. Follows(fences[k], g) BY <1>0, <1>1, FollowsDelivered DEF AckWithClientAction
<1>3. g.state = "delivered"
  BY <1>0, <1>1, MovedType, MovedEffect DEF States, Fence
<1>4. PICK M : M = [fences EXCEPT ![k] = g] OBVIOUS
<1>5. \A j \in Requests : Follows(fences[j], M[j]) BY <1>2, <1>4, OneFollows
<1>6. CASE fences' = M /\ Saved(M)
  <2>1. \A L \in disk' : Grown(L) BY <1>5, <1>6, SaveGrows
  <2>2. fences'[k] = g /\ \A j \in Requests \ {k} : fences'[j] = fences[j]
    BY <1>4, <1>6 DEF TypeOK, Ledger
  <2> QED BY <1>3, <1>5, <1>6, <2>1, <2>2 DEF LiveStep, AckWithClientAction
<1>7. CASE SaveFailed({M}) /\ UNCHANGED fences
  <2>1. \A L \in disk' : Grown(L) BY <1>5, <1>7 DEF SaveFailed, Grown
  <2> QED BY <1>7, <2>1, SelfFollows DEF LiveStep, AckWithClientAction
<1> QED BY <1>1, <1>4, <1>6, <1>7 DEF AckWithClientAction

(* A result that expires.                                                  *)
LEMMA SweptFollows ==
  ASSUME NEW L \in Ledger, \A k \in Requests : FenceInv(L[k])
  PROVE  \A k \in Requests : /\ Follows(L[k], Swept(L)[k])
                             /\ Swept(L)[k].state \in Live => Swept(L)[k] = L[k]
<1> SUFFICES ASSUME NEW k \in Requests
             PROVE  /\ Follows(L[k], Swept(L)[k])
                    /\ Swept(L)[k].state \in Live => Swept(L)[k] = L[k]
  OBVIOUS
<1>0. L[k] \in Fence BY DEF Ledger
<1>1. CASE L[k].state = "completed" /\ clock[k] = "expired"
  <2>1. Swept(L)[k] = Moved(L[k], "delivery_expired") BY <1>1 DEF Swept
  <2>2. Moved(L[k], "delivery_expired").state = "delivery_expired"
    BY <1>0, MovedEffect DEF States
  <2> QED BY <1>0, <1>1, <2>1, <2>2, FollowsMoved DEF States, Live
<1>2. CASE ~(L[k].state = "completed" /\ clock[k] = "expired")
  <2>1. Swept(L)[k] = L[k] BY <1>2 DEF Swept
  <2> QED BY <1>0, <2>1, FollowsSelf
<1> QED BY <1>1, <1>2

LEMMA SweepLive ==
  ASSUME TypeOK, LedgerInv, Sweep
  PROVE  LiveStep /\ \A j \in Requests : fences'[j].state = "running" => fences'[j] = fences[j]
<1>1. \A j \in Requests : /\ Follows(fences[j], fences'[j])
                          /\ fences'[j].state \in Live => fences'[j] = fences[j]
  BY SweptFollows DEF Sweep, TypeOK, LedgerInv
<1>2. \A L \in disk' : Grown(L) BY <1>1, SaveGrows DEF Sweep
<1> QED BY <1>1, <1>2 DEF LiveStep, Sweep, Open, Live

LEMMA CloseLive ==
  ASSUME TypeOK, LedgerInv, Close
  PROVE  LiveStep /\ \A j \in Requests : fences'[j].state = "running" => Asked(fences'[j]) = {}
<1> DEFINE interrupted == {k \in Requests : fences[k].state \in Live /\ Asked(fences[k]) # {}}
<1>0. \A k \in Requests : fences[k] \in Fence /\ FenceInv(fences[k])
  BY DEF TypeOK, Ledger, LedgerInv
<1>1. /\ fences' = [k \in Requests |-> IF k \in interrupted
                     THEN InterruptApprovalExecution(fences[k]) ELSE fences[k]]
      /\ UNCHANGED disk \/ SaveIgnored(fences')
      /\ phase # "down" /\ phase' # "down"
  BY DEF Close
<1>2. \A k \in interrupted :
        /\ InterruptApprovalExecution(fences[k]).state \in {"failed", "unknown"}
        /\ Follows(fences[k], InterruptApprovalExecution(fences[k]))
  BY <1>0, FollowsInterrupt
<1>3. \A k \in Requests : Follows(fences[k], fences'[k]) BY <1>1, <1>2, SelfFollows
<1>4. \A L \in disk' : Grown(L) BY <1>1, <1>3, SaveGrows
<1>5. ASSUME NEW j \in Requests, fences'[j].state = "running" PROVE Asked(fences'[j]) = {}
  <2>1. j \notin interrupted BY <1>1, <1>2, <1>5
  <2>2. fences'[j] = fences[j] BY <1>1, <2>1
  <2> QED BY <1>5, <2>1, <2>2 DEF Live
<1> QED BY <1>1, <1>3, <1>4, <1>5 DEF LiveStep

-----------------------------------------------------------------------------
(* What follows from a live step, and from a step that leaves the ledgers  *)
(* alone.                                                                  *)

LedgerPart == LedgerInv /\ DownInv /\ ReceiptsDurable /\ StartInv

WorkerPart == ReadyInv /\ ToolInv

Calm == /\ phase = "down" <=> phase' = "down"
        /\ UNCHANGED <<fences, disk, told, starts>>

LEMMA LiveLedger == ASSUME LedgerInv, LiveStep PROVE LedgerInv' /\ DownInv'
<1>1. ASSUME NEW L \in disk' \cup {fences'}, NEW k \in Requests PROVE FenceInv(L[k])
  <2>1. CASE L \in disk BY <2>1 DEF LedgerInv
  <2>2. CASE L \notin disk
    <3>1. Follows(fences[k], L[k]) BY <2>2, <1>1 DEF LiveStep, Grown
    <3> QED BY <3>1 DEF Follows
  <2> QED BY <2>1, <2>2
<1>2. LedgerInv' BY <1>1 DEF LedgerInv
<1>3. DownInv' BY DEF DownInv, LiveStep
<1> QED BY <1>2, <1>3

LEMMA LiveReceipt ==
  ASSUME ReceiptsDurable, LiveStep, NEW k \in Requests, NEW a \in Approvals,
         told[k][a] # "none", NEW L \in disk' \cup {fences'}
  PROVE  L[k].approvals[a].state = "decided" /\ L[k].approvals[a].decision = told[k][a]
<1>1. /\ fences[k].approvals[a].state = "decided"
      /\ fences[k].approvals[a].decision = told[k][a]
  BY DEF ReceiptsDurable, Views, LiveStep
<1>2. CASE L \in disk BY <1>2 DEF ReceiptsDurable, Views
<1>3. CASE L \notin disk
  <2>1. Follows(fences[k], L[k]) BY <1>3 DEF LiveStep, Grown
  <2> QED BY <1>1, <2>1 DEF Follows
<1> QED BY <1>2, <1>3

LEMMA LiveReceipts ==
  ASSUME ReceiptsDurable, LiveStep, UNCHANGED told PROVE ReceiptsDurable'
<1> SUFFICES ASSUME NEW k \in Requests, NEW a \in Approvals, told[k][a] # "none",
                    NEW L \in disk' \cup {fences'}
             PROVE  L[k].approvals[a].state = "decided" /\ L[k].approvals[a].decision = told[k][a]
  BY DEF ReceiptsDurable, Views, LiveStep
<1> QED BY LiveReceipt

LEMMA LiveStart ==
  ASSUME StartInv, LiveStep, UNCHANGED starts PROVE StartInv'
<1> SUFFICES ASSUME NEW k \in Requests, starts[k] = 1
             PROVE  /\ fences'[k].state \notin {"absent", "accepted"}
                    /\ \A L \in disk' : L[k].state # "absent"
  BY DEF StartInv
<1>1. fences[k].state \notin {"absent", "accepted"} BY DEF StartInv, LiveStep
<1>2. fences'[k].state \notin {"absent", "accepted"} BY <1>1 DEF LiveStep, Follows
<1>3. ASSUME NEW L \in disk' PROVE L[k].state # "absent"
  <2>1. CASE L \in disk BY <2>1 DEF StartInv
  <2>2. CASE L \notin disk
    <3>1. Follows(fences[k], L[k]) BY <2>2 DEF LiveStep, Grown
    <3> QED BY <1>1, <3>1 DEF Follows
  <2> QED BY <2>1, <2>2
<1> QED BY <1>2, <1>3

LEMMA LivePart ==
  ASSUME LedgerPart, LiveStep, UNCHANGED <<told, starts>> PROVE LedgerPart'
  BY LiveLedger, LiveReceipts, LiveStart DEF LedgerPart

LEMMA CalmPart == ASSUME LedgerPart, Calm PROVE LedgerPart'
<1>1. LedgerInv' BY DEF LedgerPart, LedgerInv, Calm
<1>2. DownInv' BY DEF LedgerPart, DownInv, Calm
<1>3. ReceiptsDurable' BY DEF LedgerPart, ReceiptsDurable, Views, Calm
<1>4. StartInv' BY DEF LedgerPart, StartInv, Calm
<1> QED BY <1>1, <1>2, <1>3, <1>4 DEF LedgerPart

(* A fence that runs has kept its rows and their waits, or has no row.     *)
LEMMA WaitKept ==
  ASSUME WaitInv,
         phase' # "down" => \A k \in Requests : fences'[k].state = "running" =>
           \/ Asked(fences'[k]) = {}
           \/ /\ phase # "down" /\ fences[k].state = "running"
              /\ \A a \in Asked(fences'[k]) :
                   waits'[k][a] # "none" \/ (a \in Asked(fences[k]) /\ waits'[k][a] = waits[k][a])
  PROVE  WaitInv'
<1> SUFFICES ASSUME phase' # "down", NEW k \in Requests, fences'[k].state = "running",
                    NEW a \in Asked(fences'[k])
             PROVE  waits'[k][a] # "none"
  BY DEF WaitInv, Asked
<1> QED BY DEF WaitInv

LEMMA WaitSame ==
  ASSUME WaitInv, phase' # "down" => phase # "down",
         \A k \in Requests : fences'[k].state = "running" =>
           fences'[k] = fences[k] /\ waits'[k] = waits[k]
  PROVE  WaitInv'
  BY WaitKept

LEMMA WorkersStill ==
  ASSUME WorkerPart, UNCHANGED <<worker, told, toolRuns>> PROVE WorkerPart'
  BY DEF WorkerPart, ReadyInv, ToolInv

(* A worker moves to a step at which it holds neither an approval nor a    *)
(* decision.                                                               *)
LEMMA WorkerFree ==
  ASSUME TypeOK, WorkerPart, NEW k \in Requests, NEW w, w.approval = NoApproval, w.ready = "none",
         worker' = [worker EXCEPT ![k] = w], UNCHANGED <<told, toolRuns>>
  PROVE  WorkerPart'
<1>1. worker'[k] = w /\ \A j \in Requests \ {k} : worker'[j] = worker[j] BY DEF TypeOK
<1>2. ReadyInv' BY <1>1 DEF WorkerPart, ReadyInv
<1>3. ToolInv' BY <1>1, ConstantsAssumption DEF WorkerPart, ToolInv
<1> QED BY <1>2, <1>3 DEF WorkerPart

LEMMA FreeValues ==
  /\ \A o : Finishing(o).approval = NoApproval /\ Finishing(o).ready = "none"
  /\ \A w \in {Idle, Spawned, Executing} : w.approval = NoApproval /\ w.ready = "none"
<1>1. \A o : Finishing(o).approval = NoApproval /\ Finishing(o).ready = "none"
  BY DEF Finishing, Idle
<1>2. \A w \in {Idle, Spawned, Executing} : w.approval = NoApproval /\ w.ready = "none"
  BY DEF Idle, Spawned, Executing
<1> QED BY <1>1, <1>2

LEMMA ReturningFree ==
  ASSUME NEW k \in Requests, NEW o
  PROVE  Returning(k, o).approval = NoApproval /\ Returning(k, o).ready = "none"
  BY FreeValues DEF Returning

(* A worker keeps its approval and its decision.                           *)
LEMMA WorkerKeeps ==
  ASSUME TypeOK, WorkerPart, NEW k \in Requests, NEW w, w.approval = worker[k].approval,
         w.ready = worker[k].ready, worker' = [worker EXCEPT ![k] = w],
         UNCHANGED <<told, toolRuns>>
  PROVE  WorkerPart'
<1>1. worker'[k] = w /\ \A j \in Requests \ {k} : worker'[j] = worker[j] BY DEF TypeOK
<1>2. ReadyInv' BY <1>1 DEF WorkerPart, ReadyInv
<1>3. ToolInv' BY <1>1 DEF WorkerPart, ToolInv
<1> QED BY <1>2, <1>3 DEF WorkerPart

-----------------------------------------------------------------------------
(* The steps of a worker preserve the invariant.                           *)

LEMMA CalmWork ==
  ASSUME Inv, NEW k \in Requests,
         \/ RunFenced(k) \/ Return(k) \/ WakeDone(k) \/ WakeDecided(k) \/ TakeInputs(k)
         \/ StopRejected(k)
  PROVE  DurabilityInv'
<1>0. TypeOK /\ LedgerPart /\ WorkerPart /\ WaitInv
  BY DEF Inv, DurabilityInv, LedgerPart, WorkerPart
<1>1. Calm /\ UNCHANGED <<waits, toolRuns>>
  BY DEF RunFenced, Return, WakeDone, WakeDecided, TakeInputs, StopRejected, Calm, history
<1>2. LedgerPart' BY <1>0, <1>1, CalmPart
<1>3. WaitInv' BY <1>0, <1>1, WaitSame DEF Calm
<1>4. WorkerPart'
  <2>0. UNCHANGED <<told, toolRuns>> BY <1>1 DEF Calm
  <2> SUFFICES ASSUME NEW w, worker' = [worker EXCEPT ![k] = w],
                      \/ w.approval = NoApproval /\ w.ready = "none"
                      \/ w.approval = worker[k].approval /\ w.ready = worker[k].ready
               PROVE  WorkerPart'
    <3>1. worker[k] \in [at : Steps, approval : Approvals \cup {NoApproval},
             ready : Decisions \cup {"none"}, outcome : {"none", "ok", "error", "unknown"}]
      BY <1>0 DEF TypeOK, Worker
    <3>2. \A s : LET w == [worker[k] EXCEPT !.at = s]
                 IN w.approval = worker[k].approval /\ w.ready = worker[k].ready
      BY <3>1
    <3>3. CASE RunFenced(k) BY <3>3, FreeValues DEF RunFenced
    <3>4. CASE Return(k) BY <3>4, ReturningFree DEF Return
    <3>5. CASE WakeDone(k) BY <3>5, FreeValues DEF WakeDone
    <3>6. CASE WakeDecided(k) BY <3>6, <3>2, ReturningFree DEF WakeDecided
    <3>7. CASE TakeInputs(k) BY <3>7, <3>2, ReturningFree DEF TakeInputs
    <3>8. CASE StopRejected(k) BY <3>8, ReturningFree DEF StopRejected
    <3> QED BY <3>3, <3>4, <3>5, <3>6, <3>7, <3>8
  <2> QED BY <1>0, <2>0, WorkerFree, WorkerKeeps
<1> QED BY <1>2, <1>3, <1>4 DEF DurabilityInv, LedgerPart, WorkerPart

LEMMA RunSafe == ASSUME Inv, NEW k \in Requests, Run(k) PROVE DurabilityInv'
<1>0. TypeOK /\ LedgerPart /\ WorkerPart /\ WaitInv
  BY DEF Inv, DurabilityInv, LedgerPart, WorkerPart
<1>1. LiveStep BY <1>0, RunLive DEF LedgerPart
<1>2. LedgerInv' /\ DownInv' /\ ReceiptsDurable'
  BY <1>0, <1>1, LiveLedger, LiveReceipts DEF LedgerPart, Run
<1>3. fences[k] \in Fence /\ Asked(fences[k]) = {} /\ FenceInv(fences[k])
  BY <1>0 DEF TypeOK, Ledger, LedgerPart, LedgerInv, FenceInv, Run
<1>4. /\ fences'[k] = Moved(fences[k], "running")
      /\ \A j \in Requests \ {k} : fences'[j] = fences[j]
  BY <1>0 DEF TypeOK, Ledger, Run
<1>5. fences'[k].state = "running" /\ Asked(fences'[k]) = {}
  BY <1>3, <1>4, MovedEffect DEF States, Live
<1>6. WaitInv' BY <1>0, <1>1, <1>4, <1>5, WaitKept DEF Run, LiveStep
<1>7. WorkerPart' BY <1>0, FreeValues, WorkerFree DEF Run
<1>8. StartInv'
  <2>1. CASE UNCHANGED starts BY <2>1, <1>0, <1>1, LiveStart DEF LedgerPart
  <2>2. CASE Saved(fences') /\ starts' = [starts EXCEPT ![k] = @ + 1]
    <3>1. starts[k] = 0
      <4>1. starts[k] \in Nat BY <1>0 DEF TypeOK
      <4>2. starts[k] # 1 BY <1>0, <1>1 DEF LedgerPart, StartInv, Run, LiveStep
      <4> QED BY <1>0, <4>1, <4>2 DEF LedgerPart, StartInv
    <3>2. starts'[k] = 1 /\ \A j \in Requests \ {k} : starts'[j] = starts[j]
      BY <1>0, <2>2, <3>1 DEF TypeOK
    <3>3. disk' = {fences'} BY <2>2 DEF Saved
    <3>4. \A j \in Requests : starts'[j] = 1 => fences'[j].state \notin {"absent", "accepted"}
      BY <1>0, <1>1, <1>4, <1>5, <3>2 DEF LedgerPart, StartInv, LiveStep
    <3> QED BY <1>0, <3>2, <3>3, <3>4 DEF LedgerPart, StartInv
  <2> QED BY <2>1, <2>2 DEF Run
<1> QED BY <1>2, <1>6, <1>7, <1>8 DEF DurabilityInv, WorkerPart

LEMMA FinishSafe == ASSUME Inv, NEW k \in Requests, Finish(k) PROVE DurabilityInv'
<1>0. TypeOK /\ LedgerPart /\ WorkerPart /\ WaitInv
  BY DEF Inv, DurabilityInv, LedgerPart, WorkerPart
<1>1. WorkerPart' BY <1>0, FreeValues, WorkerFree DEF Finish, history
<1>2. /\ waits'[k] = NoWaits /\ \A j \in Requests \ {k} : waits'[j] = waits[j]
      /\ phase' = phase /\ UNCHANGED <<told, starts>>
  BY <1>0 DEF Finish, TypeOK, history
<1>3. CASE ~StillRunning(k)
  <2>1. UNCHANGED <<fences, disk>>
    BY <1>3 DEF Finish, FinishFenced, FinishInterrupted
  <2>2. LedgerPart' BY <1>0, <1>2, <2>1, CalmPart DEF Calm
  <2>3. WaitInv' BY <1>0, <1>2, <1>3, <2>1, WaitSame DEF StillRunning
  <2> QED BY <1>1, <2>2, <2>3 DEF DurabilityInv, LedgerPart, WorkerPart
<1>4. CASE StillRunning(k)
  <2>1. /\ LiveStep /\ fences'[k].state # "running"
        /\ \A j \in Requests \ {k} : fences'[j] = fences[j]
    BY <1>0, <1>4, FinishLive DEF LedgerPart, Live
  <2>2. LedgerPart' BY <1>0, <1>2, <2>1, LivePart
  <2>3. WaitInv' BY <1>0, <1>2, <2>1, WaitSame
  <2> QED BY <1>1, <2>2, <2>3 DEF DurabilityInv, LedgerPart, WorkerPart
<1> QED BY <1>3, <1>4

LEMMA RunToolSafe == ASSUME Inv, NEW k \in Requests, RunTool(k) PROVE DurabilityInv'
<1>0. TypeOK /\ LedgerPart /\ WorkerPart /\ WaitInv
  BY DEF Inv, DurabilityInv, LedgerPart, WorkerPart
<1> DEFINE a == worker[k].approval
<1>1. a \in Approvals /\ told[k][a] = "approve" /\ toolRuns[k][a] = 0
  BY <1>0 DEF WorkerPart, ReadyInv, ToolInv, RunTool
<1>2. Calm /\ UNCHANGED waits BY DEF RunTool, Calm
<1>3. LedgerPart' BY <1>0, <1>2, CalmPart
<1>4. WaitInv' BY <1>0, <1>2, WaitSame DEF Calm
<1>5. PICK w \in {Executing, Finishing("error"), Finishing("unknown")} : worker' = [worker EXCEPT ![k] = w]
  BY DEF RunTool
<1>6. w.approval = NoApproval /\ w.ready = "none" BY FreeValues
<1>7. worker'[k] = w /\ \A j \in Requests \ {k} : worker'[j] = worker[j]
  BY <1>0, <1>5 DEF TypeOK
<1>8. ReadyInv' BY <1>0, <1>2, <1>6, <1>7 DEF WorkerPart, ReadyInv, Calm
<1>9. /\ toolRuns'[k][a] = 1
      /\ \A j \in Requests, b \in Approvals :
           j # k \/ b # a => toolRuns'[j][b] = toolRuns[j][b]
  BY <1>0, <1>1 DEF TypeOK, RunTool
<1>10. ToolInv'
  <2>1. UNCHANGED told BY <1>2 DEF Calm
  <2> SUFFICES ASSUME NEW j \in Requests, NEW b \in Approvals
               PROVE  /\ toolRuns'[j][b] <= 1
                      /\ toolRuns'[j][b] > 0 => told[j][b] = "approve"
                      /\ worker'[j].approval = b => toolRuns'[j][b] = 0
    BY <2>1 DEF ToolInv
  <2>2. CASE j = k /\ b = a
    BY <1>1, <1>6, <1>7, <1>9, <2>2, ConstantsAssumption
  <2>3. CASE j # k
    BY <1>0, <1>7, <1>9, <2>3 DEF WorkerPart, ToolInv
  <2>4. CASE j = k /\ b # a
    BY <1>0, <1>6, <1>7, <1>9, <2>4, ConstantsAssumption DEF WorkerPart, ToolInv
  <2> HIDE DEF a
  <2> QED BY <2>2, <2>3, <2>4
<1> QED BY <1>3, <1>4, <1>8, <1>10 DEF DurabilityInv, LedgerPart

LEMMA AwaitSafe ==
  ASSUME Inv, NEW k \in Requests, NEW a \in Approvals, AwaitApproval(k, a)
  PROVE  DurabilityInv'
<1>0. TypeOK /\ LedgerPart /\ WorkerPart /\ WaitInv
  BY DEF Inv, DurabilityInv, LedgerPart, WorkerPart
<1>1. /\ LiveStep /\ a \notin Asked(fences[k])
      /\ \/ /\ worker' = [worker EXCEPT ![k] = [Idle EXCEPT !.at = "waiting", !.approval = a]]
            /\ waits' = [waits EXCEPT ![k][a] = "waiting"]
            /\ fences' = [fences EXCEPT ![k] = Await(fences[k], a)]
            /\ Asked(fences'[k]) = Asked(fences[k]) \cup {a}
         \/ /\ worker' = [worker EXCEPT ![k] = Finishing("unknown")]
            /\ fences'[k].state = "unknown"
            /\ waits' = [waits EXCEPT ![k] = NoWaits]
      /\ \A j \in Requests \ {k} : fences'[j] = fences[j]
  BY <1>0, AwaitLive DEF LedgerPart
<1>2. UNCHANGED <<told, starts, toolRuns>> BY DEF AwaitApproval, history
<1>3. LedgerPart' BY <1>0, <1>1, <1>2, LivePart
<1>4. toolRuns[k][a] = 0
  <2>1. fences[k].approvals[a].state # "decided" BY <1>1 DEF Asked
  <2>2. told[k][a] = "none"
    BY <1>0, <1>1, <2>1 DEF LedgerPart, ReceiptsDurable, Views, LiveStep
  <2>3. toolRuns[k][a] \in Nat BY <1>0 DEF TypeOK
  <2> QED BY <1>0, <2>2, <2>3 DEF WorkerPart, ToolInv
<1>5. CASE /\ worker' = [worker EXCEPT ![k] = Finishing("unknown")]
           /\ fences'[k].state = "unknown"
           /\ waits' = [waits EXCEPT ![k] = NoWaits]
  <2>1. WorkerPart' BY <1>0, <1>2, <1>5, FreeValues, WorkerFree
  <2>2. \A j \in Requests \ {k} : waits'[j] = waits[j] BY <1>0, <1>5 DEF TypeOK
  <2>3. WaitInv' BY <1>0, <1>1, <1>5, <2>2, WaitSame DEF LiveStep
  <2> QED BY <1>3, <2>1, <2>3 DEF DurabilityInv, LedgerPart, WorkerPart
<1>6. CASE /\ worker' = [worker EXCEPT ![k] = [Idle EXCEPT !.at = "waiting", !.approval = a]]
           /\ waits' = [waits EXCEPT ![k][a] = "waiting"]
           /\ Asked(fences'[k]) = Asked(fences[k]) \cup {a}
  <2>1. PICK w : w = [Idle EXCEPT !.at = "waiting", !.approval = a] OBVIOUS
  <2>2. w.approval = a /\ w.ready = "none" BY <2>1 DEF Idle
  <2>3. worker'[k] = w /\ \A j \in Requests \ {k} : worker'[j] = worker[j]
    BY <1>0, <1>6, <2>1 DEF TypeOK
  <2>4. ReadyInv' BY <1>0, <1>2, <2>2, <2>3 DEF WorkerPart, ReadyInv
  <2>5. ToolInv' BY <1>0, <1>2, <1>4, <2>2, <2>3 DEF WorkerPart, ToolInv
  <2>6. /\ waits'[k][a] = "waiting"
        /\ \A b \in Approvals \ {a} : waits'[k][b] = waits[k][b]
        /\ \A j \in Requests \ {k} : waits'[j] = waits[j]
    BY <1>0, <1>6 DEF TypeOK
  <2>7. fences[k].state = "running" BY DEF AwaitApproval, MayAsk
  <2>8. WaitInv'
    <3>1. \A b \in Asked(fences'[k]) :
            waits'[k][b] # "none" \/ (b \in Asked(fences[k]) /\ waits'[k][b] = waits[k][b])
      BY <1>6, <2>6 DEF Asked
    <3>2. \A j \in Requests \ {k} : fences'[j].state = "running" =>
            /\ fences[j].state = "running"
            /\ \A b \in Asked(fences'[j]) : b \in Asked(fences[j]) /\ waits'[j][b] = waits[j][b]
      BY <1>1, <2>6
    <3> QED BY <1>0, <1>1, <2>7, <3>1, <3>2, WaitKept DEF LiveStep
  <2> QED BY <1>3, <2>4, <2>5, <2>8 DEF DurabilityInv, LedgerPart
<1> QED BY <1>1, <1>5, <1>6

-----------------------------------------------------------------------------
(* The calls of the owner and of the client preserve the invariant.        *)

LEMMA DecideSafe ==
  ASSUME Inv, NEW k \in Requests, NEW a \in Approvals, NEW d \in Decisions, DecideApproval(k, a, d)
  PROVE  DurabilityInv'
<1>0. TypeOK /\ LedgerPart /\ WorkerPart /\ WaitInv
  BY DEF Inv, DurabilityInv, LedgerPart, WorkerPart
<1>1. /\ LiveStep /\ a \in Pending(fences[k])
      /\ \/ DecisionSaved(k, a, d) /\ Asked(fences'[k]) = Asked(fences[k])
         \/ DecisionUnsaved(k, a, d) /\ fences'[k].state = "unknown"
      /\ \A j \in Requests \ {k} : fences'[j] = fences[j]
  BY <1>0, DecideLive DEF LedgerPart
<1>2. UNCHANGED <<starts, toolRuns>> /\ fences[k].state = "running" BY DEF DecideApproval
<1>3. CASE DecisionUnsaved(k, a, d) /\ fences'[k].state = "unknown"
  <2>1. UNCHANGED <<told, worker>> /\ waits' = [waits EXCEPT ![k] = NoWaits]
    BY <1>3 DEF DecisionUnsaved
  <2>2. LedgerPart' BY <1>0, <1>1, <1>2, <2>1, LivePart
  <2>3. WorkerPart' BY <1>0, <1>2, <2>1, WorkersStill
  <2>4. \A j \in Requests \ {k} : waits'[j] = waits[j] BY <1>0, <2>1 DEF TypeOK
  <2>5. WaitInv' BY <1>0, <1>1, <1>3, <2>4, WaitSame DEF LiveStep
  <2> QED BY <2>2, <2>3, <2>5 DEF DurabilityInv, LedgerPart, WorkerPart
<1>4. CASE DecisionSaved(k, a, d) /\ Asked(fences'[k]) = Asked(fences[k])
  <2>1. LedgerInv' /\ DownInv' /\ StartInv'
    BY <1>0, <1>1, <1>2, LiveLedger, LiveStart DEF LedgerPart
  <2>2. /\ told'[k][a] = d
        /\ \A j \in Requests, b \in Approvals : j # k \/ b # a => told'[j][b] = told[j][b]
    BY <1>0, <1>4 DEF DecisionSaved, TypeOK
  <2>3. told[k][a] = "none"
    <3>1. fences[k].approvals[a].state # "decided" BY <1>1 DEF Pending
    <3> QED BY <1>0, <1>1, <3>1 DEF LedgerPart, ReceiptsDurable, Views, LiveStep
  <2>4. disk' = {fences'} BY <1>4 DEF DecisionSaved, Saved
  <2>5. fences'[k].approvals[a].state = "decided" /\ fences'[k].approvals[a].decision = d
    <3>1. fences[k] \in Fence BY <1>0 DEF TypeOK, Ledger
    <3>2. fences'[k] = Decided(fences[k], a, d)
      BY <1>0, <1>4 DEF DecisionSaved, TypeOK, Ledger
    <3> QED BY <3>1, <3>2 DEF Decided, Fence, Row
  <2>6. ReceiptsDurable'
    <3> SUFFICES ASSUME NEW j \in Requests, NEW b \in Approvals, told'[j][b] # "none"
                 PROVE  /\ fences'[j].approvals[b].state = "decided"
                        /\ fences'[j].approvals[b].decision = told'[j][b]
      BY <2>4 DEF ReceiptsDurable, Views
    <3>1. CASE j = k /\ b = a BY <3>1, <2>2, <2>5
    <3>2. CASE j # k \/ b # a BY <1>0, <1>1, <2>2, <3>2, LiveReceipt DEF LedgerPart
    <3> QED BY <3>1, <3>2
  <2>7. /\ \A j \in Requests \ {k} : worker'[j] = worker[j]
        /\ worker'[k].approval = worker[k].approval
        /\ \/ worker'[k].ready = worker[k].ready
           \/ worker[k].approval = a /\ worker'[k].ready = d
    <3>1. worker \in [Requests -> [at : Steps, approval : Approvals \cup {NoApproval},
             ready : Decisions \cup {"none"}, outcome : {"none", "ok", "error", "unknown"}]]
      BY <1>0 DEF TypeOK, Worker
    <3> QED BY <1>4, <3>1 DEF DecisionSaved, Deliver
  <2>8. ReadyInv'
    <3> SUFFICES ASSUME NEW j \in Requests, worker'[j].ready # "none"
                 PROVE  /\ worker'[j].approval \in Approvals
                        /\ told'[j][worker'[j].approval] = worker'[j].ready
      BY DEF ReadyInv
    <3>1. CASE worker'[j].ready = worker[j].ready /\ worker'[j].approval = worker[j].approval
      <4>1. /\ worker[j].approval \in Approvals
            /\ told[j][worker[j].approval] = worker[j].ready
        BY <1>0, <3>1 DEF WorkerPart, ReadyInv
      <4> QED BY <2>2, <2>3, <3>1, <4>1
    <3>2. CASE j = k /\ worker[k].approval = a /\ worker'[k].ready = d
      BY <2>2, <2>7, <3>2
    <3> QED BY <2>7, <3>1, <3>2
  <2>9. ToolInv'
    <3> SUFFICES ASSUME NEW j \in Requests, NEW b \in Approvals
                 PROVE  /\ toolRuns[j][b] <= 1
                        /\ toolRuns[j][b] > 0 => told'[j][b] = "approve"
                        /\ worker[j].approval = b => toolRuns[j][b] = 0
      BY <1>2, <2>7 DEF ToolInv
    <3>1. /\ toolRuns[j][b] <= 1
          /\ toolRuns[j][b] > 0 => told[j][b] = "approve"
          /\ worker[j].approval = b => toolRuns[j][b] = 0
      BY <1>0 DEF WorkerPart, ToolInv
    <3>2. CASE j = k /\ b = a BY <2>3, <3>1, <3>2
    <3>3. CASE j # k \/ b # a BY <2>2, <3>1, <3>3
    <3> QED BY <3>2, <3>3
  <2>10. WaitInv'
    <3>1. waits' = [waits EXCEPT ![k][a] = d] BY <1>4 DEF DecisionSaved
    <3>2. /\ waits'[k][a] = d
          /\ \A b \in Approvals \ {a} : waits'[k][b] = waits[k][b]
          /\ \A j \in Requests \ {k} : waits'[j] = waits[j]
      BY <1>0, <3>1 DEF TypeOK
    <3>3. \A b \in Asked(fences'[k]) :
            waits'[k][b] # "none" \/ (b \in Asked(fences[k]) /\ waits'[k][b] = waits[k][b])
      BY <1>4, <3>2 DEF Asked, Decisions
    <3>4. \A j \in Requests \ {k} : fences'[j].state = "running" =>
            /\ fences[j].state = "running"
            /\ \A b \in Asked(fences'[j]) : b \in Asked(fences[j]) /\ waits'[j][b] = waits[j][b]
      BY <1>1, <3>2
    <3> QED BY <1>0, <1>1, <1>2, <3>3, <3>4, WaitKept DEF LiveStep
  <2> QED BY <2>1, <2>6, <2>8, <2>9, <2>10 DEF DurabilityInv
<1> QED BY <1>1, <1>3, <1>4

(* The live calls that leave the workers alone.                            *)
LEMMA CallSafe ==
  ASSUME Inv, NEW k \in Requests,
         \/ Upload(k) \/ Cancel(k) \/ AckAgain(k)
         \/ \E b \in BOOLEAN : Submit(k, b) \/ AckWithClientAction(k, b)
  PROVE  DurabilityInv'
<1>0. TypeOK /\ LedgerPart /\ WorkerPart /\ WaitInv
  BY DEF Inv, DurabilityInv, LedgerPart, WorkerPart
<1>1. CASE Upload(k) \/ AckAgain(k)
  <2>1. Calm /\ UNCHANGED <<waits, worker, told, toolRuns>>
    BY <1>1 DEF Upload, AckAgain, Calm, process, history
  <2>2. LedgerPart' BY <1>0, <2>1, CalmPart
  <2>3. WorkerPart' BY <1>0, <2>1, WorkersStill
  <2>4. WaitInv' BY <1>0, <2>1, WaitSame DEF Calm
  <2> QED BY <2>2, <2>3, <2>4 DEF DurabilityInv, LedgerPart, WorkerPart
<1>2. CASE Cancel(k)
  <2>1. /\ LiveStep /\ fences'[k].state = "unknown"
        /\ \A j \in Requests \ {k} : fences'[j] = fences[j]
    BY <1>0, <1>2, CancelLive DEF LedgerPart
  <2>2. UNCHANGED <<worker, told, starts, toolRuns>> /\ waits' = [waits EXCEPT ![k] = NoWaits]
    BY <1>2 DEF Cancel, history
  <2>3. \A j \in Requests \ {k} : waits'[j] = waits[j] BY <1>0, <2>2 DEF TypeOK
  <2>4. WaitInv' BY <1>0, <2>1, <2>3, WaitSame DEF LiveStep
  <2>5. LedgerPart' BY <1>0, <2>1, <2>2, LivePart
  <2>6. WorkerPart' BY <1>0, <2>2, WorkersStill
  <2> QED BY <2>4, <2>5, <2>6 DEF DurabilityInv, LedgerPart, WorkerPart
<1>3. CASE \E b \in BOOLEAN : AckWithClientAction(k, b)
  <2>1. /\ LiveStep
        /\ \A j \in Requests : fences'[j].state = "running" => fences'[j] = fences[j]
    BY <1>0, <1>3, AckLive DEF LedgerPart
  <2>2. UNCHANGED <<waits, worker, told, starts, toolRuns>>
    BY <1>3 DEF AckWithClientAction, process, history
  <2>3. WaitInv' BY <1>0, <2>1, <2>2, WaitSame DEF LiveStep
  <2>4. LedgerPart' BY <1>0, <2>1, <2>2, LivePart
  <2>5. WorkerPart' BY <1>0, <2>2, WorkersStill
  <2> QED BY <2>3, <2>4, <2>5 DEF DurabilityInv, LedgerPart, WorkerPart
<1>4. CASE \E b \in BOOLEAN : Submit(k, b)
  <2>1. /\ LiveStep
        /\ \/ UNCHANGED <<fences, worker>>
           \/ /\ fences'[k].state = "accepted" /\ fences[k].state = "absent"
              /\ worker' = [worker EXCEPT ![k] = Spawned]
              /\ \A j \in Requests \ {k} : fences'[j] = fences[j]
    BY <1>0, <1>4, SubmitLive DEF LedgerPart
  <2>2. UNCHANGED <<waits, told, starts, toolRuns>> BY <1>4 DEF Submit, history
  <2>3. WaitInv' BY <1>0, <2>1, <2>2, WaitSame DEF LiveStep
  <2>4. LedgerPart' BY <1>0, <2>1, <2>2, LivePart
  <2>5. WorkerPart' BY <1>0, <2>1, <2>2, FreeValues, WorkerFree, WorkersStill
  <2> QED BY <2>3, <2>4, <2>5 DEF DurabilityInv, LedgerPart, WorkerPart
<1> QED BY <1>1, <1>2, <1>3, <1>4

LEMMA RevokeSafe ==
  ASSUME Inv, NEW c \in Clients, RevokeWorkbenchClient(c) PROVE DurabilityInv'
<1>0. TypeOK /\ LedgerPart /\ WorkerPart /\ WaitInv
  BY DEF Inv, DurabilityInv, LedgerPart, WorkerPart
<1>1. LiveStep /\ \A j \in Requests :
        fences'[j].state = "unknown" \/ (fences'[j] = fences[j] /\ waits'[j] = waits[j])
  BY <1>0, RevokeLive DEF LedgerPart
<1>2. UNCHANGED <<worker, told, starts, toolRuns>> BY DEF RevokeWorkbenchClient, history
<1>3. WaitInv' BY <1>0, <1>1, WaitSame DEF LiveStep
<1>4. LedgerPart' BY <1>0, <1>1, <1>2, LivePart
<1>5. WorkerPart' BY <1>0, <1>2, WorkersStill
<1> QED BY <1>3, <1>4, <1>5 DEF DurabilityInv, LedgerPart, WorkerPart

-----------------------------------------------------------------------------
(* Time, housekeeping and shutdown preserve the invariant.                 *)

LEMMA QuietSafe ==
  ASSUME Inv, BeginShutdown \/ \E k \in Requests : Tick(k) PROVE DurabilityInv'
<1>0. TypeOK /\ LedgerPart /\ WorkerPart /\ WaitInv
  BY DEF Inv, DurabilityInv, LedgerPart, WorkerPart
<1>1. Calm /\ UNCHANGED <<waits, worker, told, toolRuns>>
  BY DEF BeginShutdown, Tick, DeadlinePasses, ContextDeadline, RetentionPasses, StageAges, Calm,
         process, history
<1>2. LedgerPart' BY <1>0, <1>1, CalmPart
<1>3. WorkerPart' BY <1>0, <1>1, WorkersStill
<1>4. WaitInv' BY <1>0, <1>1, WaitSame DEF Calm
<1> QED BY <1>2, <1>3, <1>4 DEF DurabilityInv, LedgerPart, WorkerPart

LEMMA HouseSafe == ASSUME Inv, Sweep \/ Close PROVE DurabilityInv'
<1>0. TypeOK /\ LedgerPart /\ WorkerPart /\ WaitInv
  BY DEF Inv, DurabilityInv, LedgerPart, WorkerPart
<1>1. LiveStep /\ UNCHANGED <<worker, told, starts, toolRuns>>
  BY <1>0, SweepLive, CloseLive DEF LedgerPart, Sweep, Close, history
<1>2. LedgerPart' BY <1>0, <1>1, LivePart
<1>3. WorkerPart' BY <1>0, <1>1, WorkersStill
<1>4. WaitInv'
  <2>1. CASE Sweep
    <3>1. \A j \in Requests : fences'[j].state = "running" => fences'[j] = fences[j]
      BY <1>0, <2>1, SweepLive DEF LedgerPart
    <3> QED BY <1>0, <1>1, <2>1, <3>1, WaitSame DEF LiveStep, Sweep
  <2>2. CASE Close
    <3>1. \A j \in Requests : fences'[j].state = "running" => Asked(fences'[j]) = {}
      BY <1>0, <2>2, CloseLive DEF LedgerPart
    <3> QED BY <1>0, <3>1, WaitKept
  <2> QED BY <2>1, <2>2
<1> QED BY <1>2, <1>3, <1>4 DEF DurabilityInv, LedgerPart, WorkerPart

-----------------------------------------------------------------------------
(* The end of a process, and the next one.                                 *)

LEMMA NoFenceInv == FenceInv(NoFence)
<1>1. /\ NoFence.state = "absent" /\ NoFence.reason = "none" /\ NoFence.revision = 0
      /\ \A a \in Approvals : NoFence.approvals[a].state = "absent"
  BY DEF NoFence, NoRecord
<1>2. Asked(NoFence) = {} BY <1>1 DEF Asked
<1> QED BY <1>1, <1>2, FS_EmptySet DEF FenceInv

LEMMA EmptyFences == \A k \in Requests : EmptyLedger[k] = NoFence
  BY DEF EmptyLedger

LEMMA StopSafe == ASSUME Inv, Stop PROVE DurabilityInv'
<1>0. TypeOK /\ LedgerPart /\ WorkerPart
  BY DEF Inv, DurabilityInv, LedgerPart, WorkerPart
<1>1. /\ phase' = "down" /\ fences' = EmptyLedger
      /\ worker' = [k \in Requests |-> Idle]
      /\ UNCHANGED <<disk, told, starts, toolRuns>>
  BY DEF Stop, history
<1>2. LedgerInv' BY <1>0, <1>1, NoFenceInv, EmptyFences DEF LedgerPart, LedgerInv
<1>3. DownInv' /\ WaitInv' BY <1>1 DEF DownInv, WaitInv
<1>4. ReceiptsDurable' BY <1>0, <1>1 DEF LedgerPart, ReceiptsDurable, Views
<1>5. StartInv' BY <1>0, <1>1 DEF LedgerPart, StartInv
<1>6. \A k \in Requests : worker'[k].ready = "none" /\ worker'[k].approval = NoApproval
  BY <1>1 DEF Idle
<1>7. ReadyInv' BY <1>6 DEF ReadyInv
<1>8. ToolInv' BY <1>0, <1>1, <1>6, ConstantsAssumption DEF WorkerPart, ToolInv
<1> QED BY <1>2, <1>3, <1>4, <1>5, <1>7, <1>8 DEF DurabilityInv

(* What a new process makes of a ledger: nothing live is left.             *)
LEMMA LoadedFollows ==
  ASSUME NEW L \in Ledger, \A k \in Requests : FenceInv(L[k])
  PROVE  \A k \in Requests : /\ Follows(L[k], Swept(Recovered(L))[k])
                             /\ Swept(Recovered(L))[k].state \notin Live
<1> DEFINE R == Recovered(L)
<1>1. R \in Ledger BY RecoveredType
<1>2. ASSUME NEW k \in Requests
      PROVE  /\ Follows(L[k], R[k]) /\ R[k].state \notin Live
             /\ R[k] = L[k] \/ R[k].state # "completed"
  <2>1. L[k] \in Fence /\ FenceInv(L[k]) BY DEF Ledger
  <2>2. CASE L[k].state \in Live
    <3>1. R[k] = InterruptApprovalExecution(L[k]) BY <2>2 DEF Recovered
    <3> QED BY <2>1, <2>2, <3>1, FollowsInterrupt DEF Live
  <2>3. CASE L[k].state \notin Live
    <3>1. R[k] = L[k] BY <2>3 DEF Recovered
    <3> QED BY <2>1, <2>3, <3>1, FollowsSelf
  <2> QED BY <2>2, <2>3
<1> HIDE DEF R
<1>3. \A k \in Requests : FenceInv(R[k]) BY <1>2 DEF Follows
<1>4. \A k \in Requests : /\ Follows(R[k], Swept(R)[k])
                          /\ Swept(R)[k].state \in Live => Swept(R)[k] = R[k]
  BY <1>1, <1>3, SweptFollows
<1>5. ASSUME NEW k \in Requests
      PROVE  Follows(L[k], Swept(R)[k]) /\ Swept(R)[k].state \notin Live
  <2>1. R[k].state # "completed" => Swept(R)[k] = R[k] BY DEF Swept
  <2>2. Follows(L[k], Swept(R)[k]) BY <1>2, <1>4, <2>1
  <2> QED BY <1>2, <1>4, <2>2
<1> QED BY <1>5 DEF R

LEMMA NewSafe == ASSUME Inv, New PROVE DurabilityInv'
<1>0. TypeOK /\ LedgerPart /\ WorkerPart
  BY DEF Inv, DurabilityInv, LedgerPart, WorkerPart
<1>1. PICK L \in disk :
        LET loaded == Swept(Recovered(L)) IN
          \/ phase' = "up" /\ fences' = loaded /\ Saved(loaded)
          \/ UNCHANGED <<phase, fences>> /\ disk' \subseteq {L, loaded}
  BY DEF New
<1>2. phase = "down" /\ UNCHANGED <<worker, told, starts, toolRuns>>
  BY DEF New, process, history
<1>3. PICK M : M = Swept(Recovered(L)) OBVIOUS
<1>4. L \in Ledger /\ \A k \in Requests : FenceInv(L[k])
  BY <1>0 DEF TypeOK, LedgerPart, LedgerInv
<1>5. \A k \in Requests : Follows(L[k], M[k]) /\ M[k].state \notin Live
  BY <1>3, <1>4, LoadedFollows
<1>6. disk' \subseteq {L, M} /\ (fences' = M \/ (fences' = fences /\ phase' = phase))
  BY <1>1, <1>3 DEF Saved
<1>7. LedgerInv'
  BY <1>0, <1>4, <1>5, <1>6 DEF LedgerPart, LedgerInv, Follows
<1>8. DownInv' BY <1>0, <1>1, <1>2 DEF LedgerPart, DownInv
<1>9. \A k \in Requests : phase' # "down" => fences'[k].state \notin Live
  BY <1>1, <1>2, <1>3, <1>5
<1>10. WaitInv' BY <1>9 DEF WaitInv, Live
<1>11. ReceiptsDurable'
  <2> SUFFICES ASSUME NEW k \in Requests, NEW a \in Approvals, told[k][a] # "none",
                      NEW N \in {L, M}
               PROVE  N[k].approvals[a].state = "decided" /\ N[k].approvals[a].decision = told[k][a]
    BY <1>1, <1>2, <1>3, <1>6 DEF ReceiptsDurable, Views
  <2>1. L[k].approvals[a].state = "decided" /\ L[k].approvals[a].decision = told[k][a]
    BY <1>0, <1>1 DEF LedgerPart, ReceiptsDurable, Views
  <2> QED BY <1>5, <2>1 DEF Follows
<1>12. StartInv'
  <2> SUFFICES ASSUME NEW k \in Requests, starts[k] = 1
               PROVE  /\ phase' # "down" => fences'[k].state \notin {"absent", "accepted"}
                      /\ \A N \in {L, M} : N[k].state # "absent"
    BY <1>0, <1>2, <1>6 DEF LedgerPart, StartInv
  <2>1. L[k].state # "absent" BY <1>0 DEF LedgerPart, StartInv
  <2>2. M[k].state \notin {"absent", "accepted"} BY <1>5, <2>1 DEF Follows, Live
  <2> QED BY <1>1, <1>2, <1>3, <2>1, <2>2
<1>13. WorkerPart' BY <1>0, <1>2, WorkersStill
<1> QED BY <1>7, <1>8, <1>10, <1>11, <1>12, <1>13 DEF DurabilityInv, WorkerPart

-----------------------------------------------------------------------------
(* The theorems.                                                           *)

LEMMA InvInit == ASSUME Init PROVE Inv
<1>1. TypeOK BY TypeInit
<1>2. \A L \in disk \cup {fences} : \A k \in Requests : L[k] = NoFence
  BY EmptyFences DEF Init
<1>3. LedgerInv BY <1>2, NoFenceInv DEF LedgerInv
<1>4. DownInv /\ WaitInv
  BY <1>2 DEF Init, DownInv, WaitInv, NoFence
<1>5. ReceiptsDurable BY DEF Init, ReceiptsDurable, NoWaits
<1>6. ReadyInv /\ ToolInv
  BY ConstantsAssumption DEF Init, ReadyInv, ToolInv, Idle
<1>7. StartInv BY DEF Init, StartInv
<1> QED BY <1>1, <1>3, <1>4, <1>5, <1>6, <1>7 DEF Inv, DurabilityInv

LEMMA InvStill == ASSUME Inv, UNCHANGED vars PROVE DurabilityInv'
<1>0. TypeOK /\ LedgerPart /\ WorkerPart /\ WaitInv
  BY DEF Inv, DurabilityInv, LedgerPart, WorkerPart
<1>1. Calm /\ UNCHANGED <<waits, worker, told, toolRuns>>
  BY DEF vars, process, history, Calm
<1>2. LedgerPart' BY <1>0, <1>1, CalmPart
<1>3. WorkerPart' BY <1>0, <1>1, WorkersStill
<1>4. WaitInv' BY <1>0, <1>1, WaitSame DEF Calm
<1> QED BY <1>2, <1>3, <1>4 DEF DurabilityInv, LedgerPart, WorkerPart

LEMMA InvNext == ASSUME Inv, [Next]_vars PROVE Inv'
<1>1. TypeOK' BY TypeNext DEF Inv
<1>2. DurabilityInv'
  <2>1. ASSUME NEW k \in Requests, Work(k) PROVE DurabilityInv'
    BY <2>1, CalmWork, RunSafe, FinishSafe, RunToolSafe, AwaitSafe DEF Work
  <2>2. ASSUME NEW k \in Requests, Call(k) PROVE DurabilityInv'
    BY <2>2, CallSafe, DecideSafe DEF Call
  <2>3. ASSUME NEW k \in Requests, Tick(k) PROVE DurabilityInv'
    BY <2>3, QuietSafe
  <2>4. ASSUME NEW c \in Clients, RevokeWorkbenchClient(c) PROVE DurabilityInv'
    BY <2>4, RevokeSafe
  <2>5. CASE Sweep \/ Close BY <2>5, HouseSafe
  <2>6. CASE BeginShutdown BY <2>6, QuietSafe
  <2>7. CASE Exit \/ Crash BY <2>7, StopSafe DEF Exit, Crash
  <2>8. CASE New BY <2>8, NewSafe
  <2>9. CASE UNCHANGED vars BY <2>9, InvStill
  <2> QED BY <2>1, <2>2, <2>3, <2>4, <2>5, <2>6, <2>7, <2>8, <2>9 DEF Next
<1> QED BY <1>1, <1>2 DEF Inv

(* The inductive invariant holds in every reachable state.                 *)
THEOREM Durability == Spec => [](TypeOK /\ DurabilityInv)
<1>1. Init => Inv BY InvInit
<1>2. Inv /\ [Next]_vars => Inv' BY InvNext
<1>3. Inv => TypeOK /\ DurabilityInv BY DEF Inv
<1> QED BY <1>1, <1>2, <1>3, PTL DEF Spec

(* The executor of a request is entered at most once, whatever saves fail  *)
(* and however often the gateway restarts.                                 *)
THEOREM RunsOnce == Spec => []RunsAtMostOnce
<1>1. TypeOK /\ DurabilityInv => RunsAtMostOnce
  BY DEF DurabilityInv, StartInv, RunsAtMostOnce
<1> QED BY <1>1, Durability, PTL

(* The tool of an approval starts at most once.                            *)
THEOREM ToolsOnce == Spec => []ToolRunsAtMostOnce
<1>1. TypeOK /\ DurabilityInv => ToolRunsAtMostOnce
  BY DEF DurabilityInv, ToolInv, ToolRunsAtMostOnce
<1> QED BY <1>1, Durability, PTL

(* No ledger that can be read lacks the approval of a tool that started.   *)
THEOREM ToolsApproved == Spec => []ToolNeedsDurableApproval
<1>1. ASSUME TypeOK, DurabilityInv PROVE ToolNeedsDurableApproval
  <2> SUFFICES ASSUME NEW k \in Requests, NEW a \in Approvals, toolRuns[k][a] > 0, NEW L \in Views
               PROVE  L[k].approvals[a].state = "decided" /\ L[k].approvals[a].decision = "approve"
    BY DEF ToolNeedsDurableApproval
  <2>1. told[k][a] = "approve" BY <1>1 DEF DurabilityInv, ToolInv
  <2> QED BY <1>1, <2>1 DEF DurabilityInv, ReceiptsDurable
<1> QED BY <1>1, Durability, PTL

(* A decision confirmed to the owner is in every ledger that can be read.  *)
THEOREM ReceiptsSurvive == Spec => []ReceiptsDurable
<1>1. TypeOK /\ DurabilityInv => ReceiptsDurable BY DEF DurabilityInv
<1> QED BY <1>1, Durability, PTL

(* "failed, awaiting approval" is said only of a request no tool of which  *)
(* was started.                                                            *)
THEOREM ReasonsTrue == Spec => []ReasonHonest
<1>1. ASSUME TypeOK, DurabilityInv PROVE ReasonHonest
  <2> SUFFICES ASSUME NEW k \in Requests, NEW L \in Views, NEW a \in Approvals,
                      L[k].state = "failed", L[k].reason = "awaiting_approval"
               PROVE  toolRuns[k][a] = 0
    BY DEF ReasonHonest
  <2>1. FenceInv(L[k]) BY <1>1 DEF DurabilityInv, LedgerInv, Views
  <2>2. L[k].approvals[a].decision # "approve" BY <2>1 DEF FenceInv, Approved
  <2>3. told[k][a] # "approve"
    BY <1>1, <2>2 DEF DurabilityInv, ReceiptsDurable
  <2>4. toolRuns[k][a] \in Nat BY <1>1 DEF TypeOK
  <2> QED BY <1>1, <2>3, <2>4 DEF DurabilityInv, ToolInv
<1> QED BY <1>1, Durability, PTL

(* Every ledger the disk may hold is one that the next process loads.      *)
THEOREM RestartsSucceed == Spec => []RestartAccepts
<1>1. ASSUME TypeOK, DurabilityInv PROVE RestartAccepts
  <2> SUFFICES ASSUME NEW L \in disk, NEW k \in Requests, L[k].state # "absent"
               PROVE  ValidFence(L[k])
    BY DEF RestartAccepts, ValidControl, Present
  <2> QED BY <1>1 DEF DurabilityInv, LedgerInv, FenceInv
<1> QED BY <1>1, Durability, PTL

-----------------------------------------------------------------------------
(* ExecutionControl implements RequestLifecycle, and a gateway that lives  *)
(* never takes back a revision or an end: what LiveStep says of fences,    *)
(* read as steps.                                                          *)

(* The executor of k is entered.                                           *)
Entered(k) ==
  /\ fences[k].state = "accepted" /\ fences'[k].state = "running"
  /\ disk' = {fences'}
  /\ starts' = [starts EXCEPT ![k] = @ + 1]

(* A step that stays within the life of one gateway.                       *)
WithinLife == Calm \/ (LiveStep /\ (UNCHANGED starts \/ \E k \in Requests : Entered(k)))

-----------------------------------------------------------------------------
(* Every step stays within a life, ends one or begins one.                 *)

LEMMA WorkWithin == ASSUME Inv, NEW k \in Requests, Work(k) PROVE WithinLife
<1>0. TypeOK /\ LedgerInv /\ DownInv /\ WaitInv BY DEF Inv, DurabilityInv
<1>1. CASE \/ RunFenced(k) \/ Return(k) \/ WakeDone(k) \/ WakeDecided(k) \/ TakeInputs(k)
           \/ RunTool(k) \/ StopRejected(k)
  BY <1>1 DEF RunFenced, Return, WakeDone, WakeDecided, TakeInputs, RunTool, StopRejected, Calm,
              history, WithinLife
<1>2. CASE Run(k)
  <2>1. LiveStep BY <1>0, <1>2, RunLive
  <2>2. fences'[k].state = "running"
    <3>1. fences[k] \in Fence /\ fences'[k] = Moved(fences[k], "running")
      BY <1>0, <1>2 DEF TypeOK, Ledger, Run
    <3> QED BY <3>1, MovedEffect DEF States, Live
  <2> QED BY <1>2, <2>1, <2>2 DEF Run, Saved, Entered, WithinLife
<1>3. CASE Finish(k)
  <2>1. CASE StillRunning(k)
    BY <1>0, <1>3, <2>1, FinishLive DEF Finish, history, WithinLife
  <2>2. CASE ~StillRunning(k)
    BY <1>3, <2>2 DEF Finish, FinishFenced, FinishInterrupted, history, Calm, WithinLife
  <2> QED BY <2>1, <2>2
<1>4. CASE \E a \in Approvals : AwaitApproval(k, a)
  BY <1>0, <1>4, AwaitLive DEF AwaitApproval, history, WithinLife
<1> QED BY <1>1, <1>2, <1>3, <1>4 DEF Work

LEMMA CallWithin == ASSUME Inv, NEW k \in Requests, Call(k) PROVE WithinLife
<1>0. TypeOK /\ LedgerInv /\ DownInv BY DEF Inv, DurabilityInv
<1>1. CASE Upload(k) \/ AckAgain(k)
  BY <1>1 DEF Upload, AckAgain, process, history, Calm, WithinLife
<1>2. CASE Cancel(k) BY <1>0, <1>2, CancelLive DEF Cancel, history, WithinLife
<1>3. CASE \E b \in BOOLEAN : Submit(k, b)
  BY <1>0, <1>3, SubmitLive DEF Submit, history, WithinLife
<1>4. CASE \E b \in BOOLEAN : AckWithClientAction(k, b)
  BY <1>0, <1>4, AckLive DEF AckWithClientAction, history, WithinLife
<1>5. CASE \E a \in Approvals, d \in Decisions : DecideApproval(k, a, d)
  BY <1>0, <1>5, DecideLive DEF DecideApproval, WithinLife
<1> QED BY <1>1, <1>2, <1>3, <1>4, <1>5 DEF Call

LEMMA StepKinds == ASSUME Inv, [Next]_vars PROVE WithinLife \/ Stop \/ New
<1>0. TypeOK /\ LedgerInv /\ DownInv BY DEF Inv, DurabilityInv
<1>1. CASE \E k \in Requests : Work(k) \/ Call(k) BY <1>1, WorkWithin, CallWithin
<1>2. CASE \E k \in Requests : Tick(k)
  BY <1>2 DEF Tick, DeadlinePasses, ContextDeadline, RetentionPasses, StageAges, process, history,
              Calm, WithinLife
<1>3. CASE \E c \in Clients : RevokeWorkbenchClient(c)
  BY <1>0, <1>3, RevokeLive DEF RevokeWorkbenchClient, history, WithinLife
<1>4. CASE Sweep BY <1>0, <1>4, SweepLive DEF Sweep, history, WithinLife
<1>5. CASE Close BY <1>0, <1>5, CloseLive DEF Close, history, WithinLife
<1>6. CASE BeginShutdown BY <1>6 DEF BeginShutdown, history, Calm, WithinLife
<1>7. CASE Exit \/ Crash BY <1>7 DEF Exit, Crash
<1>8. CASE UNCHANGED vars BY <1>8 DEF vars, history, Calm, WithinLife
<1> QED BY <1>1, <1>2, <1>3, <1>4, <1>5, <1>6, <1>7, <1>8 DEF Next

(* While a gateway lives, a fence stays or advances.                       *)
LEMMA LifeAdvances ==
  ASSUME Inv, [Next]_vars, phase # "down", phase' # "down", NEW k \in Requests
  PROVE  fences'[k] = fences[k] \/ Advances(fences[k], fences'[k])
<1>1. ~Stop /\ ~New BY DEF Stop, New
<1> QED BY <1>1, StepKinds DEF WithinLife, Calm, LiveStep, Follows

-----------------------------------------------------------------------------
(* The refinement, step by step.                                           *)

LEMMA AnswersAre == Promise!Answers = States \cup {"absent"}
  BY DEF Promise!Answers, States, Live

(* The state of every fence is an answer, and so is that of the disk.      *)
LEMMA Shown ==
  ASSUME NEW L \in Ledger, NEW k \in Requests PROVE L[k].state \in Promise!Answers
  BY AnswersAre, FenceFields DEF Ledger

LEMMA LifeServes ==
  ASSUME Inv, Inv', LiveStep, UNCHANGED starts \/ \E k \in Requests : Entered(k)
  PROVE  Promise!Serve
<1> DEFINE shown  == [k \in Requests |-> fences[k].state]
           stored == [k \in Requests |-> {L[k].state : L \in disk}]
<1>0. TypeOK /\ TypeOK' BY DEF Inv
<1>1. fences \in Ledger /\ fences' \in Ledger /\ disk \subseteq Ledger /\ disk' \subseteq Ledger
  BY <1>0 DEF TypeOK
<1>2. /\ shown' \in [Requests -> Promise!Answers]
      /\ stored' \in [Requests -> SUBSET Promise!Answers]
  BY <1>1, Shown
<1>3. ASSUME NEW k \in Requests, NEW g, Follows(fences[k], g)
      PROVE  g.state \in Promise!Moves(fences[k].state)
  <2>1. fences[k].state \in Promise!Moves(fences[k].state)
    BY <1>1, MovesTable, FenceFields DEF Ledger
  <2> QED BY <1>3, <2>1 DEF Follows, Advances
<1>4. ASSUME NEW k \in Requests PROVE shown'[k] \in Promise!Moves(shown[k])
  BY <1>3 DEF LiveStep
<1>5. ASSUME NEW k \in Requests
      PROVE  stored'[k] \subseteq stored[k] \cup Promise!Moves(shown[k])
  <2> SUFFICES ASSUME NEW L \in disk'
               PROVE  L[k].state \in stored[k] \cup Promise!Moves(shown[k])
    OBVIOUS
  <2> QED BY <1>3 DEF LiveStep, Grown
<1>6. UNCHANGED starts \/ \E k \in Requests : Promise!Start(k)
  <2> SUFFICES ASSUME NEW k \in Requests, Entered(k) PROVE Promise!Start(k)
    OBVIOUS
  <2>1. {L[k].state : L \in disk'} = {"running"} BY DEF Entered
  <2> QED BY <2>1 DEF Entered, Promise!Start
<1>7. phase # "down" /\ phase' # "down" BY DEF LiveStep
<1> QED BY <1>2, <1>4, <1>5, <1>6, <1>7 DEF Promise!Serve

LEMMA StopHalts == ASSUME Stop PROVE Promise!Halt
<1>1. /\ phase' = "down" /\ fences' = EmptyLedger /\ disk' = disk /\ starts' = starts
  BY DEF Stop, history
<1>2. \A k \in Requests : EmptyLedger[k].state = "absent" BY DEF EmptyLedger, NoFence
<1> QED BY <1>1, <1>2 DEF Promise!Halt

LEMMA NewRestarts == ASSUME Inv, Inv', New PROVE Promise!Restart
<1>0. TypeOK /\ TypeOK' /\ LedgerInv BY DEF Inv, DurabilityInv
<1>1. PICK L \in disk :
        LET loaded == Swept(Recovered(L)) IN
          \/ phase' = "up" /\ fences' = loaded /\ Saved(loaded)
          \/ UNCHANGED <<phase, fences>> /\ disk' \subseteq {L, loaded}
  BY DEF New
<1>2. phase = "down" /\ UNCHANGED starts BY DEF New, history
<1>3. L \in Ledger /\ \A k \in Requests : FenceInv(L[k]) BY <1>0 DEF TypeOK, LedgerInv
<1>4. PICK M \in Ledger : M = Swept(Recovered(L)) BY <1>3, RecoveredType, SweptType
<1>5. ASSUME NEW k \in Requests PROVE M[k].state \in Promise!Ends(L[k].state)
  <2>1. Follows(L[k], M[k]) /\ M[k].state \notin Live BY <1>3, <1>4, LoadedFollows
  <2>2. L[k].state \in Promise!Moves(L[k].state) BY <1>3, MovesTable, FenceFields DEF Ledger
  <2> QED BY <2>1, <2>2 DEF Follows, Advances, Promise!Ends, Promise!UnderWay, Live
<1> DEFINE found == [k \in Requests |-> L[k].state]
<1>6. /\ found \in [Requests -> Promise!Answers]
      /\ \A k \in Requests : found[k] \in {N[k].state : N \in disk}
  BY <1>3, Shown
<1>7. fences' \in Ledger /\ disk' \subseteq Ledger BY <1>0 DEF TypeOK
<1>8. /\ [k \in Requests |-> fences'[k].state] \in [Requests -> Promise!Answers]
      /\ [k \in Requests |-> {N[k].state : N \in disk'}] \in [Requests -> SUBSET Promise!Answers]
  BY <1>7, Shown
<1>9. CASE phase' = "up" /\ fences' = M /\ disk' = {M}
  <2>1. \A k \in Requests : fences'[k].state \in Promise!Ends(found[k]) BY <1>5, <1>9
  <2>2. \A k \in Requests : {N[k].state : N \in disk'} = {fences'[k].state} BY <1>9
  <2> QED BY <1>2, <1>6, <1>8, <1>9, <2>1, <2>2 DEF Promise!Restart
<1>10. CASE UNCHANGED <<phase, fences>> /\ disk' \subseteq {L, M}
  <2>1. \A k \in Requests :
          {N[k].state : N \in disk'} \subseteq {found[k]} \cup Promise!Ends(found[k])
    BY <1>5, <1>10
  <2> QED BY <1>2, <1>6, <1>8, <1>10, <2>1 DEF Promise!Restart
<1> QED BY <1>1, <1>4, <1>9, <1>10 DEF Saved

LEMMA StepKept == ASSUME Inv, Inv', [Next]_vars PROVE [Promise!LifecycleNext]_Promise!lifecycle
<1>1. CASE Stop BY <1>1, StopHalts DEF Promise!LifecycleNext
<1>2. CASE New BY <1>2, NewRestarts DEF Promise!LifecycleNext
<1>3. CASE Calm BY <1>3 DEF Calm, Promise!lifecycle
<1>4. CASE LiveStep /\ (UNCHANGED starts \/ \E k \in Requests : Entered(k))
  BY <1>4, LifeServes DEF Promise!LifecycleNext
<1> QED BY <1>1, <1>2, <1>3, <1>4, StepKinds DEF WithinLife

LEMMA InitKept == ASSUME Init PROVE Promise!LifecycleInit
<1>1. phase = "up" /\ fences = EmptyLedger /\ disk = {EmptyLedger} BY DEF Init
<1>2. \A k \in Requests : EmptyLedger[k].state = "absent" BY DEF EmptyLedger, NoFence
<1> QED BY <1>1, <1>2 DEF Init, Promise!LifecycleInit

-----------------------------------------------------------------------------
(* The theorems.                                                           *)

(* The execution service implements the promise of RequestLifecycle.       *)
THEOREM ImplementsPromise == Spec => Implements
<1>1. Init => Promise!LifecycleInit BY InitKept
<1>2. Inv /\ Inv' /\ [Next]_vars => [Promise!LifecycleNext]_Promise!lifecycle BY StepKept
<1>3. Init => Inv BY InvInit
<1>4. Inv /\ [Next]_vars => Inv' BY InvNext
<1> QED BY <1>1, <1>2, <1>3, <1>4, PTL DEF Spec, Implements, Promise!LifecycleSpec

(* A fence never changes under the same revision while its process lives,  *)
(* so that a client may resolve races by revision.                         *)
THEOREM RevisionsAdvance == Spec => RevisionAdvances
<1>1. Inv /\ [Next]_vars =>
        (phase # "down" /\ phase' # "down" =>
           \A k \in Requests :
             fences'[k] # fences[k] => fences'[k].revision > fences[k].revision)
  BY LifeAdvances DEF Advances
<1>2. Init => Inv BY InvInit
<1>3. Inv /\ [Next]_vars => Inv' BY InvNext
<1> QED BY <1>1, <1>2, <1>3, PTL DEF Spec, RevisionAdvances

(* A late completion or cancellation never replaces an end.                *)
THEOREM EndsAreFinal == Spec => EndIsFinal
<1>1. ASSUME Inv, [Next]_vars, phase # "down", phase' # "down", NEW k \in Requests,
             fences[k].state \in States \ Live
      PROVE  <<fences[k].state, fences'[k].state>> \in
               {<<s, s>> : s \in States} \cup
               {<<"completed", "delivered">>, <<"completed", "delivery_expired">>}
  <2>1. fences'[k].state = fences[k].state \/ fences'[k].state \in Promise!Moves(fences[k].state)
    BY <1>1, LifeAdvances DEF Advances
  <2> QED BY <1>1, <2>1 DEF Promise!Moves, Promise!Edges, States, Live
<1>2. Inv /\ [Next]_vars =>
        (phase # "down" /\ phase' # "down" =>
           \A k \in Requests : fences[k].state \in States \ Live =>
             <<fences[k].state, fences'[k].state>> \in
               {<<s, s>> : s \in States} \cup
               {<<"completed", "delivered">>, <<"completed", "delivery_expired">>})
  BY <1>1
<1>3. Init => Inv BY InvInit
<1>4. Inv /\ [Next]_vars => Inv' BY InvNext
<1> QED BY <1>2, <1>3, <1>4, PTL DEF Spec, EndIsFinal

-----------------------------------------------------------------------------
(***************************************************************************)
(* PART 3.  Capacity: the slots of the workers, the bytes reserved for an  *)
(* owner, the silence of a revoked client, the end of a rejected workflow, *)
(* and the result that is removed too soon.                                *)
(***************************************************************************)

(* A slot is taken exactly by the requests that have a worker.             *)
SlotInv == IsFiniteSet(active) /\ SlotAccounting

(* The reservations are finite and within the quota, in memory and on the  *)
(* disk; a process that is down has staged nothing and revoked nobody.     *)
SpaceInv ==
  /\ IsFiniteSet(Staging)
  /\ \A L \in disk \cup {fences} :
       IsFiniteSet(Holding(L)) /\ Cardinality(Holding(L)) <= MaxReserved
  /\ Reservation <= MaxReserved
  /\ phase = "down" => Staging = {} /\ revoked = {}

(* A worker works for a request that has a fence.                          *)
OrphanInv == \A k \in Requests : worker[k].at # "idle" => fences[k].state # "absent"

(* A wait that is open is the wait of the worker, which has no decision    *)
(* yet, or the worker is on its way out.                                   *)
WaitingInv ==
  \A k \in Requests, a \in Approvals : waits[k][a] = "waiting" =>
    \/ worker[k].at = "finishing"
    \/ worker[k].at = "waiting" /\ worker[k].approval = a /\ worker[k].ready = "none"

(* A worker whose owner rejected an approval holds that rejection, or is   *)
(* on its way out.                                                         *)
RejectInv ==
  \A k \in Requests, a \in Approvals : told[k][a] = "reject" =>
    \/ worker[k].at \in {"idle", "finishing"}
    \/ worker[k].approval = a /\ worker[k].ready = "reject"

-----------------------------------------------------------------------------
(* Only a submission makes a fence for a request that has none.            *)

Stays(L) == \A k \in Requests : fences[k].state = "absent" => L[k].state = "absent"

NoNewcomer == \A L \in (disk' \ disk) \cup {fences'} : Stays(L)

LEMMA EditStays ==
  ASSUME TypeOK, NEW k \in Requests, fences[k].state # "absent", NEW g
  PROVE  Stays([fences EXCEPT ![k] = g])
  BY DEF Stays, TypeOK, Ledger

LEMMA SaveStays ==
  ASSUME Stays(fences'),
         \/ UNCHANGED disk \/ Saved(fences') \/ SaveFailed({fences'}) \/ SaveIgnored(fences')
         \/ \E M : Stays(M) /\ SaveTwice(M, fences')
  PROVE  NoNewcomer
  BY DEF NoNewcomer, Saved, SaveFailed, SaveIgnored, SaveTwice

LEMMA FinishStays == ASSUME TypeOK, NEW k \in Requests, Finish(k) PROVE NoNewcomer
<1>1. CASE ~StillRunning(k)
  BY <1>1 DEF Finish, FinishFenced, FinishInterrupted, NoNewcomer, Stays
<1>2. CASE StillRunning(k)
  <2>1. fences[k].state # "absent" BY <1>2 DEF StillRunning
  <2>2. CASE FinishInterrupted(k)
    BY <2>1, <2>2, EditStays, SaveStays DEF FinishInterrupted
  <2>3. CASE FinishWithoutResult(k)
    BY <2>1, <2>3, EditStays, SaveStays DEF FinishWithoutResult
  <2>4. CASE FinishUnsealed(k)
    BY <2>1, <2>4, EditStays, SaveStays DEF FinishUnsealed
  <2>5. CASE FinishSealed(k)
    <3>1. PICK result, M :
            /\ M = [fences EXCEPT ![k] = result]
            /\ \/ fences' = M /\ Saved(M)
               \/ /\ fences' = [fences EXCEPT ![k] = [result EXCEPT !.state = "unknown"]]
                  /\ SaveTwice(M, fences')
      BY <2>5 DEF FinishSealed
    <3>2. Stays(M) /\ Stays(fences') BY <2>1, <3>1, EditStays
    <3> QED BY <3>1, <3>2, SaveStays
  <2> QED BY <1>2, <2>2, <2>3, <2>4, <2>5 DEF Finish, FinishFenced
<1> QED BY <1>1, <1>2

LEMMA WorkStays == ASSUME TypeOK, NEW k \in Requests, Work(k) PROVE NoNewcomer
<1>1. CASE \/ RunFenced(k) \/ Return(k) \/ WakeDone(k) \/ WakeDecided(k) \/ TakeInputs(k)
           \/ RunTool(k) \/ StopRejected(k)
  BY <1>1 DEF RunFenced, Return, WakeDone, WakeDecided, TakeInputs, RunTool, StopRejected,
              NoNewcomer, Stays
<1>2. CASE Run(k)
  BY <1>2, EditStays, SaveStays DEF Run
<1>3. CASE \E a \in Approvals : AwaitApproval(k, a)
  <2>1. fences[k].state # "absent" BY <1>3 DEF AwaitApproval, MayAsk
  <2>2. PICK g, e : \/ fences' = [fences EXCEPT ![k] = g] /\ Saved(fences')
                    \/ /\ fences' = [fences EXCEPT ![k] = e]
                       /\ SaveTwice([fences EXCEPT ![k] = g], fences')
    BY <1>3 DEF AwaitApproval, FailApprovalPersistence
  <2>3. Stays(fences') /\ Stays([fences EXCEPT ![k] = g]) BY <2>1, <2>2, EditStays
  <2> QED BY <2>2, <2>3, SaveStays
<1> QED BY <1>1, <1>2, <1>3, FinishStays DEF Work

LEMMA CallStays ==
  ASSUME TypeOK, NEW k \in Requests, Call(k), \A b \in BOOLEAN : ~Submit(k, b)
  PROVE  NoNewcomer
<1>1. CASE Upload(k) \/ AckAgain(k)
  BY <1>1 DEF Upload, AckAgain, NoNewcomer, Stays
<1>2. CASE Cancel(k)
  BY <1>2, EditStays, SaveStays DEF Cancel, Live
<1>3. CASE \E b \in BOOLEAN : AckWithClientAction(k, b)
  <2>1. fences[k].state # "absent" BY <1>3 DEF AckWithClientAction
  <2>2. PICK g, M : /\ M = [fences EXCEPT ![k] = g]
                    /\ \/ fences' = M /\ Saved(M)
                       \/ UNCHANGED fences /\ SaveFailed({M})
    BY <1>3 DEF AckWithClientAction
  <2>3. Stays(M) /\ Stays(fences) BY <2>1, <2>2, EditStays DEF Stays
  <2> QED BY <2>2, <2>3 DEF NoNewcomer, Saved, SaveFailed
<1>4. CASE \E a \in Approvals, d \in Decisions : DecideApproval(k, a, d)
  <2>1. fences[k].state # "absent" BY <1>4 DEF DecideApproval
  <2>2. PICK g, e : \/ fences' = [fences EXCEPT ![k] = g] /\ Saved(fences')
                    \/ /\ fences' = [fences EXCEPT ![k] = e]
                       /\ SaveTwice([fences EXCEPT ![k] = g], fences')
    BY <1>4 DEF DecideApproval, DecisionSaved, DecisionUnsaved
  <2>3. Stays(fences') /\ Stays([fences EXCEPT ![k] = g]) BY <2>1, <2>2, EditStays
  <2> QED BY <2>2, <2>3, SaveStays
<1> QED BY <1>1, <1>2, <1>3, <1>4 DEF Call

LEMMA HouseStays ==
  ASSUME TypeOK, Sweep \/ Close \/ \E c \in Clients : RevokeWorkbenchClient(c)
  PROVE  NoNewcomer
<1>1. CASE Sweep
  <2>1. Stays(fences') BY <1>1 DEF Sweep, Swept, Stays
  <2> QED BY <1>1, <2>1, SaveStays DEF Sweep
<1>2. CASE Close
  <2>1. Stays(fences') BY <1>2 DEF Close, Stays, Live
  <2> QED BY <1>2, <2>1, SaveStays DEF Close
<1>3. ASSUME NEW c \in Clients, RevokeWorkbenchClient(c) PROVE NoNewcomer
  <2>1. Stays(fences') BY <1>3 DEF RevokeWorkbenchClient, Stays, Live
  <2> QED BY <1>3, <2>1, SaveStays DEF RevokeWorkbenchClient
<1> QED BY <1>1, <1>2, <1>3

(* Every step is a submission, the end or the start of a process, or one   *)
(* after which no ledger has a request that memory did not have.           *)
LEMMA StepStays ==
  ASSUME Inv, [Next]_vars, ~Stop, ~New, \A k \in Requests, b \in BOOLEAN : ~Submit(k, b)
  PROVE  NoNewcomer
<1>0. TypeOK BY DEF Inv
<1>1. CASE \E k \in Requests : Work(k) \/ Call(k) BY <1>0, <1>1, WorkStays, CallStays
<1>2. CASE \E k \in Requests : Tick(k)
  BY <1>2 DEF Tick, DeadlinePasses, ContextDeadline, RetentionPasses, StageAges, NoNewcomer, Stays
<1>3. CASE Sweep \/ Close \/ \E c \in Clients : RevokeWorkbenchClient(c)
  BY <1>0, <1>3, HouseStays
<1>4. CASE BeginShutdown BY <1>4 DEF BeginShutdown, NoNewcomer, Stays
<1>5. CASE Exit \/ Crash BY <1>5 DEF Exit, Crash
<1>6. CASE UNCHANGED vars BY <1>6 DEF vars, NoNewcomer, Stays
<1> QED BY <1>1, <1>2, <1>3, <1>4, <1>5, <1>6 DEF Next

(* Nothing that followed a fence in memory reserves more than memory did.  *)
LEMMA HoldsLess ==
  ASSUME NEW f, NEW g, Follows(f, g), f.state = "absent" => g.state = "absent"
  PROVE  /\ g.state \in Live => f.state \in Live
         /\ g.state \in Live \cup {"completed"} => f.state \in Live \cup {"completed"}
  BY DEF Follows, Advances, Promise!Moves, Promise!Edges, Live

LEMMA StepShrinks ==
  ASSUME Inv, [Next]_vars, ~Stop, ~New, \A k \in Requests, b \in BOOLEAN : ~Submit(k, b)
  PROVE  /\ \A L \in disk' : L \in disk \/ Holding(L) \subseteq Holding(fences)
         /\ Holding(fences') \subseteq Holding(fences)
         /\ \A k \in Requests : fences'[k].state \in Live => fences[k].state \in Live
<1>1. NoNewcomer /\ WithinLife BY StepStays, StepKinds
<1>2. CASE Calm BY <1>2 DEF Calm
<1>3. CASE LiveStep
  <2>1. ASSUME NEW L \in (disk' \ disk) \cup {fences'}, NEW k \in Requests
        PROVE  /\ L[k].state \in Live => fences[k].state \in Live
               /\ L[k].state \in Live \cup {"completed"} => fences[k].state \in Live \cup {"completed"}
    <3>1. Follows(fences[k], L[k]) BY <1>3, <2>1 DEF LiveStep, Grown
    <3>2. fences[k].state = "absent" => L[k].state = "absent"
      BY <1>1, <2>1 DEF NoNewcomer, Stays
    <3> QED BY <3>1, <3>2, HoldsLess
  <2> QED BY <2>1 DEF Holding
<1> QED BY <1>1, <1>2, <1>3 DEF WithinLife

-----------------------------------------------------------------------------
(* Slots.                                                                  *)

(* A step that leaves the slots and who has a worker as they were.         *)
LEMMA SlotsSame ==
  ASSUME SlotInv, active' = active,
         \A k \in Requests : worker'[k].at = "idle" <=> worker[k].at = "idle"
  PROVE  SlotInv'
  BY DEF SlotInv, SlotAccounting

(* The worker of k leaves and gives its slot back.                         *)
LEMMA SlotFreed ==
  ASSUME TypeOK, SlotInv, NEW k \in Requests, active' = active \ {k},
         worker' = [worker EXCEPT ![k] = Idle]
  PROVE  SlotInv'
<1>1. active' = {j \in Requests : worker'[j].at # "idle"}
  BY WorkerType DEF TypeOK, SlotInv, SlotAccounting
<1>2. IsFiniteSet(active') /\ Cardinality(active') <= Cardinality(active)
  BY FS_Subset DEF SlotInv
<1>3. Cardinality(active) \in Nat /\ Cardinality(active') \in Nat /\ MaxActive \in Nat
  BY <1>2, FS_CardinalityType, ConstantsAssumption DEF SlotInv
<1> QED BY <1>1, <1>2, <1>3 DEF SlotInv, SlotAccounting

(* The worker of k is replaced by one that is still there.                 *)
LEMMA SlotKept ==
  ASSUME TypeOK, SlotInv, NEW k \in Requests, NEW w, active' = active,
         worker' = [worker EXCEPT ![k] = w], worker[k].at # "idle", w.at # "idle"
  PROVE  SlotInv'
  BY SlotsSame DEF TypeOK

LEMMA WorkSlots == ASSUME TypeOK, SlotInv, NEW k \in Requests, Work(k) PROVE SlotInv'
<1>0. worker[k] \in Worker BY DEF TypeOK
<1>1. CASE RunFenced(k) BY <1>1, SlotFreed DEF RunFenced
<1>2. CASE Run(k)
  <2>1. PICK w \in {Executing, Finishing("error"), Finishing("unknown")} : worker' = [worker EXCEPT ![k] = w]
    BY <1>2 DEF Run
  <2>2. w.at # "idle" BY <2>1, WorkerType, FinishingType
  <2> QED BY <1>2, <2>1, <2>2, SlotKept DEF Run
<1>3. CASE Return(k)
  BY <1>3, FinishingType, SlotKept DEF Return
<1>4. CASE Finish(k) BY <1>4, SlotFreed DEF Finish
<1>5. CASE WakeDone(k)
  BY <1>5, FinishingType, SlotKept DEF WakeDone
<1>6. CASE WakeDecided(k)
  <2>1. [worker[k] EXCEPT !.at = "decided"].at # "idle" BY <1>0 DEF Worker
  <2> QED BY <1>6, <2>1, FinishingType, SlotKept DEF WakeDecided
<1>7. CASE TakeInputs(k)
  <2>1. [worker[k] EXCEPT !.at = "authorized"].at # "idle" BY <1>0 DEF Worker
  <2> QED BY <1>7, <2>1, FinishingType, SlotKept DEF TakeInputs
<1>8. CASE RunTool(k)
  <2>1. PICK w \in {Executing, Finishing("error"), Finishing("unknown")} : worker' = [worker EXCEPT ![k] = w]
    BY <1>8 DEF RunTool
  <2>2. w.at # "idle" BY <2>1, WorkerType, FinishingType
  <2> QED BY <1>8, <2>1, <2>2, SlotKept DEF RunTool
<1>9. CASE StopRejected(k)
  BY <1>9, FinishingType, SlotKept DEF StopRejected
<1>10. ASSUME NEW a \in Approvals, AwaitApproval(k, a) PROVE SlotInv'
  <2>1. [Idle EXCEPT !.at = "waiting", !.approval = a].at = "waiting" BY DEF Idle
  <2>2. PICK w \in {[Idle EXCEPT !.at = "waiting", !.approval = a], Finishing("unknown")} :
          worker' = [worker EXCEPT ![k] = w]
    BY <1>10 DEF AwaitApproval
  <2>3. w.at # "idle" BY <2>1, <2>2, FinishingType
  <2> QED BY <1>10, <2>2, <2>3, SlotKept DEF AwaitApproval
<1> QED BY <1>1, <1>2, <1>3, <1>4, <1>5, <1>6, <1>7, <1>8, <1>9, <1>10 DEF Work

LEMMA SubmitSlots ==
  ASSUME TypeOK, SlotInv, NEW k \in Requests, NEW b \in BOOLEAN, Submit(k, b) PROVE SlotInv'
<1>1. CASE active' = active \cup {k} /\ worker' = [worker EXCEPT ![k] = Spawned]
  <2>1. active' = {j \in Requests : worker'[j].at # "idle"}
    BY <1>1, WorkerType DEF TypeOK, SlotInv, SlotAccounting
  <2>2. Cardinality(active) < MaxActive /\ Cardinality(active) \in Nat /\ MaxActive \in Nat
    BY FS_CardinalityType, ConstantsAssumption DEF SlotInv, Submit, HasRoom
  <2>3. IsFiniteSet(active') /\ Cardinality(active') \in {Cardinality(active), Cardinality(active) + 1}
    BY <1>1, FS_AddElement DEF SlotInv
  <2> QED BY <2>1, <2>2, <2>3 DEF SlotInv, SlotAccounting
<1>2. CASE UNCHANGED <<active, worker>> BY <1>2, SlotsSame
<1> QED BY <1>1, <1>2 DEF Submit

LEMMA DecideSlots ==
  ASSUME TypeOK, SlotInv, NEW k \in Requests, NEW a \in Approvals, NEW d \in Decisions,
         DecideApproval(k, a, d)
  PROVE  SlotInv'
<1>1. active' = active BY DEF DecideApproval
<1>2. \/ worker' = worker
      \/ worker' = [worker EXCEPT ![k].ready = d] /\ worker[k].at = "waiting"
  BY DEF DecideApproval, DecisionSaved, DecisionUnsaved, Deliver
<1>3. [worker[k] EXCEPT !.ready = d].at = worker[k].at BY DEF TypeOK, Worker
<1>4. \A j \in Requests : worker'[j].at = worker[j].at
  BY <1>2, <1>3 DEF TypeOK
<1> QED BY <1>1, <1>4, SlotsSame

LEMMA SlotNext == ASSUME TypeOK, SlotInv, [Next]_vars PROVE SlotInv'
<1>1. CASE \E k \in Requests : Work(k) BY <1>1, WorkSlots
<1>2. ASSUME NEW k \in Requests, Call(k) PROVE SlotInv'
  <2>1. CASE Upload(k) \/ Cancel(k) \/ AckAgain(k) \/ \E b \in BOOLEAN : AckWithClientAction(k, b)
    BY <2>1, SlotsSame DEF Upload, Cancel, AckAgain, AckWithClientAction, process
  <2> QED BY <1>2, <2>1, SubmitSlots, DecideSlots DEF Call
<1>3. CASE \E k \in Requests : Tick(k)
  BY <1>3, SlotsSame
     DEF Tick, DeadlinePasses, ContextDeadline, RetentionPasses, StageAges, process
<1>4. CASE Sweep \/ BeginShutdown \/ Close \/ New \/ \E c \in Clients : RevokeWorkbenchClient(c)
  BY <1>4, SlotsSame DEF Sweep, BeginShutdown, Close, New, RevokeWorkbenchClient, process
<1>5. CASE Exit \/ Crash
  <2>1. active' = {} /\ worker' = [k \in Requests |-> Idle] BY <1>5 DEF Exit, Crash, Stop
  <2>2. active' = {k \in Requests : worker'[k].at # "idle"} BY <2>1, WorkerType
  <2> QED BY <2>1, <2>2, FS_EmptySet, ConstantsAssumption DEF SlotInv, SlotAccounting
<1>6. CASE UNCHANGED vars BY <1>6, SlotsSame DEF vars, process
<1> QED BY <1>1, <1>2, <1>3, <1>4, <1>5, <1>6 DEF Next

LEMMA SlotInit == Init => SlotInv
<1> SUFFICES ASSUME Init PROVE SlotInv OBVIOUS
<1>1. active = {} /\ active = {k \in Requests : worker[k].at # "idle"}
  BY WorkerType DEF Init
<1> QED BY <1>1, FS_EmptySet, ConstantsAssumption DEF SlotInv, SlotAccounting

-----------------------------------------------------------------------------
(* The bytes of the owner, and revoked clients.                            *)

LEMMA SpaceNumbers ==
  ASSUME SpaceInv
  PROVE  /\ Cardinality(Staging) \in Nat /\ Cardinality(Holding(fences)) \in Nat
         /\ MaxReserved \in Nat /\ Cardinality(Holding(fences)) <= MaxReserved
  BY FS_CardinalityType, ConstantsAssumption DEF SpaceInv

(* Fewer reservations in memory, and no ledger with more than it had.      *)
LEMMA SpaceShrinks ==
  ASSUME SpaceInv, Holding(fences') \subseteq Holding(fences), Staging' \subseteq Staging,
         \A L \in disk' : L \in disk \/ Holding(L) \subseteq Holding(fences),
         phase' = "down" => Staging' = {} /\ revoked' = {}
  PROVE  SpaceInv'
<1>1. IsFiniteSet(Staging') /\ Cardinality(Staging') <= Cardinality(Staging)
  BY FS_Subset DEF SpaceInv
<1>2. ASSUME NEW L \in disk' \cup {fences'}
      PROVE  IsFiniteSet(Holding(L)) /\ Cardinality(Holding(L)) <= MaxReserved
  <2>1. CASE L \in disk BY <2>1 DEF SpaceInv
  <2>2. CASE Holding(L) \subseteq Holding(fences)
    <3>1. IsFiniteSet(Holding(L)) /\ Cardinality(Holding(L)) <= Cardinality(Holding(fences))
      BY <2>2, FS_Subset DEF SpaceInv
    <3> QED BY <3>1, SpaceNumbers, FS_CardinalityType
  <2> QED BY <1>2, <2>1, <2>2
<1>3. /\ Cardinality(Holding(fences')) <= Cardinality(Holding(fences))
      /\ Cardinality(Holding(fences')) \in Nat /\ Cardinality(Staging') \in Nat
  BY <1>1, <1>2, FS_Subset, FS_CardinalityType DEF SpaceInv
<1>4. Reservation' <= Reservation /\ Reservation <= MaxReserved
  BY <1>1, <1>3, SpaceNumbers DEF Reservation, SpaceInv
<1>5. Reservation' <= MaxReserved BY <1>3, <1>4, SpaceNumbers DEF Reservation
<1> QED BY <1>1, <1>2, <1>5 DEF SpaceInv

LEMMA UploadSpace == ASSUME TypeOK, SpaceInv, NEW k \in Requests, Upload(k) PROVE SpaceInv'
<1>1. UNCHANGED <<phase, fences, disk, revoked>> /\ phase # "down"
  BY DEF Upload, Admissible, Open
<1>2. CASE staged[k] = "none" /\ Reservation < MaxReserved /\ staged' = [staged EXCEPT ![k] = "fresh"]
  <2>1. Staging' = Staging \cup {k} /\ k \notin Staging BY <1>2 DEF TypeOK, Staging
  <2>2. IsFiniteSet(Staging') /\ Cardinality(Staging') = Cardinality(Staging) + 1
    BY <2>1, FS_AddElement DEF SpaceInv
  <2>3. Reservation' = Reservation + 1 BY <1>1, <2>2, SpaceNumbers DEF Reservation, Holding
  <2>4. Reservation' <= MaxReserved BY <1>2, <2>3, SpaceNumbers DEF Reservation
  <2> QED BY <1>1, <2>2, <2>4 DEF SpaceInv
<1>3. CASE staged' = [staged EXCEPT ![k] = "none"]
  <2>1. Staging' \subseteq Staging BY <1>3 DEF TypeOK, Staging
  <2> QED BY <1>1, <2>1, SpaceShrinks
<1> QED BY <1>2, <1>3 DEF Upload

LEMMA SubmitSpace ==
  ASSUME TypeOK, SpaceInv, NEW k \in Requests, NEW b \in BOOLEAN, Submit(k, b) PROVE SpaceInv'
<1>1. PICK M : M = [fences EXCEPT ![k] = Admitted] OBVIOUS
<1>2. fences[k].state = "absent" /\ phase # "down" /\ UNCHANGED <<phase, revoked>>
  BY DEF Submit, Admissible, Open
<1>3. Holding(M) = Holding(fences) \cup {k} /\ k \notin Holding(fences)
  BY <1>1, <1>2 DEF TypeOK, Ledger, Holding, Live, Admitted, NoFence
<1>4. IsFiniteSet(Holding(M)) /\ Cardinality(Holding(M)) = Cardinality(Holding(fences)) + 1
  BY <1>3, FS_AddElement DEF SpaceInv
<1>5. Reservation + (IF staged[k] = "none" THEN 1 ELSE 0) <= MaxReserved
  BY DEF Submit, HasRoom
<1>6. /\ IsFiniteSet(Staging \ {k}) /\ Cardinality(Staging \ {k}) \in Nat
      /\ staged[k] = "none" => Cardinality(Staging \ {k}) = Cardinality(Staging)
      /\ staged[k] # "none" => Cardinality(Staging \ {k}) = Cardinality(Staging) - 1
  <2>1. IsFiniteSet(Staging) BY DEF SpaceInv
  <2>2. IsFiniteSet(Staging \ {k}) BY <2>1, FS_Subset
  <2>3. CASE staged[k] = "none"
    <3>1. Staging \ {k} = Staging BY <2>3 DEF Staging
    <3> QED BY <2>2, <2>3, <3>1, FS_CardinalityType
  <2>4. CASE staged[k] # "none"
    <3>1. k \in Staging BY <2>4 DEF Staging
    <3> QED BY <2>1, <2>2, <2>4, <3>1, FS_RemoveElement, FS_CardinalityType
  <2> QED BY <2>3, <2>4
<1>7. Cardinality(Staging \ {k}) \in Nat BY <1>6
<1>8. Cardinality(Holding(M)) + Cardinality(Staging \ {k}) <= MaxReserved
  BY <1>4, <1>5, <1>6, SpaceNumbers DEF Reservation
<1>9. Cardinality(Holding(M)) <= MaxReserved
  BY <1>4, <1>7, <1>8, SpaceNumbers
<1>10. CASE Saved(M) /\ fences' = M /\ staged' = [staged EXCEPT ![k] = "none"]
  <2>1. Staging' = Staging \ {k} BY <1>10 DEF TypeOK, Staging
  <2>2. Reservation' <= MaxReserved BY <1>8, <1>10, <2>1 DEF Reservation
  <2> QED BY <1>2, <1>4, <1>6, <1>9, <1>10, <2>1, <2>2 DEF SpaceInv, Saved
<1>11. CASE SaveFailed({M}) /\ UNCHANGED <<fences, staged>>
  <2>1. Staging' = Staging /\ Reservation' = Reservation
    BY <1>11 DEF Staging, Reservation, Holding
  <2> QED BY <1>2, <1>4, <1>9, <1>11, <2>1 DEF SpaceInv, SaveFailed
<1> QED BY <1>1, <1>10, <1>11 DEF Submit

LEMMA EmptyHolds == Holding(EmptyLedger) = {}
  BY DEF Holding, EmptyLedger, NoFence, Live

LEMMA NewSpace == ASSUME Inv, SpaceInv, New PROVE SpaceInv'
<1>0. TypeOK /\ LedgerInv /\ DownInv BY DEF Inv, DurabilityInv
<1>1. PICK L \in disk :
        LET loaded == Swept(Recovered(L)) IN
          \/ phase' = "up" /\ fences' = loaded /\ Saved(loaded)
          \/ UNCHANGED <<phase, fences>> /\ disk' \subseteq {L, loaded}
  BY DEF New
<1>2. /\ phase = "down" /\ UNCHANGED <<staged, revoked>> /\ Staging = {} /\ revoked = {}
      /\ fences = EmptyLedger
  BY <1>0 DEF New, process, SpaceInv, DownInv
<1>3. L \in Ledger /\ \A k \in Requests : FenceInv(L[k]) BY <1>0 DEF TypeOK, LedgerInv
<1>4. PICK M : M = Swept(Recovered(L)) OBVIOUS
<1>5. Holding(M) \subseteq Holding(L)
  <2> SUFFICES ASSUME NEW k \in Requests, M[k].state \in Live \cup {"completed"}
               PROVE  L[k].state \in Live \cup {"completed"}
    BY DEF Holding
  <2>1. Follows(L[k], M[k]) /\ M[k].state \notin Live BY <1>3, <1>4, LoadedFollows
  <2>2. L[k].state = "absent" => M[k] = L[k]
    BY <1>4 DEF Swept, Recovered, Live
  <2> QED BY <2>1, <2>2, HoldsLess
<1>6. /\ IsFiniteSet(Holding(L)) /\ Cardinality(Holding(L)) <= MaxReserved
      /\ IsFiniteSet(Holding(M)) /\ Cardinality(Holding(M)) <= Cardinality(Holding(L))
  BY <1>5, FS_Subset DEF SpaceInv
<1>7. Cardinality(Holding(M)) <= MaxReserved /\ Cardinality(Holding(M)) \in Nat
  BY <1>6, SpaceNumbers, FS_CardinalityType
<1>8. Staging' = {} BY <1>2 DEF Staging
<1>9. ASSUME NEW N \in disk' \cup {fences'}
      PROVE  IsFiniteSet(Holding(N)) /\ Cardinality(Holding(N)) <= MaxReserved
  <2>1. N \in {L, M, fences} BY <1>1, <1>4 DEF Saved
  <2> QED BY <2>1, <1>6, <1>7 DEF SpaceInv
<1>10. Reservation' <= MaxReserved
  <2>1. Cardinality(Staging') = 0 BY <1>8, FS_EmptySet
  <2>2. Cardinality(Holding(fences')) <= MaxReserved /\ Cardinality(Holding(fences')) \in Nat
    BY <1>9, FS_CardinalityType
  <2> QED BY <2>1, <2>2 DEF Reservation
<1> QED BY <1>2, <1>8, <1>9, <1>10, FS_EmptySet DEF SpaceInv

(* The quota after every step.                                             *)
LEMMA StagedLess ==
  ASSUME TypeOK, [Next]_vars, ~New, \A k \in Requests : ~Upload(k)
  PROVE  \A k \in Requests : staged'[k] # "none" => staged[k] # "none"
<1>1. CASE \E k \in Requests : Work(k)
  BY <1>1 DEF Work, RunFenced, Run, Return, Finish, WakeDone, WakeDecided, TakeInputs, RunTool,
              StopRejected, AwaitApproval
<1>2. CASE \E k \in Requests : Call(k)
  <2>1. ASSUME NEW k \in Requests, NEW b \in BOOLEAN, Submit(k, b)
        PROVE  \A j \in Requests : staged'[j] # "none" => staged[j] # "none"
    BY <2>1 DEF Submit, TypeOK
  <2> QED BY <1>2, <2>1 DEF Call, Cancel, AckAgain, AckWithClientAction, DecideApproval, process
<1>3. CASE \E k \in Requests : Tick(k)
  BY <1>3 DEF Tick, DeadlinePasses, ContextDeadline, RetentionPasses, StageAges, process, TypeOK
<1>4. CASE Sweep \/ BeginShutdown \/ Close \/ \E c \in Clients : RevokeWorkbenchClient(c)
  BY <1>4 DEF Sweep, BeginShutdown, Close, RevokeWorkbenchClient, process
<1>5. CASE Exit \/ Crash BY <1>5 DEF Exit, Crash, Stop
<1>6. CASE UNCHANGED vars BY <1>6 DEF vars, process
<1> QED BY <1>1, <1>2, <1>3, <1>4, <1>5, <1>6 DEF Next

(* The revoked clients change only with a revocation or the process.       *)
LEMMA RevokedSame ==
  ASSUME [Next]_vars, ~Stop
  PROVE  revoked' = revoked \/ \E c \in Clients : RevokeWorkbenchClient(c)
<1>1. CASE \E k \in Requests : Work(k)
  BY <1>1 DEF Work, RunFenced, Run, Return, Finish, WakeDone, WakeDecided, TakeInputs, RunTool,
              StopRejected, AwaitApproval
<1>2. CASE \E k \in Requests : Call(k)
  BY <1>2 DEF Call, Upload, Submit, Cancel, AckAgain, AckWithClientAction, DecideApproval, process
<1>3. CASE \E k \in Requests : Tick(k)
  BY <1>3 DEF Tick, DeadlinePasses, ContextDeadline, RetentionPasses, StageAges, process
<1>4. CASE Sweep \/ BeginShutdown \/ Close \/ New
  BY <1>4 DEF Sweep, BeginShutdown, Close, New, process
<1>5. CASE UNCHANGED vars BY <1>5 DEF vars, process
<1> QED BY <1>1, <1>2, <1>3, <1>4, <1>5 DEF Next, Exit, Crash

(* Only the end of a process brings it down, and it forgets the revoked.   *)
LEMMA StepDown ==
  ASSUME Inv, SpaceInv, [Next]_vars, ~Stop, ~New, phase' = "down"
  PROVE  phase = "down" /\ revoked' = {} /\ \A k \in Requests : ~Upload(k)
<1>1. phase = "down" BY StepKinds DEF WithinLife, Calm, LiveStep
<1>2. \A k \in Requests : ~Upload(k) BY <1>1 DEF Upload, Admissible, Open
<1>3. revoked' = revoked \/ \E c \in Clients : RevokeWorkbenchClient(c) BY RevokedSame
<1> QED BY <1>1, <1>2, <1>3 DEF SpaceInv, RevokeWorkbenchClient

LEMMA SpaceNext == ASSUME Inv, SpaceInv, [Next]_vars PROVE SpaceInv'
<1>0. TypeOK BY DEF Inv
<1>1. CASE \E k \in Requests : Upload(k) BY <1>0, <1>1, UploadSpace
<1>2. CASE \E k \in Requests, b \in BOOLEAN : Submit(k, b) BY <1>0, <1>2, SubmitSpace
<1>3. CASE New BY <1>3, NewSpace
<1>4. CASE Stop
  <2>1. disk' = disk /\ fences' = EmptyLedger /\ revoked' = {} BY <1>4 DEF Stop
  <2>2. Staging' = {} BY <1>4 DEF Stop, Staging
  <2>3. Holding(fences') = {} BY <2>1, EmptyHolds
  <2> QED BY <2>1, <2>2, <2>3, SpaceShrinks
<1>5. ASSUME ~Stop, ~New, \A k \in Requests : ~Upload(k),
             \A k \in Requests, b \in BOOLEAN : ~Submit(k, b)
      PROVE  SpaceInv'
  <2>1. Staging' \subseteq Staging BY <1>0, <1>5, StagedLess DEF Staging
  <2>2. phase' = "down" => Staging' = {} /\ revoked' = {}
    BY <1>5, <2>1, StepDown DEF SpaceInv
  <2> QED BY <1>5, <2>1, <2>2, StepShrinks, SpaceShrinks
<1> QED BY <1>1, <1>2, <1>3, <1>4, <1>5

LEMMA SpaceInit == Init => SpaceInv
<1> SUFFICES ASSUME Init PROVE SpaceInv OBVIOUS
<1>1. fences = EmptyLedger /\ disk = {EmptyLedger} /\ phase = "up" BY DEF Init
<1>2. Staging = {} BY DEF Init, Staging
<1>3. Holding(EmptyLedger) = {} BY EmptyHolds
<1>4. Reservation = 0 BY <1>1, <1>2, <1>3, FS_EmptySet DEF Reservation
<1> QED BY <1>1, <1>2, <1>3, <1>4, FS_EmptySet, ConstantsAssumption DEF SpaceInv

(* A revoked client gets nothing new: its fences and uploads only end.     *)
LEMMA QuietKept ==
  ASSUME RevokedIsQuiet, revoked' = revoked,
         \A k \in Requests : ClientOf[k] \in revoked =>
           /\ fences'[k].state \in Live => fences[k].state \in Live
           /\ staged'[k] # "none" => staged[k] # "none"
  PROVE  RevokedIsQuiet'
  BY DEF RevokedIsQuiet

LEMMA QuietNext == ASSUME Inv, SpaceInv, RevokedIsQuiet, [Next]_vars PROVE RevokedIsQuiet'
<1>0. TypeOK BY DEF Inv
<1>1. ASSUME NEW k \in Requests, Upload(k) PROVE RevokedIsQuiet'
  <2>1. ClientOf[k] \notin revoked /\ UNCHANGED <<fences, revoked>>
    BY <1>1 DEF Upload, Admissible
  <2>2. \A j \in Requests \ {k} : staged'[j] = staged[j] BY <1>0, <1>1 DEF Upload, TypeOK
  <2> QED BY <2>1, <2>2, QuietKept
<1>2. ASSUME NEW k \in Requests, NEW b \in BOOLEAN, Submit(k, b) PROVE RevokedIsQuiet'
  <2>1. ClientOf[k] \notin revoked /\ UNCHANGED revoked BY <1>2 DEF Submit, Admissible
  <2>2. \A j \in Requests \ {k} : staged'[j] = staged[j] /\ fences'[j] = fences[j]
    BY <1>0, <1>2 DEF Submit, TypeOK, Ledger
  <2> QED BY <2>1, <2>2, QuietKept
<1>3. CASE New
  <2>1. revoked' = {} BY <1>3 DEF New, process, SpaceInv
  <2> QED BY <2>1 DEF RevokedIsQuiet
<1>4. CASE Stop BY <1>4 DEF Stop, RevokedIsQuiet
<1>5. ASSUME NEW c \in Clients, RevokeWorkbenchClient(c) PROVE RevokedIsQuiet'
  <2>1. revoked' = revoked \cup {c} BY <1>5 DEF RevokeWorkbenchClient
  <2>2. ASSUME NEW k \in Requests, ClientOf[k] = c
        PROVE  fences'[k].state \notin Live /\ staged'[k] = "none"
    <3>1. staged'[k] = "none" BY <1>5, <2>2 DEF RevokeWorkbenchClient
    <3>2. CASE fences[k].state \in Live
      <4>1. fences'[k] = Ended(fences[k], "unknown")
        BY <1>5, <2>2, <3>2 DEF RevokeWorkbenchClient
      <4>2. fences[k] \in Fence /\ "unknown" \in States BY <1>0 DEF TypeOK, Ledger, States
      <4>3. fences'[k].state = "unknown" BY <4>1, <4>2, EndedEffect
      <4> QED BY <3>1, <4>3 DEF Live
    <3>3. CASE fences[k].state \notin Live
      BY <1>5, <3>1, <3>3 DEF RevokeWorkbenchClient
    <3> QED BY <3>2, <3>3
  <2>3. ASSUME NEW k \in Requests, ClientOf[k] # c
        PROVE  fences'[k] = fences[k] /\ staged'[k] = staged[k]
    BY <1>5, <2>3 DEF RevokeWorkbenchClient
  <2> QED BY <2>1, <2>2, <2>3 DEF RevokedIsQuiet
<1>6. ASSUME ~Stop, ~New, \A k \in Requests : ~Upload(k),
             \A k \in Requests, b \in BOOLEAN : ~Submit(k, b),
             \A c \in Clients : ~RevokeWorkbenchClient(c)
      PROVE  RevokedIsQuiet'
  BY <1>0, <1>6, StagedLess, StepShrinks, RevokedSame, QuietKept
<1> QED BY <1>1, <1>2, <1>3, <1>4, <1>5, <1>6

-----------------------------------------------------------------------------
(* Workers have fences.                                                    *)

LEMMA WorkersLess ==
  ASSUME TypeOK, [Next]_vars, \A k \in Requests, b \in BOOLEAN : ~Submit(k, b)
  PROVE  active' \subseteq active
<1>1. CASE \E k \in Requests : Work(k)
  BY <1>1 DEF Work, RunFenced, Run, Return, Finish, WakeDone, WakeDecided, TakeInputs, RunTool,
              StopRejected, AwaitApproval
<1>2. CASE \E k \in Requests : Call(k)
  BY <1>2 DEF Call, Upload, Cancel, AckAgain, AckWithClientAction, DecideApproval, process
<1>3. CASE \E k \in Requests : Tick(k)
  BY <1>3 DEF Tick, DeadlinePasses, ContextDeadline, RetentionPasses, StageAges, process
<1>4. CASE \/ Sweep \/ BeginShutdown \/ Close \/ Exit \/ Crash \/ New
           \/ \E c \in Clients : RevokeWorkbenchClient(c)
  BY <1>4 DEF Sweep, BeginShutdown, Close, Exit, Crash, Stop, New, RevokeWorkbenchClient, process
<1>5. CASE UNCHANGED vars BY <1>5 DEF vars, process
<1> QED BY <1>1, <1>2, <1>3, <1>4, <1>5 DEF Next

LEMMA OrphanNext ==
  ASSUME Inv, SlotInv, SlotInv', OrphanInv, [Next]_vars PROVE OrphanInv'
<1>0. TypeOK /\ LedgerInv /\ DownInv BY DEF Inv, DurabilityInv
<1>1. /\ \A k \in Requests : k \in active <=> worker[k].at # "idle"
      /\ \A k \in Requests : k \in active' <=> worker'[k].at # "idle"
  BY DEF SlotInv, SlotAccounting
<1>2. ASSUME NEW k \in Requests, NEW b \in BOOLEAN, Submit(k, b) PROVE OrphanInv'
  <2>1. CASE UNCHANGED <<fences, worker>> BY <2>1 DEF OrphanInv
  <2>2. CASE /\ fences'[k].state = "accepted" /\ worker' = [worker EXCEPT ![k] = Spawned]
             /\ \A j \in Requests \ {k} : fences'[j] = fences[j]
    BY <1>0, <2>2 DEF OrphanInv, TypeOK
  <2> QED BY <1>0, <1>2, <2>1, <2>2, SubmitLive
<1>3. CASE Stop BY <1>3, WorkerType DEF Stop, OrphanInv
<1>4. CASE New
  <2>1. \A k \in Requests : fences[k].state = "absent"
    BY <1>0, <1>4 DEF New, DownInv, EmptyLedger, NoFence
  <2>2. worker' = worker BY <1>4 DEF New, process
  <2> QED BY <2>1, <2>2 DEF OrphanInv
<1>5. ASSUME ~Stop, ~New, \A k \in Requests, b \in BOOLEAN : ~Submit(k, b) PROVE OrphanInv'
  <2>1. active' \subseteq active BY <1>0, <1>5, WorkersLess
  <2>2. \A k \in Requests : fences[k].state # "absent" => fences'[k].state # "absent"
    BY <1>5, StepKinds DEF WithinLife, Calm, LiveStep, Follows
  <2> QED BY <1>1, <2>1, <2>2 DEF OrphanInv
<1> QED BY <1>2, <1>3, <1>4, <1>5

-----------------------------------------------------------------------------
(* Open waits, and rejections.  Each is an invariant of every request.     *)

WaitOK(k) ==
  \A a \in Approvals : waits[k][a] = "waiting" =>
    \/ worker[k].at = "finishing"
    \/ worker[k].at = "waiting" /\ worker[k].approval = a /\ worker[k].ready = "none"

RejectOK(k) ==
  \A a \in Approvals : told[k][a] = "reject" =>
    \/ worker[k].at \in {"idle", "finishing"}
    \/ worker[k].approval = a /\ worker[k].ready = "reject"

HandOK(k) == WaitOK(k) /\ RejectOK(k)

LEMMA HandInv == (WaitingInv /\ RejectInv) <=> \A k \in Requests : HandOK(k)
  BY DEF WaitingInv, RejectInv, HandOK, WaitOK, RejectOK

(* A request whose worker stands still: its waits stay or are forgotten.   *)
LEMMA HandStill ==
  ASSUME NEW k \in Requests, HandOK(k), worker'[k] = worker[k], told'[k] = told[k],
         waits'[k] = waits[k] \/ waits'[k] = NoWaits
  PROVE  HandOK(k)'
  BY DEF HandOK, WaitOK, RejectOK, NoWaits

(* A worker that leaves, or is on its way out.                             *)
LEMMA HandLeaves ==
  ASSUME NEW k \in Requests, HandOK(k), told'[k] = told[k],
         \/ worker'[k].at = "finishing"
         \/ worker'[k].at = "idle" /\ waits'[k] = NoWaits
  PROVE  HandOK(k)'
  BY DEF HandOK, WaitOK, RejectOK, NoWaits

(* A worker that is neither in a wait nor leaving has no open wait; one    *)
(* that holds no approval was rejected none.                               *)
LEMMA NoneOpen ==
  ASSUME TypeOK, NEW k \in Requests, HandOK(k), worker[k].at # "finishing"
  PROVE  /\ (worker[k].at # "waiting" \/ worker[k].ready # "none") =>
              \A a \in Approvals : waits[k][a] # "waiting"
         /\ (\/ worker[k].at \in {"spawned", "executing"}
             \/ worker[k].ready = "approve" /\ worker[k].at # "idle") =>
              \A a \in Approvals : told[k][a] # "reject"
  BY ConstantsAssumption DEF TypeOK, Worker, HandOK, WaitOK, RejectOK

(* A worker that moves on in its wait.                                     *)
LEMMA HandMoves ==
  ASSUME TypeOK, NEW k \in Requests, HandOK(k), told'[k] = told[k], waits'[k] = waits[k],
         worker[k].at \in {"waiting", "decided"}, worker[k].ready # "none",
         worker'[k].approval = worker[k].approval, worker'[k].ready = worker[k].ready
  PROVE  HandOK(k)'
<1>1. \A a \in Approvals : waits[k][a] # "waiting" BY NoneOpen
<1> QED BY <1>1 DEF HandOK, WaitOK, RejectOK

LEMMA WorkHand ==
  ASSUME Inv, NEW k \in Requests, \A j \in Requests : HandOK(j), Work(k)
  PROVE  \A j \in Requests : HandOK(j)'
<1>0. TypeOK /\ worker[k] \in Worker /\ HandOK(k) BY DEF Inv, TypeOK
<1>t. told' = told
  BY DEF Work, RunFenced, Run, Return, Finish, WakeDone, WakeDecided, TakeInputs, RunTool,
         StopRejected, AwaitApproval, history
<1>w. PICK w : worker' = [worker EXCEPT ![k] = w]
  BY DEF Work, RunFenced, Run, Return, Finish, WakeDone, WakeDecided, TakeInputs, RunTool,
         StopRejected, AwaitApproval
<1>o. worker'[k] = w /\ \A j \in Requests \ {k} : worker'[j] = worker[j]
  BY <1>0, <1>w DEF TypeOK
<1>v. \A j \in Requests \ {k} : waits'[j] = waits[j]
  BY <1>0 DEF Work, RunFenced, Run, Return, Finish, WakeDone, WakeDecided, TakeInputs, RunTool,
         StopRejected, AwaitApproval, FailApprovalPersistence, TypeOK
<1> SUFFICES HandOK(k)' BY <1>t, <1>o, <1>v, HandStill
<1>f. CASE w.at = "finishing" BY <1>0, <1>f, <1>o, <1>t, HandLeaves
<1>1. CASE RunFenced(k)
  <2>1. w = Idle /\ waits' = waits /\ worker[k].at = "spawned"
    BY <1>0, <1>1, <1>w, <1>o DEF RunFenced, TypeOK
  <2>2. \A a \in Approvals : waits[k][a] # "waiting" BY <1>0, <2>1, NoneOpen
  <2> QED BY <2>1, <2>2, <1>o, WorkerType DEF HandOK, WaitOK, RejectOK
<1>2. CASE Run(k) \/ RunTool(k)
  <2>1. /\ waits' = waits
        /\ worker[k].at = "spawned" \/ (worker[k].at = "authorized" /\ worker[k].ready = "approve")
    BY <1>2 DEF Run, RunTool
  <2>2. \A a \in Approvals : waits[k][a] # "waiting" /\ told[k][a] # "reject"
    BY <1>0, <2>1, NoneOpen
  <2> QED BY <2>1, <2>2, <1>t DEF HandOK, WaitOK, RejectOK
<1>3. CASE Return(k) \/ WakeDone(k) \/ StopRejected(k)
  <2>1. PICK o \in {"ok", "error", "unknown"} :
          worker' = [worker EXCEPT ![k] = Returning(k, o)]
            \/ worker' = [worker EXCEPT ![k] = Finishing("unknown")]
    BY <1>3 DEF Return, WakeDone, StopRejected
  <2>2. w \in {Returning(k, o), Finishing("unknown")} BY <1>0, <1>o, <2>1 DEF TypeOK
  <2>3. w.at = "finishing" BY <2>2, FinishingType
  <2> QED BY <1>f, <2>3
<1>4. CASE Finish(k)
  <2>1. w = Idle /\ waits'[k] = NoWaits BY <1>0, <1>4, <1>o DEF Finish, TypeOK
  <2> QED BY <1>0, <1>t, <1>o, <2>1, WorkerType, HandLeaves
<1>5. CASE WakeDecided(k)
  <2>1. /\ waits' = waits /\ worker[k].at = "waiting" /\ worker[k].ready # "none"
        /\ w = [worker[k] EXCEPT !.at = "decided"] \/ w.at = "finishing"
    BY <1>0, <1>5, <1>o, FinishingType DEF WakeDecided, TypeOK
  <2>2. CASE w = [worker[k] EXCEPT !.at = "decided"]
    <3>1. w.approval = worker[k].approval /\ w.ready = worker[k].ready BY <1>0, <2>2 DEF Worker
    <3> QED BY <1>0, <1>t, <1>o, <2>1, <3>1, HandMoves
  <2> QED BY <1>f, <2>1, <2>2
<1>6. CASE TakeInputs(k)
  <2>1. /\ waits' = waits /\ worker[k].at = "decided"
        /\ w = [worker[k] EXCEPT !.at = "authorized"] \/ w.at = "finishing"
    BY <1>0, <1>6, <1>o, FinishingType DEF TakeInputs, TypeOK
  <2>2. \A a \in Approvals : waits[k][a] # "waiting" BY <1>0, <2>1, NoneOpen
  <2>3. CASE w = [worker[k] EXCEPT !.at = "authorized"]
    <3>1. w.approval = worker[k].approval /\ w.ready = worker[k].ready BY <1>0, <2>3 DEF Worker
    <3> QED BY <1>0, <1>t, <1>o, <2>1, <2>2, <3>1 DEF HandOK, WaitOK, RejectOK
  <2> QED BY <1>f, <2>1, <2>3
<1>7. ASSUME NEW a \in Approvals, AwaitApproval(k, a) PROVE HandOK(k)'
  <2>1. worker[k].at = "executing" BY <1>7 DEF AwaitApproval
  <2>2. \A b \in Approvals : waits[k][b] # "waiting" /\ told[k][b] # "reject"
    BY <1>0, <2>1, NoneOpen
  <2>3. CASE /\ waits' = [waits EXCEPT ![k][a] = "waiting"]
             /\ worker' = [worker EXCEPT ![k] = [Idle EXCEPT !.at = "waiting", !.approval = a]]
    <3>0. worker'[k] = [Idle EXCEPT !.at = "waiting", !.approval = a] BY <1>0, <2>3 DEF TypeOK
    <3>1. /\ worker'[k].at = "waiting" /\ worker'[k].approval = a /\ worker'[k].ready = "none"
      BY <3>0 DEF Idle
    <3>2. \A b \in Approvals \ {a} : waits'[k][b] = waits[k][b] BY <1>0, <2>3 DEF TypeOK
    <3> QED BY <1>t, <2>2, <3>1, <3>2 DEF HandOK, WaitOK, RejectOK
  <2>4. CASE worker' = [worker EXCEPT ![k] = Finishing("unknown")]
    <3>0. worker'[k] = Finishing("unknown") BY <1>0, <2>4 DEF TypeOK
    <3>1. w.at = "finishing" BY <1>o, <3>0, FinishingType
    <3> QED BY <1>f, <3>1
  <2> QED BY <1>7, <2>3, <2>4 DEF AwaitApproval
<1> QED BY <1>1, <1>2, <1>3, <1>4, <1>5, <1>6, <1>7 DEF Work

(* No rejection was confirmed of a request that has no fence.              *)
LEMMA SubmitHand ==
  ASSUME Inv, OrphanInv, NEW k \in Requests, NEW b \in BOOLEAN,
         \A j \in Requests : HandOK(j), Submit(k, b)
  PROVE  \A j \in Requests : HandOK(j)'
<1>0. TypeOK /\ LedgerInv /\ ReceiptsDurable BY DEF Inv, DurabilityInv
<1>1. told' = told /\ waits' = waits BY DEF Submit, history
<1>2. fences[k].state = "absent" /\ phase # "down" BY DEF Submit, Admissible, Open
<1>3. worker[k].at = "idle" BY <1>2 DEF OrphanInv
<1>4. \A a \in Approvals : waits[k][a] # "waiting" BY <1>3 DEF HandOK, WaitOK
<1>5. \A a \in Approvals : told[k][a] # "reject"
  <2>1. Asked(fences[k]) = {} BY <1>0, <1>2 DEF LedgerInv, FenceInv
  <2>2. \A a \in Approvals : fences[k].approvals[a].state # "decided" BY <2>1 DEF Asked
  <2> QED BY <1>0, <1>2, <2>2 DEF ReceiptsDurable, Views
<1>6. HandOK(k)' BY <1>1, <1>4, <1>5 DEF HandOK, WaitOK, RejectOK
<1>7. \A j \in Requests \ {k} : worker'[j] = worker[j] BY <1>0 DEF Submit, TypeOK
<1> QED BY <1>1, <1>6, <1>7, HandStill

LEMMA DecideHand ==
  ASSUME TypeOK, NEW k \in Requests, NEW a \in Approvals, NEW d \in Decisions,
         \A j \in Requests : HandOK(j), DecideApproval(k, a, d)
  PROVE  \A j \in Requests : HandOK(j)'
<1>1. CASE DecisionUnsaved(k, a, d)
  <2>1. worker' = worker /\ told' = told BY <1>1 DEF DecisionUnsaved
  <2>2. \A j \in Requests : waits'[j] = waits[j] \/ waits'[j] = NoWaits
    BY <1>1 DEF DecisionUnsaved, TypeOK
  <2> QED BY <2>1, <2>2, HandStill
<1>2. CASE DecisionSaved(k, a, d)
  <2>1. /\ waits' = [waits EXCEPT ![k][a] = d] /\ told' = [told EXCEPT ![k][a] = d]
        /\ worker' = IF worker[k].at = "waiting" /\ worker[k].approval = a
                     THEN [worker EXCEPT ![k].ready = d] ELSE worker
    BY <1>2 DEF DecisionSaved, Deliver
  <2>2. \A j \in Requests \ {k} :
          waits'[j] = waits[j] /\ told'[j] = told[j] /\ worker'[j] = worker[j]
    BY <2>1 DEF TypeOK
  <2> SUFFICES HandOK(k)' BY <2>2, HandStill
  <2>3. /\ waits'[k][a] = d /\ told'[k][a] = d
        /\ \A b \in Approvals \ {a} : waits'[k][b] = waits[k][b] /\ told'[k][b] = told[k][b]
    BY <2>1 DEF TypeOK
  <2>4. \/ worker[k].at = "finishing"
        \/ worker[k].at = "waiting" /\ worker[k].approval = a /\ worker[k].ready = "none"
    BY DEF DecideApproval, HandOK, WaitOK
  <2>5. d # "waiting" BY DEF Decisions
  <2>6. CASE worker[k].at = "finishing"
    <3>1. worker'[k].at = "finishing" BY <2>1, <2>6
    <3> QED BY <2>3, <2>5, <3>1 DEF HandOK, WaitOK, RejectOK
  <2>7. CASE worker[k].at = "waiting" /\ worker[k].approval = a /\ worker[k].ready = "none"
    <3>1. worker'[k] = [worker[k] EXCEPT !.ready = d] BY <2>1, <2>7 DEF TypeOK
    <3>2. worker[k] \in Worker BY DEF TypeOK
    <3>3. worker'[k].ready = d /\ worker'[k].approval = a BY <3>1, <3>2, <2>7 DEF Worker
    <3>4. \A b \in Approvals \ {a} : waits[k][b] # "waiting" /\ told[k][b] # "reject"
      BY <2>7 DEF HandOK, WaitOK, RejectOK
    <3> QED BY <2>3, <2>5, <3>3, <3>4 DEF HandOK, WaitOK, RejectOK
  <2> QED BY <2>4, <2>6, <2>7
<1> QED BY <1>1, <1>2 DEF DecideApproval

LEMMA HandNext ==
  ASSUME Inv, OrphanInv, \A k \in Requests : HandOK(k), [Next]_vars
  PROVE  \A k \in Requests : HandOK(k)'
<1>0. TypeOK BY DEF Inv
<1> DEFINE Still == /\ UNCHANGED <<worker, told>>
                    /\ \A k \in Requests : waits'[k] = waits[k] \/ waits'[k] = NoWaits
<1>s. Still => \A k \in Requests : HandOK(k)' BY HandStill
<1>1. CASE \E k \in Requests : Work(k) BY <1>1, WorkHand
<1>2. ASSUME NEW k \in Requests, Call(k) PROVE \A j \in Requests : HandOK(j)'
  <2>1. CASE Upload(k) \/ AckAgain(k) \/ Cancel(k) \/ \E b \in BOOLEAN : AckWithClientAction(k, b)
    <3>1. Still
      BY <1>0, <2>1 DEF Upload, AckAgain, Cancel, AckWithClientAction, process, history, TypeOK
    <3> QED BY <1>s, <3>1
  <2> QED BY <1>0, <1>2, <2>1, SubmitHand, DecideHand DEF Call
<1>3. CASE \E k \in Requests : Tick(k)
  <2>1. Still
    BY <1>3 DEF Tick, DeadlinePasses, ContextDeadline, RetentionPasses, StageAges, process, history
  <2> QED BY <1>s, <2>1
<1>4. CASE Sweep \/ BeginShutdown \/ Close \/ New \/ \E c \in Clients : RevokeWorkbenchClient(c)
  <2>1. Still
    BY <1>4 DEF Sweep, BeginShutdown, Close, New, RevokeWorkbenchClient, process, history
  <2> QED BY <1>s, <2>1
<1>5. CASE Exit \/ Crash
  <2>1. \A k \in Requests : /\ worker'[k].at = "idle" /\ waits'[k] = NoWaits
                            /\ told'[k] = told[k]
    BY <1>5, WorkerType DEF Exit, Crash, Stop, history
  <2> QED BY <2>1, HandLeaves
<1>6. CASE UNCHANGED vars
  <2>1. Still BY <1>6 DEF vars, process, history
  <2> QED BY <1>s, <2>1
<1> QED BY <1>1, <1>2, <1>3, <1>4, <1>5, <1>6 DEF Next

-----------------------------------------------------------------------------
(* The theorems.                                                           *)

CapacityInv == SlotInv /\ SpaceInv /\ RevokedIsQuiet /\ OrphanInv /\ WaitingInv /\ RejectInv

LEMMA CapacityInit == Init => Inv /\ CapacityInv
<1> SUFFICES ASSUME Init PROVE Inv /\ CapacityInv OBVIOUS
<1>1. OrphanInv BY WorkerType DEF Init, OrphanInv
<1>2. WaitingInv /\ RejectInv BY DEF Init, WaitingInv, RejectInv, NoWaits
<1>3. RevokedIsQuiet BY DEF Init, RevokedIsQuiet
<1> QED BY <1>1, <1>2, <1>3, InvInit, SlotInit, SpaceInit DEF CapacityInv

LEMMA CapacityNext == Inv /\ CapacityInv /\ [Next]_vars => Inv' /\ CapacityInv'
<1> SUFFICES ASSUME Inv, CapacityInv, [Next]_vars PROVE Inv' /\ CapacityInv' OBVIOUS
<1>1. Inv' BY InvNext
<1>2. SlotInv' BY SlotNext DEF Inv, CapacityInv
<1>3. SpaceInv' /\ RevokedIsQuiet' BY SpaceNext, QuietNext DEF CapacityInv
<1>4. OrphanInv' BY <1>2, OrphanNext DEF CapacityInv
<1>5. \A k \in Requests : HandOK(k)' BY HandNext, HandInv DEF CapacityInv
<1>6. WaitingInv' /\ RejectInv' BY <1>5 DEF HandOK, WaitOK, RejectOK, WaitingInv, RejectInv
<1> QED BY <1>1, <1>2, <1>3, <1>4, <1>6 DEF CapacityInv

(* The invariant behind the theorems of this module.                       *)
THEOREM CapacityInvariant == Spec => [](Inv /\ CapacityInv)
  BY CapacityInit, CapacityNext, PTL DEF Spec

(* A slot is taken exactly while a goroutine runs for it, and there are    *)
(* never more than MaxActive, through submissions, failures and restarts.  *)
THEOREM SlotsCounted == Spec => []SlotAccounting
<1>1. CapacityInv => SlotAccounting BY DEF CapacityInv, SlotInv
<1> QED BY <1>1, CapacityInvariant, PTL

(* The bytes reserved for an owner stay within the quota, in memory and in *)
(* every ledger a restart may load.                                        *)
THEOREM QuotaKept == Spec => []OwnerQuota
<1>1. CapacityInv => OwnerQuota BY DEF CapacityInv, SpaceInv, OwnerQuota, Views
<1> QED BY <1>1, CapacityInvariant, PTL

(* A revoked client has no execution in progress and no upload, and gets   *)
(* none, while the process lives.                                          *)
THEOREM RevokedStayQuiet == Spec => []RevokedIsQuiet
<1>1. CapacityInv => RevokedIsQuiet BY DEF CapacityInv
<1> QED BY <1>1, CapacityInvariant, PTL

(* No tool of a request starts once one of its approvals was rejected: the *)
(* worker that holds the rejection only stops.                             *)
THEOREM RejectionStops == Spec => NothingAfterRejection
<1>1. ASSUME Inv, CapacityInv, [Next]_vars, NEW k \in Requests,
             NEW a \in Approvals, told[k][a] = "reject"
      PROVE  toolRuns'[k] = toolRuns[k]
  <2>0. TypeOK BY <1>1 DEF Inv
  <2>1. ~RunTool(k)
    <3> SUFFICES ASSUME RunTool(k) PROVE FALSE OBVIOUS
    <3>1. worker[k].at = "authorized" /\ worker[k].ready = "approve" BY DEF RunTool
    <3> QED BY <1>1, <3>1 DEF CapacityInv, RejectInv
  <2>2. toolRuns' = toolRuns \/ \E j \in Requests : RunTool(j)
    <3>1. CASE \E j \in Requests : Work(j)
      BY <3>1 DEF Work, RunFenced, Run, Return, Finish, WakeDone, WakeDecided, TakeInputs,
                  StopRejected, AwaitApproval, history
    <3>2. CASE \E j \in Requests : Call(j)
      BY <3>2 DEF Call, Upload, Submit, Cancel, AckAgain, AckWithClientAction, DecideApproval, history
    <3>3. CASE \E j \in Requests : Tick(j)
      BY <3>3 DEF Tick, DeadlinePasses, ContextDeadline, RetentionPasses, StageAges, history
    <3>4. CASE \/ Sweep \/ BeginShutdown \/ Close \/ Exit \/ Crash \/ New
               \/ \E c \in Clients : RevokeWorkbenchClient(c)
      BY <3>4 DEF Sweep, BeginShutdown, Close, Exit, Crash, Stop, New, RevokeWorkbenchClient, history
    <3>5. CASE UNCHANGED vars BY <3>5 DEF vars, history
    <3> QED BY <1>1, <3>1, <3>2, <3>3, <3>4, <3>5 DEF Next
  <2> QED BY <2>0, <2>1, <2>2 DEF RunTool, TypeOK
<1>2. Inv /\ CapacityInv /\ [Next]_vars =>
        \A k \in Requests : (\E a \in Approvals : told[k][a] = "reject") => toolRuns'[k] = toolRuns[k]
  BY <1>1
<1> QED BY <1>2, CapacityInit, CapacityNext, PTL DEF Spec, NothingAfterRejection

-----------------------------------------------------------------------------
(* The removal of results.                                                 *)

(* Only these steps remove a result.                                       *)
LEMMA Removals ==
  ASSUME [Next]_vars, NEW k \in content \ content'
  PROVE  \/ \E j \in Requests : Finish(j) \/ AckAgain(j)
         \/ \E j \in Requests, b \in BOOLEAN : AckWithClientAction(j, b)
         \/ Sweep \/ New
<1>1. CASE \E j \in Requests : Work(j)
  BY <1>1 DEF Work, RunFenced, Run, Return, WakeDone, WakeDecided, TakeInputs, RunTool,
              StopRejected, AwaitApproval
<1>2. CASE \E j \in Requests : Call(j)
  BY <1>2 DEF Call, Upload, Submit, Cancel, DecideApproval
<1>3. CASE \E j \in Requests : Tick(j)
  BY <1>3 DEF Tick, DeadlinePasses, ContextDeadline, RetentionPasses, StageAges
<1>4. CASE \/ BeginShutdown \/ Close \/ Exit \/ Crash
           \/ \E c \in Clients : RevokeWorkbenchClient(c)
  BY <1>4 DEF BeginShutdown, Close, Exit, Crash, Stop, RevokeWorkbenchClient
<1>5. CASE UNCHANGED vars BY <1>5 DEF vars
<1> QED BY <1>1, <1>2, <1>3, <1>4, <1>5 DEF Next

LEMMA RemovalDelivered ==
  ASSUME Inv, [Next]_vars, NEW k \in content \ content',
         fences[k].state = "completed", clock[k] # "expired"
  PROVE  \A L \in Views' : L[k].state = "delivered"
<1>0. TypeOK /\ DownInv /\ k \in Requests BY DEF Inv, DurabilityInv, TypeOK
<1>1. ASSUME NEW j \in Requests, Finish(j) PROVE FALSE
  <2>1. content \ content' \subseteq {j} /\ (content' # content => StillRunning(j))
    BY <1>1 DEF Finish, FinishFenced, FinishInterrupted, FinishWithoutResult, FinishUnsealed, FinishSealed
  <2> QED BY <2>1 DEF StillRunning
<1>2. ASSUME NEW j \in Requests, AckAgain(j) PROVE FALSE BY <1>2 DEF AckAgain
<1>3. ASSUME NEW j \in Requests, NEW b \in BOOLEAN, AckWithClientAction(j, b)
      PROVE  \A L \in Views' : L[k].state = "delivered"
  <2>1. PICK g : g = [Moved(fences[j], "delivered") EXCEPT !.receipt = b] OBVIOUS
  <2>2. g.state = "delivered"
    <3>1. fences[j] \in Fence /\ "delivered" \in States BY <1>0 DEF TypeOK, Ledger, States
    <3>2. Moved(fences[j], "delivered") \in Fence /\ Moved(fences[j], "delivered").state = "delivered"
      BY <3>1, MovedType, MovedEffect
    <3> QED BY <2>1, <3>2 DEF Fence
  <2>3. /\ fences' = [fences EXCEPT ![j] = g] /\ disk' = {fences'}
        /\ content' \in {content \ {j}, content}
    BY <1>3, <2>1 DEF AckWithClientAction, RemoveContent, Saved
  <2>4. k = j BY <2>3
  <2>5. fences'[k].state = "delivered" BY <1>0, <2>2, <2>3, <2>4 DEF TypeOK, Ledger
  <2> QED BY <2>3, <2>5 DEF Views
<1>4. CASE Sweep
  <2>1. k \notin Kept(fences') BY <1>4 DEF Sweep, RemoveFiles
  <2>2. fences'[k] = fences[k] BY <1>0, <1>4 DEF Sweep, Swept
  <2> QED BY <1>0, <2>1, <2>2 DEF Kept
<1>5. CASE New BY <1>0, <1>5 DEF New, DownInv, EmptyLedger, NoFence
<1> QED BY <1>1, <1>2, <1>3, <1>4, <1>5, Removals

(* A result that can still be fetched is removed only once its delivery is *)
(* in memory and in every ledger of the disk.                              *)
THEOREM RemovedOnceDelivered == Spec => DeliveredBeforeRemoval
<1>1. Inv /\ [Next]_vars =>
        \A k \in content \ content' : fences[k].state = "completed" /\ clock[k] # "expired" =>
          \A L \in Views' : L[k].state = "delivered"
  BY RemovalDelivered
<1>2. Init => Inv BY InvInit
<1>3. Inv /\ [Next]_vars => Inv' BY InvNext
<1> QED BY <1>1, <1>2, <1>3, PTL DEF Spec, DeliveredBeforeRemoval
=============================================================================
