---------------------------- MODULE ExecutionClient ----------------------------
(***************************************************************************)
(* The desktop's execution client (apps/desktop/src/main:                  *)
(* execution-client.mjs, client-store.mjs) composed with the gateway's     *)
(* request control of ExecutionControl.                                    *)
(*                                                                         *)
(* The desktop keeps one durable row per request and POSTs it once; every  *)
(* later step reconciles the same request by lookups.  A result is         *)
(* acknowledged after it was stored.  Calls of one request are serialized; *)
(* acknowledgments run beside them.  A call can time out while its message *)
(* is still on its way, and the desktop can close at any point.            *)
(***************************************************************************)
EXTENDS ExecutionControl

CONSTANT WithFiles  \* requests whose result has files to fetch

ASSUME WithFilesAssumption == WithFiles \subseteq Requests

VARIABLES
  task,        \* tasks.status: the durable row of each request
  projection,  \* execution_projection: the last status it accepted
  delivery,    \* deliveries: the result, stored and acknowledged
  call,        \* the serialized call of each request and its answer
  ack,         \* the acknowledgment under way
  late,        \* messages of abandoned calls that are still on their way
  posts        \* history: POSTs that were not proven unsent

durable == <<task, projection, delivery>>
desktop == <<durable, call, ack, late, posts>>
clientVars == <<vars, desktop>>

-----------------------------------------------------------------------------
(* What the gateway answers.                                               *)

Status(state, revision, reason, receipts) ==
  [state |-> state, revision |-> revision, reason |-> reason, receipts |-> receipts]
Answer(state) == Status(state, 0, "none", {})

ApprovalReceipts(f) ==
  {<<a, f.approvals[a]>> :
     a \in {b \in Approvals : f.approvals[b].state \in {"decided", "decision_unknown"}}}

(* Lookup: the stored status, projected onto the clock and the result.     *)
Lookup(k, readable) ==
  LET f == fences[k] IN
  IF f.state = "absent" THEN Answer("missing")
  ELSE Status(CASE f.state \in Live /\ clock[k] # "live" -> "unknown"
                [] f.state = "completed" /\ (clock[k] = "expired" \/ ~readable)
                     -> "delivery_expired"
                [] OTHER -> f.state,
              f.revision, f.reason, ApprovalReceipts(f))

-----------------------------------------------------------------------------
(* The desktop's calls.                                                    *)

NoCall == [op |-> "none", answer |-> Answer("none")]
Asking(op) == [NoCall EXCEPT !.op = op]
Sent(k, op) == call[k] = Asking(op)
Answered(k, answer) == call' = [call EXCEPT ![k].answer = answer]

(* A submission or cancellation that fails looks the request up.  (So does *)
(* one whose answer came and whose files do not: a Reconcile that follows  *)
(* at once.)                                                               *)
Failed(k) == IF call[k].op \in {"submit", "cancel"} THEN Asking("lookup") ELSE NoCall

(* Faulty variants come before the operator they stand in for, as in       *)
(* ExecutionControl.  Here a stored result is not taken up again.          *)
PollOnlyRunning(k) == task[k] \in {"submission_pending", "accepted", "running", "cancel_pending"}

(* Faulty: an execution that runs is not looked up again.                  *)
PollOnlyPending(k) == task[k] \in {"submission_pending", "cancel_pending", "saved"}

(* ClientStore.pending: what the timer reconciles.                         *)
PendingTask(k) ==
  task[k] \in {"submission_pending", "accepted", "running", "cancel_pending", "saved"}

ClientInit ==
  /\ task = [k \in Requests |-> "awaiting_runtime"]
  /\ projection = [k \in Requests |-> Answer("none")]
  /\ delivery = [k \in Requests |-> "none"]
  /\ call = [k \in Requests |-> NoCall]
  /\ ack = [k \in Requests |-> "none"]
  /\ late = {}
  /\ posts = [k \in Requests |-> 0]

(* The submission is durable before the POST.                              *)
MarkSubmitted(k) ==
  /\ call[k] = NoCall
  /\ task[k] = "awaiting_runtime"
  /\ task' = [task EXCEPT ![k] = "submission_pending"]
  /\ call' = [call EXCEPT ![k] = Asking("submit")]
  /\ posts' = [posts EXCEPT ![k] = @ + 1]
  /\ UNCHANGED <<vars, projection, delivery, ack, late>>

(* Only the transport's proof that nothing was written releases it.        *)
RestoreUnsentSubmission(k) ==
  /\ Sent(k, "submit")
  /\ task' = [task EXCEPT ![k] = "awaiting_runtime"]
  /\ call' = [call EXCEPT ![k] = NoCall]
  /\ posts' = [posts EXCEPT ![k] = @ - 1]
  /\ UNCHANGED <<vars, projection, delivery, ack, late>>

(* reconcile, by the timer or the owner.  A stored result is acknowledged  *)
(* instead.                                                                *)
Reconcile(k) ==
  /\ call[k] = NoCall
  /\ task[k] # "awaiting_runtime"
  /\ IF delivery[k] = "saved"
     THEN /\ ack[k] = "none"
          /\ ack' = [ack EXCEPT ![k] = "sent"]
          /\ UNCHANGED call
     ELSE /\ call' = [call EXCEPT ![k] = Asking("lookup")]
          /\ UNCHANGED ack
  /\ UNCHANGED <<vars, durable, late, posts>>

CancelTask(k) ==
  /\ call[k] = NoCall
  /\ task[k] \in {"submission_pending", "accepted", "running", "cancel_pending"}
  /\ task' = [task EXCEPT ![k] = "cancel_pending"]
  /\ call' = [call EXCEPT ![k] = Asking("cancel")]
  /\ UNCHANGED <<vars, projection, delivery, ack, late, posts>>

-----------------------------------------------------------------------------
(* The gateway serves a call.  Its answer may still be lost.               *)

(* Refused: no room, closed, revoked or, for good, an envelope the gateway *)
(* does not accept.                                                        *)
ServeSubmit(k) ==
  /\ Sent(k, "submit")
  /\ \/ /\ Submit(k, FALSE)
        /\ Answered(k, IF fences'[k].state = "absent" THEN Answer("error")
                       ELSE Status("accepted", 1, "none", {}))
     \/ /\ phase # "down"
        /\ fences[k].state = "absent"
        /\ \E refusal \in {"error", "rejected"} : Answered(k, Answer(refusal))
        /\ UNCHANGED vars
  /\ UNCHANGED <<durable, ack, late, posts>>

(* A result file may be unreadable for a while.                            *)
ServeLookup(k, readable) ==
  /\ Sent(k, "lookup")
  /\ phase # "down"
  /\ readable => k \in content
  /\ Answered(k, Lookup(k, readable))
  /\ UNCHANGED <<vars, durable, ack, late, posts>>

(* Cancel, then Lookup; a save that failed is reported as such.            *)
ServeCancel(k) ==
  /\ Sent(k, "cancel")
  /\ IF fences[k].state \in Live
     THEN /\ Cancel(k)
          /\ Answered(k, IF faults' = faults THEN Lookup(k, FALSE)' ELSE Answer("error"))
     ELSE /\ phase # "down"
          /\ UNCHANGED vars
          /\ Answered(k, Lookup(k, k \in content))
  /\ UNCHANGED <<durable, ack, late, posts>>

(* Every file of the result, or a refusal once it is expired or delivered. *)
ServeFiles(k) ==
  /\ Sent(k, "files")
  /\ phase # "down"
  /\ Answered(k, Answer(IF fences[k].state = "completed" /\ clock[k] # "expired" /\ k \in content
                        THEN "completed" ELSE "error"))
  /\ UNCHANGED <<vars, durable, ack, late, posts>>

(* An acknowledgment, plain or with the presentation receipt.              *)
ServeAck(k) ==
  /\ ack[k] = "sent"
  /\ \/ /\ \E receipt \in BOOLEAN : AckWithClientAction(k, receipt)
        /\ ack' = [ack EXCEPT ![k] =
                     IF faults' = faults /\ k \notin content' THEN "done" ELSE "none"]
     \/ /\ AckAgain(k)
        /\ ack' = [ack EXCEPT ![k] = "done"]
     \/ /\ phase # "down"
        /\ fences[k].state # "completed" \/ clock[k] = "expired"
        /\ ack' = [ack EXCEPT ![k] =
                     IF fences[k].state = "delivered" /\ k \notin content THEN "done" ELSE "none"]
        /\ UNCHANGED vars
  /\ UNCHANGED <<durable, call, late, posts>>

(* A message of an abandoned call arrives; nobody waits for its answer.    *)
ServeLate(op, k) ==
  /\ <<op, k>> \in late
  /\ late' = late \ {<<op, k>>}
  /\ \/ op = "submit" /\ Submit(k, FALSE)
     \/ op = "cancel" /\ Cancel(k)
     \/ op = "ack" /\ AckWithClientAction(k, FALSE)
     \/ UNCHANGED vars
  /\ UNCHANGED <<durable, call, ack, posts>>

-----------------------------------------------------------------------------
(* The desktop takes the answer.                                           *)

(* acceptExecutionProjection: an older revision is ignored; a revision     *)
(* that changed its content and an end that reopens are errors.            *)
Stale(k)    == call[k].answer.revision < projection[k].revision
Conflict(k) == call[k].answer.revision = projection[k].revision /\ call[k].answer # projection[k]
Reopens(k)  == projection[k].state \in States \ Live /\ call[k].answer.state \in Live

Reported(k) == call[k].op \in {"submit", "lookup", "cancel"} /\ call[k].answer.state \in States

(* setExecutionState: a durable delivery decides.                          *)
StateOf(k, state) ==
  CASE delivery[k] = "none"  -> state
    [] delivery[k] = "saved" -> "saved"
    [] OTHER                 -> "delivered"

HasResult(status) == status.state = "completed"

AcceptProjection(k) ==
  LET status == call[k].answer IN
  /\ Reported(k)
  /\ ~Stale(k) /\ ~Conflict(k) /\ ~Reopens(k)
  /\ projection' = [projection EXCEPT ![k] = status]
  /\ IF HasResult(status)
     THEN /\ call' = [call EXCEPT ![k] = [op |-> "files", answer |->
                        Answer(IF k \in WithFiles THEN "none" ELSE "completed")]]
          /\ UNCHANGED task
     ELSE /\ call' = [call EXCEPT ![k] = NoCall]
          /\ task' = [task EXCEPT ![k] = StateOf(k, status.state)]
  /\ UNCHANGED <<vars, delivery, ack, late, posts>>

RefuseProjection(k) ==
  /\ Reported(k)
  /\ Stale(k) \/ Conflict(k) \/ Reopens(k)
  /\ call' = [call EXCEPT ![k] = IF Stale(k) THEN NoCall ELSE Failed(k)]
  /\ UNCHANGED <<vars, durable, ack, late, posts>>

Rejected(k) == call[k].op = "submit" /\ call[k].answer.state = "rejected"

FailCall(k) ==
  /\ call[k].answer.state \in {"error", "missing", "rejected"}
  /\ task' = [task EXCEPT ![k] = IF Rejected(k) THEN StateOf(k, "failed") ELSE @]
  /\ call' = [call EXCEPT ![k] = Failed(k)]
  /\ UNCHANGED <<vars, projection, delivery, ack, late, posts>>

(* Faulty: the acknowledgment is sent for what was fetched, not stored.    *)
AcknowledgeFetched(k) ==
  /\ call[k].op = "files" /\ call[k].answer.state = "completed"
  /\ ack' = [ack EXCEPT ![k] = "sent"]
  /\ call' = [call EXCEPT ![k] = NoCall]
  /\ UNCHANGED <<vars, durable, late, posts>>

(* One transaction stores the text, the files, the receipt and the status. *)
CommitDelivery(k) ==
  /\ call[k].op = "files" /\ call[k].answer.state = "completed"
  /\ delivery[k] = "none"
  /\ delivery' = [delivery EXCEPT ![k] = "saved"]
  /\ task' = [task EXCEPT ![k] = "saved"]
  /\ ack' = [ack EXCEPT ![k] = "sent"]
  /\ call' = [call EXCEPT ![k] = NoCall]
  /\ UNCHANGED <<vars, projection, late, posts>>

Acknowledge(k) ==
  /\ ack[k] = "done"
  /\ delivery' = [delivery EXCEPT ![k] = "acknowledged"]
  /\ task' = [task EXCEPT ![k] = "delivered"]
  /\ ack' = [ack EXCEPT ![k] = "none"]
  /\ UNCHANGED <<vars, projection, call, late, posts>>

-----------------------------------------------------------------------------
(* Timeouts, lost answers and the end of the application.                  *)

(* What the gateway may still receive of k's calls.                        *)
OnTheirWay(k) ==
  {<<op, k>> : op \in {o \in {"submit", "cancel"} : Sent(k, o)}} \cup
  (IF ack[k] = "sent" THEN {<<"ack", k>>} ELSE {})

(* Each of them may be lost or arrive later.                               *)
LoseTouch(messages) == \E arriving \in SUBSET messages : late' = late \cup arriving

(* Faulty: a submission that timed out is submitted again.                 *)
ReleaseSubmission(k) ==
  /\ call[k] # NoCall
  /\ task' = [task EXCEPT ![k] = IF call[k].op = "submit" THEN "awaiting_runtime" ELSE @]
  /\ call' = [call EXCEPT ![k] = IF call[k].op = "submit" THEN NoCall ELSE Failed(k)]
  /\ LoseTouch({m \in OnTheirWay(k) : m[1] # "ack"})
  /\ UNCHANGED <<vars, projection, delivery, ack, posts>>

(* Faulty: a submission that timed out is shown as failed.                 *)
FailSubmission(k) ==
  /\ call[k] # NoCall
  /\ task' = [task EXCEPT ![k] = IF call[k].op = "submit" THEN "failed" ELSE @]
  /\ call' = [call EXCEPT ![k] = Failed(k)]
  /\ LoseTouch({m \in OnTheirWay(k) : m[1] # "ack"})
  /\ UNCHANGED <<vars, projection, delivery, ack, posts>>

AbandonCall(k) ==
  /\ call[k] # NoCall
  /\ call' = [call EXCEPT ![k] = Failed(k)]
  /\ LoseTouch({m \in OnTheirWay(k) : m[1] # "ack"})
  /\ UNCHANGED <<vars, durable, ack, posts>>

AbandonAck(k) ==
  /\ ack[k] # "none"
  /\ ack' = [ack EXCEPT ![k] = "none"]
  /\ LoseTouch({m \in OnTheirWay(k) : m[1] = "ack"})
  /\ UNCHANGED <<vars, durable, call, posts>>

(* The application closes, crashes or signs out: what is durable remains.  *)
CloseClient ==
  /\ \E k \in Requests : call[k] # NoCall \/ ack[k] # "none"
  /\ LoseTouch(UNION {OnTheirWay(k) : k \in Requests})
  /\ call' = [k \in Requests |-> NoCall]
  /\ ack' = [k \in Requests |-> "none"]
  /\ UNCHANGED <<vars, durable, posts>>

-----------------------------------------------------------------------------
Serve(k) ==
  \/ ServeSubmit(k) \/ ServeCancel(k) \/ ServeFiles(k) \/ ServeAck(k)
  \/ \E readable \in BOOLEAN : ServeLookup(k, readable)

Take(k) ==
  \/ AcceptProjection(k) \/ RefuseProjection(k) \/ FailCall(k)
  \/ CommitDelivery(k) \/ Acknowledge(k)

Desktop(k) ==
  \/ MarkSubmitted(k) \/ RestoreUnsentSubmission(k) \/ Reconcile(k) \/ CancelTask(k)
  \/ Take(k) \/ AbandonCall(k) \/ AbandonAck(k)

(* What the gateway does without this desktop's requests: its workers and  *)
(* timers, the owner's decisions, revocation, housekeeping and restarts.   *)
Gateway ==
  /\ \/ \E k \in Requests : Work(k) \/ Tick(k)
     \/ \E k \in Requests, a \in Approvals, d \in Decisions : DecideApproval(k, a, d)
     \/ \E c \in Clients : RevokeWorkbenchClient(c)
     \/ Sweep \/ BeginShutdown \/ Close \/ Exit \/ Crash \/ New
  /\ UNCHANGED desktop

ClientNext ==
  \/ Gateway
  \/ \E k \in Requests : Serve(k) \/ Desktop(k)
  \/ \E op \in {"submit", "cancel", "ack"}, k \in Requests : ServeLate(op, k)
  \/ CloseClient

ClientSpec == Init /\ ClientInit /\ [][ClientNext]_clientVars

(* A reconciliation the timer asks for gets its turn among the calls of    *)
(* its request, every call ends by its timeout at the latest, the          *)
(* gateway's sweep runs every minute, and a call (lookup, fetch or ACK)    *)
(* that is repeated for ever is served and taken some time: the network    *)
(* and the result file come back.                                          *)
ClientFairness ==
  /\ WF_clientVars(Sweep /\ UNCHANGED desktop)
  /\ \A k \in Requests :
       /\ SF_clientVars(PendingTask(k) /\ Reconcile(k))
       /\ WF_clientVars(AbandonCall(k))
       /\ SF_clientVars(ServeLookup(k, k \in content)) /\ SF_clientVars(AcceptProjection(k))
       /\ SF_clientVars(ServeFiles(k)) /\ SF_clientVars(CommitDelivery(k))
       /\ SF_clientVars(ServeAck(k)) /\ SF_clientVars(Acknowledge(k))

ClientFairSpec == ClientSpec /\ Fairness /\ ClientFairness

-----------------------------------------------------------------------------
(* Properties.                                                             *)

(* A request whose POST may have been sent is never POSTed again, whatever *)
(* timed out and whenever the application closed: "even a lookup 404       *)
(* cannot authorize replay of this execution".                             *)
OnePost == \A k \in Requests : posts[k] <= 1

(* The two sides agree on who has the result.  The gateway counts it as    *)
(* delivered only if the desktop stored it, so that it is not lost between *)
(* them; and what the desktop regards as acknowledged is delivered in      *)
(* every ledger the gateway may load, so that it is never asked for again. *)
ReceiptsAgree ==
  \A k \in Requests, L \in Views :
    /\ L[k].state = "delivered" => delivery[k] # "none"
    /\ delivery[k] = "acknowledged" => L[k].state = "delivered"

(* A task shown as failed has no result, now or after a restart.           *)
FailedIsHonest ==
  \A k \in Requests : task[k] = "failed" =>
    \A L \in Views : L[k].state \notin {"completed", "delivered"}

(* An execution that the desktop saw alive and still shows as under way    *)
(* comes to an end on the desktop too: it shows how it ended or stores its *)
(* result, unless the gateway goes away.                                   *)
UnderWay(k) == task[k] \in {"submission_pending", "accepted", "running", "cancel_pending"}
ResultsArrive ==
  \A k \in Requests :
    projection[k].state # "none" /\ UnderWay(k) ~> ~UnderWay(k) \/ phase # "up"

(* A stored result is acknowledged unless it expires first: a lost ACK is  *)
(* retried, also after the application was closed.                         *)
SavedIsAcknowledged ==
  \A k \in Requests :
    delivery[k] = "saved" ~>
      delivery[k] = "acknowledged" \/ clock[k] = "expired" \/ phase # "up"

(* client-store.mjs:697, refuted: a revision never changes its content     *)
(* ("Execution revision conflict").                                        *)
NoRevisionConflict == \A k \in Requests : Reported(k) => ~Conflict(k)
=============================================================================
