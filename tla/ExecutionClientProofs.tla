------------------------ MODULE ExecutionClientProofs ------------------------
(***************************************************************************)
(* The desktop composed with the gateway: every step of the composition is *)
(* one of the gateway's control or none, so that what is proved of         *)
(* ExecutionControl holds of it; and the two sides never disagree on what  *)
(* was submitted, delivered or failed.                                     *)
(*                                                                         *)
(* For one request, a step is an ordinary one (Traced says what it does to *)
(* the request's fence), the arrival of its submission, the arrival of its *)
(* acknowledgment, the end of the gateway's process or the start of one.   *)
(* What the desktop knows is kept by ordinary steps, and the two arrivals  *)
(* need the message that causes them.                                      *)
(***************************************************************************)
EXTENDS ExecutionClient, ExecutionControlProofs

(* What the gateway has in memory and may have on its disk.                *)
Ledgers == disk \cup {fences}
NewLedgers == (disk' \ disk) \cup {fences'}

(* A fence that has no result, and what may become of it on the disk only. *)
Early == {"absent", "accepted", "running", "failed"}
Results == {"completed", "delivered", "delivery_expired"}

EarlyInv(k) ==
  phase # "down" /\ fences[k].state \in Early => \A L \in disk : L[k].state \notin Results

(* A delivery is known to a process only from its disk, or saved there.    *)
DeliveredInv(k) ==
  phase # "down" /\ fences[k].state = "delivered" => \A L \in disk : L[k].state = "delivered"

AllAbsent(k) == \A L \in Ledgers : L[k].state = "absent"
NoneDelivered(k) == \A L \in Ledgers : L[k].state # "delivered"
AllDelivered(k) == \A L \in Views : L[k].state = "delivered"

(* A request that has no result and will not have one.                     *)
Sealed(k) ==
  /\ fences[k].state \in {"absent", "failed", "unknown"}
  /\ \A L \in disk : L[k].state \notin Results

-----------------------------------------------------------------------------
(* What a step of the gateway does to the fence of k.                      *)

Traced(k) ==
  \A L \in NewLedgers :
    /\ fences[k].state = "absent" => L[k].state = "absent"
    /\ fences[k].state = "completed" => L[k].state # "delivered"
    /\ L[k].state = "completed" =>
         fences[k].state = "completed" \/ fences'[k].state \in {"completed", "unknown"}

(* Nothing happens to the fence, or to the ledgers.                        *)
LEMMA TracedElsewhere ==
  ASSUME TypeOK, NEW j \in Requests, NEW k \in Requests \ {j},
         \A L \in NewLedgers : \E g : L = [fences EXCEPT ![j] = g]
  PROVE  Traced(k)
<1>1. \A L \in NewLedgers : L[k] = fences[k] BY DEF TypeOK, Ledger
<1> QED BY <1>1 DEF Traced

LEMMA TracedStill == ASSUME NEW k \in Requests, UNCHANGED <<fences, disk>> PROVE Traced(k)
  BY DEF Traced, NewLedgers

(* A save of what is in memory, after a fence that was live has changed.   *)
LEMMA TracedSave ==
  ASSUME NEW k \in Requests,
         UNCHANGED disk \/ Saved(fences') \/ SaveFailed({fences'}) \/ SaveIgnored(fences'),
         fences'[k] = fences[k] \/ fences[k].state \in Live
  PROVE  Traced(k)
<1>1. \A L \in NewLedgers : L = fences'
  BY DEF NewLedgers, Saved, SaveFailed, SaveIgnored
<1>2. \A L \in NewLedgers : L[k] = fences'[k] BY <1>1
<1> QED BY <1>2 DEF Traced, Live

(* Two saves, of which the first has the request running.                  *)
LEMMA TracedTwice ==
  ASSUME NEW k \in Requests, NEW M, SaveTwice(M, fences'), fences[k].state \in Live,
         M[k].state # "completed" \/ fences'[k].state = "unknown"
  PROVE  Traced(k)
<1>1. \A L \in NewLedgers : L = fences' \/ L = M BY DEF NewLedgers, SaveTwice
<1> QED BY <1>1 DEF Traced, Live

(* The worker of j, at its own fence.                                      *)
LEMMA WorkTraced ==
  ASSUME TypeOK, NEW j \in Requests, Work(j) PROVE \A k \in Requests : Traced(k)
<1> SUFFICES ASSUME NEW k \in Requests PROVE Traced(k) OBVIOUS
<1>0. fences \in Ledger /\ fences[j] \in Fence BY DEF TypeOK, Ledger
<1>1. CASE \/ RunFenced(j) \/ Return(j) \/ WakeDone(j) \/ WakeDecided(j) \/ TakeInputs(j)
           \/ RunTool(j) \/ StopRejected(j)
  BY <1>1, TracedStill
     DEF RunFenced, Return, WakeDone, WakeDecided, TakeInputs, RunTool, StopRejected
<1>2. CASE Run(j)
  BY <1>0, <1>2, TracedSave DEF Run, Ledger, Live
<1>3. CASE \E a \in Approvals : AwaitApproval(j, a)
  <2>1. PICK a \in Approvals : AwaitApproval(j, a) BY <1>3
  <2>2. fences[j].state = "running" BY <2>1 DEF AwaitApproval, MayAsk
  <2>3. Await(fences[j], a).state = "running" BY <1>0, <2>2 DEF Await, Fence
  <2>4. CASE fences' = [fences EXCEPT ![j] = Await(fences[j], a)] /\ Saved(fences')
    BY <1>0, <2>2, <2>4, TracedSave DEF Ledger, Live
  <2>5. CASE FailApprovalPersistence(j, Await(fences[j], a))
    <3>1. PICK M, e : /\ M = [fences EXCEPT ![j] = Await(fences[j], a)]
                      /\ fences' = [fences EXCEPT ![j] = e] /\ SaveTwice(M, fences')
      BY <2>5 DEF FailApprovalPersistence
    <3>2. CASE k = j
      <4>1. M[k].state = "running" BY <1>0, <2>3, <3>1, <3>2 DEF Ledger
      <4> QED BY <2>2, <3>1, <3>2, <4>1, TracedTwice DEF Live
    <3>3. CASE k # j
      <4>1. \A L \in NewLedgers : L = fences' \/ L = M BY <3>1 DEF NewLedgers, SaveTwice
      <4> QED BY <3>1, <3>3, <4>1, TracedElsewhere
    <3> QED BY <3>2, <3>3
  <2> QED BY <2>1, <2>4, <2>5 DEF AwaitApproval
<1>4. CASE Finish(j)
  <2>1. CASE ~StillRunning(j)
    BY <1>4, <2>1, TracedStill DEF Finish, FinishFenced, FinishInterrupted
  <2>2. CASE StillRunning(j)
    <3>1. fences[j].state \in Live BY <2>2 DEF StillRunning, Live
    <3>2. CASE FinishInterrupted(j)
      BY <1>0, <3>1, <3>2, TracedSave DEF FinishInterrupted, Ledger
    <3>3. CASE FinishWithoutResult(j)
      BY <1>0, <3>1, <3>3, TracedSave DEF FinishWithoutResult, Ledger
    <3>4. CASE FinishUnsealed(j)
      <4>1. SaveTwice(fences', fences') /\ \E g : fences' = [fences EXCEPT ![j] = g]
        BY <3>4 DEF FinishUnsealed
      <4>2. \A L \in NewLedgers : L = fences' BY <4>1 DEF NewLedgers, SaveTwice
      <4>3. fences'[k] = fences[k] \/ fences[k].state \in Live BY <1>0, <3>1, <4>1 DEF Ledger
      <4> QED BY <4>2, <4>3 DEF Traced, Live
    <3>5. CASE FinishSealed(j)
      <4>1. PICK b \in BOOLEAN :
              LET result == [Ended(fences[j], "completed") EXCEPT !.issued = b]
                  M == [fences EXCEPT ![j] = result]
              IN \/ fences' = M /\ Saved(M)
                 \/ /\ fences' = [fences EXCEPT ![j] = [result EXCEPT !.state = "unknown"]]
                    /\ SaveTwice(M, fences')
        BY <3>5 DEF FinishSealed
      <4> DEFINE result == [Ended(fences[j], "completed") EXCEPT !.issued = b]
                 M == [fences EXCEPT ![j] = result]
      <4>2. [result EXCEPT !.state = "unknown"].state = "unknown"
        <5>1. result \in Fence BY <1>0, EndedType, UpdateType DEF States
        <5> QED BY <5>1 DEF Fence
      <4> HIDE DEF result
      <4>3. CASE fences' = M /\ Saved(M)
        BY <1>0, <3>1, <4>3, TracedSave DEF Ledger
      <4>4. CASE /\ fences' = [fences EXCEPT ![j] = [result EXCEPT !.state = "unknown"]]
                 /\ SaveTwice(M, fences')
        <5>1. \A L \in NewLedgers : L = fences' \/ L = M BY <4>4 DEF NewLedgers, SaveTwice
        <5>2. CASE k # j BY <4>4, <5>1, <5>2, TracedElsewhere
        <5>3. CASE k = j
          <6>1. fences'[k].state = "unknown" BY <1>0, <4>2, <4>4, <5>3 DEF Ledger
          <6> HIDE DEF M
          <6> QED BY <3>1, <4>4, <5>3, <6>1, TracedTwice
        <5> QED BY <5>2, <5>3
      <4> QED BY <4>1, <4>3, <4>4 DEF result
    <3> QED BY <1>4, <2>2, <3>2, <3>3, <3>4, <3>5 DEF Finish, FinishFenced
  <2> QED BY <2>1, <2>2
<1> QED BY <1>1, <1>2, <1>3, <1>4 DEF Work

(* The owner's decisions and cancellations, revocation and housekeeping.   *)
LEMMA DecideTraced ==
  ASSUME TypeOK, NEW j \in Requests, NEW a \in Approvals, NEW d \in Decisions,
         DecideApproval(j, a, d), NEW k \in Requests
  PROVE  Traced(k)
<1>1. fences \in Ledger /\ fences[j] \in Fence BY DEF TypeOK, Ledger
<1>2. fences[j].state = "running" BY DEF DecideApproval
<1>3. CASE DecisionSaved(j, a, d)
  BY <1>1, <1>2, <1>3, TracedSave DEF DecisionSaved, Ledger, Live
<1>4. CASE DecisionUnsaved(j, a, d)
  <2>1. PICK M, g : /\ M = [fences EXCEPT ![j] = Decided(fences[j], a, d)]
                    /\ fences' = [fences EXCEPT ![j] = g] /\ SaveTwice(M, fences')
    BY <1>4 DEF DecisionUnsaved
  <2>2. CASE k # j
    <3>1. \A L \in NewLedgers : L = fences' \/ L = M BY <2>1 DEF NewLedgers, SaveTwice
    <3> QED BY <2>1, <2>2, <3>1, TracedElsewhere
  <2>3. CASE k = j
    <3>1. Decided(fences[j], a, d).state = "running" BY <1>1, <1>2 DEF Decided, Fence
    <3>2. M[k].state = "running" BY <1>1, <2>1, <2>3, <3>1 DEF Ledger
    <3> QED BY <1>2, <2>1, <2>3, <3>2, TracedTwice DEF Live
  <2> QED BY <2>2, <2>3
<1> QED BY <1>3, <1>4 DEF DecideApproval

LEMMA OwnerTraced ==
  ASSUME TypeOK, NEW k \in Requests,
         \/ \E j \in Requests : Cancel(j) \/ AckAgain(j) \/ Tick(j)
         \/ \E c \in Clients : RevokeWorkbenchClient(c)
         \/ Sweep \/ Close \/ BeginShutdown \/ UNCHANGED vars
  PROVE  Traced(k)
<1>0. fences \in Ledger BY DEF TypeOK
<1>1. CASE \E j \in Requests : Cancel(j)
  BY <1>0, <1>1, TracedSave DEF Cancel, Ledger
<1>2. CASE \/ BeginShutdown \/ UNCHANGED vars \/ \E j \in Requests : AckAgain(j) \/ Tick(j)
  BY <1>2, TracedStill
     DEF AckAgain, Tick, DeadlinePasses, ContextDeadline, RetentionPasses, StageAges,
         BeginShutdown, vars
<1>3. CASE \E c \in Clients : RevokeWorkbenchClient(c)
  <2>1. fences'[k] = fences[k] \/ fences[k].state \in Live BY <1>3 DEF RevokeWorkbenchClient
  <2>2. UNCHANGED disk \/ Saved(fences') \/ SaveFailed({fences'})
    BY <1>3 DEF RevokeWorkbenchClient
  <2> QED BY <2>1, <2>2, TracedSave
<1>4. CASE Close
  <2>1. fences'[k] = fences[k] \/ fences[k].state \in Live BY <1>4 DEF Close
  <2>2. UNCHANGED disk \/ SaveIgnored(fences') BY <1>4 DEF Close
  <2> QED BY <2>1, <2>2, TracedSave
<1>5. CASE Sweep
  <2>1. \A L \in NewLedgers : L = fences' BY <1>5 DEF Sweep, NewLedgers, Saved, SaveFailed
  <2>2. \/ fences'[k] = fences[k]
        \/ fences[k].state = "completed" /\ fences'[k].state = "delivery_expired"
    <3>1. fences[k] \in Fence BY <1>0 DEF Ledger
    <3>2. Moved(fences[k], "delivery_expired").state = "delivery_expired"
      BY <3>1, MovedEffect DEF States
    <3> QED BY <1>5, <3>2 DEF Sweep, Swept
  <2> QED BY <2>1, <2>2 DEF Traced
<1> QED BY <1>1, <1>2, <1>3, <1>4, <1>5

(* The two arrivals, at the fences of the other requests.                  *)
LEMMA ArrivalTraced ==
  ASSUME TypeOK, NEW j \in Requests, NEW b \in BOOLEAN, Submit(j, b) \/ AckWithClientAction(j, b),
         NEW k \in Requests \ {j}
  PROVE  Traced(k)
<1>1. PICK g : LET M == [fences EXCEPT ![j] = g] IN
               \/ Saved(M) /\ fences' = M
               \/ SaveFailed({M}) /\ fences' = fences
  BY DEF Submit, AckWithClientAction
<1>2. fences = [fences EXCEPT ![j] = fences[j]] BY DEF TypeOK, Ledger
<1>3. \A L \in NewLedgers : L = [fences EXCEPT ![j] = g] \/ L = fences
  BY <1>1 DEF NewLedgers, Saved, SaveFailed
<1> QED BY <1>2, <1>3, TracedElsewhere

-----------------------------------------------------------------------------
(* An ordinary step for k, and what the desktop may know that it keeps.    *)
Ordinary(k) == (WithinLife /\ Traced(k)) \/ Stop \/ New

Known(k) == /\ EarlyInv(k)' /\ DeliveredInv(k)'
            /\ AllAbsent(k) => AllAbsent(k)'
            /\ Sealed(k) => Sealed(k)'
            /\ NoneDelivered(k) => NoneDelivered(k)'
            /\ AllDelivered(k) => AllDelivered(k)'

LEMMA MovesOnly ==
  ASSUME NEW s, NEW t \in Promise!Moves(s)
  PROVE  /\ s \in {"failed", "unknown", "delivered", "delivery_expired"} => t = s
         /\ t = "absent" => s = "absent"
         /\ t \in Early => s \in Early
         /\ t = "delivered" => s \in {"completed", "delivered"}
         /\ t \in Results /\ s \in Early => t = "completed"
  BY DEF Promise!Moves, Promise!Edges, Early, Results

LEMMA LiveKnown ==
  ASSUME LiveStep, NEW k \in Requests, Traced(k), EarlyInv(k), DeliveredInv(k) PROVE Known(k)
<1>1. \A L \in NewLedgers : L[k].state \in Promise!Moves(fences[k].state)
  BY DEF LiveStep, Grown, Follows, Advances, NewLedgers, Promise!Moves
<1>2. disk' \subseteq disk \cup NewLedgers /\ fences' \in NewLedgers
      /\ phase # "down" /\ phase' # "down"
  BY DEF NewLedgers, LiveStep
<1>3. EarlyInv(k)'
  <2> SUFFICES ASSUME fences'[k].state \in Early, NEW L \in disk' PROVE L[k].state \notin Results
    BY DEF EarlyInv
  <2>1. fences[k].state \in Early BY <1>1, <1>2, MovesOnly
  <2>2. CASE L \in disk BY <1>2, <2>1, <2>2 DEF EarlyInv
  <2>3. CASE L \in NewLedgers
    <3>1. L[k].state # "completed" BY <2>1, <2>3 DEF Traced, Early
    <3> QED BY <1>1, <2>1, <2>3, <3>1, MovesOnly
  <2> QED BY <1>2, <2>2, <2>3
<1>4. DeliveredInv(k)'
  <2> SUFFICES ASSUME fences'[k].state = "delivered", NEW L \in disk'
               PROVE  L[k].state = "delivered"
    BY DEF DeliveredInv
  <2>1. fences[k].state = "delivered" BY <1>1, <1>2, MovesOnly DEF Traced
  <2> QED BY <1>1, <1>2, <2>1, MovesOnly DEF DeliveredInv
<1>5. AllAbsent(k) => AllAbsent(k)' BY <1>2 DEF AllAbsent, Ledgers, Traced
<1>6. Sealed(k) => Sealed(k)'
  <2> SUFFICES ASSUME Sealed(k) PROVE Sealed(k)' OBVIOUS
  <2>1. \A L \in NewLedgers : L[k].state = fences[k].state
    BY <1>1, MovesOnly DEF Sealed, Traced
  <2> QED BY <1>2, <2>1 DEF Sealed, Results
<1>7. NoneDelivered(k) => NoneDelivered(k)'
  <2>1. ASSUME NoneDelivered(k), NEW L \in NewLedgers PROVE L[k].state # "delivered"
    BY <1>1, <2>1, MovesOnly DEF NoneDelivered, Ledgers, Traced
  <2> QED BY <1>2, <2>1 DEF NoneDelivered, Ledgers
<1>8. AllDelivered(k) => AllDelivered(k)'
  <2> SUFFICES ASSUME AllDelivered(k) PROVE AllDelivered(k)' OBVIOUS
  <2>1. fences[k].state = "delivered" /\ \A L \in disk : L[k].state = "delivered"
    BY <1>2 DEF AllDelivered, Views
  <2>2. \A L \in NewLedgers : L[k].state = "delivered" BY <1>1, <2>1, MovesOnly
  <2>3. Views' \subseteq disk \cup NewLedgers BY <1>2 DEF Views
  <2> QED BY <2>1, <2>2, <2>3 DEF AllDelivered
<1> QED BY <1>3, <1>4, <1>5, <1>6, <1>7, <1>8 DEF Known

LEMMA CalmKnown ==
  ASSUME Calm, NEW k \in Requests, EarlyInv(k), DeliveredInv(k) PROVE Known(k)
<1>1. (phase = "down" <=> phase' = "down") /\ fences' = fences /\ disk' = disk BY DEF Calm
<1> QED BY <1>1 DEF Known, EarlyInv, DeliveredInv, AllAbsent, Ledgers, Sealed, NoneDelivered,
                    AllDelivered, Views

LEMMA StopKnown == ASSUME Stop, NEW k \in Requests PROVE Known(k)
<1>1. phase' = "down" /\ disk' = disk BY DEF Stop
<1>2. fences'[k].state = "absent" BY EmptyFences DEF Stop, NoFence
<1> QED BY <1>1, <1>2 DEF Known, EarlyInv, DeliveredInv, AllAbsent, Ledgers, Sealed, NoneDelivered,
                    AllDelivered, Views

(* What a start makes of the fences it loads.                              *)
LEMMA LoadedStates ==
  ASSUME NEW L \in Ledger, \A k \in Requests : FenceInv(L[k]), NEW k \in Requests
  PROVE  LET s == L[k].state
             t == Swept(Recovered(L))[k].state
         IN /\ s \in Live => t \in {"failed", "unknown"}
            /\ s = "completed" => t \in {"completed", "delivery_expired"}
            /\ s \notin Live \cup {"completed"} => t = s
<1>1. Recovered(L)[k] = IF L[k].state \in Live THEN InterruptApprovalExecution(L[k]) ELSE L[k]
  BY DEF Recovered
<1>2. L[k] \in Fence /\ Recovered(L)[k] \in Fence BY RecoveredType DEF Ledger
<1>3. L[k].state \in Live => Recovered(L)[k].state \in {"failed", "unknown"}
  BY <1>1, <1>2, FollowsInterrupt
<1>4. \/ Swept(Recovered(L))[k] = Recovered(L)[k]
      \/ /\ Recovered(L)[k].state = "completed"
         /\ Swept(Recovered(L))[k] = Moved(Recovered(L)[k], "delivery_expired")
  BY DEF Swept
<1>5. Moved(Recovered(L)[k], "delivery_expired").state = "delivery_expired"
  BY <1>2, MovedEffect DEF States
<1>6. \/ Swept(Recovered(L))[k].state = Recovered(L)[k].state
      \/ /\ Recovered(L)[k].state = "completed"
         /\ Swept(Recovered(L))[k].state = "delivery_expired"
  BY <1>4, <1>5
<1>7. Recovered(L)[k].state # "completed" => Swept(Recovered(L))[k].state = Recovered(L)[k].state
  BY <1>6
<1>8. L[k].state \notin Live => Recovered(L)[k].state = L[k].state BY <1>1
<1> HIDE <1>1, <1>4, <1>5
<1>9. CASE L[k].state \in Live BY <1>3, <1>7, <1>9 DEF Live
<1>10. CASE L[k].state \notin Live
  BY <1>6, <1>8, <1>10 DEF Live
<1> QED BY <1>9, <1>10

LEMMA NewKnown == ASSUME Inv, New, NEW k \in Requests PROVE Known(k)
<1>1. PICK L \in disk :
        LET loaded == Swept(Recovered(L)) IN
          \/ phase' = "up" /\ fences' = loaded /\ Saved(loaded)
          \/ UNCHANGED <<phase, fences>> /\ disk' \subseteq {L, loaded}
  BY DEF New
<1> DEFINE s == L[k].state
           t == Swept(Recovered(L))[k].state
<1>2. /\ s \in Live => t \in {"failed", "unknown"}
      /\ s = "completed" => t \in {"completed", "delivery_expired"}
      /\ s \notin Live \cup {"completed"} => t = s
  BY LoadedStates DEF Inv, TypeOK, DurabilityInv, LedgerInv
<1>3. phase = "down" /\ fences[k].state = "absent"
  BY EmptyFences DEF New, Inv, DurabilityInv, DownInv, NoFence
<1>4. \/ phase' = "up" /\ fences'[k].state = t /\ \A M \in disk' : M[k].state = t
      \/ phase' = "down" /\ fences'[k].state = "absent" /\ \A M \in disk' : M[k].state \in {s, t}
  BY <1>1, <1>3 DEF Saved
<1>5. EarlyInv(k)' /\ DeliveredInv(k)' BY <1>4 DEF EarlyInv, DeliveredInv, Early, Results
<1>6. /\ AllAbsent(k) => s = "absent"
      /\ Sealed(k) => s \notin Results
      /\ NoneDelivered(k) => s # "delivered"
      /\ AllDelivered(k) => s = "delivered"
  BY DEF AllAbsent, Sealed, NoneDelivered, AllDelivered, Ledgers, Views
<1>7. /\ s = "absent" => t = "absent"
      /\ s = "delivered" => t = "delivered"
      /\ s # "delivered" => t # "delivered"
      /\ s \notin Results => t \notin Results
  BY <1>2 DEF Live, Results
<1>8. s \notin Results => t \in {"absent", "failed", "unknown"}
  <2>1. s \in States \cup {"absent"} BY FenceFields DEF Inv, TypeOK, Ledger
  <2> QED BY <1>2, <2>1 DEF Results, States, Live
<1> HIDE DEF s, t
<1>9. (AllAbsent(k) => AllAbsent(k)') /\ (NoneDelivered(k) => NoneDelivered(k)')
  BY <1>4, <1>6, <1>7 DEF AllAbsent, NoneDelivered, Ledgers
<1>10. Sealed(k) => Sealed(k)' BY <1>4, <1>6, <1>7, <1>8 DEF Sealed
<1>11. AllDelivered(k) => AllDelivered(k)' BY <1>4, <1>6, <1>7 DEF AllDelivered, Views
<1> QED BY <1>5, <1>9, <1>10, <1>11 DEF Known

LEMMA OrdinaryKnown ==
  ASSUME Inv, NEW k \in Requests, EarlyInv(k), DeliveredInv(k), Ordinary(k) PROVE Known(k)
  BY LiveKnown, CalmKnown, StopKnown, NewKnown DEF Ordinary, WithinLife

-----------------------------------------------------------------------------
(* The composition implements the control of the gateway.                  *)

(* What a step does to the gateway, apart from the two arrivals.           *)
Gentle ==
  \/ \E j \in Requests : Work(j) \/ Tick(j) \/ Cancel(j) \/ AckAgain(j)
  \/ \E j \in Requests, a \in Approvals, d \in Decisions : DecideApproval(j, a, d)
  \/ \E c \in Clients : RevokeWorkbenchClient(c)
  \/ Sweep \/ BeginShutdown \/ Close \/ Exit \/ Crash \/ New \/ UNCHANGED vars

Arrives(j) == \E b \in BOOLEAN : Submit(j, b) \/ AckWithClientAction(j, b)

LEMMA GatewayStep == ASSUME Gentle \/ \E j \in Requests : Arrives(j) PROVE [Next]_vars
  BY DEF Gentle, Arrives, Next, Call

LEMMA ServeStep ==
  ASSUME NEW j \in Requests, Serve(j) PROVE Gentle \/ Arrives(j)
<1>1. CASE ServeSubmit(j) BY <1>1 DEF ServeSubmit, Gentle, Arrives
<1>2. CASE ServeCancel(j) BY <1>2 DEF ServeCancel, Gentle
<1>3. CASE ServeFiles(j) \/ \E readable \in BOOLEAN : ServeLookup(j, readable)
  BY <1>3 DEF ServeFiles, ServeLookup, Gentle
<1>4. CASE ServeAck(j) BY <1>4 DEF ServeAck, Gentle, Arrives
<1> QED BY <1>1, <1>2, <1>3, <1>4 DEF Serve

LEMMA DesktopStep == ASSUME NEW j \in Requests, Desktop(j) PROVE UNCHANGED vars
<1>1. CASE MarkSubmitted(j) \/ RestoreUnsentSubmission(j) \/ Reconcile(j) \/ CancelTask(j)
  BY <1>1 DEF MarkSubmitted, RestoreUnsentSubmission, Reconcile, CancelTask
<1>2. CASE Take(j)
  BY <1>2 DEF Take, AcceptProjection, RefuseProjection, FailCall, CommitDelivery, Acknowledge
<1>3. CASE AbandonCall(j) \/ AbandonAck(j) BY <1>3 DEF AbandonCall, AbandonAck
<1> QED BY <1>1, <1>2, <1>3 DEF Desktop

LEMMA LateStep ==
  ASSUME NEW op, NEW j \in Requests, ServeLate(op, j)
  PROVE  Gentle \/ Arrives(j)
  BY DEF ServeLate, Gentle, Arrives

LEMMA ClientStep == ASSUME [ClientNext]_clientVars PROVE [Next]_vars
<1>1. CASE Gateway BY <1>1, GatewayStep DEF Gateway, Gentle
<1>2. CASE \E k \in Requests : Serve(k) BY <1>2, ServeStep, GatewayStep
<1>3. CASE \E k \in Requests : Desktop(k) BY <1>3, DesktopStep
<1>4. CASE \E op \in {"submit", "cancel", "ack"}, k \in Requests : ServeLate(op, k)
  BY <1>4, LateStep, GatewayStep
<1>5. CASE CloseClient \/ UNCHANGED clientVars BY <1>5 DEF CloseClient, clientVars
<1> QED BY <1>1, <1>2, <1>3, <1>4, <1>5 DEF ClientNext

LEMMA GentleOrdinary ==
  ASSUME Inv, NEW k \in Requests, Gentle \/ \E j \in Requests \ {k} : Arrives(j)
  PROVE  Ordinary(k)
<1>0. TypeOK BY DEF Inv
<1>1. WithinLife \/ Stop \/ New BY GatewayStep, StepKinds
<1>2. CASE Exit \/ Crash \/ New BY <1>2 DEF Exit, Crash, Ordinary
<1>3. CASE \E j \in Requests \ {k} : Arrives(j) BY <1>0, <1>1, <1>3, ArrivalTraced DEF Arrives, Ordinary
<1>4. CASE \E j \in Requests : Work(j) BY <1>0, <1>1, <1>4, WorkTraced DEF Ordinary
<1>5. CASE \E j \in Requests, a \in Approvals, d \in Decisions : DecideApproval(j, a, d)
  BY <1>0, <1>1, <1>5, DecideTraced DEF Ordinary
<1>6. CASE \/ \E j \in Requests : Cancel(j) \/ AckAgain(j) \/ Tick(j)
           \/ \E c \in Clients : RevokeWorkbenchClient(c)
           \/ Sweep \/ Close \/ BeginShutdown \/ UNCHANGED vars
  BY <1>0, <1>1, <1>6, OwnerTraced DEF Ordinary
<1> QED BY <1>2, <1>3, <1>4, <1>5, <1>6 DEF Gentle

-----------------------------------------------------------------------------
(* The types of the desktop's state.                                       *)
Statuses == [state : States \cup {"none", "missing", "error", "rejected"}, revision : Nat,
             reason : Reasons, receipts : SUBSET (Approvals \X Record)]
Tasks == States \cup {"awaiting_runtime", "submission_pending", "cancel_pending", "saved"}

DesktopType ==
  /\ task \in [Requests -> Tasks]
  /\ projection \in [Requests -> Statuses]
  /\ delivery \in [Requests -> {"none", "saved", "acknowledged"}]
  /\ call \in [Requests -> [op : {"none", "submit", "lookup", "cancel", "files"},
                            answer : Statuses]]
  /\ ack \in [Requests -> {"none", "sent", "done"}]
  /\ posts \in [Requests -> Int]

-----------------------------------------------------------------------------
(* What the desktop knows of one request, and what it says of the gateway. *)

(* A submission may still arrive.                                          *)
Outstanding(k) == Sent(k, "submit") \/ <<"submit", k>> \in late

(* Nothing was admitted as long as nothing can have arrived.               *)
PostInv(k) ==
  /\ posts[k] \in {0, 1}
  /\ task[k] = "awaiting_runtime" => posts[k] = 0
  /\ call[k].op = "submit" => posts[k] = 1 /\ <<"submit", k>> \notin late
  /\ <<"submit", k>> \in late => posts[k] = 1
  /\ posts[k] = 0 \/ Outstanding(k) => AllAbsent(k)

(* What is shown as failed, or about to be, has no result and gets none.   *)
Doomed(k) == task[k] = "failed" \/ call[k].answer.state \in {"failed", "rejected"}
FailInv(k) == Doomed(k) => posts[k] = 1 /\ ~Outstanding(k) /\ Sealed(k)

(* The gateway learns of a delivery from an acknowledgment only, and the   *)
(* desktop that it is durable from the answer only.                        *)
Confirmed(k) == ack[k] = "done" \/ delivery[k] = "acknowledged"
ReceiptInv(k) ==
  /\ delivery[k] = "none" => NoneDelivered(k) /\ ack[k] = "none" /\ <<"ack", k>> \notin late
  /\ Confirmed(k) => AllDelivered(k)

Agreed(k) == /\ EarlyInv(k) /\ DeliveredInv(k)
             /\ PostInv(k) /\ FailInv(k) /\ ReceiptInv(k)

ClientInv == /\ TypeOK /\ DurabilityInv /\ DesktopType
             /\ \A k \in Requests : Agreed(k)

(* The desktop learns nothing but what the gateway has in its memory.      *)
Carried(k) ==
  /\ posts'[k] = posts[k]
  /\ task'[k] = "awaiting_runtime" => task[k] = "awaiting_runtime"
  /\ call'[k].op = "submit" =>
       call[k].op = "submit" /\ (<<"submit", k>> \in late' => <<"submit", k>> \in late)
  /\ Outstanding(k)' => Outstanding(k)
  /\ Doomed(k)' => Doomed(k) \/ fences[k].state = "failed"
  /\ delivery'[k] = "none" => /\ delivery[k] = "none"
                              /\ ack'[k] \in {ack[k], "none"}
                              /\ <<"ack", k>> \in late' => <<"ack", k>> \in late
  /\ Confirmed(k)' => Confirmed(k)

LEMMA AskingFields ==
  ASSUME NEW op
  PROVE  /\ NoCall.op = "none" /\ NoCall.answer.state = "none"
         /\ Asking(op).op = op /\ Asking(op).answer.state = "none"
  BY DEF NoCall, Asking, Answer, Status

LEMMA CarriedAgreed ==
  ASSUME Inv, NEW k \in Requests, Agreed(k), Known(k), Carried(k) PROVE Agreed(k)'
<1>1. Outstanding(k) => posts[k] = 1 BY AskingFields DEF Agreed, PostInv, Outstanding, Sent
<1>2. PostInv(k)'
  <2>1. <<"submit", k>> \in late' => posts'[k] = 1 BY <1>1 DEF Carried, Outstanding
  <2>2. posts'[k] = 0 \/ Outstanding(k)' => AllAbsent(k)'
    BY DEF Carried, Agreed, PostInv, Known
  <2> QED BY <2>1, <2>2 DEF Carried, Agreed, PostInv
<1>3. FailInv(k)'
  <2> SUFFICES ASSUME Doomed(k)' PROVE posts'[k] = 1 /\ ~Outstanding(k)' /\ Sealed(k)'
    BY DEF FailInv
  <2>1. posts[k] = 1 /\ ~Outstanding(k) /\ Sealed(k)
    <3>1. CASE Doomed(k) BY <3>1 DEF Agreed, FailInv
    <3>2. CASE fences[k].state = "failed"
      <4>1. phase # "down" BY <3>2, LiveProcess DEF Inv, DurabilityInv
      <4>2. Sealed(k) BY <3>2, <4>1 DEF Agreed, EarlyInv, Early, Sealed
      <4>3. ~AllAbsent(k) BY <3>2 DEF AllAbsent, Ledgers
      <4> QED BY <4>2, <4>3 DEF Agreed, PostInv
    <3> QED BY <3>1, <3>2 DEF Carried
  <2> QED BY <2>1 DEF Carried, Known
<1>4. ReceiptInv(k)' BY DEF Carried, Agreed, ReceiptInv, Known
<1> QED BY <1>2, <1>3, <1>4 DEF Agreed, Known

(* The step is of another request, or of the gateway alone.                *)
LEMMA ElsewhereCarried ==
  ASSUME NEW k \in Requests,
         task'[k] = task[k], delivery'[k] = delivery[k], call'[k] = call[k], ack'[k] = ack[k],
         posts'[k] = posts[k],
         <<"submit", k>> \in late' => <<"submit", k>> \in late,
         <<"ack", k>> \in late' => <<"ack", k>> \in late
  PROVE  Carried(k)
  BY DEF Carried, Outstanding, Sent, Doomed, Confirmed

LEMMA FailedFields ==
  ASSUME NEW k
  PROVE  Failed(k).op \in {"lookup", "none"} /\ Failed(k).answer.state = "none"
  BY AskingFields DEF Failed

LEMMA AnsweredFields ==
  ASSUME DesktopType, NEW k \in Requests, NEW answer, Answered(k, answer)
  PROVE  /\ call'[k].op = call[k].op /\ call'[k].answer = answer
         /\ \A j \in Requests \ {k} : call'[j] = call[j]
  BY DEF DesktopType, Answered

(* The answer of a lookup says "failed" of a failed fence only.            *)
LEMMA LookupState ==
  ASSUME NEW k \in Requests, NEW readable, NEW f, fences[k] = f, f.state \in States \cup {"absent"}
  PROVE  /\ Lookup(k, readable).state = "failed" => f.state = "failed"
         /\ Lookup(k, readable).state # "rejected"
         /\ Lookup(k, readable).state \in States \cup {"missing"}
<1>1. CASE f.state = "absent" BY <1>1 DEF Lookup, Answer, Status
<1>2. CASE f.state \in Live BY <1>2 DEF Lookup, Status, Live, States
<1>3. CASE f.state \in States \ Live BY <1>3 DEF Lookup, Status, Live, States
<1> QED BY <1>1, <1>2, <1>3

LEMMA TouchLost ==
  ASSUME NEW k \in Requests, NEW ms, LoseTouch(ms),
         ms \subseteq UNION {OnTheirWay(j) : j \in Requests}
  PROVE  /\ <<"submit", k>> \in late' => <<"submit", k>> \in late \/ Sent(k, "submit")
         /\ <<"ack", k>> \in late' => <<"ack", k>> \in late \/ ack[k] = "sent"
  BY DEF LoseTouch, OnTheirWay

(* What the desktop does by itself, the first steps of a submission apart. *)
LEMMA DesktopCarried ==
  ASSUME DesktopType, NEW k \in Requests, Agreed(k),
         \/ Reconcile(k) \/ CancelTask(k) \/ Take(k) \/ AbandonCall(k) \/ AbandonAck(k)
  PROVE  Carried(k)
<1>1. CASE Reconcile(k)
  BY <1>1, AskingFields DEF Reconcile, durable, DesktopType, Carried, Outstanding, Sent, Doomed,
     Confirmed
<1>2. CASE CancelTask(k)
  BY <1>2, AskingFields DEF CancelTask, DesktopType, Carried, Outstanding, Sent, Doomed, Confirmed
<1>3. CASE AcceptProjection(k)
  <2>1. call[k].answer.state \in States /\ UNCHANGED <<delivery, ack, late, posts>>
    BY <1>3 DEF AcceptProjection, Reported
  <2>2. call'[k].op \in {"none", "files"} /\ call'[k].answer.state \in {"none", "completed"}
    <3>1. \/ call'[k] = NoCall
          \/ \E s \in {"none", "completed"} : call'[k] = [op |-> "files", answer |-> Answer(s)]
      BY <1>3 DEF AcceptProjection, DesktopType
    <3> QED BY <3>1, AskingFields DEF Answer, Status
  <2>3. task'[k] \in {task[k], call[k].answer.state, "saved", "delivered"}
    BY <1>3 DEF AcceptProjection, DesktopType, StateOf
  <2> QED BY <2>1, <2>2, <2>3, AskingFields
          DEF Carried, Outstanding, Sent, Doomed, Confirmed, States, Live
<1>4. CASE RefuseProjection(k)
  <2>1. call'[k].op \in {"none", "lookup"} /\ call'[k].answer.state = "none"
    BY <1>4, AskingFields, FailedFields DEF RefuseProjection, DesktopType
  <2> QED BY <1>4, <2>1, AskingFields
          DEF RefuseProjection, durable, Carried, Outstanding, Sent, Doomed, Confirmed
<1>5. CASE FailCall(k)
  <2>1. call'[k].op \in {"none", "lookup"} /\ call'[k].answer.state = "none"
    BY <1>5, FailedFields DEF FailCall, DesktopType
  <2>2. \/ task'[k] = task[k]
        \/ call[k].answer.state = "rejected" /\ task'[k] \in {"failed", "saved", "delivered"}
    BY <1>5 DEF FailCall, DesktopType, Rejected, StateOf
  <2> QED BY <1>5, <2>1, <2>2, AskingFields
          DEF FailCall, Carried, Outstanding, Sent, Doomed, Confirmed
<1>6. CASE CommitDelivery(k)
  BY <1>6, AskingFields
     DEF CommitDelivery, DesktopType, Carried, Outstanding, Sent, Doomed, Confirmed
<1>7. CASE Acknowledge(k)
  BY <1>7 DEF Acknowledge, DesktopType, Carried, Outstanding, Sent, Doomed, Confirmed
<1>8. CASE AbandonCall(k)
  <2>1. call'[k].op \in {"none", "lookup"} /\ call'[k].answer.state = "none"
    BY <1>8, FailedFields DEF AbandonCall, DesktopType
  <2>2. /\ <<"submit", k>> \in late' => <<"submit", k>> \in late \/ Sent(k, "submit")
        /\ <<"ack", k>> \in late' => <<"ack", k>> \in late
    BY <1>8 DEF AbandonCall, LoseTouch, OnTheirWay
  <2> QED BY <1>8, <2>1, <2>2, AskingFields
          DEF AbandonCall, durable, Carried, Outstanding, Sent, Doomed, Confirmed
<1>9. CASE AbandonAck(k)
  <2>1. /\ <<"submit", k>> \in late' => <<"submit", k>> \in late
        /\ <<"ack", k>> \in late' => <<"ack", k>> \in late \/ ack[k] = "sent"
    BY <1>9 DEF AbandonAck, LoseTouch, OnTheirWay
  <2>2. delivery[k] = "none" => ack[k] = "none" BY DEF Agreed, ReceiptInv
  <2> QED BY <1>9, <2>1, <2>2
          DEF AbandonAck, DesktopType, durable, Carried, Outstanding, Sent, Doomed, Confirmed
<1> QED BY <1>1, <1>2, <1>3, <1>4, <1>5, <1>6, <1>7, <1>8, <1>9 DEF Take

LEMMA CloseCarried ==
  ASSUME DesktopType, NEW k \in Requests, Agreed(k), CloseClient PROVE Carried(k)
<1>1. /\ <<"submit", k>> \in late' => <<"submit", k>> \in late \/ Sent(k, "submit")
      /\ <<"ack", k>> \in late' => <<"ack", k>> \in late \/ ack[k] = "sent"
  BY TouchLost DEF CloseClient
<1>2. call'[k] = NoCall /\ ack'[k] = "none" BY DEF CloseClient
<1>3. delivery[k] = "none" => ack[k] = "none" BY DEF Agreed, ReceiptInv
<1> QED BY <1>1, <1>2, <1>3, AskingFields
        DEF CloseClient, durable, Carried, Outstanding, Sent, Doomed, Confirmed

(* A lookup, a fetch and a cancellation.                                   *)
LEMMA ServedCarried ==
  ASSUME Inv, Inv', DesktopType, NEW k \in Requests,
         ServeCancel(k) \/ ServeFiles(k) \/ \E readable \in BOOLEAN : ServeLookup(k, readable)
  PROVE  Carried(k)
<1>1. /\ fences[k].state \in States \cup {"absent"}
      /\ fences'[k].state \in States \cup {"absent"}
  BY FenceFields DEF Inv, TypeOK, Ledger
<1>2. PICK answer : /\ Answered(k, answer) /\ answer.state # "rejected"
                    /\ answer.state = "failed" => fences[k].state = "failed"
                    /\ call[k].op \in {"lookup", "cancel", "files"}
                    /\ UNCHANGED <<durable, ack, late, posts>>
  <2>1. CASE ServeFiles(k)
    <3>1. PICK s \in {"completed", "error"} : Answered(k, Answer(s)) BY <2>1 DEF ServeFiles
    <3> QED BY <2>1, <3>1, AskingFields DEF ServeFiles, Sent, Answer, Status
  <2>2. CASE \E readable \in BOOLEAN : ServeLookup(k, readable)
    <3>1. PICK readable \in BOOLEAN : ServeLookup(k, readable) BY <2>2
    <3>2. /\ Lookup(k, readable).state # "rejected"
          /\ Lookup(k, readable).state = "failed" => fences[k].state = "failed"
      BY <1>1, LookupState
    <3> QED BY <3>1, <3>2, AskingFields DEF ServeLookup, Sent
  <2>3. CASE ServeCancel(k) /\ fences[k].state \in Live
    <3>1. fences'[k].state = "unknown" BY <2>3, CancelLive DEF ServeCancel, Inv, DurabilityInv
    <3>2. Lookup(k, FALSE)'.state \notin {"rejected", "failed"}
      BY <3>1 DEF Lookup, Status, States, Live
    <3>3. PICK answer : /\ Answered(k, answer)
                        /\ answer = Lookup(k, FALSE)' \/ answer = Answer("error")
                        /\ UNCHANGED <<durable, ack, late, posts>>
      BY <2>3 DEF ServeCancel
    <3>4. answer.state \notin {"rejected", "failed"}
      <4>1. CASE answer = Lookup(k, FALSE)' BY <3>2, <4>1
      <4>2. CASE answer = Answer("error") BY <4>2 DEF Answer, Status
      <4> QED BY <3>3, <4>1, <4>2
    <3> QED BY <2>3, <3>3, <3>4, AskingFields DEF ServeCancel, Sent
  <2>4. CASE ServeCancel(k) /\ fences[k].state \notin Live
    <3>1. /\ Lookup(k, k \in content).state # "rejected"
          /\ Lookup(k, k \in content).state = "failed" => fences[k].state = "failed"
      BY <1>1, LookupState
    <3> QED BY <2>4, <3>1, AskingFields DEF ServeCancel, Sent
  <2> QED BY <2>1, <2>2, <2>3, <2>4
<1>3. call'[k].op = call[k].op /\ call'[k].answer = answer BY <1>2, AnsweredFields
<1> QED BY <1>2, <1>3, AskingFields DEF durable, Carried, Outstanding, Sent, Doomed, Confirmed

(* The first steps of a submission.                                        *)
LEMMA SubmissionAgreed ==
  ASSUME Inv, DesktopType, NEW k \in Requests, Agreed(k), Known(k), UNCHANGED vars,
         MarkSubmitted(k) \/ RestoreUnsentSubmission(k)
  PROVE  Agreed(k)'
<1>1. AllAbsent(k)
  <2>1. MarkSubmitted(k) => posts[k] = 0 BY DEF MarkSubmitted, Agreed, PostInv
  <2>2. RestoreUnsentSubmission(k) => Outstanding(k) BY DEF RestoreUnsentSubmission, Outstanding
  <2> QED BY <2>1, <2>2 DEF Agreed, PostInv
<1>2. CASE MarkSubmitted(k)
  <2>1. /\ posts'[k] = 1 /\ task'[k] = "submission_pending" /\ call'[k] = Asking("submit")
        /\ UNCHANGED <<delivery, ack, late>> /\ posts[k] = 0
    BY <1>2 DEF MarkSubmitted, DesktopType, Agreed, PostInv
  <2>2. PostInv(k)' /\ FailInv(k)'
    BY <1>1, <2>1, AskingFields DEF Agreed, PostInv, FailInv, Doomed, Known
  <2>3. ReceiptInv(k)' BY <2>1 DEF Agreed, ReceiptInv, Confirmed, Known
  <2> QED BY <2>2, <2>3 DEF Agreed, Known
<1>3. CASE RestoreUnsentSubmission(k)
  <2>1. call[k].op = "submit" BY <1>3, AskingFields DEF RestoreUnsentSubmission, Sent
  <2>2. /\ posts'[k] = 0 /\ task'[k] = "awaiting_runtime" /\ call'[k] = NoCall
        /\ UNCHANGED <<delivery, ack, late>> /\ <<"submit", k>> \notin late
    BY <1>3, <2>1 DEF RestoreUnsentSubmission, DesktopType, Agreed, PostInv
  <2>3. PostInv(k)' /\ FailInv(k)'
    BY <1>1, <2>2, AskingFields DEF Agreed, PostInv, FailInv, Doomed, Known
  <2>4. ReceiptInv(k)' BY <2>2 DEF Agreed, ReceiptInv, Confirmed, Known
  <2> QED BY <2>3, <2>4 DEF Agreed, Known
<1> QED BY <1>2, <1>3

-----------------------------------------------------------------------------
(* The arrivals.                                                           *)

(* A submission arrives.                                                   *)
LEMMA SubmitArrives ==
  ASSUME Inv, NEW k \in Requests, Agreed(k), Submit(k, FALSE)
  PROVE  /\ EarlyInv(k)' /\ DeliveredInv(k)'
         /\ NoneDelivered(k) => NoneDelivered(k)'
         /\ ~AllDelivered(k)
<1>1. fences[k].state = "absent" /\ phase # "down" /\ phase' = phase
  BY DEF Submit, Admissible, Open
<1> DEFINE admitted == [fences EXCEPT ![k] = Admitted]
<1>2. admitted[k].state = "accepted" BY DEF Inv, TypeOK, Ledger, Admitted, NoFence
<1>3. \/ fences' = admitted /\ disk' = {admitted}
      \/ fences' = fences /\ disk' = disk \cup {admitted}
  BY DEF Submit, Saved, SaveFailed
<1> HIDE DEF admitted
<1>4. \A L \in disk' : L \in disk \/ L[k].state = "accepted" BY <1>2, <1>3
<1>5. fences'[k].state \in {"absent", "accepted"} BY <1>1, <1>2, <1>3
<1>6. EarlyInv(k)' BY <1>1, <1>4 DEF Agreed, EarlyInv, Early, Results
<1>7. DeliveredInv(k)' BY <1>5 DEF DeliveredInv
<1>8. NoneDelivered(k) => NoneDelivered(k)' BY <1>4, <1>5 DEF NoneDelivered, Ledgers
<1>9. ~AllDelivered(k) BY <1>1 DEF AllDelivered, Views
<1> QED BY <1>6, <1>7, <1>8, <1>9

(* An acknowledgment arrives; a save that reports success is durable.      *)
LEMMA AckArrives ==
  ASSUME Inv, NEW k \in Requests, NEW b \in BOOLEAN, Agreed(k), AckWithClientAction(k, b)
  PROVE  /\ EarlyInv(k)' /\ DeliveredInv(k)'
         /\ ~AllAbsent(k) /\ ~Sealed(k)
         /\ AllDelivered(k) \/ UNCHANGED faults => AllDelivered(k)'
<1>1. fences[k].state \in {"completed", "delivered"} /\ phase # "down" /\ phase' = phase
  BY DEF AckWithClientAction
<1> DEFINE acked == [fences EXCEPT ![k] = [Moved(fences[k], "delivered") EXCEPT !.receipt = b]]
<1>2. acked[k].state = "delivered"
  <2>1. fences[k] \in Fence /\ fences \in Ledger BY DEF Inv, TypeOK, Ledger
  <2>2. Moved(fences[k], "delivered") \in Fence /\ Moved(fences[k], "delivered").state = "delivered"
    BY <2>1, MovedType, MovedEffect DEF States
  <2>3. [Moved(fences[k], "delivered") EXCEPT !.receipt = b].state = "delivered"
    BY <2>2 DEF Fence
  <2> QED BY <2>1, <2>3 DEF Ledger
<1>3. \/ fences' = acked /\ disk' = {acked}
      \/ fences' = fences /\ disk' = disk \cup {acked} /\ faults' # faults
  BY DEF AckWithClientAction, Saved, SaveFailed, Inv, TypeOK
<1> HIDE DEF acked
<1>4. EarlyInv(k)' BY <1>1, <1>2, <1>3 DEF EarlyInv, Early
<1>5. DeliveredInv(k)' BY <1>1, <1>2, <1>3 DEF Agreed, DeliveredInv
<1>6. ~AllAbsent(k) /\ ~Sealed(k) BY <1>1 DEF AllAbsent, Ledgers, Sealed
<1>7. AllDelivered(k) \/ UNCHANGED faults => AllDelivered(k)'
  BY <1>1, <1>2, <1>3 DEF AllDelivered, Views
<1> QED BY <1>4, <1>5, <1>6, <1>7

LEMMA ServeSubmitAgreed ==
  ASSUME Inv, DesktopType, NEW k \in Requests, Agreed(k), ServeSubmit(k),
         UNCHANGED vars => Known(k)
  PROVE  Agreed(k)'
<1>1. /\ call[k].op = "submit" /\ Outstanding(k) /\ ~Doomed(k) /\ posts[k] = 1
      /\ <<"submit", k>> \notin late /\ AllAbsent(k)
  BY AskingFields DEF ServeSubmit, Sent, Outstanding, Agreed, PostInv, FailInv
<1>2. UNCHANGED <<task, delivery, ack, late, posts>> BY DEF ServeSubmit, durable
<1>3. CASE Submit(k, FALSE)
           /\ Answered(k, IF fences'[k].state = "absent" THEN Answer("error")
                          ELSE Status("accepted", 1, "none", {}))
  <2>1. call'[k].op = "submit" /\ call'[k].answer.state \in {"error", "accepted"}
    BY <1>1, <1>3, AnsweredFields DEF Answer, Status
  <2>2. ~Outstanding(k)' BY <1>1, <1>2, <2>1, AskingFields DEF Outstanding, Sent
  <2>3. PostInv(k)' BY <1>1, <1>2, <2>2 DEF Agreed, PostInv
  <2>4. FailInv(k)' BY <1>1, <1>2, <2>1 DEF FailInv, Doomed
  <2>5. ReceiptInv(k)' BY <1>2, <1>3, SubmitArrives DEF Agreed, ReceiptInv, Confirmed
  <2> QED BY <1>3, <2>3, <2>4, <2>5, SubmitArrives DEF Agreed
<1>4. CASE UNCHANGED vars /\ \E refusal \in {"error", "rejected"} : Answered(k, Answer(refusal))
  <2>1. call'[k].op = "submit" /\ call'[k].answer.state \in {"error", "rejected"}
    BY <1>1, <1>4, AnsweredFields DEF Answer, Status
  <2>2. ~Outstanding(k)' BY <1>1, <1>2, <2>1, AskingFields DEF Outstanding, Sent
  <2>3. PostInv(k)' BY <1>1, <1>2, <2>2 DEF Agreed, PostInv
  <2>4. Sealed(k) BY <1>1 DEF AllAbsent, Ledgers, Sealed, Results
  <2>5. FailInv(k)' BY <1>1, <1>2, <1>4, <2>2, <2>4 DEF FailInv, Known
  <2>6. ReceiptInv(k)' BY <1>2, <1>4 DEF Agreed, ReceiptInv, Confirmed, Known
  <2> QED BY <1>4, <2>3, <2>5, <2>6 DEF Agreed, Known
<1> QED BY <1>3, <1>4 DEF ServeSubmit

(* What an acknowledgment leaves of the desktop's knowledge.               *)
LEMMA AckAgreed ==
  ASSUME Inv, NEW k \in Requests, NEW b \in BOOLEAN, Agreed(k), AckWithClientAction(k, b),
         UNCHANGED <<task, delivery, call, posts>>, late' \subseteq late, delivery[k] # "none",
         ack'[k] = "done" => ack[k] = "done" \/ UNCHANGED faults
  PROVE  Agreed(k)'
<1>1. ~Doomed(k) BY AckArrives DEF Agreed, FailInv
<1>2. posts[k] = 1 /\ ~Outstanding(k) BY AckArrives DEF Agreed, PostInv
<1>3. PostInv(k)' BY <1>2 DEF Agreed, PostInv, Outstanding, Sent
<1>4. FailInv(k)' BY <1>1 DEF FailInv, Doomed
<1>5. Confirmed(k)' => AllDelivered(k)'
  <2>1. Confirmed(k)' => Confirmed(k) \/ UNCHANGED faults BY DEF Confirmed
  <2> QED BY <2>1, AckArrives DEF Agreed, ReceiptInv
<1>6. ReceiptInv(k)' BY <1>5 DEF ReceiptInv
<1> QED BY <1>3, <1>4, <1>6, AckArrives DEF Agreed

LEMMA ServeAckAgreed ==
  ASSUME Inv, DesktopType, NEW k \in Requests, Agreed(k), ServeAck(k),
         AckAgain(k) \/ UNCHANGED vars => Known(k)
  PROVE  Agreed(k)'
<1>1. /\ delivery[k] # "none" /\ ack[k] = "sent" /\ UNCHANGED <<task, delivery, call, late, posts>>
  BY DEF ServeAck, durable, Agreed, ReceiptInv
<1>2. CASE \E b \in BOOLEAN : AckWithClientAction(k, b)
           /\ ack' = [ack EXCEPT ![k] =
                        IF faults' = faults /\ k \notin content' THEN "done" ELSE "none"]
  BY <1>1, <1>2, AckAgreed DEF DesktopType
<1>3. CASE \/ AckAgain(k)
           \/ /\ UNCHANGED vars /\ phase # "down"
              /\ ack'[k] = "done" => fences[k].state = "delivered"
  <2>1. ASSUME ack'[k] = "done" PROVE AllDelivered(k)
    <3>1. fences[k].state = "delivered" /\ phase # "down" BY <1>3, <2>1 DEF AckAgain
    <3> QED BY <3>1 DEF Agreed, DeliveredInv, AllDelivered, Views
  <2>2. PostInv(k)' /\ FailInv(k)'
    BY <1>1, <1>3 DEF Agreed, Known, PostInv, FailInv, Doomed, Outstanding, Sent
  <2>3. Confirmed(k)' => AllDelivered(k) BY <1>1, <2>1 DEF Confirmed, Agreed, ReceiptInv
  <2>4. ReceiptInv(k)' BY <1>1, <1>3, <2>3 DEF ReceiptInv, Known
  <2> QED BY <1>3, <2>2, <2>4 DEF Agreed, Known
<1>4. CASE /\ phase # "down" /\ UNCHANGED vars
           /\ ack' = [ack EXCEPT ![k] =
                IF fences[k].state = "delivered" /\ k \notin content THEN "done" ELSE "none"]
  BY <1>3, <1>4 DEF DesktopType
<1> QED BY <1>2, <1>3, <1>4 DEF ServeAck

(* A message of an abandoned call.                                         *)
LEMMA LateAgreed ==
  ASSUME Inv, NEW k \in Requests, NEW op \in {"submit", "cancel", "ack"}, Agreed(k),
         ServeLate(op, k), Cancel(k) \/ UNCHANGED vars => Known(k)
  PROVE  Agreed(k)'
<1>1. /\ <<op, k>> \in late /\ late' = late \ {<<op, k>>}
      /\ UNCHANGED <<task, delivery, call, ack, posts>>
  BY DEF ServeLate, durable
<1>2. CASE Cancel(k) \/ UNCHANGED vars
  <2>1. Carried(k) BY <1>1, ElsewhereCarried
  <2> QED BY <1>2, <2>1, CarriedAgreed
<1>3. CASE op = "submit" /\ Submit(k, FALSE)
  <2>1. Outstanding(k) /\ ~Doomed(k) /\ posts[k] = 1 /\ ~Sent(k, "submit") /\ call[k].op # "submit"
    BY <1>1, <1>3, AskingFields DEF Outstanding, Sent, Agreed, PostInv, FailInv
  <2>2. ~Outstanding(k)' BY <1>1, <1>3, <2>1 DEF Outstanding, Sent
  <2>3. PostInv(k)' BY <1>1, <2>1, <2>2 DEF Agreed, PostInv, Outstanding
  <2>4. FailInv(k)' BY <1>1, <2>1 DEF FailInv, Doomed
  <2>5. ReceiptInv(k)' BY <1>1, <1>3, SubmitArrives DEF Agreed, ReceiptInv, Confirmed
  <2> QED BY <1>3, <2>3, <2>4, <2>5, SubmitArrives DEF Agreed
<1>4. CASE op = "ack" /\ AckWithClientAction(k, FALSE)
  <2>1. delivery[k] # "none" BY <1>1, <1>4 DEF Agreed, ReceiptInv
  <2> QED BY <1>1, <1>4, <2>1, AckAgreed
<1> QED BY <1>2, <1>3, <1>4 DEF ServeLate

-----------------------------------------------------------------------------
(* Every step keeps what the desktop knows.                                *)

LEMMA GentleKnown ==
  ASSUME Inv, NEW k \in Requests, Agreed(k), Gentle \/ \E j \in Requests \ {k} : Arrives(j)
  PROVE  Known(k)
  BY GentleOrdinary, OrdinaryKnown DEF Agreed

(* The state that the desktop keeps of another request.                    *)
Local(j) == <<task[j], delivery[j], call[j], ack[j], posts[j]>>

LEMMA ServeLocal ==
  ASSUME DesktopType, NEW j \in Requests, NEW k \in Requests \ {j}, Serve(j)
  PROVE  UNCHANGED <<Local(k), late>>
<1>1. CASE ServeSubmit(j) BY <1>1 DEF ServeSubmit, durable, Answered, DesktopType, Local
<1>2. CASE ServeCancel(j) BY <1>2 DEF ServeCancel, durable, Answered, DesktopType, Local
<1>3. CASE ServeFiles(j) BY <1>3 DEF ServeFiles, durable, Answered, DesktopType, Local
<1>4. CASE ServeAck(j) BY <1>4 DEF ServeAck, durable, DesktopType, Local
<1>5. CASE \E readable \in BOOLEAN : ServeLookup(j, readable)
  BY <1>5 DEF ServeLookup, durable, Answered, DesktopType, Local
<1> QED BY <1>1, <1>2, <1>3, <1>4, <1>5 DEF Serve

LEMMA DesktopLocal ==
  ASSUME DesktopType, NEW j \in Requests, NEW k \in Requests \ {j}, Desktop(j)
  PROVE  /\ UNCHANGED Local(k)
         /\ <<"submit", k>> \in late' => <<"submit", k>> \in late
         /\ <<"ack", k>> \in late' => <<"ack", k>> \in late
<1>1. CASE MarkSubmitted(j) BY <1>1 DEF MarkSubmitted, DesktopType, Local
<1>2. CASE RestoreUnsentSubmission(j) BY <1>2 DEF RestoreUnsentSubmission, DesktopType, Local
<1>3. CASE Reconcile(j) BY <1>3 DEF Reconcile, durable, DesktopType, Local
<1>4. CASE CancelTask(j) BY <1>4 DEF CancelTask, DesktopType, Local
<1>5. CASE AcceptProjection(j) BY <1>5 DEF AcceptProjection, DesktopType, Local
<1>6. CASE RefuseProjection(j) BY <1>6 DEF RefuseProjection, durable, DesktopType, Local
<1>7. CASE FailCall(j) BY <1>7 DEF FailCall, DesktopType, Local
<1>8. CASE CommitDelivery(j) BY <1>8 DEF CommitDelivery, DesktopType, Local
<1>9. CASE Acknowledge(j) BY <1>9 DEF Acknowledge, DesktopType, Local
<1>10. CASE AbandonCall(j) \/ AbandonAck(j)
  <2>1. UNCHANGED Local(k)
    BY <1>10 DEF AbandonCall, AbandonAck, durable, DesktopType, Local
  <2>2. PICK ms : LoseTouch(ms) /\ ms \subseteq OnTheirWay(j)
    BY <1>10 DEF AbandonCall, AbandonAck
  <2>3. \A o : <<o, k>> \notin OnTheirWay(j) BY DEF OnTheirWay
  <2> QED BY <2>1, <2>2, <2>3 DEF LoseTouch
<1> QED BY <1>1, <1>2, <1>3, <1>4, <1>5, <1>6, <1>7, <1>8, <1>9, <1>10 DEF Desktop, Take

LEMMA AgreedNext ==
  ASSUME Inv, Inv', DesktopType, [ClientNext]_clientVars, NEW k \in Requests, Agreed(k)
  PROVE  Agreed(k)'
<1>1. ASSUME Known(k), UNCHANGED Local(k),
             <<"submit", k>> \in late' => <<"submit", k>> \in late,
             <<"ack", k>> \in late' => <<"ack", k>> \in late
      PROVE  Agreed(k)'
  BY <1>1, ElsewhereCarried, CarriedAgreed DEF Local
<1>2. CASE Gateway \/ UNCHANGED clientVars
  <2>1. Gentle /\ UNCHANGED desktop BY <1>2 DEF Gateway, Gentle, clientVars
  <2> QED BY <1>1, <2>1, GentleKnown DEF desktop, durable, Local
<1>3. CASE CloseClient
  BY <1>3, CloseCarried, GentleKnown, CarriedAgreed DEF CloseClient, Gentle
<1>4. CASE \E j \in Requests : Serve(j)
  <2>1. PICK j \in Requests : Serve(j) BY <1>4
  <2>2. CASE j # k BY <1>1, <2>1, <2>2, ServeLocal, ServeStep, GentleKnown
  <2>3. CASE j = k
    <3>1. CASE ServeSubmit(k) BY <3>1, ServeSubmitAgreed, GentleKnown DEF Gentle
    <3>2. CASE ServeAck(k) BY <3>2, ServeAckAgreed, GentleKnown DEF Gentle
    <3>3. CASE ServeCancel(k) \/ ServeFiles(k) \/ \E readable \in BOOLEAN : ServeLookup(k, readable)
      <4>1. Gentle BY <3>3 DEF ServeCancel, ServeFiles, ServeLookup, Gentle
      <4> QED BY <3>3, <4>1, ServedCarried, CarriedAgreed, GentleKnown
    <3> QED BY <2>1, <2>3, <3>1, <3>2, <3>3 DEF Serve
  <2> QED BY <2>2, <2>3
<1>5. CASE \E j \in Requests : Desktop(j)
  <2>1. PICK j \in Requests : Desktop(j) BY <1>5
  <2>2. UNCHANGED vars /\ Known(k) BY <2>1, DesktopStep, GentleKnown DEF Gentle
  <2>3. CASE j # k BY <1>1, <2>1, <2>2, <2>3, DesktopLocal
  <2>4. CASE j = k
    BY <2>1, <2>2, <2>4, SubmissionAgreed, DesktopCarried, CarriedAgreed DEF Desktop
  <2> QED BY <2>3, <2>4
<1>6. CASE \E op \in {"submit", "cancel", "ack"}, j \in Requests : ServeLate(op, j)
  <2>1. PICK op \in {"submit", "cancel", "ack"}, j \in Requests : ServeLate(op, j) BY <1>6
  <2>2. CASE j # k
    <3>1. UNCHANGED Local(k) /\ late' \subseteq late BY <2>1 DEF ServeLate, durable, Local
    <3> QED BY <1>1, <2>1, <2>2, <3>1, LateStep, GentleKnown
  <2>3. CASE j = k BY <2>1, <2>3, LateAgreed, GentleKnown DEF Gentle
  <2> QED BY <2>2, <2>3
<1> QED BY <1>2, <1>3, <1>4, <1>5, <1>6 DEF ClientNext

-----------------------------------------------------------------------------
(* Every step keeps the types of the desktop's state.                      *)
Calls == [op : {"none", "submit", "lookup", "cancel", "files"}, answer : Statuses]

LEMMA AnswerType ==
  ASSUME NEW s \in States \cup {"none", "missing", "error", "rejected"}
  PROVE  Answer(s) \in Statuses
  BY DEF Answer, Status, Statuses, Reasons

LEMMA NoCallType == NoCall \in Calls /\ \A o \in {"submit", "lookup", "cancel"} : Asking(o) \in Calls
  BY AnswerType DEF NoCall, Asking, Calls

LEMMA FailedType == \A k : Failed(k) \in Calls
  BY NoCallType DEF Failed

LEMMA OneCallType ==
  ASSUME DesktopType, NEW k \in Requests
  PROVE  /\ \A c \in Calls : [call EXCEPT ![k] = c] \in [Requests -> Calls]
         /\ \A s \in Statuses : [call EXCEPT ![k].answer = s] \in [Requests -> Calls]
  BY DEF DesktopType, Calls

LEMMA LookupType ==
  ASSUME TypeOK, NEW k \in Requests, NEW readable PROVE Lookup(k, readable) \in Statuses
<1>1. fences[k] \in Fence BY DEF TypeOK, Ledger
<1>2. ApprovalReceipts(fences[k]) \subseteq Approvals \X Record
  BY <1>1 DEF ApprovalReceipts, Fence
<1>3. fences[k].state \in States \cup {"absent"} /\ fences[k].revision \in Nat
      /\ fences[k].reason \in Reasons
  BY <1>1, FenceFields
<1>4. CASE fences[k].state = "absent" BY <1>4, AnswerType DEF Lookup
<1>5. CASE fences[k].state \in Live
  BY <1>2, <1>3, <1>5 DEF Lookup, Status, Statuses, States, Live
<1>6. CASE fences[k].state \in States \ Live
  BY <1>2, <1>3, <1>6 DEF Lookup, Status, Statuses, States, Live
<1> QED BY <1>3, <1>4, <1>5, <1>6

LookupsTyped == \A k \in Requests : Lookup(k, FALSE) \in Statuses

LEMMA LookupTypeNow == TypeOK => LookupsTyped BY LookupType DEF LookupsTyped
LEMMA LookupTypeAfter == TypeOK' => LookupsTyped' BY LookupTypeNow, PTL

LEMMA ServeType ==
  ASSUME TypeOK, TypeOK', DesktopType, NEW j \in Requests, Serve(j) PROVE DesktopType'
<1>1. CASE ServeAck(j) BY <1>1 DEF ServeAck, durable, DesktopType
<1>2. ASSUME NEW s \in Statuses, Answered(j, s), UNCHANGED <<durable, ack, late, posts>>
      PROVE  DesktopType'
  BY <1>2, OneCallType DEF Answered, durable, DesktopType, Calls
<1>3. CASE ServeSubmit(j)
  <2>1. \/ \E s \in {"error", "rejected"} : Answered(j, Answer(s))
        \/ Answered(j, Status("accepted", 1, "none", {}))
    BY <1>3 DEF ServeSubmit
  <2>2. Status("accepted", 1, "none", {}) \in Statuses BY DEF Status, Statuses, States, Live, Reasons
  <2> QED BY <1>2, <1>3, <2>1, <2>2, AnswerType DEF ServeSubmit
<1>4. CASE ServeFiles(j)
  <2>1. \E s \in {"completed", "error"} : Answered(j, Answer(s)) BY <1>4 DEF ServeFiles
  <2> QED BY <1>2, <1>4, <2>1, AnswerType DEF ServeFiles, States, Live
<1>5. CASE \E readable \in BOOLEAN : ServeLookup(j, readable)
  BY <1>2, <1>5, LookupType DEF ServeLookup
<1>6. CASE ServeCancel(j)
  <2>1. \/ Answered(j, Lookup(j, FALSE)') \/ Answered(j, Answer("error"))
        \/ Answered(j, Lookup(j, j \in content))
    BY <1>6 DEF ServeCancel
  <2>2. Lookup(j, FALSE)' \in Statuses BY LookupTypeAfter DEF LookupsTyped
  <2>3. UNCHANGED <<durable, ack, late, posts>> BY <1>6 DEF ServeCancel
  <2> QED BY <1>2, <2>1, <2>2, <2>3, AnswerType, LookupType
<1> QED BY <1>1, <1>3, <1>4, <1>5, <1>6 DEF Serve

LEMMA StateOfType ==
  ASSUME NEW k, NEW s \in States PROVE StateOf(k, s) \in Tasks
<1>1. StateOf(k, s) \in {s, "saved", "delivered"} BY DEF StateOf
<1> QED BY <1>1 DEF Tasks, States

LEMMA TakeType ==
  ASSUME DesktopType, NEW j \in Requests, Take(j) PROVE DesktopType'
<1>1. CASE AcceptProjection(j)
  <2>1. call' \in [Requests -> Calls]
    <3>1. \/ call' = [call EXCEPT ![j] = NoCall]
          \/ \E s \in {"none", "completed"} :
               call' = [call EXCEPT ![j] = [op |-> "files", answer |-> Answer(s)]]
      BY <1>1 DEF AcceptProjection
    <3>2. \A s \in {"none", "completed"} : [op |-> "files", answer |-> Answer(s)] \in Calls
      BY AnswerType DEF Calls, States, Live
    <3> QED BY <3>1, <3>2, NoCallType, OneCallType
  <2>2. task' \in [Requests -> Tasks]
    <3>1. task' = task \/ \E s \in States : task' = [task EXCEPT ![j] = StateOf(j, s)]
      BY <1>1 DEF AcceptProjection, Reported
    <3> QED BY <3>1, StateOfType DEF DesktopType
  <2>3. projection' \in [Requests -> Statuses] BY <1>1 DEF AcceptProjection, DesktopType
  <2> QED BY <1>1, <2>1, <2>2, <2>3 DEF AcceptProjection, DesktopType, Calls
<1>2. CASE RefuseProjection(j)
  <2>1. call' \in [Requests -> Calls]
    BY <1>2, NoCallType, FailedType, OneCallType DEF RefuseProjection
  <2> QED BY <1>2, <2>1 DEF RefuseProjection, durable, DesktopType, Calls
<1>3. CASE FailCall(j)
  <2>1. call' \in [Requests -> Calls] BY <1>3, FailedType, OneCallType DEF FailCall
  <2>2. StateOf(j, "failed") \in Tasks BY StateOfType DEF States
  <2>3. task' \in [Requests -> Tasks] BY <1>3, <2>2 DEF FailCall, DesktopType
  <2> QED BY <1>3, <2>1, <2>3 DEF FailCall, DesktopType, Calls
<1>4. CASE CommitDelivery(j)
  <2>1. call' \in [Requests -> Calls] BY <1>4, NoCallType, OneCallType DEF CommitDelivery
  <2> QED BY <1>4, <2>1 DEF CommitDelivery, DesktopType, Calls, Tasks
<1>5. CASE Acknowledge(j) BY <1>5 DEF Acknowledge, DesktopType, Tasks, States
<1> QED BY <1>1, <1>2, <1>3, <1>4, <1>5 DEF Take

LEMMA DesktopStepType ==
  ASSUME DesktopType, NEW j \in Requests, Desktop(j) PROVE DesktopType'
<1>1. CASE MarkSubmitted(j)
  <2>1. call' \in [Requests -> Calls] BY <1>1, NoCallType, OneCallType DEF MarkSubmitted
  <2> QED BY <1>1, <2>1 DEF MarkSubmitted, DesktopType, Calls, Tasks
<1>2. CASE RestoreUnsentSubmission(j)
  <2>1. call' \in [Requests -> Calls] BY <1>2, NoCallType, OneCallType DEF RestoreUnsentSubmission
  <2> QED BY <1>2, <2>1 DEF RestoreUnsentSubmission, DesktopType, Calls, Tasks
<1>3. CASE Reconcile(j)
  <2>1. call' \in [Requests -> Calls]
    BY ZenonT(40), <1>3, NoCallType, OneCallType DEF Reconcile, DesktopType, Calls
  <2> QED BY <1>3, <2>1 DEF Reconcile, durable, DesktopType, Calls
<1>4. CASE CancelTask(j)
  <2>1. call' \in [Requests -> Calls] BY <1>4, NoCallType, OneCallType DEF CancelTask
  <2> QED BY <1>4, <2>1 DEF CancelTask, DesktopType, Calls, Tasks
<1>5. CASE AbandonCall(j)
  <2>1. call' \in [Requests -> Calls] BY <1>5, FailedType, OneCallType DEF AbandonCall
  <2> QED BY <1>5, <2>1 DEF AbandonCall, durable, DesktopType, Calls
<1>6. CASE AbandonAck(j) BY <1>6 DEF AbandonAck, durable, DesktopType
<1> QED BY <1>1, <1>2, <1>3, <1>4, <1>5, <1>6, TakeType DEF Desktop

LEMMA DesktopTypeNext ==
  ASSUME TypeOK, TypeOK', DesktopType, [ClientNext]_clientVars PROVE DesktopType'
<1>1. CASE Gateway \/ UNCHANGED clientVars
  BY <1>1 DEF Gateway, clientVars, desktop, durable, DesktopType
<1>2. CASE CloseClient
  <2>1. call' \in [Requests -> Calls] BY <1>2, NoCallType DEF CloseClient
  <2> QED BY <1>2, <2>1 DEF CloseClient, durable, DesktopType, Calls
<1>3. CASE \E op \in {"submit", "cancel", "ack"}, j \in Requests : ServeLate(op, j)
  BY <1>3 DEF ServeLate, durable, DesktopType
<1> QED BY <1>1, <1>2, <1>3, ServeType, DesktopStepType DEF ClientNext

-----------------------------------------------------------------------------
(* The theorems.                                                           *)

LEMMA ClientInvInit == ASSUME Init, ClientInit PROVE ClientInv
<1>1. Inv BY InvInit
<1>2. DesktopType BY NoCallType, AnswerType DEF ClientInit, DesktopType, Calls, Tasks
<1>3. ASSUME NEW k \in Requests PROVE Agreed(k)
  <2>1. fences[k].state = "absent" /\ \A L \in disk : L[k].state = "absent"
    BY EmptyFences DEF Init, NoFence
  <2>2. /\ task[k] = "awaiting_runtime" /\ delivery[k] = "none" /\ call[k] = NoCall
        /\ ack[k] = "none" /\ late = {} /\ posts[k] = 0
    BY DEF ClientInit
  <2>3. EarlyInv(k) /\ DeliveredInv(k) BY <2>1 DEF EarlyInv, DeliveredInv, Results
  <2>4. PostInv(k) /\ FailInv(k)
    BY <2>1, <2>2, AskingFields DEF PostInv, FailInv, Doomed, AllAbsent, Ledgers
  <2>5. ReceiptInv(k) BY <2>1, <2>2 DEF ReceiptInv, Confirmed, NoneDelivered, Ledgers
  <2> QED BY <2>3, <2>4, <2>5 DEF Agreed
<1> QED BY <1>1, <1>2, <1>3 DEF ClientInv, Inv

(* What the desktop knows of the gateway is true.                          *)
THEOREM ClientKnows == ClientSpec => []ClientInv
<1>1. ClientInv /\ [ClientNext]_clientVars => ClientInv'
  <2> SUFFICES ASSUME ClientInv, [ClientNext]_clientVars PROVE ClientInv' OBVIOUS
  <2>1. Inv /\ DesktopType BY DEF ClientInv, Inv
  <2>2. Inv' BY <2>1, ClientStep, InvNext
  <2>3. DesktopType' BY <2>1, <2>2, DesktopTypeNext DEF Inv
  <2>4. \A k \in Requests : Agreed(k)' BY <2>1, <2>2, AgreedNext DEF ClientInv
  <2> QED BY <2>2, <2>3, <2>4 DEF ClientInv, Inv
<1> QED BY <1>1, ClientInvInit, PTL DEF ClientSpec

(* The gateway behaves under the desktop as it does under any client: what *)
(* is proved of ExecutionControl holds of the composition.                 *)
THEOREM ClientImplementsControl == ClientSpec => Spec
  BY ClientStep, PTL DEF ClientSpec, Spec

(* A request whose POST may have been sent is never POSTed again.          *)
THEOREM SubmittedOnce == ClientSpec => []OnePost
<1>1. ClientInv => OnePost
  <2> SUFFICES ASSUME ClientInv, NEW k \in Requests PROVE posts[k] <= 1 BY DEF OnePost
  <2>1. posts[k] \in {0, 1} BY DEF ClientInv, Agreed, PostInv
  <2> QED BY <2>1
<1> QED BY <1>1, ClientKnows, PTL

(* The two sides agree on who has the result.                              *)
THEOREM SidesAgree == ClientSpec => []ReceiptsAgree
<1>1. ClientInv => ReceiptsAgree
  <2> SUFFICES ASSUME ClientInv, NEW k \in Requests, NEW L \in Views
               PROVE  /\ L[k].state = "delivered" => delivery[k] # "none"
                      /\ delivery[k] = "acknowledged" => L[k].state = "delivered"
    BY DEF ReceiptsAgree
  <2>1. ReceiptInv(k) BY DEF ClientInv, Agreed
  <2>2. L \in Ledgers BY DEF Views, Ledgers
  <2> QED BY <2>1, <2>2 DEF ReceiptInv, NoneDelivered, Confirmed, AllDelivered
<1> QED BY <1>1, ClientKnows, PTL

(* A task shown as failed has no result, now or after a restart.           *)
THEOREM FailuresHonest == ClientSpec => []FailedIsHonest
<1>1. ClientInv => FailedIsHonest
  <2> SUFFICES ASSUME ClientInv, NEW k \in Requests, task[k] = "failed", NEW L \in Views
               PROVE  L[k].state \notin {"completed", "delivered"}
    BY DEF FailedIsHonest
  <2>1. Sealed(k) BY DEF ClientInv, Agreed, FailInv, Doomed
  <2>2. L \in disk \/ L = fences BY DEF Views
  <2> QED BY <2>1, <2>2 DEF Sealed, Results
<1> QED BY <1>1, ClientKnows, PTL
=============================================================================
