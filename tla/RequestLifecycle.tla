--------------------------- MODULE RequestLifecycle ---------------------------
(***************************************************************************)
(* What the gateway promises about requests, whatever fails: a request is  *)
(* admitted, starts at most once, and ends once; an answer never goes      *)
(* back while the gateway lives; after a restart nothing is under way and  *)
(* nothing that started can be admitted again.                             *)
(*                                                                         *)
(* Nothing is said of workers, approvals, capacity or time.  What a        *)
(* restart may find is a set of states, since a save that failed may have  *)
(* reached the disk.                                                       *)
(***************************************************************************)
EXTENDS Naturals, TLAPS

CONSTANT Requests

VARIABLES
  up,      \* a gateway answers
  shown,   \* the state it answers for each request
  stored,  \* the states the next gateway may find
  started  \* how often the execution of the request started

lifecycle == <<up, shown, stored, started>>

UnderWay  == {"accepted", "running"}
Answers   == {"absent", "accepted", "running", "completed", "delivered", "delivery_expired",
              "failed", "unknown"}

Edges ==
  {<<"absent", "accepted">>, <<"accepted", "running">>, <<"accepted", "unknown">>,
   <<"running", "completed">>, <<"running", "failed">>, <<"running", "unknown">>,
   <<"completed", "delivered">>, <<"completed", "delivery_expired">>}
Moves(s) == {s} \cup {t \in Answers : <<s, t>> \in Edges}

(* What a restart makes of the state it finds: an end.                     *)
Ends(s) == Moves(s) \ UnderWay

LifecycleInit ==
  /\ up = TRUE
  /\ shown = [k \in Requests |-> "absent"]
  /\ stored = [k \in Requests |-> {"absent"}]
  /\ started = [k \in Requests |-> 0]

(* An execution starts as it becomes `running`, and only when that is      *)
(* certain to be what a restart finds.                                     *)
Start(k) ==
  /\ shown[k] = "accepted" /\ shown'[k] = "running"
  /\ stored'[k] = {"running"}
  /\ started' = [started EXCEPT ![k] = @ + 1]

(* Any number of requests move on, each by one edge.  What is saved is     *)
(* what was saved before or follows what was shown.                        *)
Serve ==
  /\ up /\ up'
  /\ shown' \in [Requests -> Answers] /\ stored' \in [Requests -> SUBSET Answers]
  /\ \A k \in Requests : /\ shown'[k] \in Moves(shown[k])
                         /\ stored'[k] \subseteq stored[k] \cup Moves(shown[k])
  /\ UNCHANGED started \/ \E k \in Requests : Start(k)

Halt ==
  /\ up' = FALSE
  /\ shown' = [k \in Requests |-> "absent"]
  /\ UNCHANGED <<stored, started>>

(* The next gateway ends what was under way.  It answers once this is      *)
(* saved; if it is not, another restart has to do it.                      *)
Restart ==
  /\ ~up
  /\ \E found \in [Requests -> Answers] :
       /\ \A k \in Requests : found[k] \in stored[k]
       /\ \/ /\ up' = TRUE
             /\ shown' \in [Requests -> Answers]
             /\ \A k \in Requests : shown'[k] \in Ends(found[k])
             /\ stored' = [k \in Requests |-> {shown'[k]}]
          \/ /\ UNCHANGED <<up, shown>>
             /\ stored' \in [Requests -> SUBSET Answers]
             /\ \A k \in Requests : stored'[k] \subseteq {found[k]} \cup Ends(found[k])
  /\ UNCHANGED started

LifecycleNext == Serve \/ Halt \/ Restart
LifecycleSpec == LifecycleInit /\ [][LifecycleNext]_lifecycle

-----------------------------------------------------------------------------
(* A request starts at most once, in all lives of the gateway.             *)
StartsOnce == \A k \in Requests : started[k] <= 1

(* What started is past its admission, in what is shown and in all that a  *)
(* restart may find.                                                       *)
Begun ==
  \A k \in Requests :
    /\ started[k] \in {0, 1}
    /\ started[k] = 1 =>
         /\ up => shown[k] \notin {"absent", "accepted"}
         /\ stored[k] \cap {"absent", "accepted"} = {}

LifecycleInv == started \in [Requests -> Nat] /\ Begun

LEMMA NoWayBack ==
  ASSUME NEW s, s \notin {"absent", "accepted"}
  PROVE  Moves(s) \cap {"absent", "accepted"} = {}
  BY DEF Moves, Edges

LEMMA ServeKeeps == ASSUME LifecycleInv, Serve PROVE LifecycleInv'
<1>1. started' \in [Requests -> Nat] BY DEF LifecycleInv, Serve, Start
<1>2. ASSUME NEW k \in Requests, started[k] = 1
      PROVE  /\ shown'[k] \notin {"absent", "accepted"}
             /\ stored'[k] \cap {"absent", "accepted"} = {}
  <2>1. shown[k] \notin {"absent", "accepted"} /\ stored[k] \cap {"absent", "accepted"} = {}
    BY <1>2 DEF LifecycleInv, Begun, Serve
  <2>2. Moves(shown[k]) \cap {"absent", "accepted"} = {} BY <2>1, NoWayBack
  <2> QED BY <2>1, <2>2 DEF Serve
<1>3. CASE UNCHANGED started BY <1>1, <1>2, <1>3 DEF LifecycleInv, Begun
<1>4. CASE \E k \in Requests : Start(k)
  <2>1. PICK k \in Requests : Start(k) BY <1>4
  <2>2. started[k] = 0 BY <2>1 DEF Start, LifecycleInv, Begun, Serve
  <2>3. started'[k] = 1 /\ \A j \in Requests \ {k} : started'[j] = started[j]
    BY <2>1, <2>2 DEF Start, LifecycleInv
  <2>4. shown'[k] = "running" /\ stored'[k] = {"running"} BY <2>1 DEF Start
  <2> QED BY <1>1, <1>2, <2>3, <2>4 DEF LifecycleInv, Begun
<1> QED BY <1>3, <1>4 DEF Serve

LEMMA RestartKeeps == ASSUME LifecycleInv, Restart PROVE LifecycleInv'
<1>1. PICK found \in [Requests -> Answers] :
        /\ \A k \in Requests : found[k] \in stored[k]
        /\ \/ /\ \A k \in Requests : shown'[k] \in Ends(found[k])
              /\ stored' = [k \in Requests |-> {shown'[k]}]
           \/ /\ UNCHANGED <<up, shown>>
              /\ \A k \in Requests : stored'[k] \subseteq {found[k]} \cup Ends(found[k])
  BY DEF Restart
<1>2. ASSUME NEW k \in Requests, started[k] = 1
      PROVE  found[k] \notin {"absent", "accepted"} /\ Ends(found[k]) \cap {"absent", "accepted"} = {}
  <2>1. found[k] \notin {"absent", "accepted"} BY <1>1, <1>2 DEF LifecycleInv, Begun
  <2> QED BY <2>1, NoWayBack DEF Ends
<1>3. ASSUME NEW k \in Requests, started[k] = 1
      PROVE  /\ up' => shown'[k] \notin {"absent", "accepted"}
             /\ stored'[k] \cap {"absent", "accepted"} = {}
  BY <1>1, <1>2, <1>3 DEF Restart
<1> QED BY <1>3 DEF LifecycleInv, Begun, Restart

(* Every behaviour of the promise starts a request at most once.           *)
THEOREM PromisesOneStart == LifecycleSpec => []StartsOnce
<1>1. LifecycleInit => LifecycleInv BY DEF LifecycleInit, LifecycleInv, Begun
<1>2. ASSUME LifecycleInv, [LifecycleNext]_lifecycle PROVE LifecycleInv'
  <2>1. CASE Halt BY <1>2, <2>1 DEF Halt, LifecycleInv, Begun
  <2>2. CASE UNCHANGED lifecycle BY <1>2, <2>2 DEF lifecycle, LifecycleInv, Begun
  <2> QED BY <1>2, <2>1, <2>2, ServeKeeps, RestartKeeps DEF LifecycleNext
<1>3. LifecycleInv => StartsOnce BY DEF LifecycleInv, Begun, StartsOnce
<1> QED BY <1>1, <1>2, <1>3, PTL DEF LifecycleSpec
=============================================================================
