-------------------------- MODULE HandleStageProofs --------------------------
(***************************************************************************)
(* The reservations of a stage and of a budget are exact and the files of  *)
(* the materializer sound, for every value of the constants of             *)
(* HandleStage.                                                            *)
(*                                                                         *)
(* Bytes are counted as the elements of a set, so that a file that joins   *)
(* or leaves a set of files adds or takes its size.  A step of the stage   *)
(* is an arrival at a wait, a departure from one, or leaves the waits as   *)
(* they are.  A step of the materializer is taken by a read that has no    *)
(* place in inflight, or by the one that has the place of its file and so  *)
(* owns everything that belongs to it.                                     *)
(***************************************************************************)
EXTENDS HandleStage, FiniteSetTheorems, TLAPS

Steps == {"idle", "entering", "queued", "owner", "waiting", "holding", "charged", "writing",
          "leaving"}
Calls == [at : Steps, file : Files \cup {"none"}, known : BOOLEAN, ended : BOOLEAN,
          fired : BOOLEAN]

TypeOK ==
  /\ open \in BOOLEAN /\ late \in BOOLEAN
  /\ pending \subseteq Files /\ uploaded \subseteq Files
  /\ waiters \in [Files -> Nat]
  /\ reserved \in Nat
  /\ reader \in [Readers -> Calls]
  /\ inflight \in [Files -> Readers \cup {NoReader}]
  /\ ready \subseteq Files /\ charged \subseteq Files
  /\ used \in Nat /\ spent \in Nat
  /\ disk \in [Files -> {"absent", "partial", "whole"}]
  /\ reads \in Nat /\ faults \in Nat

(* Only an idle call has no file.                                          *)
Reading == \A r \in Readers : ~At(r, "idle") => File(r) \in Files

StageInv == TypeOK /\ Reading /\ ReservationsExact

-----------------------------------------------------------------------------
(* Bytes.                                                                  *)

LEMMA FileBytes ==
  ASSUME NEW f \in Files
  PROVE  IsFiniteSet(BytesIn(f)) /\ Cardinality(BytesIn(f)) = Size[f]
<1>1. Size[f] \in Nat BY StageAssumption
<1>2. IsFiniteSet(1..Size[f]) /\ Cardinality(1..Size[f]) = Size[f] BY <1>1, FS_Interval
<1>3. IsFiniteSet({f}) /\ Cardinality({f}) = 1 BY FS_Singleton
<1>4. IsFiniteSet({f} \X (1..Size[f])) /\ Cardinality({f} \X (1..Size[f])) = 1 * Size[f]
  BY ZenonT(40), <1>2, <1>3, FS_Product
<1> QED BY <1>1, <1>4 DEF BytesIn

LEMMA BytesFinite ==
  ASSUME NEW S \in SUBSET Files
  PROVE  IsFiniteSet(UNION {BytesIn(f) : f \in S})
<1> DEFINE T == {BytesIn(f) : f \in S}
           b == [f \in S |-> BytesIn(f)]
<1>1. IsFiniteSet(S) BY StageAssumption, FS_Subset
<1>2. b \in Surjection(S, T) BY DEF Surjection
<1>3. IsFiniteSet(T) BY <1>1, <1>2, FS_Surjection
<1>4. \A t \in T : IsFiniteSet(t) BY FileBytes
<1> QED BY <1>3, <1>4, FS_UNION

LEMMA BytesNat ==
  ASSUME NEW S \in SUBSET Files PROVE Bytes(S) \in Nat
  BY BytesFinite, FS_CardinalityType DEF Bytes

LEMMA BytesEmpty == Bytes({}) = 0
<1>1. UNION {BytesIn(f) : f \in {}} = {} OBVIOUS
<1> QED BY <1>1, FS_EmptySet DEF Bytes

(* A file that joins adds its size.                                        *)
LEMMA BytesAdd ==
  ASSUME NEW S \in SUBSET Files, NEW f \in Files, f \notin S
  PROVE  Bytes(S \cup {f}) = Bytes(S) + Size[f]
<1> DEFINE U == UNION {BytesIn(g) : g \in S}
           V == UNION {BytesIn(g) : g \in S \cup {f}}
<1>1. V = U \cup BytesIn(f) OBVIOUS
<1>2. U \cap BytesIn(f) = {} BY DEF BytesIn
<1>3. IsFiniteSet(U) BY BytesFinite
<1>4. IsFiniteSet(BytesIn(f)) /\ Cardinality(BytesIn(f)) = Size[f] BY FileBytes
<1>5. Cardinality(U \cap BytesIn(f)) = 0 BY <1>2, FS_EmptySet
<1>6. Cardinality(V) = Cardinality(U) + Cardinality(BytesIn(f)) - 0
  BY <1>1, <1>3, <1>4, <1>5, FS_Union
<1>7. Cardinality(U) \in Nat /\ Size[f] \in Nat BY <1>3, FS_CardinalityType, StageAssumption
<1> QED BY <1>4, <1>6, <1>7 DEF Bytes

(* A file that leaves takes its size with it.                              *)
LEMMA BytesRemove ==
  ASSUME NEW S \in SUBSET Files, NEW f \in S
  PROVE  Bytes(S \ {f}) = Bytes(S) - Size[f]
<1>1. S = (S \ {f}) \cup {f} OBVIOUS
<1>2. Bytes(S) = Bytes(S \ {f}) + Size[f] BY <1>1, BytesAdd
<1> QED BY <1>2, BytesNat, StageAssumption

-----------------------------------------------------------------------------
(* Types.                                                                  *)

LEMMA CallsType ==
  ASSUME NEW c \in Calls
  PROVE  /\ \A s \in Steps : [c EXCEPT !.at = s] \in Calls
         /\ \A b \in BOOLEAN : /\ [c EXCEPT !.known = b] \in Calls
                               /\ [c EXCEPT !.ended = b] \in Calls
                               /\ [c EXCEPT !.fired = b] \in Calls
         /\ NoCall \in Calls
  BY DEF Calls, NoCall, Call, Steps

(* One call moves: the others stay where they are, and it keeps its file.  *)
Moves(r) ==
  /\ reader' \in [Readers -> Calls]
  /\ reader'[r].at = "idle" \/ reader'[r].file = File(r)
  /\ \A q \in Readers \ {r} : reader'[q] = reader[q]

LEMMA MovedMoves ==
  ASSUME TypeOK, NEW r \in Readers, NEW s \in Steps, Moved(r, s)
  PROVE  Moves(r) /\ reader'[r].at = s
<1>1. reader[r] \in Calls BY DEF TypeOK
<1>2. [reader[r] EXCEPT !.at = s] \in Calls BY <1>1, CallsType
<1>3. reader' = [reader EXCEPT ![r] = [reader[r] EXCEPT !.at = s]] BY DEF Moved, TypeOK
<1>4. [reader[r] EXCEPT !.at = s].file = reader[r].file /\ [reader[r] EXCEPT !.at = s].at = s
  BY <1>1 DEF Calls
<1> QED BY <1>2, <1>3, <1>4 DEF TypeOK, Moves, File

LEMMA StoppedMoves ==
  ASSUME TypeOK, NEW r \in Readers, Stopped(r)
  PROVE  Moves(r) /\ reader'[r].at = "idle"
<1>1. NoCall \in Calls /\ NoCall.at = "idle" BY DEF NoCall, Call, Calls, Steps
<1> QED BY <1>1 DEF TypeOK, Stopped, Moves

LEMMA ReturnedMoves ==
  ASSUME TypeOK, NEW r \in Readers, Returned(r)
  PROVE  Moves(r) /\ reader'[r].at \in {"idle", "leaving"}
  BY MovedMoves, StoppedMoves DEF Returned, Steps

LEMMA MovesReading ==
  ASSUME Reading, NEW r \in Readers, ~At(r, "idle"), Moves(r) PROVE Reading'
  BY DEF Reading, Moves, At, File

(* The stage after an action, and the copies.                              *)
StageType ==
  /\ open \in BOOLEAN /\ late \in BOOLEAN
  /\ pending \subseteq Files /\ uploaded \subseteq Files
  /\ waiters \in [Files -> Nat] /\ reserved \in Nat

CopyType ==
  /\ inflight \in [Files -> Readers \cup {NoReader}]
  /\ ready \subseteq Files /\ charged \subseteq Files
  /\ used \in Nat /\ spent \in Nat
  /\ disk \in [Files -> {"absent", "partial", "whole"}]

-----------------------------------------------------------------------------
(* The waits.                                                              *)

LEMMA WaitingFinite ==
  ASSUME NEW f PROVE IsFiniteSet(Waiting(f)) /\ Cardinality(Waiting(f)) \in Nat
<1>1. Waiting(f) \subseteq Readers BY DEF Waiting
<1> QED BY <1>1, StageAssumption, FS_Subset, FS_CardinalityType

LEMMA SomeoneWaits ==
  ASSUME NEW r \in Readers, At(r, "waiting") PROVE Cardinality(Waiting(File(r))) > 0
<1>1. r \in Waiting(File(r)) BY DEF Waiting
<1>2. Cardinality(Waiting(File(r))) # 0 BY <1>1, WaitingFinite, FS_EmptySet
<1> QED BY <1>2, WaitingFinite

(* Nobody comes to a wait or leaves one.                                   *)
LEMMA WaitsKept ==
  ASSUME StageExact, open' => open, UNCHANGED <<pending, waiters, uploaded, reserved>>,
         \A q \in Readers : /\ reader'[q].at = "waiting" <=> reader[q].at = "waiting"
                            /\ reader[q].at = "waiting" => reader'[q].file = reader[q].file
  PROVE  StageExact'
<1>1. \A f : Waiting(f)' = Waiting(f) BY DEF Waiting, At, File
<1> QED BY <1>1 DEF StageExact

(* A call that does not wait takes a step.                                 *)
CallStep(r) ==
  /\ UNCHANGED stage
  /\ Moves(r)
  /\ ~At(r, "waiting") /\ reader'[r].at # "waiting"

LEMMA CallKeeps ==
  ASSUME TypeOK, StageExact, NEW r \in Readers, CallStep(r) PROVE StageExact' /\ StageType'
<1>1. StageType' BY DEF CallStep, StageType, TypeOK, stage
<1>2. StageExact' BY WaitsKept DEF CallStep, stage, Moves, At
<1> QED BY <1>1, <1>2

(* A call joins the wait for its file.                                     *)
LEMMA WaitKeeps ==
  ASSUME TypeOK, StageExact, NEW r \in Readers, NEW f \in Files, File(r) = f, At(r, "owner"),
         ~Refused(r), f \notin uploaded, Wait(r)
  PROVE  StageExact' /\ StageType' /\ Moves(r)
<1>1. Moves(r) /\ reader'[r].at = "waiting" BY MovedMoves DEF Wait, Steps
<1>2. open /\ Size[f] \in Nat BY StageAssumption DEF Refused, Serving
<1>3. /\ \A g \in Files \ {f} : Waiting(g)' = Waiting(g)
      /\ Waiting(f)' = Waiting(f) \cup {r} /\ r \notin Waiting(f)
  BY <1>1 DEF Moves, Waiting, At, File
<1>4. Cardinality(Waiting(f)') = Cardinality(Waiting(f)) + 1
  BY <1>3, WaitingFinite, FS_AddElement
<1>5. /\ waiters'[f] = waiters[f] + 1 /\ waiters' \in [Files -> Nat]
      /\ \A g \in Files \ {f} : waiters'[g] = waiters[g]
  BY DEF Wait, TypeOK
<1>6. pending' = pending \cup {f} /\ uploaded' = uploaded BY DEF Wait
<1>7. reserved' = Bytes(pending' \cup uploaded') /\ reserved' <= Room
  <2>1. CASE f \in pending
    <3>1. pending' = pending BY <1>6, <2>1
    <3> QED BY <1>2, <1>6, <2>1, <3>1 DEF Wait, StageExact
  <2>2. CASE f \notin pending
    <3>1. pending' \cup uploaded' = (pending \cup uploaded) \cup {f} BY <1>6
    <3>2. reserved' = reserved + Size[f] /\ reserved + Size[f] <= Room
      BY <1>2, <2>2, StageAssumption DEF Wait, Refused, TypeOK
    <3>3. Bytes(pending' \cup uploaded') = Bytes(pending \cup uploaded) + Size[f]
      BY <2>2, <3>1, BytesAdd DEF TypeOK
    <3> QED BY <1>2, <3>2, <3>3 DEF StageExact
  <2> QED BY <2>1, <2>2
<1>8. \A g \in Files : waiters'[g] = Cardinality(Waiting(g)') /\ (g \in pending' <=> waiters'[g] > 0)
  <2>1. waiters'[f] = Cardinality(Waiting(f)') /\ waiters'[f] > 0
    BY <1>2, <1>4, <1>5, WaitingFinite DEF StageExact
  <2>2. ASSUME NEW g \in Files \ {f}
        PROVE  waiters'[g] = Cardinality(Waiting(g)') /\ (g \in pending' <=> waiters'[g] > 0)
    BY <1>2, <1>3, <1>5, <1>6, <2>2 DEF StageExact
  <2> TAKE g \in Files
  <2>3. CASE g = f BY <1>6, <2>1, <2>3
  <2>4. CASE g # f BY <2>2, <2>4
  <2> QED BY <2>3, <2>4
<1>9. StageExact' BY <1>7, <1>8 DEF StageExact
<1>10. reserved' \in Nat BY <1>2 DEF Wait, TypeOK
<1> QED BY <1>1, <1>5, <1>6, <1>9, <1>10 DEF Wait, TypeOK, StageType

(* A call leaves the wait for its file: the last one releases the bytes of *)
(* a file that did not arrive.                                             *)
LEMMA DepartureKeeps ==
  ASSUME TypeOK, StageExact, NEW r \in Readers, NEW f \in Files, File(r) = f, At(r, "waiting"),
         open, Departs(r, f \in uploaded), Moves(r), reader'[r].at # "waiting"
  PROVE  StageExact' /\ StageType'
<1>1. Size[f] \in Nat /\ waiters[f] \in Nat BY StageAssumption DEF TypeOK
<1>2. waiters[f] = Cardinality(Waiting(f)) /\ waiters[f] > 0 /\ f \in pending
  BY SomeoneWaits DEF StageExact
<1>3. /\ \A g \in Files \ {f} : Waiting(g)' = Waiting(g)
      /\ Waiting(f)' = Waiting(f) \ {r} /\ r \in Waiting(f)
  <2>1. r \in Waiting(f) BY DEF Waiting
  <2>2. ASSUME NEW g, NEW q \in Readers
        PROVE  q \in Waiting(g)' <=> q \in Waiting(g) /\ q # r
    BY DEF Moves, Waiting, At, File
  <2>3. \A g : Waiting(g) \subseteq Readers /\ Waiting(g)' \subseteq Readers BY DEF Waiting
  <2>4. \A g \in Files \ {f} : r \notin Waiting(g) BY DEF Waiting
  <2>5. Waiting(f)' = Waiting(f) \ {r} BY <2>2, <2>3
  <2>6. \A g \in Files \ {f} : Waiting(g)' = Waiting(g) BY <2>2, <2>3, <2>4
  <2> QED BY <2>1, <2>5, <2>6
<1>4. Cardinality(Waiting(f)') = Cardinality(Waiting(f)) - 1
  BY ZenonT(40), <1>3, WaitingFinite, FS_RemoveElement
<1>5. /\ waiters'[f] = waiters[f] - 1 /\ waiters' \in [Files -> Nat]
      /\ \A g \in Files \ {f} : waiters'[g] = waiters[g]
  BY <1>1, <1>2 DEF Departs, TypeOK
<1>6. /\ pending' = IF waiters[f] = 1 THEN pending \ {f} ELSE pending
      /\ uploaded' = uploaded
  BY DEF Departs
<1>7. reserved' = Bytes(pending' \cup uploaded') /\ reserved' <= Room /\ reserved' \in Nat
  <2>1. CASE waiters[f] = 1 /\ f \notin uploaded
    <3>1. pending' \cup uploaded' = (pending \cup uploaded) \ {f} BY <1>6, <2>1
    <3>2. reserved' = reserved - Size[f] BY <2>1 DEF Departs
    <3>3. Bytes(pending' \cup uploaded') = Bytes(pending \cup uploaded) - Size[f]
      BY <1>2, <3>1, BytesRemove DEF TypeOK
    <3>4. Bytes(pending' \cup uploaded') \in Nat BY <3>1, BytesNat DEF TypeOK
    <3> QED BY <1>1, <3>2, <3>3, <3>4, StageAssumption DEF StageExact, TypeOK
  <2>2. CASE ~(waiters[f] = 1 /\ f \notin uploaded)
    <3>1. pending' \cup uploaded' = pending \cup uploaded BY <1>6, <2>2
    <3>2. reserved' = reserved BY <2>2 DEF Departs
    <3> QED BY <3>1, <3>2 DEF StageExact, TypeOK
  <2> QED BY <2>1, <2>2
<1>8. \A g \in Files : waiters'[g] = Cardinality(Waiting(g)') /\ (g \in pending' <=> waiters'[g] > 0)
  <2>1. waiters'[f] = Cardinality(Waiting(f)') /\ (f \in pending' <=> waiters'[f] > 0)
    BY <1>1, <1>2, <1>4, <1>5, <1>6
  <2>2. ASSUME NEW g \in Files \ {f}
        PROVE  waiters'[g] = Cardinality(Waiting(g)') /\ (g \in pending' <=> waiters'[g] > 0)
    BY <1>3, <1>5, <1>6, <2>2 DEF StageExact
  <2> TAKE g \in Files
  <2>3. CASE g = f BY <2>1, <2>3
  <2>4. CASE g # f BY <2>2, <2>4
  <2> QED BY <2>3, <2>4
<1>9. StageExact' BY <1>7, <1>8 DEF StageExact
<1> QED BY <1>5, <1>6, <1>7, <1>9 DEF Departs, TypeOK, StageType

-----------------------------------------------------------------------------
(* The actions.                                                            *)

LEMMA BudgetKept ==
  ASSUME TypeOK, BudgetExact, UNCHANGED copies PROVE BudgetExact' /\ CopyType'
  BY DEF BudgetExact, copies, CopyType, TypeOK

(* A step of one call is sound if the stage and the budget are.            *)
LEMMA CallInv ==
  ASSUME StageInv, NEW r \in Readers, ~At(r, "idle"), Moves(r), reads' = reads, faults' \in Nat,
         StageExact' /\ StageType', BudgetExact' /\ CopyType'
  PROVE  StageInv'
<1>1. Reading' BY MovesReading DEF StageInv
<1> QED BY <1>1 DEF StageInv, ReservationsExact, TypeOK, StageType, CopyType, Moves

LEMMA AwaitHandleInv ==
  ASSUME StageInv, NEW r \in Readers, AwaitHandle(r) PROVE StageInv'
<1>1. TypeOK /\ StageExact /\ BudgetExact /\ File(r) \in Files /\ At(r, "owner") /\ faults \in Nat
  BY DEF AwaitHandle, StageInv, ReservationsExact, Reading, TypeOK, At
<1>2. Moves(r) /\ StageExact' /\ StageType'
  <2>1. CASE Returned(r) /\ UNCHANGED stage
    <3>1. CallStep(r) BY <1>1, <2>1, ReturnedMoves DEF CallStep, At
    <3> QED BY <1>1, <3>1, CallKeeps DEF CallStep
  <2>2. CASE Moved(r, "holding") /\ UNCHANGED stage
    <3>1. CallStep(r) BY <1>1, <2>2, MovedMoves DEF CallStep, At, Steps
    <3> QED BY <1>1, <3>1, CallKeeps DEF CallStep
  <2>3. CASE ~Refused(r) /\ File(r) \notin uploaded /\ Wait(r) BY <1>1, <2>3, WaitKeeps
  <2> QED BY <2>1, <2>2, <2>3 DEF AwaitHandle
<1>3. BudgetExact' /\ CopyType' BY <1>1, BudgetKept DEF AwaitHandle
<1> QED BY <1>1, <1>2, <1>3, CallInv DEF AwaitHandle, At

LEMMA WakeInv ==
  ASSUME StageInv, NEW r \in Readers, Wake(r) PROVE StageInv'
<1>1. TypeOK /\ StageExact /\ BudgetExact /\ File(r) \in Files /\ At(r, "waiting") /\ faults \in Nat
  BY DEF Wake, StageInv, ReservationsExact, Reading, TypeOK, At
<1>2. Moves(r) /\ reader'[r].at # "waiting"
  <2>1. CASE Returned(r) BY <1>1, <2>1, ReturnedMoves
  <2>2. CASE Moved(r, "holding") BY <1>1, <2>2, MovedMoves DEF Steps
  <2> QED BY <2>1, <2>2 DEF Wake, Resume
<1>3. StageExact' /\ StageType'
  <2>1. CASE ~open /\ UNCHANGED stage BY <1>1, <2>1 DEF StageExact, StageType, TypeOK, stage
  <2>2. CASE open /\ Departs(r, File(r) \in uploaded) BY <1>1, <1>2, <2>2, DepartureKeeps
  <2> QED BY <2>1, <2>2 DEF Wake, Resume
<1>4. BudgetExact' /\ CopyType' BY <1>1, BudgetKept DEF Wake
<1> QED BY <1>1, <1>2, <1>3, <1>4, CallInv DEF Wake, At

(* Budget.Reserve.                                                         *)
LEMMA ChargeKeeps ==
  ASSUME TypeOK, BudgetExact, NEW r \in Readers, File(r) \in Files, Charge(r), spent' = spent,
         inflight' = inflight, ready' = ready, disk' = disk
  PROVE  BudgetExact' /\ CopyType'
<1>1. CASE UNCHANGED <<charged, used>> BY <1>1 DEF BudgetExact, TypeOK, CopyType
<1>2. CASE /\ File(r) \notin charged /\ used + Size[File(r)] <= Limit
           /\ charged' = charged \cup {File(r)} /\ used' = used + Size[File(r)]
  <2>1. Bytes(charged') = Bytes(charged) + Size[File(r)] BY <1>2, BytesAdd DEF TypeOK
  <2>2. Bytes(charged) \in Nat /\ Size[File(r)] \in Nat BY BytesNat, StageAssumption DEF TypeOK
  <2>3. used' = spent' + Bytes(charged') /\ used' <= Limit /\ used' \in Nat
    BY <1>2, <2>1, <2>2 DEF BudgetExact, TypeOK
  <2> QED BY <1>2, <2>3 DEF BudgetExact, TypeOK, CopyType
<1> QED BY <1>1, <1>2 DEF Charge

LEMMA AccountInv ==
  ASSUME StageInv, NEW r \in Readers, Account(r) PROVE StageInv'
<1>1. TypeOK /\ StageExact /\ BudgetExact /\ File(r) \in Files /\ At(r, "holding") /\ faults \in Nat
  BY DEF Account, StageInv, ReservationsExact, Reading, TypeOK, At
<1>2. Moves(r) /\ reader'[r].at \in {"charged", "leaving"}
  BY <1>1, MovedMoves DEF Account, Charge, Steps
<1>3. CallStep(r) BY <1>1, <1>2 DEF CallStep, At, Account
<1>4. BudgetExact' /\ CopyType' BY <1>1, ChargeKeeps DEF Account
<1> QED BY <1>1, <1>2, <1>3, <1>4, CallInv, CallKeeps DEF Account, At

(* A call that touches neither the stage nor the budget.                   *)
LEMMA PlainCallInv ==
  ASSUME StageInv, NEW r \in Readers, ~At(r, "idle"), CallStep(r),
         UNCHANGED <<charged, used, spent, reads>>, faults' \in Nat, ready' \subseteq Files,
         inflight' \in [Files -> Readers \cup {NoReader}],
         disk' \in [Files -> {"absent", "partial", "whole"}]
  PROVE  StageInv'
<1>1. TypeOK /\ StageExact /\ BudgetExact BY DEF StageInv, ReservationsExact
<1>2. BudgetExact' /\ CopyType' BY <1>1 DEF BudgetExact, TypeOK, CopyType
<1> QED BY <1>1, <1>2, CallKeeps, CallInv DEF CallStep

LEMMA EnterInv ==
  ASSUME StageInv, NEW r \in Readers, Enter(r) PROVE StageInv'
<1>1. TypeOK /\ At(r, "entering") /\ File(r) \in Files /\ reader[r] \in Calls
  BY DEF Enter, StageInv, Reading, TypeOK, At
<1>2. Moves(r) /\ reader'[r].at # "waiting"
  <2>1. CASE Stopped(r) BY <1>1, <2>1, StoppedMoves
  <2>2. CASE Moved(r, "queued") BY <1>1, <2>2, MovedMoves DEF Steps
  <2>3. CASE reader' = [reader EXCEPT ![r].at = "owner", ![r].known = File(r) \in ready]
    <3> DEFINE k == File(r) \in ready
               c == [[reader[r] EXCEPT !.at = "owner"] EXCEPT !.known = k]
    <3>1. k \in BOOLEAN OBVIOUS
    <3>2. c \in Calls /\ c.at = "owner" /\ c.file = File(r)
      <4> HIDE DEF k
      <4> QED BY <1>1, <3>1 DEF Calls, Steps, File
    <3>3. reader' = [reader EXCEPT ![r] = c] BY <1>1, <2>3 DEF TypeOK
    <3> HIDE DEF c
    <3> QED BY <1>1, <3>2, <3>3 DEF TypeOK, Moves
  <2> QED BY <2>1, <2>2, <2>3 DEF Enter
<1>3. CallStep(r) BY <1>1, <1>2 DEF CallStep, Enter, At
<1>4. inflight' \in [Files -> Readers \cup {NoReader}] BY <1>1 DEF Enter, TypeOK
<1> QED BY <1>1, <1>3, <1>4, PlainCallInv DEF Enter, At, TypeOK

LEMMA StepInv ==
  ASSUME StageInv, NEW r \in Readers, GiveUp(r) \/ ReadBack(r) \/ TakeBytes(r)
  PROVE  StageInv'
<1>1. TypeOK /\ ~At(r, "idle") /\ ~At(r, "waiting")
  BY DEF GiveUp, ReadBack, TakeBytes, StageInv, At
<1>2. Moves(r) /\ reader'[r].at # "waiting"
  BY <1>1, StoppedMoves, MovedMoves DEF GiveUp, ReadBack, TakeBytes, Steps
<1>3. UNCHANGED <<stage, copies, reads, faults>> BY DEF GiveUp, ReadBack, TakeBytes
<1>4. CallStep(r) BY <1>1, <1>2, <1>3 DEF CallStep
<1> QED BY <1>1, <1>3, <1>4, PlainCallInv DEF copies, TypeOK

LEMMA CreateInv ==
  ASSUME StageInv, NEW r \in Readers, Create(r) PROVE StageInv'
<1>1. TypeOK /\ At(r, "charged") /\ File(r) \in Files
  BY DEF Create, StageInv, Reading, At
<1>2. Moves(r) /\ reader'[r].at # "waiting" BY <1>1, MovedMoves DEF Create, Steps
<1>3. CallStep(r) BY <1>1, <1>2 DEF CallStep, Create, At
<1>4. faults' \in Nat /\ disk' \in [Files -> {"absent", "partial", "whole"}]
  BY <1>1 DEF Create, TypeOK
<1> QED BY <1>1, <1>3, <1>4, PlainCallInv DEF Create, At, TypeOK

LEMMA WriteInv ==
  ASSUME StageInv, NEW r \in Readers, Write(r) PROVE StageInv'
<1>1. TypeOK /\ At(r, "writing") /\ File(r) \in Files
  BY DEF Write, StageInv, Reading, At
<1>2. Moves(r) /\ reader'[r].at # "waiting" BY <1>1, MovedMoves DEF Write, Steps
<1>3. CallStep(r) BY <1>1, <1>2 DEF CallStep, Write, At
<1>4. faults' \in Nat /\ disk' \in [Files -> {"absent", "partial", "whole"}] /\ ready' \subseteq Files
  BY <1>1 DEF Write, TypeOK
<1> QED BY <1>1, <1>3, <1>4, PlainCallInv DEF Write, At, TypeOK

(* The channel is closed: those behind the call look again.                *)
LEMMA LeaveInv ==
  ASSUME StageInv, NEW r \in Readers, Leave(r) PROVE StageInv'
<1>1. TypeOK /\ StageExact /\ BudgetExact /\ At(r, "leaving") /\ Reading
  BY DEF Leave, StageInv, ReservationsExact
<1>2. NoCall \in Calls /\ NoCall.at = "idle" BY DEF NoCall, Call, Calls, Steps
<1>3. ASSUME NEW q \in Readers
      PROVE  \/ reader'[q] = reader[q]
             \/ /\ reader'[q] = NoCall
                /\ reader[q].at = "leaving"
             \/ /\ reader[q].at = "queued"
                /\ reader'[q] = [reader[q] EXCEPT !.at = "entering"]
  BY <1>1 DEF Leave, Release, At
<1>4. ASSUME NEW q \in Readers
      PROVE  /\ reader'[q] \in Calls
             /\ reader'[q].at = "waiting" <=> reader[q].at = "waiting"
             /\ reader'[q].at # "idle" => reader[q].at # "idle" /\ reader'[q].file = reader[q].file
             /\ reader[q].at = "waiting" => reader'[q].file = reader[q].file
  <2>1. reader[q] \in Calls BY <1>1 DEF TypeOK
  <2>2. /\ [reader[q] EXCEPT !.at = "entering"] \in Calls
        /\ [reader[q] EXCEPT !.at = "entering"].at = "entering"
        /\ [reader[q] EXCEPT !.at = "entering"].file = reader[q].file
    BY <2>1 DEF Calls, Steps
  <2> QED BY <1>2, <1>3, <2>1, <2>2
<1>5. reader' \in [Readers -> Calls] BY <1>4 DEF Leave, Release
<1>6. Reading' BY <1>1, <1>4 DEF Reading, At, File
<1>7. StageExact' BY <1>1, <1>4, WaitsKept DEF Leave, stage
<1>8. BudgetExact' BY <1>1 DEF Leave, BudgetExact
<1>9. inflight' \in [Files -> Readers \cup {NoReader}] BY <1>1 DEF Leave, Release, TypeOK
<1> QED BY <1>1, <1>5, <1>6, <1>7, <1>8, <1>9
  DEF StageInv, ReservationsExact, TypeOK, Leave, stage

LEMMA StartInv ==
  ASSUME StageInv, NEW r \in Readers, NEW f \in Files, Start(r, f) PROVE StageInv'
<1>1. TypeOK /\ StageExact /\ BudgetExact /\ Reading /\ reader[r].at = "idle"
  BY DEF Start, StageInv, ReservationsExact, At
<1>2. PICK s \in {"owner", "entering"} : reader' = [reader EXCEPT ![r] = Call(s, f)]
  BY DEF Start
<1>3. Call(s, f) \in Calls /\ Call(s, f).at = s /\ Call(s, f).file = f BY DEF Call, Calls, Steps
<1>4. /\ reader' \in [Readers -> Calls]
      /\ reader'[r].at = s /\ reader'[r].file = f
      /\ \A q \in Readers \ {r} : reader'[q] = reader[q]
  BY <1>1, <1>2, <1>3 DEF TypeOK
<1>5. Reading' BY <1>1, <1>4 DEF Reading, At, File
<1>6. StageExact' BY <1>1, <1>4, WaitsKept DEF Start, stage
<1>7. BudgetExact' /\ CopyType' BY <1>1, BudgetKept DEF Start
<1>8. reads' \in Nat BY <1>1 DEF Start, TypeOK
<1> QED BY <1>1, <1>4, <1>5, <1>6, <1>7, <1>8
  DEF StageInv, ReservationsExact, TypeOK, CopyType, Start, stage

(* A context ends or a timer fires: the call stays where it is.            *)
LEMMA SignalInv ==
  ASSUME StageInv, NEW r \in Readers, ContextEnds(r) \/ TimerFires(r) PROVE StageInv'
<1>1. TypeOK /\ StageExact /\ BudgetExact /\ Reading /\ reader[r] \in Calls
  BY DEF StageInv, ReservationsExact, TypeOK
<1>2. PICK c \in Calls : /\ reader' = [reader EXCEPT ![r] = c]
                         /\ c.at = reader[r].at /\ c.file = reader[r].file
  <2>1. CASE reader' = [reader EXCEPT ![r].ended = TRUE]
    <3>1. [reader[r] EXCEPT !.ended = TRUE] \in Calls BY <1>1, CallsType
    <3> QED BY <1>1, <2>1, <3>1 DEF Calls, TypeOK
  <2>2. CASE reader' = [reader EXCEPT ![r].fired = TRUE]
    <3>1. [reader[r] EXCEPT !.fired = TRUE] \in Calls BY <1>1, CallsType
    <3> QED BY <1>1, <2>2, <3>1 DEF Calls, TypeOK
  <2> QED BY <2>1, <2>2 DEF ContextEnds, TimerFires
<1>3. /\ reader' \in [Readers -> Calls]
      /\ \A q \in Readers : reader'[q].at = reader[q].at /\ reader'[q].file = reader[q].file
  BY <1>1, <1>2 DEF TypeOK
<1>4. UNCHANGED <<stage, copies, reads, faults>> BY DEF ContextEnds, TimerFires
<1>5. Reading' BY <1>1, <1>3 DEF Reading, At, File
<1>6. StageExact' BY <1>1, <1>3, <1>4, WaitsKept DEF stage
<1>7. BudgetExact' /\ CopyType' BY <1>1, <1>4, BudgetKept
<1> QED BY <1>1, <1>3, <1>4, <1>5, <1>6, <1>7
  DEF StageInv, ReservationsExact, TypeOK, CopyType, stage

(* A file arrives that is awaited, and its bytes are reserved already.     *)
LEMMA UploadInv ==
  ASSUME StageInv, NEW f \in Files, Upload(f) PROVE StageInv'
<1>1. TypeOK /\ StageExact /\ BudgetExact /\ Reading BY DEF StageInv, ReservationsExact
<1>2. pending \cup uploaded' = pending \cup uploaded /\ uploaded' \subseteq Files
  BY <1>1 DEF Upload, TypeOK
<1>3. \A g : Waiting(g)' = Waiting(g) BY DEF Upload, Waiting, At, File
<1>4. StageExact' BY <1>1, <1>2, <1>3 DEF StageExact, Upload
<1>5. BudgetExact' /\ CopyType' BY <1>1, BudgetKept DEF Upload
<1> QED BY <1>1, <1>2, <1>4, <1>5
  DEF StageInv, ReservationsExact, TypeOK, CopyType, Upload, Reading, At, File

LEMMA EndInv ==
  ASSUME StageInv, DropHandleStage \/ DeadlinePasses PROVE StageInv'
<1>1. TypeOK /\ StageExact /\ BudgetExact /\ Reading BY DEF StageInv, ReservationsExact
<1>2. /\ UNCHANGED <<pending, waiters, uploaded, reserved, reader, copies, reads, faults>>
      /\ open' \in BOOLEAN /\ late' \in BOOLEAN /\ (open' => open)
  <2>1. CASE DropHandleStage BY <1>1, <2>1 DEF DropHandleStage, TypeOK
  <2>2. CASE DeadlinePasses BY <1>1, <2>2 DEF DeadlinePasses, TypeOK
  <2> QED BY <2>1, <2>2
<1>3. StageExact' BY <1>1, <1>2, WaitsKept
<1>4. BudgetExact' /\ CopyType' BY <1>1, <1>2, BudgetKept
<1> QED BY <1>1, <1>2, <1>3, <1>4
  DEF StageInv, ReservationsExact, TypeOK, CopyType, Reading, At, File

LEMMA SpendInv ==
  ASSUME StageInv, Spend PROVE StageInv'
<1>1. TypeOK /\ StageExact /\ BudgetExact /\ Reading BY DEF StageInv, ReservationsExact
<1>2. StageExact' BY <1>1, WaitsKept DEF Spend, stage
<1>3. Bytes(charged) \in Nat BY <1>1, BytesNat DEF TypeOK
<1>4. used' = spent' + Bytes(charged) /\ used' <= Limit /\ used' \in Nat /\ spent' \in Nat
  BY <1>1, <1>3, StageAssumption DEF Spend, BudgetExact, TypeOK
<1>5. BudgetExact' BY <1>4 DEF Spend, BudgetExact
<1> QED BY <1>1, <1>2, <1>4, <1>5
  DEF StageInv, ReservationsExact, TypeOK, Spend, stage, Reading, At, File

LEMMA StageInit == Init => StageInv
<1> SUFFICES ASSUME Init PROVE StageInv OBVIOUS
<1>1. NoCall \in Calls /\ NoCall.at = "idle" BY DEF NoCall, Call, Calls, Steps
<1>2. TypeOK BY <1>1 DEF Init, TypeOK
<1>3. Reading BY <1>1 DEF Init, Reading, At
<1>4. \A f \in Files : Waiting(f) = {} BY <1>1 DEF Init, Waiting, At
<1>5. Cardinality({}) = 0 BY FS_EmptySet
<1>6. StageExact BY <1>4, <1>5, BytesEmpty, StageAssumption DEF Init, StageExact
<1>7. BudgetExact BY BytesEmpty, StageAssumption DEF Init, BudgetExact
<1> QED BY <1>2, <1>3, <1>6, <1>7 DEF StageInv, ReservationsExact

LEMMA StageNext == StageInv /\ [Next]_vars => StageInv'
<1> SUFFICES ASSUME StageInv, [Next]_vars PROVE StageInv' OBVIOUS
<1>1. ASSUME NEW r \in Readers, Move(r) PROVE StageInv'
  BY <1>1, EnterInv, StepInv, AwaitHandleInv, WakeInv, AccountInv, CreateInv, WriteInv, LeaveInv
  DEF Move
<1>2. CASE UNCHANGED vars
  BY <1>2 DEF vars, stage, copies, StageInv, ReservationsExact, TypeOK, Reading, StageExact,
              BudgetExact, Waiting, At, File
<1> QED BY <1>1, <1>2, SignalInv, StartInv, UploadInv, EndInv, SpendInv DEF Next

(* Of the waits, the reservations and the budget: the types, the files of  *)
(* the calls under way and ReservationsExact are an inductive invariant.   *)
THEOREM StageInvariant == Spec => []StageInv
  BY StageInit, StageNext, PTL DEF Spec

(* AwaitHandle, the uploads and Budget.Reserve lose no byte and count none *)
(* twice, for any files, sizes, limits and reads that share a wait.        *)
THEOREM BytesReserved == Spec => []ReservationsExact
<1>1. StageInv => ReservationsExact BY DEF StageInv
<1> QED BY <1>1, StageInvariant, PTL

-----------------------------------------------------------------------------
(* The materializer.                                                       *)

(* A direct read never materializes; one that has accounted for its file   *)
(* finds it in the budget, and one that writes finds what it created.      *)
Standing ==
  \A r \in Readers :
    /\ r \in Direct => reader[r].at \in {"idle", "owner", "waiting", "holding"} /\ ~reader[r].known
    /\ At(r, "charged") => File(r) \in charged
    /\ At(r, "writing") => File(r) \in charged /\ disk[File(r)] = "partial"

FilesInv == FilesSound /\ Standing

(* A call keeps or loses its place in inflight, not what it knows.         *)
LEMMA MovedKnows ==
  ASSUME TypeOK, NEW r \in Readers, Stopped(r) \/ \E s \in Steps : Moved(r, s)
  PROVE  reader'[r].known => reader[r].known
<1>1. reader[r] \in Calls /\ NoCall.known = FALSE BY DEF TypeOK, NoCall, Call
<1>2. CASE Stopped(r) BY <1>1, <1>2 DEF Stopped, TypeOK
<1>3. ASSUME NEW s \in Steps, Moved(r, s) PROVE reader'[r].known => reader[r].known
  <2>1. reader' = [reader EXCEPT ![r] = [reader[r] EXCEPT !.at = s]] BY <1>3 DEF Moved, TypeOK
  <2>2. [reader[r] EXCEPT !.at = s].known = reader[r].known BY <1>1 DEF Calls
  <2> QED BY <2>1, <2>2 DEF TypeOK
<1> QED BY <1>2, <1>3

(* A step of one call that leaves the files and inflight alone.            *)
LEMMA CallFiles ==
  ASSUME TypeOK, FilesInv, NEW r \in Readers, Moves(r), reader'[r].known => reader[r].known,
         UNCHANGED <<inflight, ready, charged, disk>>,
         Materializing(r)' <=> Materializing(r),
         reader'[r].at \notin {"queued", "charged", "writing"},
         r \in Direct => reader'[r].at \in {"idle", "owner", "waiting", "holding"}
  PROVE  FilesInv'
<1>1. ASSUME NEW q \in Readers, q # r
      PROVE  reader'[q] = reader[q] /\ (Materializing(q)' <=> Materializing(q)) /\ File(q)' = File(q)
  BY <1>1 DEF Moves, Materializing, File
<1>2. Materializing(r)' => File(r)' = File(r) BY DEF Moves, Materializing, File
<1>3. ASSUME NEW q \in Readers, NEW f \in Files
      PROVE  inflight'[f] = q <=> Materializing(q)' /\ File(q)' = f
  <2>1. inflight[f] = q <=> Materializing(q) /\ File(q) = f BY DEF FilesInv, FilesSound
  <2>2. CASE q = r BY <1>2, <2>1, <2>2
  <2>3. CASE q # r BY <1>1, <2>1, <2>3
  <2> QED BY <2>2, <2>3
<1>4. ASSUME NEW q \in Readers, At(q, "queued")' PROVE inflight'[File(q)'] # NoReader
  <2>1. q # r BY <1>4 DEF At
  <2>2. At(q, "queued") BY <1>1, <1>4, <2>1 DEF At
  <2> QED BY <1>1, <2>1, <2>2 DEF FilesInv, FilesSound
<1>5. FilesSound' BY <1>3, <1>4 DEF FilesInv, FilesSound
<1>6. ASSUME NEW q \in Readers
      PROVE  /\ q \in Direct => /\ reader'[q].at \in {"idle", "owner", "waiting", "holding"}
                                /\ ~reader'[q].known
             /\ reader'[q].at = "charged" => File(q)' \in charged
             /\ reader'[q].at = "writing" => File(q)' \in charged /\ disk[File(q)'] = "partial"
  <2>1. CASE q = r BY <2>1 DEF FilesInv, Standing
  <2>2. CASE q # r BY <1>1, <2>2 DEF FilesInv, Standing, At
  <2> QED BY <2>1, <2>2
<1>7. Standing' BY <1>6 DEF Standing, At
<1> QED BY <1>5, <1>7 DEF FilesInv

LEMMA AwaitHandleFiles ==
  ASSUME TypeOK, FilesInv, NEW r \in Readers, AwaitHandle(r) \/ Wake(r) PROVE FilesInv'
<1>1. reader[r].at \in {"owner", "waiting"} /\ UNCHANGED copies
  BY DEF AwaitHandle, Wake, At
<1>2. Returned(r) \/ Moved(r, "waiting") \/ Moved(r, "holding")
  BY DEF AwaitHandle, Wait, Wake, Resume
<1>3. Moves(r) /\ (reader'[r].known => reader[r].known)
  BY <1>2, MovedMoves, MovedKnows, ReturnedMoves DEF Returned, Steps
<1>4. \/ r \in Direct /\ reader'[r].at \in {"idle", "waiting", "holding"}
      \/ r \notin Direct /\ reader'[r].at \in {"leaving", "waiting", "holding"}
  BY <1>2, MovedMoves, StoppedMoves DEF Returned, Steps
<1>5. Materializing(r)' <=> Materializing(r) BY <1>1, <1>4 DEF Materializing
<1> QED BY <1>1, <1>3, <1>4, <1>5, CallFiles DEF copies

LEMMA StepFiles ==
  ASSUME TypeOK, FilesInv, NEW r \in Readers, GiveUp(r) \/ ReadBack(r) \/ TakeBytes(r)
  PROVE  FilesInv'
<1>1. UNCHANGED copies BY DEF GiveUp, ReadBack, TakeBytes
<1>2. CASE (GiveUp(r) \/ TakeBytes(r)) /\ ~Materializing(r)
  <2>1. Stopped(r) BY <1>2 DEF GiveUp, TakeBytes
  <2>2. Moves(r) /\ reader'[r].at = "idle" /\ (reader'[r].known => reader[r].known)
    BY <2>1, StoppedMoves, MovedKnows
  <2>3. ~Materializing(r)' BY <2>2 DEF Materializing
  <2> QED BY <1>1, <1>2, <2>2, <2>3, CallFiles DEF copies
<1>3. CASE ReadBack(r)
  <2>1. r \notin Direct BY <1>3 DEF ReadBack, FilesInv, Standing
  <2>2. Moves(r) /\ reader'[r].at = "leaving" /\ (reader'[r].known => reader[r].known)
    BY <1>3, MovedMoves, MovedKnows DEF ReadBack, Steps
  <2>3. Materializing(r)' /\ Materializing(r)
    BY <1>3, <2>1, <2>2 DEF Materializing, ReadBack, At
  <2> QED BY <1>1, <2>1, <2>2, <2>3, CallFiles DEF copies
<1>4. GiveUp(r) \/ TakeBytes(r) => ~Materializing(r) BY DEF GiveUp, TakeBytes, Materializing, At
<1> QED BY <1>2, <1>3, <1>4

(* A read that comes through takes the place nobody has.                   *)
LEMMA EnterFiles ==
  ASSUME TypeOK, Reading, FilesInv, NEW r \in Readers, Enter(r) PROVE FilesInv'
<1>1. /\ reader[r].at = "entering" /\ File(r) \in Files /\ reader[r] \in Calls
      /\ UNCHANGED <<ready, charged, disk>>
  BY DEF Enter, At, Reading, TypeOK
<1>2. r \notin Direct /\ ~Materializing(r)
  BY <1>1 DEF FilesInv, Standing, Materializing
<1>3. CASE Stopped(r) /\ UNCHANGED inflight
  <2>1. Moves(r) /\ reader'[r].at = "idle" /\ (reader'[r].known => reader[r].known)
    BY <1>3, StoppedMoves, MovedKnows
  <2>2. ~Materializing(r)' BY <2>1 DEF Materializing
  <2> QED BY <1>1, <1>2, <1>3, <2>1, <2>2, CallFiles
<1>4. CASE inflight[File(r)] # NoReader /\ Moved(r, "queued") /\ UNCHANGED inflight
  <2>1. Moves(r) /\ reader'[r].at = "queued" BY <1>4, MovedMoves DEF Steps
  <2>2. ASSUME NEW q \in Readers, q # r
        PROVE  /\ reader'[q] = reader[q] /\ File(q)' = File(q)
               /\ Materializing(q)' <=> Materializing(q)
    BY <2>1, <2>2 DEF Moves, Materializing, File
  <2>3. ~Materializing(r)' /\ File(r)' = File(r) BY <2>1 DEF Materializing, Moves, File
  <2>4. FilesSound' BY <1>1, <1>2, <1>4, <2>2, <2>3 DEF FilesInv, FilesSound, At
  <2>5. Standing' BY <1>1, <1>2, <2>1, <2>2 DEF FilesInv, Standing, At
  <2> QED BY <2>4, <2>5 DEF FilesInv
<1>5. CASE /\ inflight[File(r)] = NoReader
           /\ inflight' = [inflight EXCEPT ![File(r)] = r]
           /\ reader' = [reader EXCEPT ![r].at = "owner", ![r].known = File(r) \in ready]
  <2> DEFINE k == File(r) \in ready
             c == [[reader[r] EXCEPT !.at = "owner"] EXCEPT !.known = k]
  <2>1. c.at = "owner" /\ c.file = File(r)
    <3> HIDE DEF k
    <3> QED BY <1>1 DEF Calls, File
  <2>2. reader' = [reader EXCEPT ![r] = c] BY <1>5 DEF TypeOK
  <2> HIDE DEF c
  <2>3. /\ reader'[r].at = "owner" /\ File(r)' = File(r)
        /\ \A q \in Readers \ {r} : reader'[q] = reader[q]
    BY <2>1, <2>2 DEF TypeOK, File
  <2>4. Materializing(r)' BY <1>2, <2>3 DEF Materializing
  <2>5. ASSUME NEW q \in Readers, q # r
        PROVE  /\ reader'[q] = reader[q] /\ File(q)' = File(q)
               /\ Materializing(q)' <=> Materializing(q)
    BY <2>3, <2>5 DEF Materializing, File
  <2>6. /\ inflight'[File(r)] = r /\ \A f \in Files \ {File(r)} : inflight'[f] = inflight[f]
    BY <1>1, <1>5 DEF TypeOK
  <2>7. ASSUME NEW q \in Readers, NEW f \in Files
        PROVE  inflight'[f] = q <=> Materializing(q)' /\ File(q)' = f
    <3>1. inflight[f] = q <=> Materializing(q) /\ File(q) = f BY DEF FilesInv, FilesSound
    <3>2. q # NoReader BY StageAssumption
    <3>3. CASE q = r BY <1>2, <2>3, <2>4, <2>6, <3>1, <3>3
    <3>4. CASE q # r BY <1>5, <2>5, <2>6, <3>1, <3>2, <3>4
    <3> QED BY <3>3, <3>4
  <2>8. ASSUME NEW q \in Readers, At(q, "queued")' PROVE inflight'[File(q)'] # NoReader
    <3>1. q # r /\ r # NoReader BY <2>3, <2>8, StageAssumption DEF At
    <3>2. At(q, "queued") /\ File(q)' = File(q) BY <2>5, <2>8, <3>1 DEF At
    <3>3. inflight[File(q)] # NoReader BY <3>2 DEF FilesInv, FilesSound
    <3>4. File(q) \in Files BY <3>2 DEF Reading, At
    <3> QED BY <2>6, <3>1, <3>2, <3>3, <3>4
  <2>9. FilesSound' BY <1>1, <2>7, <2>8 DEF FilesInv, FilesSound
  <2>10. Standing' BY <1>1, <1>2, <2>3, <2>5 DEF FilesInv, Standing, At
  <2> QED BY <2>9, <2>10 DEF FilesInv
<1> QED BY <1>3, <1>4, <1>5 DEF Enter

(* The one that materializes a file changes what belongs to that file.     *)
LEMMA MaterializerFiles ==
  ASSUME TypeOK, Reading, FilesInv, NEW r \in Readers, NEW f \in Files, File(r) = f,
         Materializing(r), Materializing(r)', Moves(r), inflight' = inflight,
         \A g \in Files \ {f} : /\ g \in ready' <=> g \in ready
                                /\ g \in charged' <=> g \in charged
                                /\ disk'[g] = disk[g],
         f \in ready' => disk'[f] = "whole",
         disk'[f] # "absent" => f \in charged',
         At(r, "charged")' => f \in charged',
         At(r, "writing")' => f \in charged' /\ disk'[f] = "partial"
  PROVE  FilesInv'
<1>1. File(r)' = f /\ r \notin Direct BY DEF Moves, Materializing, File
<1>2. ASSUME NEW q \in Readers, q # r
      PROVE  reader'[q] = reader[q] /\ (Materializing(q)' <=> Materializing(q)) /\ File(q)' = File(q)
  BY <1>2 DEF Moves, Materializing, File
<1>3. ASSUME NEW q \in Readers, NEW g \in Files
      PROVE  inflight'[g] = q <=> Materializing(q)' /\ File(q)' = g
  <2>1. inflight[g] = q <=> Materializing(q) /\ File(q) = g BY DEF FilesInv, FilesSound
  <2>2. CASE q = r BY <1>1, <2>1, <2>2
  <2>3. CASE q # r BY <1>2, <2>1, <2>3
  <2> QED BY <2>2, <2>3
<1>4. ASSUME NEW q \in Readers, At(q, "queued")' PROVE inflight'[File(q)'] # NoReader
  <2>1. q # r BY <1>4 DEF At, Materializing
  <2> QED BY <1>2, <1>4, <2>1 DEF FilesInv, FilesSound, At
<1>5. \A g \in Files : (g \in ready' => disk'[g] = "whole") /\ (disk'[g] # "absent" => g \in charged')
  BY DEF FilesInv, FilesSound
<1>6. FilesSound' BY <1>3, <1>4, <1>5 DEF FilesSound
<1>7. ASSUME NEW q \in Readers, q # r, reader[q].at \in {"charged", "writing"}
      PROVE  File(q) \in Files \ {f}
  <2>1. File(q) \in Files BY <1>7 DEF Reading, At
  <2>2. q \notin Direct BY <1>7 DEF FilesInv, Standing
  <2>3. Materializing(q) BY <1>7, <2>2 DEF Materializing
  <2>4. inflight[f] = r BY DEF FilesInv, FilesSound
  <2>5. inflight[File(q)] = q BY <2>1, <2>3 DEF FilesInv, FilesSound
  <2> QED BY <1>7, <2>1, <2>4, <2>5
<1>8. ASSUME NEW q \in Readers
      PROVE  /\ q \in Direct => /\ reader'[q].at \in {"idle", "owner", "waiting", "holding"}
                                /\ ~reader'[q].known
             /\ reader'[q].at = "charged" => File(q)' \in charged'
             /\ reader'[q].at = "writing" => File(q)' \in charged' /\ disk'[File(q)'] = "partial"
  <2>1. CASE q = r BY <1>1, <2>1 DEF At
  <2>2. CASE q # r
    <3>1. reader'[q] = reader[q] /\ File(q)' = File(q) BY <1>2, <2>2
    <3>2. CASE reader[q].at \in {"charged", "writing"}
      <4>1. File(q) \in Files \ {f} BY <1>7, <2>2, <3>2
      <4> QED BY <3>1, <3>2, <4>1 DEF FilesInv, Standing, At
    <3>3. CASE reader[q].at \notin {"charged", "writing"}
      BY <3>1, <3>3 DEF FilesInv, Standing
    <3> QED BY <3>2, <3>3
  <2> QED BY <2>1, <2>2
<1>9. Standing' BY <1>8 DEF Standing, At
<1> QED BY <1>6, <1>9 DEF FilesInv

LEMMA AccountFiles ==
  ASSUME TypeOK, Reading, FilesInv, NEW r \in Readers, Account(r) PROVE FilesInv'
<1>1. /\ r \notin Direct /\ reader[r].at = "holding" /\ Materializing(r) /\ File(r) \in Files
      /\ UNCHANGED <<inflight, ready, disk>>
  BY DEF Account, At, Materializing, Reading
<1>2. \/ Moved(r, "leaving") /\ charged' = charged
      \/ Moved(r, "charged") /\ charged' = charged \cup {File(r)}
  BY DEF Account, Charge
<1>3. Moves(r) /\ reader'[r].at \in {"leaving", "charged"}
      /\ (reader'[r].at = "charged" => File(r) \in charged')
  BY <1>2, MovedMoves DEF Steps
<1>4. Materializing(r)' BY <1>1, <1>3 DEF Materializing
<1>5. \A g \in Files : disk[g] # "absent" => g \in charged BY DEF FilesInv, FilesSound
<1>6. \A g \in Files : g \in ready => disk[g] = "whole" BY DEF FilesInv, FilesSound
<1>7. charged \subseteq charged' /\ (\A g \in Files \ {File(r)} : g \in charged' <=> g \in charged)
  BY <1>2
<1> QED BY <1>1, <1>3, <1>4, <1>5, <1>6, <1>7, MaterializerFiles DEF At

(* What is written was created by this read, and nobody else has the file. *)
LEMMA CreateFiles ==
  ASSUME TypeOK, Reading, FilesInv, NEW r \in Readers, Create(r) PROVE FilesInv'
<1>1. /\ reader[r].at = "charged" /\ File(r) \in charged /\ File(r) \in Files
      /\ UNCHANGED <<inflight, ready, charged>>
  BY DEF Create, At, Reading, FilesInv, Standing
<1>2. r \notin Direct /\ Materializing(r) BY <1>1 DEF FilesInv, Standing, Materializing
<1>3. /\ \A g \in Files : disk[g] # "absent" => g \in charged
      /\ \A g \in Files : g \in ready => disk[g] = "whole"
  BY DEF FilesInv, FilesSound
<1>4. CASE Moved(r, "leaving") /\ UNCHANGED disk
  <2>1. Moves(r) /\ reader'[r].at = "leaving" BY <1>4, MovedMoves DEF Steps
  <2>2. Materializing(r)' BY <1>2, <2>1 DEF Materializing
  <2> QED BY <1>1, <1>2, <1>3, <1>4, <2>1, <2>2, MaterializerFiles DEF At
<1>5. CASE /\ disk[File(r)] = "absent" /\ disk' = [disk EXCEPT ![File(r)] = "partial"]
           /\ Moved(r, "writing")
  <2>1. Moves(r) /\ reader'[r].at = "writing" BY <1>5, MovedMoves DEF Steps
  <2>2. Materializing(r)' BY <1>2, <2>1 DEF Materializing
  <2>3. disk'[File(r)] = "partial" /\ \A g \in Files \ {File(r)} : disk'[g] = disk[g]
    BY <1>1, <1>5 DEF TypeOK
  <2>4. File(r) \notin ready BY <1>1, <1>3, <1>5
  <2> QED BY <1>1, <1>2, <2>1, <2>2, <2>3, <2>4, MaterializerFiles DEF At
<1> QED BY <1>4, <1>5 DEF Create

LEMMA WriteFiles ==
  ASSUME TypeOK, Reading, FilesInv, NEW r \in Readers, Write(r) PROVE FilesInv'
<1>1. /\ reader[r].at = "writing" /\ File(r) \in charged /\ disk[File(r)] = "partial"
      /\ File(r) \in Files /\ UNCHANGED <<inflight, charged>>
  BY DEF Write, At, Reading, FilesInv, Standing
<1>2. r \notin Direct /\ Materializing(r) BY <1>1 DEF FilesInv, Standing, Materializing
<1>3. File(r) \notin ready BY <1>1 DEF FilesInv, FilesSound
<1>4. Moves(r) /\ reader'[r].at = "leaving" BY MovedMoves DEF Write, Steps
<1>5. Materializing(r)' BY <1>2, <1>4 DEF Materializing
<1>6. PICK left \in {"absent", "partial", "whole"} :
        /\ disk' = [disk EXCEPT ![File(r)] = left]
        /\ ready' = IF left = "whole" THEN ready \cup {File(r)} ELSE ready
  BY DEF Write
<1>7. disk'[File(r)] = left /\ \A g \in Files \ {File(r)} : disk'[g] = disk[g]
  BY <1>1, <1>6 DEF TypeOK
<1>8. /\ File(r) \in ready' => left = "whole"
      /\ \A g \in Files \ {File(r)} : g \in ready' <=> g \in ready
  BY <1>3, <1>6
<1> QED BY <1>1, <1>2, <1>4, <1>5, <1>7, <1>8, MaterializerFiles DEF At

(* The place is free again and everyone behind it is let in to look.       *)
LEMMA LeaveFiles ==
  ASSUME TypeOK, Reading, FilesInv, NEW r \in Readers, Leave(r) PROVE FilesInv'
<1> DEFINE f == File(r)
<1>1. /\ reader[r].at = "leaving" /\ f \in Files /\ UNCHANGED <<ready, charged, disk>>
  BY DEF Leave, At, Reading
<1>2. r \notin Direct /\ Materializing(r) BY <1>1 DEF FilesInv, Standing, Materializing
<1>3. inflight[f] = r BY <1>1, <1>2 DEF FilesInv, FilesSound
<1>4. inflight'[f] = NoReader /\ \A g \in Files \ {f} : inflight'[g] = inflight[g]
  BY <1>1 DEF Leave, Release, TypeOK
<1>5. reader'[r] = NoCall /\ reader'[r].at = "idle" /\ ~reader'[r].known
  BY DEF Leave, Release, NoCall, Call
<1>6. ASSUME NEW q \in Readers, q # r
      PROVE  /\ reader'[q].at = IF At(q, "queued") /\ File(q) = f THEN "entering" ELSE reader[q].at
             /\ File(q)' = File(q) /\ reader'[q].known = reader[q].known
  <2>1. reader[q] \in Calls BY DEF TypeOK
  <2>2. CASE At(q, "queued") /\ File(q) = f
    <3>1. reader'[q] = [reader[q] EXCEPT !.at = "entering"] BY <1>6, <2>2 DEF Leave, Release
    <3> QED BY <2>1, <2>2, <3>1 DEF Calls, File
  <2>3. CASE ~(At(q, "queued") /\ File(q) = f)
    <3>1. reader'[q] = reader[q] BY <1>6, <2>3 DEF Leave, Release
    <3> QED BY <2>3, <3>1 DEF File
  <2> QED BY <2>2, <2>3
<1> HIDE DEF f
<1>7. ~Materializing(r)' BY <1>5 DEF Materializing
<1>8. ASSUME NEW q \in Readers, q # r PROVE Materializing(q)' <=> Materializing(q)
  BY <1>6, <1>8 DEF Materializing, At
<1>9. ASSUME NEW q \in Readers, NEW g \in Files
      PROVE  inflight'[g] = q <=> Materializing(q)' /\ File(q)' = g
  <2>1. inflight[g] = q <=> Materializing(q) /\ File(q) = g BY DEF FilesInv, FilesSound
  <2>2. q # NoReader BY StageAssumption
  <2>3. inflight[g] = r <=> g = f BY <1>2, <1>3 DEF FilesInv, FilesSound, f
  <2>4. CASE q = r BY <1>4, <1>7, <2>2, <2>3, <2>4
  <2>5. CASE q # r BY <1>3, <1>4, <1>6, <1>8, <2>1, <2>2, <2>5
  <2> QED BY <2>4, <2>5
<1>10. ASSUME NEW q \in Readers, At(q, "queued")' PROVE inflight'[File(q)'] # NoReader
  <2>1. q # r BY <1>5, <1>10 DEF At
  <2>2. At(q, "queued") /\ File(q) # f /\ File(q)' = File(q) BY <1>6, <1>10, <2>1 DEF At
  <2>3. inflight[File(q)] # NoReader /\ File(q) \in Files
    BY <2>2 DEF FilesInv, FilesSound, Reading, At
  <2> QED BY <1>4, <2>2, <2>3
<1>11. FilesSound' BY <1>1, <1>9, <1>10 DEF FilesInv, FilesSound
<1>12. ASSUME NEW q \in Readers
       PROVE  /\ q \in Direct => /\ reader'[q].at \in {"idle", "owner", "waiting", "holding"}
                                 /\ ~reader'[q].known
              /\ reader'[q].at = "charged" => File(q)' \in charged
              /\ reader'[q].at = "writing" => File(q)' \in charged /\ disk[File(q)'] = "partial"
  <2>1. CASE q = r BY <1>5, <2>1
  <2>2. CASE q # r BY <1>6, <2>2 DEF FilesInv, Standing, At
  <2> QED BY <2>1, <2>2
<1>13. Standing' BY <1>1, <1>12 DEF Standing, At
<1> QED BY <1>11, <1>13 DEF FilesInv

LEMMA StartFiles ==
  ASSUME TypeOK, FilesInv, NEW r \in Readers, NEW f \in Files, Start(r, f) PROVE FilesInv'
<1>1. reader[r].at = "idle" /\ UNCHANGED copies BY DEF Start, At
<1>2. PICK s \in {"owner", "entering"} : /\ reader' = [reader EXCEPT ![r] = Call(s, f)]
                                         /\ s = "owner" <=> r \in Direct
  BY DEF Start
<1>3. Call(s, f).at = s /\ Call(s, f).known = FALSE BY DEF Call
<1>4. /\ reader'[r].at = s /\ ~reader'[r].known
      /\ \A q \in Readers \ {r} : reader'[q] = reader[q]
  BY <1>2, <1>3 DEF TypeOK
<1>5. ~Materializing(r) /\ ~Materializing(r)' BY <1>1, <1>2, <1>4 DEF Materializing
<1>6. ASSUME NEW q \in Readers, q # r
      PROVE  reader'[q] = reader[q] /\ (Materializing(q)' <=> Materializing(q)) /\ File(q)' = File(q)
  BY <1>4, <1>6 DEF Materializing, File
<1>7. ASSUME NEW q \in Readers, NEW g \in Files
      PROVE  inflight'[g] = q <=> Materializing(q)' /\ File(q)' = g
  <2>1. inflight'[g] = q <=> Materializing(q) /\ File(q) = g
    BY <1>1 DEF FilesInv, FilesSound, copies
  <2>2. CASE q = r BY <1>5, <2>1, <2>2
  <2>3. CASE q # r BY <1>6, <2>1, <2>3
  <2> QED BY <2>2, <2>3
<1>8. ASSUME NEW q \in Readers, At(q, "queued")' PROVE inflight'[File(q)'] # NoReader
  <2>1. q # r BY <1>4, <1>8 DEF At
  <2> QED BY <1>1, <1>6, <1>8, <2>1 DEF FilesInv, FilesSound, At, copies
<1>9. FilesSound' BY <1>1, <1>7, <1>8 DEF FilesInv, FilesSound, copies
<1>10. ASSUME NEW q \in Readers
       PROVE  /\ q \in Direct => /\ reader'[q].at \in {"idle", "owner", "waiting", "holding"}
                                 /\ ~reader'[q].known
              /\ reader'[q].at = "charged" => File(q)' \in charged
              /\ reader'[q].at = "writing" => File(q)' \in charged /\ disk[File(q)'] = "partial"
  <2>1. CASE q = r BY <1>2, <1>4, <2>1
  <2>2. CASE q # r BY <1>6, <2>2 DEF FilesInv, Standing, At
  <2> QED BY <2>1, <2>2
<1>11. Standing' BY <1>1, <1>10 DEF Standing, At, copies
<1> QED BY <1>9, <1>11 DEF FilesInv

(* A step that keeps the place of every call keeps the files sound.        *)
LEMMA PlacesFiles ==
  ASSUME FilesInv, UNCHANGED <<inflight, ready, charged, disk>>,
         \A q \in Readers : /\ reader'[q].at = reader[q].at /\ reader'[q].file = reader[q].file
                            /\ reader'[q].known = reader[q].known
  PROVE  FilesInv'
<1>1. \A q \in Readers : (Materializing(q)' <=> Materializing(q)) /\ File(q)' = File(q)
  BY DEF Materializing, File
<1>2. FilesSound' BY <1>1 DEF FilesInv, FilesSound, At
<1>3. Standing' BY <1>1 DEF FilesInv, Standing, At
<1> QED BY <1>2, <1>3 DEF FilesInv

LEMMA SignalFiles ==
  ASSUME TypeOK, FilesInv, NEW r \in Readers, ContextEnds(r) \/ TimerFires(r) PROVE FilesInv'
<1>1. reader[r] \in Calls BY DEF TypeOK
<1>2. \A q \in Readers : /\ reader'[q].at = reader[q].at /\ reader'[q].file = reader[q].file
                         /\ reader'[q].known = reader[q].known
  <2>1. CASE reader' = [reader EXCEPT ![r].ended = TRUE] BY <1>1, <2>1 DEF TypeOK, Calls
  <2>2. CASE reader' = [reader EXCEPT ![r].fired = TRUE] BY <1>1, <2>2 DEF TypeOK, Calls
  <2> QED BY <2>1, <2>2 DEF ContextEnds, TimerFires
<1> QED BY <1>2, PlacesFiles DEF ContextEnds, TimerFires, copies

LEMMA FilesInit == Init => FilesInv
<1> SUFFICES ASSUME Init PROVE FilesInv OBVIOUS
<1>1. NoCall.at = "idle" /\ NoCall.known = FALSE BY DEF NoCall, Call
<1>2. \A r \in Readers : reader[r] = NoCall BY DEF Init
<1>3. FilesSound BY <1>1, <1>2, StageAssumption DEF Init, FilesSound, Materializing, At
<1>4. Standing BY <1>1, <1>2 DEF Standing, At
<1> QED BY <1>3, <1>4 DEF FilesInv

LEMMA FilesNext == StageInv /\ FilesInv /\ [Next]_vars => FilesInv'
<1> SUFFICES ASSUME StageInv, FilesInv, [Next]_vars PROVE FilesInv' OBVIOUS
<1>1. TypeOK /\ Reading BY DEF StageInv
<1>2. ASSUME NEW r \in Readers, Move(r) PROVE FilesInv'
  BY <1>1, <1>2, EnterFiles, StepFiles, AwaitHandleFiles, AccountFiles, CreateFiles, WriteFiles,
     LeaveFiles
  DEF Move
<1>3. CASE \/ \E f \in Files : Upload(f)
           \/ DropHandleStage \/ DeadlinePasses \/ Spend \/ UNCHANGED vars
  <2>1. UNCHANGED <<reader, inflight, ready, charged, disk>>
    BY <1>3 DEF Upload, DropHandleStage, DeadlinePasses, Spend, vars, copies
  <2> QED BY <2>1, PlacesFiles
<1> QED BY <1>1, <1>2, <1>3, SignalFiles, StartFiles DEF Next

(* The materializer lets one read of a file at a time through, a failed    *)
(* write leaves nothing that counts as complete, and no byte of a file is  *)
(* in the workspace that the budget does not hold, for any number of reads *)
(* and failures: inflight and the places of the calls are an inductive     *)
(* invariant together.                                                     *)
THEOREM FilesWhole == Spec => []FilesSound
<1>1. FilesInv => FilesSound BY DEF FilesInv
<1> QED BY <1>1, FilesInit, FilesNext, StageInvariant, PTL DEF Spec
=============================================================================
