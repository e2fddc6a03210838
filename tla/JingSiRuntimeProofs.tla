------------------------- MODULE JingSiRuntimeProofs -------------------------
(***************************************************************************)
(* The JingSi runtime keeps its promises for every set of request keys,    *)
(* every capacity and every number of failed saves and ended processes.    *)
(*                                                                         *)
(* KeyOK relates, for one key, the record file, the record in memory, the  *)
(* goroutine and what callers were told; a step of one key touches nothing *)
(* of another (OtherKeys), so each action is looked at for its key alone.  *)
(***************************************************************************)
EXTENDS JingSiRuntime, FiniteSetTheorems, TLAPS

(* A record has a state, and a cancellation mark, only when it is bound.   *)
Sound(r) == (r.kind = "bound" <=> r.state # "none") /\ (r.cancel => r.kind = "bound")

Working == {"running", "agent", "returned"}

(* What is said of a cancelled execution.                                  *)
CancelStands(r) == r.state \in Terminal => r.state = "canceled"

KeyOK(k) ==
  /\ Sound(disk[k]) /\ Sound(mem[k])
  \* memory knows no record that the disk does not have
  /\ mem[k].kind # "none" => disk[k].kind = mem[k].kind
  \* a goroutine works for a live record, and on a saved one
  /\ worker[k] # "none" => mem[k].state \in {"queued", "running"}
  /\ worker[k] \in Working => disk[k].state = "running" /\ mem[k].state = "running"
  /\ phase = "down" => mem[k] = NoRecord /\ worker[k] = "none"
  \* what was told is on disk, and in the memory of a process that serves
  /\ "not_started" \in told[k] => disk[k].kind = "fence" /\ (phase = "down" \/ mem[k].kind = "fence")
  /\ "cancel_requested" \in told[k] =>
       /\ disk[k].cancel /\ (phase = "down" \/ mem[k].cancel)
       /\ CancelStands(disk[k]) /\ CancelStands(mem[k])

RuntimeInv == TypeOK /\ Accounting /\ \A k \in Keys : KeyOK(k)

-----------------------------------------------------------------------------
(* Steps of one key.                                                       *)

Elsewhere(k) ==
  \A j \in Keys \ {k} : /\ disk'[j] = disk[j] /\ mem'[j] = mem[j]
                        /\ worker'[j] = worker[j] /\ told'[j] = told[j]

LEMMA OtherKeys ==
  ASSUME \A j \in Keys : KeyOK(j), NEW k \in Keys, Elsewhere(k), KeyOK(k)',
         phase' = "down" <=> phase = "down"
  PROVE  \A j \in Keys : KeyOK(j)'
<1> SUFFICES ASSUME NEW j \in Keys \ {k} PROVE KeyOK(j)' OBVIOUS
<1>1. KeyOK(j) OBVIOUS
<1>2. /\ disk'[j] = disk[j] /\ mem'[j] = mem[j]
      /\ worker'[j] = worker[j] /\ told'[j] = told[j]
  BY DEF Elsewhere
<1> QED BY <1>1, <1>2 DEF KeyOK, Sound, CancelStands, NoRecord

(* A save, done or failed, leaves the file old or new.                     *)
LEMMA SaveIs ==
  ASSUME TypeOK, NEW k \in Keys, NEW r \in Record, Saved(k, r) \/ SaveFailed(k, r)
  PROVE  /\ disk' \in [Keys -> Record] /\ faults' \in 0..MaxFaults
         /\ disk'[k] \in {disk[k], r}
         /\ Saved(k, r) => disk'[k] = r
         /\ \A j \in Keys \ {k} : disk'[j] = disk[j]
  BY RuntimeAssumption DEF TypeOK, Saved, SaveFailed

LEMMA RecordTypes ==
  /\ NoRecord \in Record /\ Bound \in Record /\ Fence \in Record
  /\ NoRecord.kind = "none" /\ NoRecord.state = "none" /\ ~NoRecord.cancel
  /\ Bound.kind = "bound" /\ Bound.state = "queued" /\ ~Bound.cancel
  /\ Fence.kind = "fence" /\ Fence.state = "none" /\ ~Fence.cancel
  BY DEF NoRecord, Bound, Fence, Record, Active, Terminal

LEMMA EndedType ==
  ASSUME NEW r \in Record, NEW state \in Active \cup Terminal
  PROVE  /\ Ended(r, state) \in Record /\ Ended(r, state).state = state
         /\ Ended(r, state).kind = r.kind /\ Ended(r, state).cancel = r.cancel
  BY DEF Ended, Record

(* Counting the goroutines: one of them moved.                             *)
Moved(n, was, is) == IF is /\ ~was THEN n + 1 ELSE IF was /\ ~is THEN n - 1 ELSE n

LEMMA CountMoves ==
  ASSUME NEW S \in SUBSET Keys, NEW T \in SUBSET Keys, NEW k \in Keys,
         \A j \in Keys \ {k} : j \in T <=> j \in S
  PROVE  Cardinality(T) = Moved(Cardinality(S), k \in S, k \in T) /\ Cardinality(T) \in Nat
<1>1. IsFiniteSet(S) /\ IsFiniteSet(T) BY RuntimeAssumption, FS_Subset
<1>2. Cardinality(S) \in Nat /\ Cardinality(T) \in Nat BY <1>1, FS_CardinalityType
<1>3. CASE k \in S <=> k \in T
  <2>1. T = S BY <1>3
  <2> QED BY <1>2, <1>3, <2>1 DEF Moved
<1>4. CASE k \in T /\ k \notin S
  <2>1. T = S \cup {k} BY <1>4
  <2>2. Cardinality(T) = Cardinality(S) + 1 BY <1>1, <1>4, <2>1, FS_AddElement
  <2> QED BY <1>2, <1>4, <2>2 DEF Moved
<1>5. CASE k \in S /\ k \notin T
  <2>1. T = S \ {k} BY <1>5
  <2>2. Cardinality(T) = Cardinality(S) - 1 BY <1>1, <1>5, <2>1, FS_RemoveElement
  <2> QED BY <1>2, <1>5, <2>2 DEF Moved
<1> QED BY <1>3, <1>4, <1>5

(* The counters follow when they count the move.                           *)
LEMMA CountersFollow ==
  ASSUME TypeOK, Accounting, NEW k \in Keys, Elsewhere(k),
         queued' = Moved(queued, worker[k] = "parked", worker'[k] = "parked"),
         slots' = Moved(slots, worker[k] \in Working, worker'[k] \in Working)
  PROVE  Accounting' /\ queued' \in Nat /\ slots' \in Nat
<1> DEFINE P == {j \in Keys : worker[j] = "parked"}
           W == {j \in Keys : worker[j] \in Working}
<1>1. Cardinality(P') = Moved(Cardinality(P), k \in P, k \in P') /\ Cardinality(P') \in Nat
  <2>1. \A j \in Keys \ {k} : j \in P' <=> j \in P BY DEF Elsewhere
  <2> HIDE DEF P
  <2> QED BY <2>1, CountMoves DEF P
<1>2. Cardinality(W') = Moved(Cardinality(W), k \in W, k \in W') /\ Cardinality(W') \in Nat
  <2>1. \A j \in Keys \ {k} : j \in W' <=> j \in W BY DEF Elsewhere
  <2> HIDE DEF W
  <2> QED BY <2>1, CountMoves DEF W
<1>3. (k \in P <=> worker[k] = "parked") /\ (k \in P' <=> worker'[k] = "parked")
      /\ (k \in W <=> worker[k] \in Working) /\ (k \in W' <=> worker'[k] \in Working)
  OBVIOUS
<1>4. queued = Cardinality(P) /\ slots = Cardinality(W) BY DEF Accounting, Working
<1>5. (Accounting <=> queued = Cardinality(P) /\ slots = Cardinality(W))'
  BY DEF Accounting, Working
<1> HIDE DEF P, W
<1> QED BY <1>1, <1>2, <1>3, <1>4, <1>5 DEF Moved

(* A step of one key that moves no goroutine.                              *)
LEMMA RecordStep ==
  ASSUME RuntimeInv, NEW k \in Keys, TypeOK', Elsewhere(k), KeyOK(k)',
         UNCHANGED <<worker, queued, slots>>, phase' = "down" <=> phase = "down"
  PROVE  RuntimeInv'
<1>1. Accounting' BY DEF RuntimeInv, Accounting
<1> QED BY <1>1, OtherKeys DEF RuntimeInv

(* A step that neither a record, a goroutine nor a caller notices.         *)
LEMMA QuietStep ==
  ASSUME RuntimeInv, TypeOK', UNCHANGED <<disk, mem, worker, queued, slots, told>>,
         phase' = "down" <=> phase = "down"
  PROVE  RuntimeInv'
<1>1. Accounting' BY DEF RuntimeInv, Accounting
<1>2. \A k \in Keys : KeyOK(k)' BY DEF RuntimeInv, KeyOK, Sound, CancelStands, NoRecord
<1> QED BY <1>1, <1>2 DEF RuntimeInv

(* What is known of a key whose process lives.                             *)
LEMMA KeyFacts ==
  ASSUME RuntimeInv, NEW k \in Keys, phase # "down"
  PROVE  /\ mem[k] \in Record /\ disk[k] \in Record
         /\ Sound(mem[k]) /\ Sound(disk[k])
         /\ mem[k].kind # "none" => disk[k].kind = mem[k].kind
         /\ worker[k] # "none" => mem[k].kind = "bound" /\ mem[k].state \in {"queued", "running"}
         /\ worker[k] \in Working => disk[k].state = "running" /\ mem[k].state = "running"
         /\ "not_started" \in told[k] => mem[k].kind = "fence"
         /\ "cancel_requested" \in told[k] => mem[k].cancel
<1>1. KeyOK(k) /\ TypeOK BY DEF RuntimeInv
<1> QED BY <1>1 DEF KeyOK, TypeOK, Sound

-----------------------------------------------------------------------------
(* The caller's requests and retention.                                    *)

LEMMA TellInv ==
  ASSUME RuntimeInv, NEW k \in Keys, SubmitReplay(k) \/ LookupKnown(k) PROVE RuntimeInv'
<1>1. /\ UNCHANGED <<disk, process, run, phase, faults, crashes>> /\ phase # "down"
      /\ mem[k].kind # "none"
      /\ \E what \in {"accepted", "not_started"} :
           Tell(k, what) /\ (what = "not_started" => mem[k].kind # "bound")
  BY DEF SubmitReplay, LookupKnown, Serving
<1>2. PICK what \in {"accepted", "not_started"} :
        Tell(k, what) /\ (what = "not_started" => mem[k].kind # "bound")
  BY <1>1
<1>3. told' \in [Keys -> SUBSET {"accepted", "not_started", "cancel_requested"}]
      /\ told'[k] = told[k] \cup {what} /\ \A j \in Keys \ {k} : told'[j] = told[j]
  BY <1>2 DEF RuntimeInv, TypeOK, Tell
<1>4. TypeOK' BY <1>1, <1>3 DEF RuntimeInv, TypeOK, process
<1>5. Elsewhere(k) BY <1>1, <1>3 DEF Elsewhere, process
<1>6. KeyOK(k)'
  <2>1. mem[k].kind \in {"none", "bound", "fence"} BY KeyFacts, <1>1 DEF Record
  <2>2. what = "not_started" => mem[k].kind = "fence" /\ disk[k].kind = "fence"
    BY <1>1, <1>2, <2>1, KeyFacts
  <2>3. KeyOK(k) BY DEF RuntimeInv
  <2> QED BY <1>1, <1>2, <1>3, <2>2, <2>3 DEF KeyOK, Sound, CancelStands, NoRecord, process
<1> QED BY <1>1, <1>4, <1>5, <1>6, RecordStep DEF process

LEMMA SubmitInv ==
  ASSUME RuntimeInv, NEW k \in Keys, Submit(k) PROVE RuntimeInv'
<1>1. /\ phase # "down" /\ phase' = phase /\ mem[k].kind = "none"
      /\ UNCHANGED <<ctx, signal, slots, run, interrupted, phase, crashes>>
  BY DEF Submit, Serving
<1>2. TypeOK /\ Accounting /\ KeyOK(k) BY DEF RuntimeInv
<1>3. worker[k] = "none" /\ "not_started" \notin told[k] /\ "cancel_requested" \notin told[k]
  BY <1>1, KeyFacts DEF Sound
<1>4. CASE Admit(k)
  <2>1. disk' \in [Keys -> Record] /\ faults' \in 0..MaxFaults
        /\ disk'[k] = Bound /\ \A j \in Keys \ {k} : disk'[j] = disk[j]
    BY <1>2, <1>4, SaveIs, RecordTypes DEF Admit
  <2>2. /\ mem' \in [Keys -> Record] /\ mem'[k] = Bound
        /\ \A j \in Keys \ {k} : mem'[j] = mem[j]
        /\ worker'[k] = "parked" /\ \A j \in Keys \ {k} : worker'[j] = worker[j]
        /\ told'[k] = told[k] \cup {"accepted"} /\ \A j \in Keys \ {k} : told'[j] = told[j]
        /\ queued' = queued + 1
    BY <1>2, <1>4, RecordTypes DEF Admit, Holds, Step, Tell, TypeOK
  <2>3. Elsewhere(k) BY <2>1, <2>2 DEF Elsewhere
  <2>4. Accounting' /\ queued' \in Nat
    BY <1>1, <1>2, <1>3, <2>2, <2>3, CountersFollow DEF Moved, Working
  <2>5. TypeOK' BY <1>1, <1>2, <1>4, <2>1, <2>2, <2>4 DEF TypeOK, Admit, Step, Tell
  <2>6. KeyOK(k)'
    BY <1>1, <1>3, <2>1, <2>2, RecordTypes DEF KeyOK, Sound, Working
  <2> QED BY <1>1, <2>3, <2>4, <2>5, <2>6, OtherKeys DEF RuntimeInv
<1>5. CASE AdmitFailed(k)
  <2>1. disk' \in [Keys -> Record] /\ faults' \in 0..MaxFaults
        /\ disk'[k] \in {disk[k], Bound} /\ \A j \in Keys \ {k} : disk'[j] = disk[j]
    BY <1>2, <1>5, SaveIs, RecordTypes DEF AdmitFailed
  <2>2. UNCHANGED <<mem, worker, queued, told>> BY <1>5 DEF AdmitFailed
  <2>3. TypeOK' BY <1>1, <1>2, <2>1, <2>2 DEF TypeOK
  <2>4. KeyOK(k)'
    BY <1>1, <1>2, <1>3, <2>1, <2>2, RecordTypes DEF KeyOK, Sound, Working
  <2>5. Elsewhere(k) BY <2>1, <2>2 DEF Elsewhere
  <2> QED BY <1>1, <2>2, <2>3, <2>4, <2>5, RecordStep
<1> QED BY <1>4, <1>5 DEF Submit

LEMMA LookupAbsentInv ==
  ASSUME RuntimeInv, NEW k \in Keys, LookupAbsent(k) PROVE RuntimeInv'
<1>1. /\ phase # "down" /\ mem[k].kind = "none"
      /\ UNCHANGED <<worker, ctx, signal, queued, slots, run, interrupted, phase, crashes>>
  BY DEF LookupAbsent, Serving
<1>2. TypeOK /\ KeyOK(k) BY DEF RuntimeInv
<1>3. worker[k] = "none" /\ "not_started" \notin told[k] /\ "cancel_requested" \notin told[k]
  BY <1>1, KeyFacts DEF Sound
<1>4. Saved(k, Fence) \/ SaveFailed(k, Fence) BY DEF LookupAbsent, CommitFence
<1>5. /\ disk' \in [Keys -> Record] /\ faults' \in 0..MaxFaults
      /\ disk'[k] \in {disk[k], Fence} /\ (Saved(k, Fence) => disk'[k] = Fence)
      /\ \A j \in Keys \ {k} : disk'[j] = disk[j]
  BY <1>2, <1>4, SaveIs, RecordTypes
<1>6. \/ /\ disk'[k] = Fence /\ mem' = [mem EXCEPT ![k] = Fence]
         /\ told' = [told EXCEPT ![k] = @ \cup {"not_started"}]
      \/ UNCHANGED <<mem, told>>
  BY <1>5 DEF LookupAbsent, CommitFence, Holds, Tell
<1>7. TypeOK' BY <1>1, <1>2, <1>5, <1>6, RecordTypes DEF TypeOK
<1>8. Elsewhere(k) BY <1>1, <1>2, <1>5, <1>6 DEF Elsewhere, TypeOK
<1>9. KeyOK(k)'
  <2>1. CASE /\ disk'[k] = Fence /\ mem'[k] = Fence
             /\ told'[k] = told[k] \cup {"not_started"}
    BY <1>1, <1>3, <2>1, RecordTypes DEF KeyOK, Sound, Working
  <2>2. CASE UNCHANGED <<mem, told>>
    BY <1>1, <1>2, <1>3, <1>5, <2>2, RecordTypes DEF KeyOK, Sound, Working
  <2> QED BY <1>2, <1>6, <2>1, <2>2 DEF TypeOK
<1> QED BY <1>1, <1>7, <1>8, <1>9, RecordStep

(* A cancellation marks the record in memory and, when the save is done or *)
(* stopped late, on disk.                                                  *)
LEMMA CancelWaitingInv ==
  ASSUME RuntimeInv, NEW k \in Keys, CancelWaiting(k) PROVE RuntimeInv'
<1> DEFINE r == Ended([mem[k] EXCEPT !.cancel = TRUE], "canceled")
<1>1. /\ phase # "down" /\ mem[k].state = "approval_required"
      /\ Holds(k, r) /\ (Saved(k, r) \/ SaveFailed(k, r))
      /\ UNCHANGED <<worker, ctx, signal, queued, slots, run, interrupted, phase, told, crashes>>
  BY DEF CancelWaiting, Serving
<1>2. TypeOK /\ KeyOK(k) /\ mem[k] \in Record BY DEF RuntimeInv, TypeOK
<1>3. /\ [mem[k] EXCEPT !.cancel = TRUE] \in Record
      /\ [mem[k] EXCEPT !.cancel = TRUE].kind = mem[k].kind
      /\ [mem[k] EXCEPT !.cancel = TRUE].cancel
  BY <1>2 DEF Record
<1>4. r \in Record /\ r.state = "canceled" /\ r.kind = mem[k].kind /\ r.cancel
  BY <1>3, EndedType DEF Terminal
<1> HIDE DEF r
<1>5. mem[k].kind = "bound" /\ worker[k] = "none" /\ disk[k].kind = "bound"
  BY <1>1, KeyFacts DEF Sound
<1>6. /\ disk' \in [Keys -> Record] /\ faults' \in 0..MaxFaults /\ disk'[k] \in {disk[k], r}
      /\ \A j \in Keys \ {k} : disk'[j] = disk[j]
  BY <1>1, <1>2, <1>4, SaveIs
<1>7. mem' \in [Keys -> Record] /\ mem'[k] = r /\ \A j \in Keys \ {k} : mem'[j] = mem[j]
  BY <1>1, <1>2, <1>4 DEF Holds, TypeOK
<1>8. TypeOK' BY <1>1, <1>2, <1>6, <1>7 DEF TypeOK
<1>9. Elsewhere(k) BY <1>1, <1>6, <1>7 DEF Elsewhere
<1>10. KeyOK(k)'
  BY <1>1, <1>2, <1>4, <1>5, <1>6, <1>7 DEF KeyOK, Sound, CancelStands, Working
<1> QED BY <1>1, <1>8, <1>9, <1>10, RecordStep

LEMMA CancelActiveInv ==
  ASSUME RuntimeInv, NEW k \in Keys, CancelActive(k) PROVE RuntimeInv'
<1> DEFINE r == [mem[k] EXCEPT !.cancel = TRUE]
<1>1. /\ phase # "down" /\ mem[k].state \in {"queued", "running"}
      /\ Holds(k, r)
      /\ \/ Saved(k, r) /\ Tell(k, "cancel_requested") /\ signal' = [signal EXCEPT ![k] = TRUE]
         \/ SaveFailed(k, r) /\ UNCHANGED <<told, signal>>
      /\ UNCHANGED <<worker, ctx, queued, slots, run, interrupted, phase, crashes>>
  BY DEF CancelActive, Serving
<1>2. TypeOK /\ KeyOK(k) /\ mem[k] \in Record BY DEF RuntimeInv, TypeOK
<1>3. r \in Record /\ r.kind = mem[k].kind /\ r.state = mem[k].state /\ r.cancel
  BY <1>2 DEF Record
<1> HIDE DEF r
<1>4. mem[k].kind = "bound" /\ disk[k].kind = "bound" BY <1>1, KeyFacts DEF Sound
<1>5. /\ disk' \in [Keys -> Record] /\ faults' \in 0..MaxFaults /\ disk'[k] \in {disk[k], r}
      /\ (Saved(k, r) => disk'[k] = r) /\ \A j \in Keys \ {k} : disk'[j] = disk[j]
  BY <1>1, <1>2, <1>3, SaveIs
<1>6. mem' \in [Keys -> Record] /\ mem'[k] = r /\ \A j \in Keys \ {k} : mem'[j] = mem[j]
  BY <1>1, <1>2, <1>3 DEF Holds, TypeOK
<1>7. signal' \in [Keys -> BOOLEAN] BY <1>1, <1>2 DEF TypeOK
<1>8. /\ told' \in [Keys -> SUBSET {"accepted", "not_started", "cancel_requested"}]
      /\ \/ disk'[k] = r /\ told'[k] = told[k] \cup {"cancel_requested"}
         \/ told'[k] = told[k]
      /\ \A j \in Keys \ {k} : told'[j] = told[j]
  BY <1>1, <1>2, <1>5 DEF TypeOK, Tell
<1>9. TypeOK' BY <1>1, <1>2, <1>5, <1>6, <1>7, <1>8 DEF TypeOK
<1>10. Elsewhere(k) BY <1>1, <1>5, <1>6, <1>8 DEF Elsewhere
<1>11. KeyOK(k)'
  BY <1>1, <1>2, <1>3, <1>4, <1>5, <1>6, <1>8 DEF KeyOK, Sound, CancelStands, Working, Terminal
<1> QED BY <1>1, <1>9, <1>10, <1>11, RecordStep

LEMMA SweepInv ==
  ASSUME RuntimeInv, NEW k \in Keys, Sweep(k) PROVE RuntimeInv'
<1>1. /\ phase # "down" /\ Expired(mem[k]) /\ disk' = [disk EXCEPT ![k] = NoRecord]
      /\ mem' = [mem EXCEPT ![k] = NoRecord] /\ told' = [told EXCEPT ![k] = {}]
      /\ UNCHANGED <<worker, ctx, signal, queued, slots, run, interrupted, phase, faults, crashes>>
  BY DEF Sweep, Serving, Holds
<1>2. worker[k] = "none" BY <1>1, KeyFacts DEF Expired, Terminal
<1>3. TypeOK BY DEF RuntimeInv
<1>4. TypeOK' BY <1>1, <1>3, RecordTypes DEF TypeOK
<1>5. Elsewhere(k) BY <1>1, <1>3 DEF Elsewhere, TypeOK
<1>6. disk'[k] = NoRecord /\ mem'[k] = NoRecord /\ told'[k] = {} /\ worker'[k] = "none"
  BY <1>1, <1>2, <1>3 DEF TypeOK
<1>7. KeyOK(k)' BY <1>6, RecordTypes DEF KeyOK, Sound, Working
<1> QED BY <1>1, <1>4, <1>5, <1>7, RecordStep

LEMMA QuietInv ==
  ASSUME RuntimeInv, NEW k \in Keys, Signal(k) \/ AgentBegin(k) \/ Deadline(k) PROVE RuntimeInv'
<1>1. TypeOK BY DEF RuntimeInv
<1>2. CASE Signal(k)
  <2>1. TypeOK' BY <1>1, <1>2 DEF TypeOK, Signal
  <2> QED BY <1>2, <2>1, QuietStep DEF Signal
<1>3. CASE AgentBegin(k)
  <2>1. TypeOK' BY <1>1, <1>3 DEF TypeOK, AgentBegin, process
  <2> QED BY <1>3, <2>1, QuietStep DEF AgentBegin, process
<1>4. CASE Deadline(k)
  <2>1. TypeOK' BY <1>1, <1>4 DEF TypeOK, Deadline
  <2> QED BY <1>4, <2>1, QuietStep DEF Deadline
<1> QED BY <1>2, <1>3, <1>4

-----------------------------------------------------------------------------
(* The worker of an execution.                                             *)

(* A goroutine that saves `state` and moves on to `to`.                    *)
LEMMA WorkerSaves ==
  ASSUME RuntimeInv, NEW k \in Keys, NEW to \in {"none", "running"}, NEW state \in Active \cup Terminal,
         phase # "down", UNCHANGED <<phase, told>>, worker[k] # "none",
         mem' = [mem EXCEPT ![k] = Ended(mem[k], state)],
         worker' = [worker EXCEPT ![k] = to],
         disk' \in [Keys -> Record],
         \A j \in Keys \ {k} : disk'[j] = disk[j],
         disk'[k] \in {disk[k], Ended(mem[k], "running"), Ended(mem[k], state)},
         to = "running" => state = "running" /\ disk'[k] = Ended(mem[k], state),
         mem[k].cancel => disk'[k] \in {disk[k], Ended(mem[k], state)} /\ state = "canceled"
  PROVE  Elsewhere(k) /\ KeyOK(k)' /\ mem' \in [Keys -> Record]
<1>1. TypeOK /\ KeyOK(k) BY DEF RuntimeInv
<1>2. mem[k] \in Record BY <1>1 DEF TypeOK
<1>3. mem[k].kind = "bound" /\ disk[k].kind = "bound" BY KeyFacts
<1>4. /\ Ended(mem[k], state) \in Record /\ Ended(mem[k], state).state = state
      /\ Ended(mem[k], state).kind = "bound" /\ Ended(mem[k], state).cancel = mem[k].cancel
      /\ Ended(mem[k], "running") \in Record /\ Ended(mem[k], "running").state = "running"
      /\ Ended(mem[k], "running").kind = "bound"
      /\ Ended(mem[k], "running").cancel = mem[k].cancel
  BY <1>2, <1>3, EndedType DEF Active
<1>5. /\ mem' \in [Keys -> Record] /\ mem'[k] = Ended(mem[k], state) /\ worker'[k] = to
      /\ \A j \in Keys \ {k} : mem'[j] = mem[j] /\ worker'[j] = worker[j]
  BY <1>1, <1>4 DEF TypeOK
<1>6. Elsewhere(k) BY <1>5 DEF Elsewhere
<1>7. state # "none" BY DEF Active, Terminal
<1>8. KeyOK(k)'
  BY <1>1, <1>3, <1>4, <1>5, <1>7 DEF KeyOK, Sound, CancelStands, Working, Terminal
<1> QED BY <1>5, <1>6, <1>8

LEMMA TakeInv ==
  ASSUME RuntimeInv, NEW k \in Keys, Take(k) PROVE RuntimeInv'
<1>1. /\ worker[k] = "parked" /\ slots < MaxConcurrent /\ queued' = queued - 1
      /\ UNCHANGED <<signal, run, interrupted, phase, told, crashes>>
  BY DEF Take
<1>2. TypeOK /\ Accounting /\ KeyOK(k) BY DEF RuntimeInv
<1>3. phase # "down" /\ mem[k] \in Record BY <1>1, <1>2 DEF KeyOK, TypeOK
<1>4. ASSUME Canceled(k) \/ FailToRun(k), ~Canceled(k) => ~mem[k].cancel PROVE RuntimeInv'
  <2>1. PICK state \in {"canceled", "failed"} :
          /\ mem' = [mem EXCEPT ![k] = Ended(mem[k], state)]
          /\ disk' \in [Keys -> Record] /\ faults' \in 0..MaxFaults
          /\ \A j \in Keys \ {k} : disk'[j] = disk[j]
          /\ disk'[k] \in {disk[k], Ended(mem[k], "running"), Ended(mem[k], state)}
          /\ mem[k].cancel => disk'[k] \in {disk[k], Ended(mem[k], state)} /\ state = "canceled"
    <3>1. CASE Canceled(k)
      <4>1. Ended(mem[k], "canceled") \in Record BY <1>3, EndedType DEF Terminal
      <4>2. /\ mem' = [mem EXCEPT ![k] = Ended(mem[k], "canceled")]
            /\ Saved(k, Ended(mem[k], "canceled")) \/ SaveFailed(k, Ended(mem[k], "canceled"))
        BY <3>1 DEF Canceled, Finish, Holds
      <4> QED BY <1>2, <4>1, <4>2, SaveIs
    <3>2. CASE FailToRun(k) /\ ~mem[k].cancel
      <4>1. Ended(mem[k], "failed") \in Record /\ Ended(mem[k], "running") \in Record
        BY <1>3, EndedType DEF Terminal, Active
      <4>2. mem' = [mem EXCEPT ![k] = Ended(mem[k], "failed")] BY <3>2 DEF FailToRun, Holds
      <4>3. PICK d \in {disk[k], Ended(mem[k], "running"), Ended(mem[k], "failed")} :
              disk' = [disk EXCEPT ![k] = d]
        BY <3>2 DEF FailToRun
      <4>4. faults' \in 0..MaxFaults BY <1>2, <3>2, RuntimeAssumption DEF FailToRun, TypeOK
      <4> QED BY <1>2, <3>2, <4>1, <4>2, <4>3, <4>4 DEF TypeOK
    <3> QED BY <1>4, <3>1, <3>2
  <2>2. worker' = [worker EXCEPT ![k] = "none"] /\ UNCHANGED <<slots, ctx>>
    BY <1>4 DEF Canceled, FailToRun, Step
  <2>3. Elsewhere(k) /\ KeyOK(k)' /\ mem' \in [Keys -> Record]
    BY <1>1, <1>3, <2>1, <2>2, WorkerSaves DEF Terminal
  <2>4. worker'[k] = "none" BY <1>2, <2>2 DEF TypeOK
  <2>5. Accounting' /\ queued' \in Nat
    BY <1>1, <1>2, <2>2, <2>3, <2>4, CountersFollow DEF Moved, Working
  <2>6. TypeOK' BY <1>1, <1>2, <2>1, <2>2, <2>3, <2>5 DEF TypeOK
  <2> QED BY <1>1, <2>3, <2>5, <2>6, OtherKeys DEF RuntimeInv
<1>5. CASE /\ ~mem[k].cancel
           /\ Holds(k, Ended(mem[k], "running"))
           /\ Saved(k, Ended(mem[k], "running"))
           /\ Step(k, "parked", "running")
           /\ slots' = slots + 1
           /\ ctx' = [ctx EXCEPT ![k] = IF phase = "up" THEN "live" ELSE "canceled"]
  <2>1. Ended(mem[k], "running") \in Record BY <1>3, EndedType DEF Active
  <2>2. /\ disk' \in [Keys -> Record] /\ faults' \in 0..MaxFaults
        /\ disk'[k] = Ended(mem[k], "running") /\ \A j \in Keys \ {k} : disk'[j] = disk[j]
    BY <1>2, <1>5, <2>1, SaveIs
  <2>3. /\ worker' = [worker EXCEPT ![k] = "running"]
        /\ mem' = [mem EXCEPT ![k] = Ended(mem[k], "running")]
    BY <1>5 DEF Step, Holds
  <2>4. Elsewhere(k) /\ KeyOK(k)' /\ mem' \in [Keys -> Record]
    BY <1>1, <1>3, <1>5, <2>2, <2>3, WorkerSaves DEF Active
  <2>5. worker'[k] = "running" BY <1>2, <2>3 DEF TypeOK
  <2>6. Accounting' /\ queued' \in Nat /\ slots' \in Nat
    BY <1>1, <1>2, <1>5, <2>4, <2>5, CountersFollow DEF Moved, Working
  <2>7. slots' \in 0..MaxConcurrent BY <1>1, <1>2, <1>5, RuntimeAssumption DEF TypeOK
  <2>8. TypeOK' BY <1>1, <1>2, <1>5, <2>2, <2>3, <2>4, <2>6, <2>7 DEF TypeOK
  <2> QED BY <1>1, <2>4, <2>6, <2>8, OtherKeys DEF RuntimeInv
<1> QED BY <1>4, <1>5 DEF Take, Run, Canceled

LEMMA CompleteInv ==
  ASSUME RuntimeInv, NEW k \in Keys, Complete(k) PROVE RuntimeInv'
<1>1. TypeOK /\ Accounting /\ KeyOK(k) BY DEF RuntimeInv
<1>2. /\ worker[k] = "returned" /\ worker' = [worker EXCEPT ![k] = "none"]
      /\ slots' = slots - 1 /\ ctx' = [ctx EXCEPT ![k] = "live"]
      /\ UNCHANGED <<signal, queued, run, interrupted, phase, told, crashes>>
  BY DEF Complete, Step
<1>3. phase # "down" /\ mem[k] \in Record BY <1>1, <1>2 DEF KeyOK, TypeOK
<1>4. PICK state \in Active \cup Terminal :
        Finish(k, state) /\ (mem[k].cancel => state = "canceled")
  <2>1. PICK answer \in Active \cup Terminal : Finish(k, Outcome(k, answer))
    <3>1. Mapped(run[k]) \in Active \cup Terminal BY DEF Mapped, Active, Terminal
    <3>2. "failed" \in Terminal BY DEF Terminal
    <3> QED BY <3>1, <3>2 DEF Complete
  <2>2. CASE mem[k].cancel \/ ctx[k] = "canceled"
    <3>1. Outcome(k, answer) = "canceled" BY <2>2 DEF Outcome
    <3> QED BY <2>1, <3>1 DEF Terminal
  <2>3. CASE ~(mem[k].cancel \/ ctx[k] = "canceled") /\ ctx[k] = "late"
    <3>1. Outcome(k, answer) = "timed_out" BY <2>3 DEF Outcome
    <3> QED BY <2>1, <2>3, <3>1 DEF Terminal
  <2>4. CASE ~(mem[k].cancel \/ ctx[k] = "canceled") /\ ctx[k] # "late"
    <3>1. Outcome(k, answer) = answer BY <2>4 DEF Outcome
    <3> QED BY <2>1, <2>4, <3>1
  <2> QED BY <2>2, <2>3, <2>4
<1>5. Ended(mem[k], state) \in Record BY <1>3, EndedType
<1>6. /\ mem' = [mem EXCEPT ![k] = Ended(mem[k], state)]
      /\ Saved(k, Ended(mem[k], state)) \/ SaveFailed(k, Ended(mem[k], state))
  BY <1>4 DEF Finish, Holds
<1>7. /\ disk' \in [Keys -> Record] /\ faults' \in 0..MaxFaults
      /\ disk'[k] \in {disk[k], Ended(mem[k], state)} /\ \A j \in Keys \ {k} : disk'[j] = disk[j]
  BY <1>1, <1>5, <1>6, SaveIs
<1>8. Elsewhere(k) /\ KeyOK(k)' /\ mem' \in [Keys -> Record]
  BY <1>2, <1>3, <1>4, <1>6, <1>7, WorkerSaves
<1>9. worker'[k] = "none" BY <1>1, <1>2 DEF TypeOK
<1>10. Accounting' /\ slots' \in Nat
  BY <1>1, <1>2, <1>8, <1>9, CountersFollow DEF Moved, Working
<1>11. slots' \in 0..MaxConcurrent BY <1>1, <1>2, <1>10, RuntimeAssumption DEF TypeOK
<1>12. TypeOK' BY <1>1, <1>2, <1>7, <1>8, <1>11 DEF TypeOK
<1> QED BY <1>2, <1>8, <1>10, <1>12, OtherKeys DEF RuntimeInv

(* Leaving the queue, entering the agent and returning from it.            *)
LEMMA MoveInv ==
  ASSUME RuntimeInv, NEW k \in Keys, Leave(k) \/ Enter(k) \/ AgentEnd(k) PROVE RuntimeInv'
<1>1. TypeOK /\ Accounting /\ KeyOK(k) BY DEF RuntimeInv
<1>2. CASE Leave(k)
  <2>1. /\ worker[k] = "parked" /\ worker' = [worker EXCEPT ![k] = "none"] /\ queued' = queued - 1
        /\ UNCHANGED <<disk, mem, ctx, signal, slots, run, interrupted, phase, told, faults, crashes>>
    BY <1>2 DEF Leave, Step
  <2>2. worker'[k] = "none" /\ Elsewhere(k) BY <1>1, <2>1 DEF TypeOK, Elsewhere
  <2>3. Accounting' /\ queued' \in Nat BY <1>1, <2>1, <2>2, CountersFollow DEF Moved, Working
  <2>4. TypeOK' BY <1>1, <2>1, <2>3 DEF TypeOK
  <2>5. KeyOK(k)' BY <1>1, <2>1, <2>2 DEF KeyOK, Sound, CancelStands, Working, NoRecord
  <2> QED BY <2>1, <2>2, <2>3, <2>4, <2>5, OtherKeys DEF RuntimeInv
<1>3. ASSUME Enter(k) \/ AgentEnd(k) PROVE RuntimeInv'
  <2>1. PICK to \in {"agent", "returned"} : worker' = [worker EXCEPT ![k] = to]
    BY <1>3 DEF Enter, AgentEnd, Step
  <2>2. /\ worker[k] \in {"running", "agent"}
        /\ UNCHANGED <<disk, mem, ctx, signal, queued, slots, interrupted, phase, told, faults, crashes>>
    BY <1>3 DEF Enter, AgentEnd, Step
  <2>3. run' \in [Keys -> {"none", "received", "executing", "completed", "failed",
                          "approval_pending", "cancelled"}]
    BY <1>1, <1>3 DEF Enter, AgentEnd, TypeOK
  <2>4. worker'[k] = to /\ Elsewhere(k) BY <1>1, <2>1, <2>2 DEF TypeOK, Elsewhere
  <2>5. Accounting' BY <1>1, <2>2, <2>4, CountersFollow DEF Moved, Working
  <2>6. TypeOK' BY <1>1, <2>1, <2>2, <2>3 DEF TypeOK
  <2>7. KeyOK(k)' BY <1>1, <2>2, <2>4 DEF KeyOK, Sound, CancelStands, Working
  <2> QED BY <2>2, <2>4, <2>5, <2>6, <2>7, OtherKeys DEF RuntimeInv
<1> QED BY <1>2, <1>3

-----------------------------------------------------------------------------
(* The process.                                                            *)

LEMMA ShutdownInv ==
  ASSUME RuntimeInv, Shutdown \/ FailInterruptedRuns PROVE RuntimeInv'
<1>1. TypeOK BY DEF RuntimeInv
<1>2. CASE Shutdown
  <2>1. TypeOK' BY <1>1, <1>2 DEF TypeOK, Shutdown
  <2> QED BY <1>2, <2>1, QuietStep DEF Shutdown
<1>3. CASE FailInterruptedRuns
  <2>1. TypeOK' BY <1>1, <1>3 DEF TypeOK, FailInterruptedRuns
  <2> QED BY <1>3, <2>1, QuietStep DEF FailInterruptedRuns
<1> QED BY <1>2, <1>3

LEMMA DownInv ==
  ASSUME RuntimeInv, Down PROVE RuntimeInv'
<1> USE DEF Down
<1>1. TypeOK BY DEF RuntimeInv
<1>2. crashes' \in 0..MaxCrashes BY <1>1, RuntimeAssumption DEF TypeOK
<1>3. TypeOK'
  <2>1. queued' \in Nat /\ slots' \in 0..MaxConcurrent BY RuntimeAssumption
  <2>2. mem' \in [Keys -> Record] BY RecordTypes
  <2> QED BY <1>1, <1>2, <2>1, <2>2 DEF TypeOK
<1>4. Accounting'
  <2>1. {k \in Keys : worker'[k] = "parked"} = {}
        /\ {k \in Keys : worker'[k] \in {"running", "agent", "returned"}} = {}
    OBVIOUS
  <2> QED BY <2>1, FS_EmptySet DEF Accounting
<1>5. ASSUME NEW k \in Keys PROVE KeyOK(k)'
  <2>1. KeyOK(k) BY DEF RuntimeInv
  <2> QED BY <2>1, RecordTypes DEF KeyOK, Sound, CancelStands, Working, Terminal
<1> QED BY <1>3, <1>4, <1>5 DEF RuntimeInv

LEMMA BootInv ==
  ASSUME RuntimeInv, Boot PROVE RuntimeInv'
<1>1. /\ phase = "down" /\ phase' = "up" /\ mem' = disk
      /\ worker' = [k \in Keys |-> IF k \in Resumed THEN "parked" ELSE "none"]
      /\ queued' = Cardinality(Resumed) /\ interrupted' = TRUE
      /\ UNCHANGED <<disk, ctx, signal, slots, run, told, faults, crashes>>
  BY DEF Boot
<1>2. TypeOK /\ Accounting BY DEF RuntimeInv
<1>3. Resumed \in SUBSET Keys BY DEF Resumed
<1>4. Accounting' /\ queued' \in Nat
  <2>1. {k \in Keys : worker'[k] = "parked"} = Resumed BY <1>1, <1>3
  <2>2. {k \in Keys : worker'[k] \in {"running", "agent", "returned"}} = {} BY <1>1
  <2>3. {k \in Keys : worker[k] \in {"running", "agent", "returned"}} = {}
    BY <1>1 DEF RuntimeInv, KeyOK
  <2>4. queued' \in Nat BY <1>1, <1>3, RuntimeAssumption, FS_Subset, FS_CardinalityType
  <2> QED BY <1>1, <1>2, <2>1, <2>2, <2>3, <2>4 DEF Accounting
<1>5. TypeOK' BY <1>1, <1>2, <1>4 DEF TypeOK
<1>6. ASSUME NEW k \in Keys PROVE KeyOK(k)'
  <2>1. KeyOK(k) /\ disk[k] \in Record BY <1>2 DEF RuntimeInv, TypeOK
  <2>2. worker'[k] # "none" => disk[k].state \in {"queued", "running"}
    <3>1. ASSUME k \in Resumed PROVE disk[k].state \in {"queued", "running"}
      BY <2>1, <3>1 DEF Resumed, IsLive, Record, KeyOK, Sound, Active, Terminal
    <3> QED BY <1>1, <3>1
  <2>3. worker'[k] \notin Working BY <1>1 DEF Working
  <2> QED BY <1>1, <2>1, <2>2, <2>3 DEF KeyOK, Sound, CancelStands
<1> QED BY <1>4, <1>5, <1>6 DEF RuntimeInv

LEMMA RuntimeInit == Init => RuntimeInv
<1> SUFFICES ASSUME Init PROVE RuntimeInv OBVIOUS
<1>1. TypeOK
  <2>1. queued \in Nat /\ slots \in 0..MaxConcurrent /\ faults \in 0..MaxFaults
        /\ crashes \in 0..MaxCrashes
    BY RuntimeAssumption DEF Init
  <2>2. mem \in [Keys -> Record] /\ disk \in [Keys -> Record] BY RecordTypes DEF Init
  <2> QED BY <2>1, <2>2 DEF Init, TypeOK
<1>2. Accounting
  <2>1. {k \in Keys : worker[k] = "parked"} = {}
        /\ {k \in Keys : worker[k] \in {"running", "agent", "returned"}} = {}
    BY DEF Init
  <2> QED BY <2>1, FS_EmptySet DEF Accounting, Init
<1>3. \A k \in Keys : KeyOK(k) BY RecordTypes DEF Init, KeyOK, Sound, Working
<1> QED BY <1>1, <1>2, <1>3 DEF RuntimeInv

LEMMA RuntimeNext == RuntimeInv /\ [Next]_vars => RuntimeInv'
<1> SUFFICES ASSUME RuntimeInv, [Next]_vars PROVE RuntimeInv' OBVIOUS
<1>1. CASE UNCHANGED vars
  <2>1. TypeOK' BY <1>1 DEF RuntimeInv, TypeOK, vars, process
  <2> QED BY <1>1, <2>1, QuietStep DEF vars, process
<1>2. ASSUME NEW k \in Keys, Caller(k) PROVE RuntimeInv'
  BY <1>2, TellInv, SubmitInv, LookupAbsentInv, CancelWaitingInv, CancelActiveInv, QuietInv DEF Caller
<1>3. ASSUME NEW k \in Keys, Worker(k) PROVE RuntimeInv'
  BY <1>3, TakeInv, MoveInv, CompleteInv, QuietInv DEF Worker
<1>4. CASE Shutdown \/ Down \/ Boot \/ FailInterruptedRuns
  BY <1>4, ShutdownInv, DownInv, BootInv
<1> QED BY <1>1, <1>2, <1>3, <1>4, SweepInv DEF Next

-----------------------------------------------------------------------------
(* The theorems.                                                           *)

(* Every reachable state has its types and relates file, memory, goroutine *)
(* and answers of every key.                                               *)
THEOREM RuntimeInvariant == Spec => []RuntimeInv
  BY RuntimeInit, RuntimeNext, PTL DEF Spec

(* The queue counter and the semaphore count the goroutines that exist:    *)
(* no place leaks and none is given back twice.                            *)
THEOREM PlacesCounted == Spec => []Accounting
<1>1. RuntimeInv => Accounting BY DEF RuntimeInv
<1> QED BY <1>1, RuntimeInvariant, PTL

(* While the executor works for a key, its file says `running`.            *)
THEOREM WorkBound == Spec => []WorkIsBound
<1>1. ASSUME RuntimeInv PROVE WorkIsBound
  <2> SUFFICES ASSUME NEW k \in Keys, worker[k] \in Working
               PROVE  /\ disk[k].kind = "bound" /\ disk[k].state = "running"
                      /\ mem[k].state = "running"
    BY DEF WorkIsBound, Working
  <2> QED BY <1>1 DEF RuntimeInv, KeyOK, Sound, Working
<1> QED BY <1>1, RuntimeInvariant, PTL

(* A key answered `not_started` stays fenced, whatever was saved,          *)
(* submitted or restarted since, until retention forgets it.               *)
THEOREM FencesHold == Spec => []FenceHolds
<1>1. ASSUME RuntimeInv PROVE FenceHolds
  <2> SUFFICES ASSUME NEW k \in Keys, "not_started" \in told[k]
               PROVE  disk[k].kind = "fence" /\ mem[k].kind # "bound" /\ worker[k] = "none"
    BY DEF FenceHolds
  <2> QED BY <1>1, RecordTypes DEF RuntimeInv, KeyOK, Sound
<1> QED BY <1>1, RuntimeInvariant, PTL

(* An execution whose cancellation was confirmed has no other end.         *)
THEOREM CancelsHonoured == Spec => []CancelHonoured
<1>1. RuntimeInv => CancelHonoured BY DEF RuntimeInv, KeyOK, CancelHonoured, CancelStands
<1> QED BY <1>1, RuntimeInvariant, PTL
=============================================================================
