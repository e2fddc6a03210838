------------------------- MODULE WorkbenchLeaseProofs -------------------------
(***************************************************************************)
(* The stops, leases and clarification claims of WorkbenchLease are sound  *)
(* for every set of requests and every number of failed saves and crashes. *)
(*                                                                         *)
(* The inductive invariant relates the ledger in memory to the one on disk *)
(* and to the leases: who may still act, and what a restart will read.     *)
(* With the fence of every lease it makes each step one of TurnLedger.     *)
(***************************************************************************)
EXTENDS WorkbenchLease, TLAPS

(* Whoever can still act runs behind a fence that says so.                 *)
RunsFenced ==
  \A r \in Requests : lease[r] # "none" /\ ctx[r] = "live" => mem.fence[r] = "running"

(* A process that ended holds no lease and owes no revocation.             *)
DownIsIdle ==
  phase = "down" => (\A r \in Requests : lease[r] = "none") /\ stops.cutting = {}

(* A request that could get a lease, now or after a restart, is owed one.  *)
Startable == {"absent", "waiting"}
OwedALease ==
  \A r \in Requests : mem.fence[r] \in Startable \/ disk.fence[r] \in Startable => r \in rights

(* What a revocation fenced in memory only keeps the ledger dirty.         *)
CuttingIsDirty ==
  /\ stops.cutting # {} => dirty.revocation
  /\ \A r \in stops.cutting : mem.fence[r] = "unknown"

(* A claim on disk is the one in memory; only a failed claim is in memory  *)
(* alone, and it stops every further one.                                  *)
ClaimsAgree ==
  /\ \A r \in Requests : disk.claim[r] \in {NoClaim, mem.claim[r]}
  /\ phase # "down" /\ ~dirty.claim => mem.claim = disk.claim

LeaseInv ==
  /\ TypeOK
  /\ RunsFenced
  /\ DownIsIdle
  /\ OwedALease
  /\ CuttingIsDirty
  /\ ClaimsAgree
  /\ NoReplay
  /\ CancelIsDurable
  /\ RevokeIsDurable
  /\ OneSuccessor

-----------------------------------------------------------------------------
(* What the ledger and the contexts become.                                *)

(* A fence is replaced in memory, and on disk or not.                      *)
LEMMA OneFence ==
  ASSUME TypeOK, NEW r \in Requests, NEW a \in States, NEW b \in States,
         mem' = With(r, a), disk' \in {disk, With(r, b)}
  PROVE  /\ mem' \in Ledger /\ disk' \in Ledger
         /\ mem'.claim = mem.claim /\ disk'.claim \in {disk.claim, mem.claim}
         /\ mem'.fence[r] = a /\ disk'.fence[r] \in {disk.fence[r], b}
         /\ \A o \in Requests \ {r} :
              mem'.fence[o] = mem.fence[o] /\ disk'.fence[o] \in {disk.fence[o], mem.fence[o]}
<1>1. \A st \in States : /\ With(r, st) \in Ledger
                         /\ With(r, st).claim = mem.claim
                         /\ With(r, st).fence = [mem.fence EXCEPT ![r] = st]
  BY DEF TypeOK, Ledger, With
<1>2. mem.fence \in [Requests -> States] /\ disk \in Ledger BY DEF TypeOK, Ledger
<1> QED BY <1>1, <1>2

(* A context that is live after EndOf was live and is not one of them.     *)
LEMMA EndOfEnds ==
  ASSUME TypeOK, NEW rs, EndOf(rs)
  PROVE  /\ ctx' \in [Requests -> {"live", "ended"}]
         /\ \A r \in Requests : ctx'[r] = "live" =>
              ctx[r] = "live" /\ (lease[r] = "none" \/ r \notin rs)
  BY DEF TypeOK, EndOf

(* A save that does not concern claims.                                    *)
ClaimsStand ==
  /\ mem'.claim = mem.claim /\ disk'.claim \in {disk.claim, mem.claim}
  /\ dispatched' = dispatched /\ dirty'.claim = dirty.claim
  /\ phase' = "down" <=> phase = "down"

LEMMA ClaimsStandInv ==
  ASSUME TypeOK, ClaimsAgree, OneSuccessor, ClaimsStand PROVE ClaimsAgree' /\ OneSuccessor'
<1>1. \A r \in Requests : \A s \in dispatched[r] : s \in Requests /\ s # NoClaim
  BY LeaseAssumption DEF TypeOK
<1> QED BY <1>1 DEF ClaimsAgree, OneSuccessor, ClaimsStand

(* A lease is granted behind a saved fence, or the request is fenced.      *)
LEMMA AdmitInv ==
  ASSUME LeaseInv, NEW r \in Requests, NEW kind \in {"outer", "child"},
         mem.fence[r] \in Startable, Up, Admit(r, kind),
         UNCHANGED <<late, revoked, dirty, phase, stops, dispatched, crashes>>
  PROVE  LeaseInv'
<1> USE DEF LeaseInv
<1>1. r \in rights BY DEF OwedALease
<1>2. phase = "up" BY DEF Up
<1>3. CASE /\ mem' = With(r, "running")
           /\ Saved(With(r, "running"))
           /\ Grant(r, kind)
  <2>1. disk' = mem' /\ faults' = faults BY <1>3 DEF Saved
  <2>2. mem' \in Ledger /\ mem'.claim = mem.claim /\ mem'.fence[r] = "running"
        /\ \A o \in Requests \ {r} : mem'.fence[o] = mem.fence[o]
    BY <1>3, <2>1, OneFence DEF States
  <2>3. /\ lease' = [lease EXCEPT ![r] = kind] /\ ctx' = [ctx EXCEPT ![r] = "live"]
        /\ replayed' = replayed /\ rights' = rights \ {r}
    BY <1>1, <1>3 DEF Grant
  <2>4. TypeOK' BY <2>1, <2>2, <2>3 DEF TypeOK
  <2>5. RunsFenced' BY <2>2, <2>3 DEF RunsFenced, TypeOK
  <2>6. OwedALease' BY <2>1, <2>2, <2>3 DEF OwedALease, Startable
  <2>7. CuttingIsDirty' /\ CancelIsDurable' /\ RevokeIsDurable'
    BY <2>1, <2>2 DEF CuttingIsDirty, CancelIsDurable, RevokeIsDurable, TypeOK, Stops, Startable
  <2>8. ClaimsStand BY <2>1, <2>2 DEF ClaimsStand
  <2> QED BY <1>2, <2>3, <2>4, <2>5, <2>6, <2>7, <2>8, ClaimsStandInv DEF DownIsIdle, NoReplay
<1>4. CASE /\ mem' = With(r, "unknown")
           /\ SaveFailed(With(r, "running"))
           /\ UNCHANGED <<lease, ctx, rights, replayed>>
  <2>1. disk' \in {disk, With(r, "running")} /\ faults' \in 0..MaxFaults
    BY <1>4, LeaseAssumption DEF SaveFailed, TypeOK
  <2>2. /\ mem' \in Ledger /\ disk' \in Ledger
        /\ mem'.claim = mem.claim /\ disk'.claim \in {disk.claim, mem.claim}
        /\ mem'.fence[r] = "unknown" /\ disk'.fence[r] \in {disk.fence[r], "running"}
        /\ \A o \in Requests \ {r} :
             mem'.fence[o] = mem.fence[o] /\ disk'.fence[o] \in {disk.fence[o], mem.fence[o]}
    BY <1>4, <2>1, OneFence DEF States
  <2>4. TypeOK' BY <1>4, <2>1, <2>2 DEF TypeOK
  <2>5. RunsFenced' BY <1>4, <2>2 DEF RunsFenced, Startable
  <2>6. OwedALease' BY <1>4, <2>2 DEF OwedALease, Startable
  <2>7. CuttingIsDirty' /\ CancelIsDurable' /\ RevokeIsDurable'
    BY <2>2 DEF CuttingIsDirty, CancelIsDurable, RevokeIsDurable, TypeOK, Stops, Startable
  <2>8. ClaimsStand BY <2>2 DEF ClaimsStand
  <2> QED BY <1>2, <1>4, <2>4, <2>5, <2>6, <2>7, <2>8, ClaimsStandInv DEF DownIsIdle, NoReplay
<1> QED BY <1>3, <1>4 DEF Admit

-----------------------------------------------------------------------------
(* Each action keeps the invariant.                                        *)

LEMMA BeginInv ==
  ASSUME LeaseInv, NEW r \in Requests, BeginWorkbench(r) PROVE LeaseInv'
  BY AdmitInv DEF BeginWorkbench, Startable

LEMMA ContinueInv ==
  ASSUME LeaseInv, NEW r \in Requests, ContinueWorkbench(r) PROVE LeaseInv'
  BY AdmitInv DEF ContinueWorkbench, Startable

LEMMA DeadlineInv ==
  ASSUME LeaseInv, NEW r \in Requests, DeadlinePasses(r) PROVE LeaseInv'
<1> USE DEF LeaseInv, DeadlinePasses, history
<1>1. TypeOK' BY EndOfEnds DEF TypeOK
<1>2. RunsFenced' BY EndOfEnds DEF RunsFenced
<1>3. ClaimsStand BY DEF ClaimsStand
<1> QED BY <1>1, <1>2, <1>3, ClaimsStandInv
  DEF DownIsIdle, OwedALease, CuttingIsDirty, NoReplay, CancelIsDurable, RevokeIsDurable

(* A running request becomes `unknown` and may save that or any outcome    *)
(* its context allows.                                                     *)
LEMMA RecordDraftClearInv ==
  ASSUME LeaseInv, NEW r \in Requests, RecordDraftClear(r) PROVE LeaseInv'
<1> USE DEF LeaseInv, RecordDraftClear, history
<1>1. CASE Saved(mem) /\ UNCHANGED <<mem, ctx>>
  <2>1. TypeOK' BY <1>1 DEF Saved, TypeOK
  <2>2. ClaimsStand BY <1>1 DEF ClaimsStand, Saved
  <2> QED BY <1>1, <2>1, <2>2, ClaimsStandInv
    DEF Saved, RunsFenced, DownIsIdle, OwedALease, CuttingIsDirty, NoReplay, CancelIsDurable,
        RevokeIsDurable
<1>2. CASE SaveFailed(mem) /\ mem' = With(r, "unknown") /\ EndOf({r})
  <2>1. disk' \in {disk, mem} /\ faults' \in 0..MaxFaults
    BY <1>2, LeaseAssumption DEF SaveFailed, TypeOK
  <2>2. mem = With(r, "running") BY DEF With, TypeOK, Ledger
  <2>3. /\ mem' \in Ledger /\ disk' \in Ledger
        /\ mem'.claim = mem.claim /\ disk'.claim \in {disk.claim, mem.claim}
        /\ mem'.fence[r] = "unknown" /\ disk'.fence[r] \in {disk.fence[r], "running"}
        /\ \A o \in Requests \ {r} :
             mem'.fence[o] = mem.fence[o] /\ disk'.fence[o] \in {disk.fence[o], mem.fence[o]}
    BY <1>2, <2>1, <2>2, OneFence DEF States
  <2>4. TypeOK' BY <1>2, <2>1, <2>3, EndOfEnds DEF TypeOK
  <2>5. RunsFenced' BY <1>2, <2>3, EndOfEnds DEF RunsFenced
  <2>6. OwedALease' BY <2>3 DEF OwedALease, Startable
  <2>7. CuttingIsDirty' /\ CancelIsDurable' /\ RevokeIsDurable'
    BY <2>3 DEF CuttingIsDirty, CancelIsDurable, RevokeIsDurable, TypeOK, Stops
  <2>8. ClaimsStand BY <2>3 DEF ClaimsStand
  <2> QED BY <2>4, <2>5, <2>6, <2>7, <2>8, ClaimsStandInv DEF DownIsIdle, NoReplay
<1> QED BY <1>1, <1>2

LEMMA FinishInv ==
  ASSUME LeaseInv, NEW r \in Requests, Finish(r) PROVE LeaseInv'
<1> USE DEF LeaseInv
<1>1. PICK state \in Outcome(r) :
        /\ rights' = IF state = "waiting" THEN rights \cup {r} ELSE rights
        /\ \/ mem' = With(r, state) /\ Saved(With(r, state))
           \/ mem' = With(r, "unknown") /\ SaveFailed(With(r, state))
  BY DEF Finish
<1>2. PICK kept \in {state, "unknown"} : mem' = With(r, kept) BY <1>1
<1>3. state \in {"done", "waiting", "unknown"} /\ kept \in {"done", "waiting", "unknown"}
  BY <1>2 DEF Outcome
<1>4. disk' \in {disk, With(r, state)} /\ faults' \in 0..MaxFaults
  BY <1>1, LeaseAssumption DEF Saved, SaveFailed, TypeOK
<1>5. /\ mem' \in Ledger /\ disk' \in Ledger
      /\ mem'.claim = mem.claim /\ disk'.claim \in {disk.claim, mem.claim}
      /\ mem'.fence[r] = kept /\ disk'.fence[r] \in {disk.fence[r], state}
      /\ \A o \in Requests \ {r} :
           mem'.fence[o] = mem.fence[o] /\ disk'.fence[o] \in {disk.fence[o], mem.fence[o]}
  BY <1>2, <1>3, <1>4, OneFence DEF States
<1>6. /\ lease' = [lease EXCEPT ![r] = "none"] /\ ctx' = [ctx EXCEPT ![r] = "live"]
      /\ UNCHANGED <<late, revoked, dirty, phase, replayed, stops, dispatched, crashes>>
  BY DEF Finish
<1>7. TypeOK' BY <1>1, <1>4, <1>5, <1>6 DEF TypeOK
<1>8. RunsFenced' BY <1>5, <1>6 DEF RunsFenced, TypeOK
<1>9. OwedALease' BY <1>1, <1>2, <1>3, <1>5 DEF OwedALease, Startable
<1>10. mem.fence[r] = "unknown" => state = "unknown" /\ kept = "unknown"
  BY <1>2 DEF Finish, Outcome, RunsFenced, TypeOK
<1>11. CuttingIsDirty' /\ CancelIsDurable' /\ RevokeIsDurable'
  BY <1>5, <1>6, <1>10 DEF CuttingIsDirty, CancelIsDurable, RevokeIsDurable, TypeOK, Stops
<1>12. ClaimsStand BY <1>5, <1>6 DEF ClaimsStand
<1>13. DownIsIdle' BY <1>6 DEF DownIsIdle, TypeOK
<1> QED BY <1>6, <1>7, <1>8, <1>9, <1>11, <1>12, <1>13, ClaimsStandInv DEF NoReplay

LEMMA CancelInv ==
  ASSUME LeaseInv, NEW r \in Requests, CancelLive(r) PROVE LeaseInv'
<1> USE DEF LeaseInv
<1>1. /\ mem' = With(r, "unknown") /\ disk' \in {disk, With(r, "unknown")}
      /\ stops' = stops \/ (disk' = mem' /\ stops' = [stops EXCEPT !.canceled = @ \cup {r}])
      /\ faults' \in 0..MaxFaults /\ EndOf({r})
  BY LeaseAssumption DEF CancelLive, Saved, SaveFailed, TypeOK
<1>2. /\ mem' \in Ledger /\ disk' \in Ledger
      /\ mem'.claim = mem.claim /\ disk'.claim \in {disk.claim, mem.claim}
      /\ mem'.fence[r] = "unknown" /\ disk'.fence[r] \in {disk.fence[r], "unknown"}
      /\ \A o \in Requests \ {r} :
           mem'.fence[o] = mem.fence[o] /\ disk'.fence[o] \in {disk.fence[o], mem.fence[o]}
  BY <1>1, OneFence DEF States
<1>3. UNCHANGED <<lease, late, revoked, dirty, phase, rights, replayed, dispatched, crashes>>
  BY DEF CancelLive
<1>4. stops' \in Stops /\ stops'.cutting = stops.cutting /\ stops'.cut = stops.cut
  BY <1>1 DEF TypeOK, Stops
<1>5. TypeOK' BY <1>1, <1>2, <1>3, <1>4, EndOfEnds DEF TypeOK
<1>6. RunsFenced' BY <1>1, <1>2, <1>3, EndOfEnds DEF RunsFenced
<1>7. OwedALease' BY <1>2, <1>3 DEF OwedALease, Startable
<1>8. CuttingIsDirty' /\ RevokeIsDurable'
  BY <1>2, <1>3, <1>4 DEF CuttingIsDirty, RevokeIsDurable, TypeOK, Stops
<1>9. CancelIsDurable' BY <1>1, <1>2 DEF CancelIsDurable, TypeOK, Stops
<1>10. ClaimsStand BY <1>2, <1>3 DEF ClaimsStand
<1> QED BY <1>3, <1>4, <1>5, <1>6, <1>7, <1>8, <1>9, <1>10, ClaimsStandInv DEF DownIsIdle, NoReplay

LEMMA RevokeInv ==
  ASSUME LeaseInv, RevokeWorkbenchClient PROVE LeaseInv'
<1> USE DEF LeaseInv
<1> DEFINE rs == {r \in Requests : mem.fence[r] \in Live}
           ledger == [mem EXCEPT !.fence = [r \in Requests |-> IF r \in rs THEN "unknown" ELSE mem.fence[r]]]
           cutting == stops.cutting \cup rs
<1>1. /\ mem' = ledger /\ revoked' = TRUE /\ EndOf(rs)
      /\ UNCHANGED <<lease, late, phase, rights, replayed, dispatched, crashes>>
  BY DEF RevokeWorkbenchClient
<1>2. /\ ledger \in Ledger /\ ledger.claim = mem.claim
      /\ \A r \in Requests : ledger.fence[r] = IF r \in rs THEN "unknown" ELSE mem.fence[r]
  BY DEF TypeOK, Ledger, States
<1>3. rs \subseteq Requests /\ stops.cutting \subseteq Requests BY DEF TypeOK, Stops
<1>4. \A r \in cutting : mem'.fence[r] = "unknown" BY <1>1, <1>2, <1>3 DEF CuttingIsDirty
<1>5. disk' \in {disk, mem'} /\ faults' \in 0..MaxFaults
  BY <1>1, LeaseAssumption DEF RevokeWorkbenchClient, Saved, SaveFailed, TypeOK
<1>6. dirty' \in [revocation : BOOLEAN, claim : BOOLEAN] /\ dirty'.claim = dirty.claim
  BY DEF RevokeWorkbenchClient, TypeOK
<1>7. stops' \in Stops /\ stops'.canceled = stops.canceled
  <2>1. stops' \in {[stops EXCEPT !.cut = @ \cup cutting, !.cutting = {}],
                   [stops EXCEPT !.cutting = cutting]}
    BY DEF RevokeWorkbenchClient
  <2>2. cutting \in SUBSET Requests /\ stops \in Stops BY <1>3 DEF TypeOK
  <2> HIDE DEF cutting
  <2>3. CASE stops' = [stops EXCEPT !.cut = @ \cup cutting, !.cutting = {}]
    BY <2>2, <2>3 DEF Stops
  <2>4. CASE stops' = [stops EXCEPT !.cutting = cutting] BY <2>2, <2>4 DEF Stops
  <2> QED BY <2>1, <2>3, <2>4
<1>8. TypeOK' BY <1>1, <1>2, <1>5, <1>6, <1>7, EndOfEnds DEF TypeOK
<1>9. RunsFenced' BY <1>1, <1>2, EndOfEnds DEF RunsFenced, Live
<1>10. OwedALease'
  <2>1. \A r \in Requests : mem'.fence[r] \in Startable => mem.fence[r] \in Startable
    BY <1>1, <1>2 DEF Startable
  <2> QED BY <1>1, <1>5, <2>1 DEF OwedALease
<1>11. CancelIsDurable'
  <2>1. \A r \in Requests : mem.fence[r] = "unknown" => mem'.fence[r] = "unknown" BY <1>1, <1>2
  <2> QED BY <1>5, <1>7, <2>1 DEF CancelIsDurable, TypeOK, Stops
<1>12. CuttingIsDirty' /\ RevokeIsDurable'
  <2>1. \A r \in Requests : mem.fence[r] = "unknown" => mem'.fence[r] = "unknown" BY <1>1, <1>2
  <2>2. stops.cut \subseteq Requests BY DEF TypeOK, Stops
  <2>3. CASE /\ IF MustSave(rs) THEN Saved(ledger) ELSE UNCHANGED <<disk, faults>>
             /\ dirty' = [dirty EXCEPT !.revocation = FALSE]
             /\ stops' = [stops EXCEPT !.cut = @ \cup cutting, !.cutting = {}]
    <3>1. stops'.cut = stops.cut \cup cutting /\ stops'.cutting = {} BY <2>3 DEF TypeOK, Stops
    <3>2. cutting # {} => MustSave(rs) BY DEF MustSave, CuttingIsDirty
    <3>3. cutting # {} => disk' = mem' BY <1>1, <2>3, <3>2 DEF Saved
    <3> QED BY <1>4, <1>5, <2>1, <2>2, <3>1, <3>3 DEF CuttingIsDirty, RevokeIsDurable
  <2>4. CASE /\ MustSave(rs)
             /\ SaveFailed(ledger)
             /\ dirty' = [dirty EXCEPT !.revocation = TRUE]
             /\ stops' = [stops EXCEPT !.cutting = cutting]
    <3>1. stops'.cut = stops.cut /\ stops'.cutting = cutting /\ dirty'.revocation
      BY <2>4 DEF TypeOK, Stops
    <3> QED BY <1>4, <1>5, <2>1, <2>2, <3>1 DEF CuttingIsDirty, RevokeIsDurable
  <2> QED BY <2>3, <2>4 DEF RevokeWorkbenchClient
<1>13. ClaimsStand BY <1>1, <1>2, <1>5, <1>6 DEF ClaimsStand
<1>14. DownIsIdle' BY <1>1 DEF DownIsIdle, RevokeWorkbenchClient, Serving
<1> QED BY <1>1, <1>8, <1>9, <1>10, <1>11, <1>12, <1>13, <1>14, ClaimsStandInv DEF NoReplay

LEMMA ClaimInv ==
  ASSUME LeaseInv, NEW r \in Requests, NEW s \in Requests, ClaimClarification(r, s)
  PROVE  LeaseInv'
<1> USE DEF LeaseInv
<1> DEFINE ledger == [mem EXCEPT !.claim[r] = s]
<1>1. UNCHANGED <<lease, ctx, late, revoked, phase, rights, replayed, stops, crashes>> /\ phase = "up"
      /\ ~dirty.claim
  BY DEF ClaimClarification, Up, Claimable
<1>2. mem.claim = disk.claim /\ s # NoClaim BY <1>1, LeaseAssumption DEF ClaimsAgree
<1>3. /\ ledger \in Ledger /\ ledger.fence = mem.fence
      /\ ledger.claim = [mem.claim EXCEPT ![r] = s]
  BY DEF TypeOK, Ledger
<1>4. mem' \in {mem, ledger} /\ disk' \in {disk, ledger} /\ faults' \in 0..MaxFaults
  BY LeaseAssumption DEF ClaimClarification, Saved, SaveFailed, TypeOK
<1>5. dirty' \in [revocation : BOOLEAN, claim : BOOLEAN] /\ dirty'.revocation = dirty.revocation
  BY DEF ClaimClarification, TypeOK
<1>6. dispatched' \in [Requests -> SUBSET Requests]
  BY DEF ClaimClarification, Dispatch, TypeOK
<1>7. TypeOK' BY <1>1, <1>3, <1>4, <1>5, <1>6 DEF TypeOK
<1>8. mem'.fence = mem.fence /\ disk'.fence \in {disk.fence, mem.fence} BY <1>3, <1>4
<1>9. RunsFenced' /\ DownIsIdle' /\ OwedALease' /\ NoReplay'
  BY <1>1, <1>8 DEF RunsFenced, DownIsIdle, OwedALease, NoReplay
<1>10. CuttingIsDirty' /\ CancelIsDurable' /\ RevokeIsDurable'
  BY <1>1, <1>5, <1>8 DEF CuttingIsDirty, CancelIsDurable, RevokeIsDurable, TypeOK, Stops
<1>11. ClaimsAgree' /\ OneSuccessor'
  <2>1. CASE mem.claim[r] = s /\ Dispatch(r, s) /\ UNCHANGED <<mem, disk, dirty, faults>>
    BY <1>1, <1>2, <2>1 DEF ClaimsAgree, OneSuccessor, Dispatch, TypeOK
  <2>2. CASE mem.claim[r] = NoClaim /\ mem' = ledger /\ Saved(ledger) /\ Dispatch(r, s)
             /\ UNCHANGED dirty
    <3>1. dispatched[r] = {}
      <4>1. \A t \in dispatched[r] : t \in Requests /\ t = NoClaim
        BY <1>2, <2>2 DEF OneSuccessor, TypeOK
      <4> QED BY <4>1, LeaseAssumption
    <3>2. disk'.claim = mem'.claim /\ mem'.claim[r] = s
          /\ \A o \in Requests \ {r} : mem'.claim[o] = mem.claim[o]
      BY <1>3, <2>2 DEF Saved, TypeOK, Ledger
    <3>3. ClaimsAgree' BY <3>2 DEF ClaimsAgree
    <3>4. \A o \in Requests : \A t \in dispatched'[o] :
             (o # r /\ t \in dispatched[o]) \/ (o = r /\ t = s)
      BY <2>2, <3>1 DEF Dispatch, TypeOK
    <3>5. OneSuccessor' BY <1>2, <3>2, <3>4 DEF OneSuccessor
    <3> QED BY <3>3, <3>5
  <2>3. CASE mem.claim[r] = NoClaim /\ mem' = ledger /\ SaveFailed(ledger)
             /\ dirty' = [dirty EXCEPT !.claim = TRUE] /\ UNCHANGED dispatched
    <3>1. dispatched[r] = {}
      <4>1. \A t \in dispatched[r] : t \in Requests /\ t = NoClaim
        BY <1>2, <2>3 DEF OneSuccessor, TypeOK
      <4> QED BY <4>1, LeaseAssumption
    <3>2. mem'.claim[r] = s /\ (\A o \in Requests \ {r} : mem'.claim[o] = mem.claim[o])
          /\ disk'.claim \in {disk.claim, mem'.claim} /\ dirty'.claim
      BY <1>3, <2>3 DEF SaveFailed, TypeOK, Ledger
    <3>3. \A o \in Requests : disk'.claim[o] \in {disk.claim[o], mem'.claim[o]} BY <3>2
    <3>4. disk.claim[r] = NoClaim BY <1>2, <2>3
    <3>5. ClaimsAgree'
      <4>1. \A o \in Requests : disk'.claim[o] \in {NoClaim, mem'.claim[o]}
        BY <1>2, <3>2, <3>3, <3>4
      <4> QED BY <3>2, <4>1 DEF ClaimsAgree
    <3>6. OneSuccessor'
      <4>1. \A o \in Requests : \A t \in dispatched[o] : o # r /\ disk.claim[o] = t
        BY <3>1 DEF OneSuccessor
      <4> QED BY <1>2, <2>3, <3>2, <3>3, <4>1 DEF OneSuccessor
    <3> QED BY <3>5, <3>6
  <2> QED BY <2>1, <2>2, <2>3 DEF ClaimClarification
<1> QED BY <1>7, <1>9, <1>10, <1>11

LEMMA CloseInv ==
  ASSUME LeaseInv, Close PROVE LeaseInv'
<1> USE DEF LeaseInv, Close, history
<1>1. TypeOK' BY EndOfEnds DEF TypeOK
<1>2. RunsFenced' BY EndOfEnds DEF RunsFenced
<1>3. ClaimsStand BY DEF ClaimsStand, Up
<1> QED BY <1>1, <1>2, <1>3, ClaimsStandInv
  DEF DownIsIdle, OwedALease, CuttingIsDirty, NoReplay, CancelIsDurable, RevokeIsDurable

LEMMA DownInv ==
  ASSUME LeaseInv, Down PROVE LeaseInv'
<1> USE DEF LeaseInv, Down
<1>1. stops' \in Stops /\ stops'.cutting = {} /\ stops'.cut = stops.cut
      /\ stops'.canceled = stops.canceled
  BY DEF TypeOK, Stops
<1>2. TypeOK'
  <2>1. crashes' \in 0..MaxCrashes BY LeaseAssumption DEF TypeOK
  <2>2. dirty' \in [revocation : BOOLEAN, claim : BOOLEAN] OBVIOUS
  <2> QED BY <1>1, <2>1, <2>2 DEF TypeOK
<1>3. RunsFenced' /\ DownIsIdle' BY <1>1 DEF RunsFenced, DownIsIdle
<1> QED BY <1>1, <1>2, <1>3
  DEF OwedALease, CuttingIsDirty, NoReplay, CancelIsDurable, RevokeIsDurable, ClaimsAgree, OneSuccessor

LEMMA RestartInv ==
  ASSUME LeaseInv, Restart PROVE LeaseInv'
<1> USE DEF LeaseInv
<1>1. phase = "down" /\ phase' = "up" /\ UNCHANGED <<disk, process, history, faults, crashes>>
  BY DEF Restart
<1>2. /\ mem' \in Ledger /\ mem'.claim = disk.claim
      /\ \A r \in Requests : mem'.fence[r] = IF disk.fence[r] = "running" THEN "unknown"
                                             ELSE disk.fence[r]
  BY DEF Restart, TypeOK, Ledger, States
<1> USE DEF process, history
<1>3. TypeOK' BY <1>1, <1>2 DEF TypeOK
<1>4. RunsFenced' /\ DownIsIdle' /\ CuttingIsDirty'
  BY <1>1 DEF RunsFenced, DownIsIdle, CuttingIsDirty
<1>5. OwedALease' BY <1>1, <1>2 DEF OwedALease, Startable
<1>6. CancelIsDurable' /\ RevokeIsDurable'
  BY <1>1, <1>2 DEF CancelIsDurable, RevokeIsDurable, TypeOK, Stops
<1>7. ClaimsAgree' /\ OneSuccessor' BY <1>1, <1>2 DEF ClaimsAgree, OneSuccessor
<1> QED BY <1>1, <1>3, <1>4, <1>5, <1>6, <1>7 DEF NoReplay

-----------------------------------------------------------------------------
(* The theorems.                                                           *)

LEMMA LeaseInit == Init => LeaseInv
<1> SUFFICES ASSUME Init PROVE LeaseInv OBVIOUS
<1>1. mem \in Ledger BY DEF Init, Ledger, States
<1>2. stops \in Stops /\ stops.cutting = {} /\ stops.cut = {} /\ stops.canceled = {}
  BY DEF Init, Stops
<1>3. TypeOK
  <2>1. dirty \in [revocation : BOOLEAN, claim : BOOLEAN] BY DEF Init
  <2>2. faults \in 0..MaxFaults /\ crashes \in 0..MaxCrashes BY LeaseAssumption DEF Init
  <2> QED BY <1>1, <1>2, <2>1, <2>2 DEF Init, TypeOK
<1> QED BY <1>2, <1>3
  DEF Init, LeaseInv, RunsFenced, DownIsIdle, OwedALease, CuttingIsDirty, ClaimsAgree, NoReplay,
      CancelIsDurable, RevokeIsDurable, OneSuccessor

LEMMA LeaseNext == LeaseInv /\ [Next]_vars => LeaseInv'
<1> SUFFICES ASSUME LeaseInv, [Next]_vars PROVE LeaseInv' OBVIOUS
<1>1. CASE UNCHANGED vars
  BY <1>1 DEF vars, process, history, LeaseInv, TypeOK, RunsFenced, DownIsIdle, OwedALease,
    CuttingIsDirty, ClaimsAgree, NoReplay, CancelIsDurable, RevokeIsDurable, OneSuccessor
<1>2. ASSUME NEW r \in Requests,
             \/ BeginWorkbench(r) \/ ContinueWorkbench(r) \/ DeadlinePasses(r)
             \/ RecordDraftClear(r) \/ Finish(r) \/ CancelLive(r)
             \/ \E s \in Requests : ClaimClarification(r, s)
      PROVE  LeaseInv'
  BY <1>2, BeginInv, ContinueInv, DeadlineInv, RecordDraftClearInv, FinishInv, CancelInv, ClaimInv
<1>3. CASE RevokeWorkbenchClient \/ Close \/ Down \/ Restart
  BY <1>3, RevokeInv, CloseInv, DownInv, RestartInv
<1> QED BY <1>1, <1>2, <1>3 DEF Next

(* Every state a gateway reaches, over any number of restarts, satisfies   *)
(* the inductive invariant; in particular every variable has its type.     *)
THEOREM LeaseInvariant == Spec => []LeaseInv
  BY LeaseInit, LeaseNext, PTL DEF Spec

(* No request executes a turn twice: not by a repeated submission, a       *)
(* second decision, a save that failed or a restart.                       *)
THEOREM NoTurnReplayed == Spec => []NoReplay
<1>1. LeaseInv => NoReplay BY DEF LeaseInv
<1> QED BY <1>1, LeaseInvariant, PTL

(* A cancellation that was saved and a revocation answered with success,   *)
(* those of its failed attempts included, end their requests for good, in  *)
(* memory, on disk and in every later process.                             *)
THEOREM StopsAreFinal == Spec => []StopsLast
<1>1. LeaseInv => StopsLast BY DEF LeaseInv, StopsLast
<1> QED BY <1>1, LeaseInvariant, PTL

(* At most one successor ever acts on a clarification, and only under a    *)
(* claim that is on disk.                                                  *)
THEOREM OneSuccessorActs == Spec => []OneSuccessor
<1>1. LeaseInv => OneSuccessor BY DEF LeaseInv
<1> QED BY <1>1, LeaseInvariant, PTL

-----------------------------------------------------------------------------
(* The ledger of turns.                                                    *)

(* A lease stands behind the fence of its turn, or of a turn that was      *)
(* stopped.                                                                *)
LeaseFenced ==
  \A r \in Requests : lease[r] # "none" => mem.fence[r] \in {"running", "unknown"}

TurnInv == LeaseInv /\ LeaseFenced

LEMMA LeaseFencedNext == TurnInv /\ [Next]_vars => LeaseFenced'
<1> SUFFICES ASSUME TurnInv, [Next]_vars PROVE LeaseFenced' OBVIOUS
<1> USE DEF TurnInv, LeaseFenced
<1>0. TypeOK BY DEF LeaseInv
<1>1. ASSUME NEW r \in Requests, BeginWorkbench(r) \/ ContinueWorkbench(r) PROVE LeaseFenced'
  <2>1. PICK st \in {"running", "unknown"} :
          /\ mem' = With(r, st)
          /\ lease' \in {lease, [lease EXCEPT ![r] = "outer"], [lease EXCEPT ![r] = "child"]}
    BY <1>1 DEF BeginWorkbench, ContinueWorkbench, Admit, Grant
  <2>2. mem'.fence = [mem.fence EXCEPT ![r] = st] BY <1>0, <2>1 DEF With, TypeOK, Ledger
  <2>3. mem.fence \in [Requests -> States] BY <1>0 DEF TypeOK, Ledger
  <2>4. mem'.fence[r] \in {"running", "unknown"}
        /\ \A o \in Requests \ {r} : mem'.fence[o] = mem.fence[o]
    BY <2>2, <2>3
  <2>5. \A o \in Requests \ {r} : lease'[o] = lease[o] BY <1>0, <2>1 DEF TypeOK
  <2> QED BY <2>4, <2>5
<1>2. ASSUME NEW r \in Requests, DeadlinePasses(r) PROVE LeaseFenced'
  BY <1>2 DEF DeadlinePasses
<1>3. ASSUME NEW r \in Requests, RecordDraftClear(r) PROVE LeaseFenced'
  <2>1. lease' = lease /\ mem' \in {mem, With(r, "unknown")} BY <1>3 DEF RecordDraftClear
  <2>2. With(r, "unknown").fence = [mem.fence EXCEPT ![r] = "unknown"]
        /\ mem.fence \in [Requests -> States]
    BY <1>0 DEF With, TypeOK, Ledger
  <2> QED BY <2>1, <2>2
<1>4. ASSUME NEW r \in Requests, Finish(r) PROVE LeaseFenced'
  <2>1. PICK st : lease' = [lease EXCEPT ![r] = "none"] /\ mem' = With(r, st)
    BY <1>4 DEF Finish
  <2>2. mem'.fence = [mem.fence EXCEPT ![r] = st] BY <1>0, <2>1 DEF With, TypeOK, Ledger
  <2>3. mem.fence \in [Requests -> States] /\ lease \in [Requests -> {"none", "outer", "child"}]
    BY <1>0 DEF TypeOK, Ledger
  <2> QED BY <2>1, <2>2, <2>3
<1>5. ASSUME NEW r \in Requests, CancelLive(r) PROVE LeaseFenced'
  <2>1. lease' = lease /\ mem' = With(r, "unknown") BY <1>5 DEF CancelLive
  <2>2. With(r, "unknown").fence = [mem.fence EXCEPT ![r] = "unknown"]
        /\ mem.fence \in [Requests -> States]
    BY <1>0 DEF With, TypeOK, Ledger
  <2> QED BY <2>1, <2>2
<1>6. ASSUME NEW r \in Requests, NEW s \in Requests, ClaimClarification(r, s)
      PROVE  LeaseFenced'
  <2>1. lease' = lease /\ mem' \in {mem, [mem EXCEPT !.claim[r] = s]}
    BY <1>6 DEF ClaimClarification
  <2>2. [mem EXCEPT !.claim[r] = s].fence = mem.fence BY <1>0 DEF TypeOK, Ledger
  <2> QED BY <2>1, <2>2
<1>7. CASE RevokeWorkbenchClient
  <2>1. lease' = lease /\ \A r \in Requests : mem'.fence[r] \in {mem.fence[r], "unknown"}
    BY <1>0, <1>7 DEF RevokeWorkbenchClient, TypeOK, Ledger
  <2> QED BY <2>1
<1>8. CASE Close \/ UNCHANGED vars BY <1>8 DEF Close, vars, process
<1>9. CASE Down \/ Restart BY <1>9 DEF Down, Restart, process, LeaseInv, DownIsIdle
<1> QED BY <1>1, <1>2, <1>3, <1>4, <1>5, <1>6, <1>7, <1>8, <1>9 DEF Next

(* What every step of a gateway that answers has in common: the promise of *)
(* Serve.  That a stop that was saved is found everywhere is the           *)
(* inductive invariant's.                                                  *)
LEMMA Served ==
  ASSUME TypeOK', StopsLast', phase # "down", phase' # "down",
         \A r \in Requests :
           /\ mem'.fence[r] \in Turns!Moves(mem.fence[r])
           /\ disk'.fence[r] \in {disk.fence[r]} \cup Turns!Moves(mem.fence[r]),
         Active' \subseteq Active \/ \E r \in Requests : Turns!Begin(r),
         stops.canceled \cup stops.cut \subseteq (stops.canceled \cup stops.cut)'
  PROVE  Turns!TurnNext
<1>1. mem'.fence \in [Requests -> Turns!States] /\ disk'.fence \in [Requests -> Turns!States]
  BY DEF TypeOK, Ledger, States, Turns!States
<1>2. \A r \in (stops.canceled \cup stops.cut)' : mem'.fence[r] = "unknown" /\ disk'.fence[r] = "unknown"
  BY DEF StopsLast, CancelIsDurable, RevokeIsDurable
<1> QED BY <1>1, <1>2 DEF Turns!Serve, Turns!TurnNext

(* The edges, spelled out.                                                 *)
LEMMA MovesAre ==
  /\ \A st : st \in Turns!Moves(st)
  /\ {"running", "unknown"} \subseteq Turns!Moves("absent")
  /\ {"waiting", "done", "unknown"} \subseteq Turns!Moves("running")
  /\ {"running", "unknown"} \subseteq Turns!Moves("waiting")
  BY DEF Turns!Moves, Turns!Edges, Turns!States

(* One request moves, and it saves a state that follows the one shown.     *)
LEMMA OneMoves ==
  ASSUME LeaseInv, LeaseInv', NEW r \in Requests, NEW a \in States, NEW b \in States,
         mem' = With(r, a), disk' \in {disk, With(r, b)},
         a \in Turns!Moves(mem.fence[r]), b \in Turns!Moves(mem.fence[r]),
         phase # "down", phase' = phase,
         Active' \subseteq Active \/ \E o \in Requests : Turns!Begin(o),
         stops.canceled \subseteq stops'.canceled, stops.cut \subseteq stops'.cut
  PROVE  Turns!TurnNext
<1>1. /\ mem'.fence[r] = a /\ disk'.fence[r] \in {disk.fence[r], b}
      /\ \A o \in Requests \ {r} :
           mem'.fence[o] = mem.fence[o] /\ disk'.fence[o] \in {disk.fence[o], mem.fence[o]}
  BY OneFence DEF LeaseInv
<1>2. ASSUME NEW o \in Requests
      PROVE  /\ mem'.fence[o] \in Turns!Moves(mem.fence[o])
             /\ disk'.fence[o] \in {disk.fence[o]} \cup Turns!Moves(mem.fence[o])
  <2>1. CASE o = r BY <1>1, <2>1
  <2>2. CASE o # r BY <1>1, <2>2, MovesAre
  <2> QED BY <2>1, <2>2
<1> QED BY <1>2, Served DEF LeaseInv, StopsLast

(* Nothing but a context, a claim or a marker changes.                     *)
LEMMA NothingMoves ==
  ASSUME LeaseInv, LeaseInv', phase # "down", phase' # "down", mem'.fence = mem.fence,
         disk'.fence \in {disk.fence, mem.fence}, UNCHANGED <<lease, stops>>
  PROVE  Turns!TurnNext
<1>1. Active' = Active BY DEF Active
<1>2. \A r \in Requests : /\ mem'.fence[r] \in Turns!Moves(mem.fence[r])
                          /\ disk'.fence[r] \in {disk.fence[r]} \cup Turns!Moves(mem.fence[r])
  BY MovesAre
<1> QED BY <1>1, <1>2, Served DEF LeaseInv, StopsLast

(* A lease begins a turn; an admission that is not saved fences it.        *)
LEMMA AdmitTurn ==
  ASSUME TurnInv, LeaseInv', NEW r \in Requests, BeginWorkbench(r) \/ ContinueWorkbench(r)
  PROVE  Turns!TurnNext
<1>1. /\ mem.fence[r] \in Startable /\ phase = "up" /\ UNCHANGED <<phase, stops>>
      /\ \E kind \in {"outer", "child"} : Admit(r, kind)
  BY DEF BeginWorkbench, ContinueWorkbench, Startable, Up
<1>2. PICK kind \in {"outer", "child"} : Admit(r, kind) BY <1>1
<1>3. {"running", "unknown"} \subseteq Turns!Moves(mem.fence[r]) BY <1>1, MovesAre DEF Startable
<1>4. CASE mem' = With(r, "running") /\ Saved(With(r, "running")) /\ Grant(r, kind)
  <2>1. lease' = [lease EXCEPT ![r] = kind] /\ disk' = mem' BY <1>4 DEF Grant, Saved
  <2>2. mem'.fence[r] = "running" /\ disk'.fence[r] = "running"
    BY <1>4, <2>1 DEF With, TurnInv, LeaseInv, TypeOK, Ledger
  <2>3. r \notin Active BY <1>1 DEF Active, TurnInv, LeaseFenced, Startable
  <2>4. Active' = Active \cup {r} BY <1>2, <2>1 DEF Active, TurnInv, LeaseInv, TypeOK
  <2>5. mem.fence[r] # "running" BY <1>1 DEF Startable
  <2>6. Turns!Begin(r) BY <2>2, <2>3, <2>4, <2>5 DEF Turns!Begin
  <2> QED BY <1>1, <1>3, <1>4, <2>1, <2>6, OneMoves DEF TurnInv, States
<1>5. CASE mem' = With(r, "unknown") /\ SaveFailed(With(r, "running"))
           /\ UNCHANGED <<lease, ctx, rights, replayed>>
  <2>1. Active' = Active BY <1>5 DEF Active
  <2>2. disk' \in {disk, With(r, "running")} BY <1>5 DEF SaveFailed
  <2> QED BY <1>1, <1>3, <1>5, <2>1, <2>2, OneMoves DEF TurnInv, States
<1> QED BY <1>2, <1>4, <1>5 DEF Admit

(* A draft clear that fails, like a finish, ends the turn of its lease.    *)
LEMMA DraftTurn ==
  ASSUME TurnInv, LeaseInv', NEW r \in Requests, RecordDraftClear(r)
  PROVE  Turns!TurnNext
<1>1. /\ phase # "down" /\ UNCHANGED <<lease, phase, stops>> /\ mem.fence[r] = "running"
  BY DEF RecordDraftClear, TurnInv, LeaseInv, DownIsIdle, history
<1>2. CASE Saved(mem) /\ UNCHANGED <<mem, ctx>>
  BY <1>1, <1>2, NothingMoves DEF TurnInv, Saved
<1>3. CASE SaveFailed(mem) /\ mem' = With(r, "unknown") /\ EndOf({r})
  <2>1. mem = With(r, "running") BY <1>1 DEF With, TurnInv, LeaseInv, TypeOK, Ledger
  <2>2. disk' \in {disk, With(r, "running")} BY <1>3, <2>1 DEF SaveFailed
  <2>3. Active' = Active BY <1>1 DEF Active
  <2>4. "unknown" \in Turns!Moves(mem.fence[r]) /\ "running" \in Turns!Moves(mem.fence[r])
    BY <1>1, MovesAre
  <2> QED BY <1>1, <1>3, <2>2, <2>3, <2>4, OneMoves DEF TurnInv, States
<1> QED BY <1>2, <1>3 DEF RecordDraftClear

(* What a stopped lease reports is `unknown`; any other one still runs.    *)
LEMMA FinishTurn ==
  ASSUME TurnInv, LeaseInv', NEW r \in Requests, Finish(r)
  PROVE  Turns!TurnNext
<1>1. /\ phase # "down" /\ UNCHANGED <<phase, stops>> /\ lease[r] # "none"
      /\ lease' = [lease EXCEPT ![r] = "none"]
  BY DEF Finish, TurnInv, LeaseInv, DownIsIdle
<1>2. PICK state \in Outcome(r) :
        \/ mem' = With(r, state) /\ Saved(With(r, state))
        \/ mem' = With(r, "unknown") /\ SaveFailed(With(r, state))
  BY DEF Finish
<1>3. PICK kept \in {state, "unknown"} : mem' = With(r, kept) BY <1>2
<1>4. disk' \in {disk, With(r, state)} BY <1>2 DEF Saved, SaveFailed
<1>5. state \in States /\ kept \in States BY <1>3 DEF Outcome, States
<1>6. state \in Turns!Moves(mem.fence[r]) /\ kept \in Turns!Moves(mem.fence[r])
  <2>1. CASE ctx[r] = "ended"
    <3>1. state = "unknown" /\ kept = "unknown" BY <1>3, <2>1 DEF Outcome
    <3>2. mem.fence[r] \in {"running", "unknown"} BY <1>1 DEF TurnInv, LeaseFenced
    <3> QED BY <3>1, <3>2, MovesAre
  <2>2. CASE ctx[r] # "ended"
    <3>1. state \in {"done", "waiting", "unknown"} BY <2>2 DEF Outcome
    <3>2. mem.fence[r] = "running" BY <1>1, <2>2 DEF TurnInv, LeaseInv, RunsFenced, TypeOK
    <3> QED BY <1>3, <3>1, <3>2, MovesAre
  <2> QED BY <2>1, <2>2
<1>7. Active' \subseteq Active BY <1>1 DEF Active, TurnInv, LeaseInv, TypeOK
<1> QED BY <1>1, <1>3, <1>4, <1>5, <1>6, <1>7, OneMoves DEF TurnInv

(* Stops.                                                                  *)
LEMMA CancelTurn ==
  ASSUME TurnInv, LeaseInv', NEW r \in Requests, CancelLive(r)
  PROVE  Turns!TurnNext
<1>1. /\ phase # "down" /\ UNCHANGED <<lease, phase>> /\ mem.fence[r] \in Live
      /\ mem' = With(r, "unknown") /\ disk' \in {disk, With(r, "unknown")}
  BY DEF CancelLive, Serving, Saved, SaveFailed
<1>2. stops.canceled \subseteq stops'.canceled /\ stops.cut \subseteq stops'.cut
  BY DEF CancelLive, TurnInv, LeaseInv, TypeOK, Stops
<1>3. Active' = Active BY <1>1 DEF Active
<1>4. "unknown" \in Turns!Moves(mem.fence[r]) BY <1>1, MovesAre DEF Live
<1> QED BY <1>1, <1>2, <1>3, <1>4, OneMoves DEF TurnInv, States

LEMMA RevokeTurn ==
  ASSUME TurnInv, LeaseInv', RevokeWorkbenchClient
  PROVE  Turns!TurnNext
<1>1. /\ phase # "down" /\ UNCHANGED <<lease, phase>>
      /\ stops.canceled \subseteq stops'.canceled /\ stops.cut \subseteq stops'.cut
  <2>1. phase # "down" /\ UNCHANGED <<lease, phase>> BY DEF RevokeWorkbenchClient, Serving
  <2>2. \E cutting :
          stops' \in {[stops EXCEPT !.cut = @ \cup cutting, !.cutting = {}],
                     [stops EXCEPT !.cutting = cutting]}
    BY DEF RevokeWorkbenchClient
  <2>3. stops \in Stops BY DEF TurnInv, LeaseInv, TypeOK
  <2>4. stops'.canceled = stops.canceled /\ stops.cut \subseteq stops'.cut BY <2>2, <2>3 DEF Stops
  <2> QED BY <2>1, <2>4
<1>2. \A r \in Requests : mem'.fence[r] = IF mem.fence[r] \in Live THEN "unknown" ELSE mem.fence[r]
  BY DEF RevokeWorkbenchClient, TurnInv, LeaseInv, TypeOK, Ledger
<1>3. disk' \in {disk, mem'} BY DEF RevokeWorkbenchClient, Saved, SaveFailed
<1>4. Active' = Active BY <1>1 DEF Active
<1>5. ASSUME NEW r \in Requests
      PROVE  /\ mem'.fence[r] \in Turns!Moves(mem.fence[r])
             /\ disk'.fence[r] \in {disk.fence[r]} \cup Turns!Moves(mem.fence[r])
  <2>1. mem'.fence[r] \in Turns!Moves(mem.fence[r]) BY <1>2, MovesAre DEF Live
  <2> QED BY <1>3, <2>1
<1> QED BY <1>1, <1>4, <1>5, Served DEF LeaseInv, StopsLast

(* A claim moves no request.                                               *)
LEMMA ClaimTurn ==
  ASSUME TurnInv, LeaseInv', NEW r \in Requests, NEW s \in Requests, ClaimClarification(r, s)
  PROVE  Turns!TurnNext
<1> DEFINE ledger == [mem EXCEPT !.claim[r] = s]
<1>1. phase = "up" /\ UNCHANGED <<lease, phase, stops>> BY DEF ClaimClarification, Up
<1>2. mem' \in {mem, ledger} /\ disk' \in {disk, ledger}
  BY DEF ClaimClarification, Saved, SaveFailed
<1>3. ledger.fence = mem.fence BY DEF TurnInv, LeaseInv, TypeOK, Ledger
<1> QED BY <1>1, <1>2, <1>3, NothingMoves DEF TurnInv

(* The end of a process and its successor.                                 *)
LEMMA DownTurn == ASSUME TurnInv, Down PROVE Turns!TurnNext
<1>1. Active' = {} BY DEF Down, Active
<1>2. stops'.canceled = stops.canceled /\ stops'.cut = stops.cut
  BY DEF Down, TurnInv, LeaseInv, TypeOK, Stops
<1> QED BY <1>1, <1>2 DEF Down, Turns!Halt, Turns!TurnNext

LEMMA RestartTurn == ASSUME TurnInv, Restart PROVE Turns!TurnNext
<1>1. mem'.fence = [r \in Requests |-> IF disk.fence[r] = "running" THEN "unknown"
                                       ELSE disk.fence[r]]
  BY DEF Restart, TurnInv, LeaseInv, TypeOK, Ledger
<1>2. phase = "down" /\ phase' = "up" /\ UNCHANGED <<disk, lease, stops>>
  BY DEF Restart, process, history
<1>3. Active' = Active BY <1>2 DEF Active
<1> QED BY <1>1, <1>2, <1>3 DEF Turns!Restart, Turns!TurnNext

LEMMA TurnStep == TurnInv /\ LeaseInv' /\ [Next]_vars => [Turns!TurnNext]_(Turns!turns)
<1> SUFFICES ASSUME TurnInv, LeaseInv', [Next]_vars, ~UNCHANGED vars PROVE Turns!TurnNext
  BY DEF Turns!turns, vars, process, history, Active
<1>1. ASSUME NEW r \in Requests,
             \/ BeginWorkbench(r) \/ ContinueWorkbench(r) \/ DeadlinePasses(r)
             \/ RecordDraftClear(r) \/ Finish(r) \/ CancelLive(r)
             \/ \E s \in Requests : ClaimClarification(r, s)
      PROVE  Turns!TurnNext
  <2>1. CASE DeadlinePasses(r)
    BY <2>1, NothingMoves DEF DeadlinePasses, TurnInv, Serving, history
  <2> QED BY <1>1, <2>1, AdmitTurn, DraftTurn, FinishTurn, CancelTurn, ClaimTurn
<1>2. CASE Close BY <1>2, NothingMoves DEF Close, TurnInv, Up, history
<1>3. CASE RevokeWorkbenchClient \/ Down \/ Restart
  BY <1>3, RevokeTurn, DownTurn, RestartTurn
<1> QED BY <1>1, <1>2, <1>3 DEF Next

LEMMA TurnStart == Init => Turns!TurnInit /\ LeaseFenced
<1> SUFFICES ASSUME Init PROVE Turns!TurnInit /\ LeaseFenced OBVIOUS
<1>1. Active = {} BY DEF Init, Active
<1>2. /\ mem.fence = [r \in Requests |-> "absent"] /\ disk.fence = mem.fence
      /\ stops.canceled \cup stops.cut = {}
  BY DEF Init
<1> QED BY <1>1, <1>2 DEF Init, Turns!TurnInit, LeaseFenced

(* The workbench keeps the promise of TurnLedger: nobody acts without a    *)
(* saved fence, a request moves along the small graph whatever finishes    *)
(* late, a stop that was saved is everywhere, and a restart shows what     *)
(* was saved with nothing under way.                                       *)
THEOREM TurnsImplemented == Spec => TurnsKept
<1>1. Init => Turns!TurnInit /\ LeaseFenced BY TurnStart
<1>2. LeaseInv /\ LeaseFenced /\ [Next]_vars => LeaseFenced' BY LeaseFencedNext DEF TurnInv
<1>3. LeaseInv /\ LeaseInv' /\ LeaseFenced /\ [Next]_vars => [Turns!TurnNext]_(Turns!turns)
  BY TurnStep DEF TurnInv
<1> QED BY <1>1, <1>2, <1>3, LeaseInvariant, PTL DEF Spec, TurnsKept, Turns!TurnSpec
=============================================================================
