------------------------------ MODULE TurnLedger ------------------------------
(***************************************************************************)
(* What the gateway promises of the requests of a conversation, whatever   *)
(* fails: a request acts only once the ledger says so, in memory and on    *)
(* disk; its state moves along a small graph, and nothing that acted late  *)
(* replaces an end while the gateway lives; a restart shows what it found, *)
(* with nothing under way; a stop that was saved is an end that every      *)
(* restart will find.                                                      *)
(*                                                                         *)
(* Nothing is said of leases, contexts, revocations or deadlines.          *)
(***************************************************************************)
CONSTANT Requests

VARIABLES
  up,       \* a gateway answers
  shown,    \* the state it answers for each request, or answered last
  stored,   \* the state a restart would find
  acting,   \* requests somebody works for
  stopped   \* those whose stop was saved, and then answered

turns == <<up, shown, stored, acting, stopped>>

States == {"absent", "running", "waiting", "done", "unknown"}

(* An admission may fail, and whoever waits may be stopped.                *)
Edges ==
  {<<"absent", "running">>, <<"absent", "unknown">>,
   <<"running", "waiting">>, <<"running", "done">>, <<"running", "unknown">>,
   <<"waiting", "running">>, <<"waiting", "unknown">>}
Moves(s) == {s} \cup {t \in States : <<s, t>> \in Edges}

TurnInit ==
  /\ up = TRUE
  /\ shown = [r \in Requests |-> "absent"]
  /\ stored = shown
  /\ acting = {}
  /\ stopped = {}

(* A turn begins as the request becomes `running`, and is saved first.     *)
Begin(r) ==
  /\ r \notin acting
  /\ shown[r] # "running" /\ shown'[r] = "running" /\ stored'[r] = "running"
  /\ acting' = acting \cup {r}

(* Any number of requests move on, each by one edge.  What is saved is     *)
(* what was saved before or follows what was shown.                        *)
Serve ==
  /\ up /\ up'
  /\ shown' \in [Requests -> States] /\ stored' \in [Requests -> States]
  /\ \A r \in Requests : /\ shown'[r] \in Moves(shown[r])
                         /\ stored'[r] \in {stored[r]} \cup Moves(shown[r])
  /\ acting' \subseteq acting \/ \E r \in Requests : Begin(r)
  /\ stopped \subseteq stopped'
  /\ \A r \in stopped' \ stopped : shown'[r] = "unknown" /\ stored'[r] = "unknown"

Halt ==
  /\ up' = FALSE
  /\ acting' = {}
  /\ UNCHANGED <<shown, stored, stopped>>

(* What was under way is unknown, what waits still waits.                  *)
Restart ==
  /\ ~up /\ up'
  /\ shown' = [r \in Requests |-> IF stored[r] = "running" THEN "unknown" ELSE stored[r]]
  /\ UNCHANGED <<stored, acting, stopped>>

TurnNext == Serve \/ Halt \/ Restart
TurnSpec == TurnInit /\ [][TurnNext]_turns
=============================================================================
