----------------------------- MODULE TaskTriage -----------------------------
(***************************************************************************)
(* What the kernel exports of its tasks, jobs and unit requests            *)
(* (kernel/runtime_projection.py, kernel/unit_request_runtime.py) and the  *)
(* card task_triage.py makes of it for a task: its state, its phase and    *)
(* what it waits for or is blocked by.  Texts, names and counts that only  *)
(* fill a line of text are left out.                                       *)
(*                                                                         *)
(* A request is a record: id; task; unit, the type that was inferred ("":  *)
(* none); blocking; released, its start package is there; boot, it refers  *)
(* to a bootstrap job; left, the units it misses; open.  A request has a   *)
(* reservation once its type is known.  Lists keep the order of the tables *)
(* they are made from.                                                     *)
(***************************************************************************)
EXTENDS Readiness, FiniteSets

\* The value of the first rule that holds; the last one always does.
FirstOf(rules) ==
  rules[CHOOSE i \in DOMAIN rules : rules[i][1] /\ \A k \in 1..(i - 1) : ~rules[k][1]][2]

Some(list, P(_)) == \E i \in DOMAIN list : P(list[i])

\* The entries of a list at the indices I in their order, and those of which P
\* holds (SelectSeq by ranks, which says where each entry comes from).
At(list, I) ==
  [k \in 1..Cardinality(I) |-> list[CHOOSE i \in I : Cardinality({j \in I : j < i}) = k - 1]]

Those(list, P(_)) == At(list, {i \in DOMAIN list : P(list[i])})

-----------------------------------------------------------------------------
(* What is exported: rows of requests and the status of the capability.    *)

\* request_reason: what an open request waits for.
RequestReason(w, r) ==
  FirstOf(<< <<r.released /\ r.blocking, "start_package_released">>,
             <<r.released, "reinforcement_after_start">>,
             <<r.boot /\ r.blocking, "bootstrap_in_progress">>,
             <<r.boot, "reinforcement_bootstrapping">>,
             <<QueueOf(r.unit) = "", "inference_pending">>,
             <<~CanIssueNow(w, r.unit, QueueOf(r.unit)), ReadinessReason(w, r.unit, QueueOf(r.unit))>>,
             <<r.blocking, "waiting_dispatch">>,
             <<TRUE, "reinforcement_waiting_dispatch">> >>)

\* The row of a request; reserved says that a row of a reservation goes with it.
Row(w, r) ==
  [id |-> r.id, task |-> r.task, unit |-> r.unit, blocking |-> r.blocking, released |-> r.released,
   left |-> r.left, reason |-> RequestReason(w, r), reserved |-> r.unit # ""]

Rows(w, reqs) ==
  LET open == Those(reqs, LAMBDA r : r.open)
  IN  [i \in DOMAIN open |-> Row(w, open[i])]

NoStatus ==
  [on |-> FALSE, phase |-> "", blocker |-> "", jobs |-> FALSE, pending |-> FALSE,
   released |-> FALSE, reinforce |-> FALSE, directive |-> FALSE]

\* The reasons that block a capability, the first one first.
BlockerOf ==
  << <<"world_sync_stale", "world_sync_stale">>, <<"inference_pending", "request_inference_pending">>,
     <<"deploy_required", "deploy_required">>, <<"missing_prerequisite", "missing_prerequisite">>,
     <<"disabled_prerequisite", "disabled_prerequisite">>, <<"low_power", "low_power">>,
     <<"producer_disabled", "producer_disabled">>, <<"queue_blocked", "queue_blocked">>,
     <<"insufficient_funds", "insufficient_funds">> >>

\* build_capability_status_snapshot, of all open requests, whatever task asked.
CapabilityStatus(on, jobs, reqs, rows, directive) ==
  LET open      == Those(reqs, LAMBDA r : r.open)
      dispatch  == Some(open, LAMBDA r : ~r.boot /\ ~r.released)
      boots     == Some(open, LAMBDA r : r.boot /\ ~r.released)
      released  == Some(open, LAMBDA r : r.released)
      reinforce == Some(open, LAMBDA r : ~r.blocking)
      reasons   == [i \in DOMAIN BlockerOf |->
                      <<Some(rows, LAMBDA x : x.reason = BlockerOf[i][1]), BlockerOf[i][2]>>]
  IN IF ~on THEN NoStatus ELSE
     [on |-> TRUE,
      phase |-> FirstOf(<< <<dispatch, "dispatch">>, <<boots, "bootstrapping">>,
                           <<released \/ reinforce, "fulfilling">>, <<jobs, "executing">>,
                           <<directive, "directive_pending">>, <<TRUE, "idle">> >>),
      blocker |-> FirstOf(reasons \o << <<dispatch, "pending_requests_waiting_dispatch">>,
                                        <<boots, "bootstrap_in_progress">>, <<TRUE, "">> >>),
      jobs |-> jobs, pending |-> open # <<>>, released |-> released, reinforce |-> reinforce,
      directive |-> directive]

\* _capability_has_actionable_demand: may the capability act unasked?
HasDemand(rows, status) ==
  rows # <<>> \/ status.directive \/ status.pending \/ status.released \/ status.reinforce

-----------------------------------------------------------------------------
(* The pipeline of units: how a reason is shown and which comes first.     *)

BlockingReason ==
  {"missing_prerequisite", "disabled_prerequisite", "producer_disabled", "queue_blocked",
   "deploy_required", "low_power", "insufficient_funds"}
BootstrapReason == {"bootstrap_in_progress", "reinforcement_bootstrapping"}
DispatchReason  == {"waiting_dispatch", "reinforcement_waiting_dispatch", "inference_pending"}
DeliveryReason  == {"start_package_released", "reinforcement_after_start"}

Card(state, phase, waits, blocks) ==
  [state |-> state, phase |-> phase, waits |-> waits, blocks |-> blocks]

\* classify_unit_pipeline_reason
PipelineCard(reason) ==
  FirstOf(<< <<reason = "world_sync_stale", Card("degraded", "world_sync", reason, reason)>>,
             <<reason \in BootstrapReason, Card("running", "bootstrapping", reason, "")>>,
             <<reason \in DispatchReason, Card("running", "dispatch", reason, "")>>,
             <<reason \in BlockingReason, Card("blocked", "blocked", reason, reason)>>,
             <<reason \in DeliveryReason, Card("waiting_units", "reservation", reason, "")>>,
             <<TRUE, Card("waiting_units", "reservation", "unit_reservation", "")>> >>)

Priority(reason) ==
  FirstOf(<< <<reason = "world_sync_stale", 0>>, <<reason \in BlockingReason, 1>>,
             <<reason \in BootstrapReason, 2>>, <<reason \in DispatchReason, 3>>,
             <<reason \in DeliveryReason, 4>>, <<TRUE, 5>> >>)

\* _unit_pipeline_focus_sort_key: the worst reason, then what an agent waits
\* for, then what misses most.  Rows alike in these are ordered by the times
\* and names of their reservations, which is left open.
SortKey(x) == <<Priority(x.reason), IF x.blocking THEN 0 ELSE 1, -x.left>>

FocusBefore(x, y) ==
  \E i \in 1..3 : SortKey(x)[i] < SortKey(y)[i] /\ \A k \in 1..(i - 1) : SortKey(x)[k] = SortKey(y)[k]

NoRow == [id |-> 0, task |-> 0, unit |-> "", blocking |-> FALSE, released |-> FALSE, left |-> 0,
          reason |-> "", reserved |-> FALSE]

\* The row the dashboard tells the player about first.
Focus(rows) ==
  IF rows = <<>> THEN NoRow
  ELSE rows[CHOOSE i \in DOMAIN rows : \A k \in DOMAIN rows : ~FocusBefore(rows[k], rows[i])]

OfTask(rows, t) == Those(rows, LAMBDA x : x.task = t)

TaskFocus(rows, t) == Focus(OfTask(rows, t))

\* _find_request_for_reservation: the card is about the first reservation of
\* the task and its request, or the first request if none has one.
FirstRow(rows) ==
  LET held == Those(rows, LAMBDA x : x.reserved) IN
  FirstOf(<< <<held # <<>>, (held \o <<NoRow>>)[1]>>, <<TRUE, (rows \o <<NoRow>>)[1]>> >>)

-----------------------------------------------------------------------------
(* The card of a task t: its id, whether it is the capability, its status  *)
(* and the workflow its words ask for ("": none).  Facts f: rows; jobs, the *)
(* live jobs with their task, expert and state; groups, the tasks that     *)
(* have units; status, that of the capability.                             *)

\* collect_task_triage_inputs: of the messages of a task the last warning
\* counts, however old, and an info only if no warning is older than it.
Inputs(stale, truth, asked, messages) ==
  LET warned == Some(messages, LAMBDA m : m = "warning") IN
  [stale |-> stale, truth |-> truth, asked |-> asked, warning |-> warned,
   info |-> messages # <<>> /\ messages[Len(messages)] = "info"]

JobsOf(f, t) == {j \in f.jobs : j.task = t.id}

\* workflow_phase
WorkflowPhase(t, f) ==
  LET runs(expert) == \E j \in JobsOf(f, t) : j.expert = expert
      attack == t.flow = "attack"
  IN FirstOf(<< <<t.flow = "", "">>,
                <<~attack /\ runs("recon"), "recon_running">>,
                <<attack /\ runs("combat"), "attack_running">>,
                <<t.id \in f.groups, IF attack THEN "ready_to_attack" ELSE "ready_to_recon">>,
                <<OfTask(f.rows, t.id) # <<>>, "waiting_for_units">>,
                <<TRUE, "request_units_first">> >>)

\* The card of the capability; truth is what its facts say against the faction.
CapabilityCard(status, truth) ==
  LET phase == FirstOf(<< <<status.phase # "", status.phase>>, <<status.jobs, "dispatch">>, <<TRUE, "idle">> >>)
      block == FirstOf(<< <<status.blocker # "", status.blocker>>, <<TRUE, truth>> >>)
      busy  == \/ phase \in {"bootstrapping", "dispatch", "fulfilling", "executing"}
               \/ status.jobs \/ status.pending \/ status.released \/ status.reinforce
      waits == FirstOf(<< <<block # "", block>>, <<status.released, "start_package_released">>,
                          <<status.reinforce, "reinforcement">>, <<status.pending, "pending_requests">>,
                          <<TRUE, "">> >>)
  IN Card(FirstOf(<< <<truth # "", "blocked">>, <<busy, "running">>, <<TRUE, "idle">> >>), phase, waits, block)

\* _capability_blocker_detail: the row told with what blocks the capability.
\* Rows say "inference_pending" where the blocker is "request_inference_pending".
BlockerRow(blocker, rows) ==
  LET told == Those(rows, LAMBDA x : \/ x.reason = blocker
                                         \/ blocker \in {"pending_requests_waiting_dispatch", "bootstrap_in_progress"})
  IN  (told \o <<NoRow>>)[1]

Terminal == {"succeeded", "failed", "aborted", "partial"}

\* What is told of a task that is not the capability, from its own rows.
OrdinaryCards(t, f, in) ==
  LET mine == OfTask(f.rows, t.id)
      job(state) == \E j \in JobsOf(f, t) : j.state = state
  IN << <<mine # <<>>, PipelineCard(FirstRow(mine).reason)>>,
        <<job("waiting"), Card("waiting", "job_waiting", "job_waiting", "")>>,
        <<job("running"), Card("running", "job_running", "", "")>>,
        <<t.id \in f.groups \/ in.info, Card("running", "task_active", "", "")>>,
        <<TRUE, Card("idle", "task_active", "scheduler", "")>> >>

\* Mutant of Triage: jobs are looked at before the rows.
TriageJobsFirst(t, f, in) ==
  FirstOf(<< <<t.status \in Terminal, Card("completed", t.status, "", "")>>,
             <<in.stale, Card("degraded", "world_sync", "world_stale", "world_stale")>>,
             <<in.asked, Card("waiting_player", "question", "player_response", "")>>,
             <<in.warning, Card("blocked", "warning", "", "task_warning")>>,
             <<t.cap, CapabilityCard(f.status, in.truth)>>,
             <<JobsOf(f, t) # {}, Card("running", "job_running", "", "")>> >>
          \o OrdinaryCards(t, f, in))

\* build_task_triage
Triage(t, f, in) ==
  FirstOf(<< <<t.status \in Terminal, Card("completed", t.status, "", "")>>,
             <<in.stale, Card("degraded", "world_sync", "world_stale", "world_stale")>>,
             <<in.asked, Card("waiting_player", "question", "player_response", "")>>,
             <<in.warning, Card("blocked", "warning", "", "task_warning")>>,
             <<t.cap, CapabilityCard(f.status, in.truth)>> >>
          \o OrdinaryCards(t, f, in))

=============================================================================
