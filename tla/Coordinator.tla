----------------------------- MODULE Coordinator -----------------------------
(***************************************************************************)
(* How the Adjutant sees the battle before it lets a model classify a      *)
(* line, and what it suggests: the judgement of the battlefield, the       *)
(* domains of tasks, the alerts, and the task a line goes on with          *)
(* (adjutant/adjutant.py, world_model/core.py).  Pure operators; StatusBoard *)
(* composes them with the kernel's exports.                                *)
(*                                                                         *)
(* A text is known by how many hints of each domain it contains.  Names,   *)
(* previews and the wording of alerts are left out.                        *)
(***************************************************************************)
EXTENDS TaskTriage

Points(p, n) == IF p THEN n ELSE 0

\* The first of the indices that no other one beats.
TopOf(indices, Beats(_, _)) ==
  CHOOSE i \in indices : \A k \in indices : ~Beats(k, i) /\ (k < i => Beats(i, k))

Domain == {"combat", "economy", "recon"}

\* _classify_text_domain, _task_domain: hints of combat count first.
TextDomain(text) ==
  FirstOf(<< <<text["combat"] > 0, "combat">>, <<text["economy"] > 0, "economy">>,
             <<text["recon"] > 0, "recon">>, <<TRUE, "general">> >>)

-----------------------------------------------------------------------------
(* The battlefield.  A view v: ours and theirs, the worth of the armies,   *)
(* and whether the game tells it (valued); units and enemies, their        *)
(* numbers; low, jam, attack: power, a queue, the base is in trouble; known, *)
(* something of the enemy is; pending and reserved, open requests and      *)
(* reservations; fighters, the units that can attack; taken, the units in  *)
(* groups of tasks; grouped, the number of those in ordinary tasks' groups. *)

IsView(v) ==
  /\ {v.ours, v.theirs, v.units, v.enemies, v.grouped} \subseteq Nat
  /\ {v.valued, v.low, v.jam, v.attack, v.known, v.pending, v.reserved} \subseteq BOOLEAN
  /\ IsFiniteSet(v.fighters) /\ IsFiniteSet(v.taken)

\* By a fifth, and by one at least.
Outweighs(a, b) == 5 * a >= 6 * b /\ a >= b + 1

Disposition(v) ==
  FirstOf(<< <<Outweighs(v.theirs, v.ours), "under_pressure">>,
             <<v.ours > 0 /\ Outweighs(v.ours, v.theirs), "advantage">>,
             <<v.low \/ v.jam, "stalled">>, <<TRUE, "stable">> >>)

FocusOn(v, disposition) ==
  FirstOf(<< <<disposition = "under_pressure", "defense">>,
             <<v.low \/ v.jam \/ v.pending, "economy">>, <<v.known, "recon">>, <<TRUE, "general">> >>)

Posture(v, disposition) ==
  FirstOf(<< <<v.low, "stabilize_power">>, <<v.jam, "unblock_queue">>,
             <<v.pending \/ v.reserved, "satisfy_requests">>,
             <<v.attack \/ disposition = "under_pressure", "defend_base">>,
             <<~v.known, "expand_recon">>, <<disposition = "advantage", "press_advantage">>,
             <<TRUE, "maintain_posture">> >>)

\* battlefield_snapshot of the world model.
Battlefield(v) ==
  LET d == Disposition(v) IN
  [disposition |-> d, focus |-> FocusOn(v, d), posture |-> Posture(v, d),
   free |-> Cardinality(v.fighters \ v.taken), attack |-> v.attack]

\* The Adjutant's own judgement, for a world model that gives none: numbers
\* count beside worth, and an advantage calls for an attack.
OwnBattlefield(v) ==
  LET ours   == IF v.valued THEN v.ours ELSE v.units
      theirs == IF v.valued THEN v.theirs ELSE v.enemies
      d == FirstOf(<< <<ours + theirs + v.units + v.enemies = 0, "unknown">>,
                      <<Outweighs(theirs, ours) \/ Outweighs(v.enemies, v.units), "under_pressure">>,
                      <<Outweighs(ours, theirs) \/ Outweighs(v.units, v.enemies), "advantage">>,
                      <<v.low \/ v.jam, "stalled">>, <<TRUE, "stable">> >>)
      left == Cardinality(v.fighters) - v.grouped
  IN [disposition |-> d, focus |-> IF d = "advantage" THEN "attack" ELSE FocusOn(v, d),
      posture |-> Posture(v, d), free |-> IF left > 0 THEN left ELSE 0, attack |-> v.attack]

-----------------------------------------------------------------------------
(* Entries.  An active task e as the classifier sees it: id; cap; text; map, *)
(* its text speaks of the map; flow, its workflow ("": none), with wphase; *)
(* expert, of its first job; group, the size of its group; and state,      *)
(* phase, waits, blocks of its card.                                       *)

FlowDomain(flow) ==
  FirstOf(<< <<flow = "recon", "recon">>, <<flow = "attack", "combat">>, <<TRUE, "general">> >>)

\* _infer_task_domain: what a task does counts more than what it says.
DomainOf(e) ==
  FirstOf(<< <<e.cap \/ e.expert \in {"economy", "deploy"}, "economy">>,
             <<e.expert \in {"recon", "combat"}, e.expert>>,
             <<e.flow # "", FlowDomain(e.flow)>>,
             <<e.phase \in {"dispatch", "bootstrapping", "fulfilling"}, "economy">>,
             <<e.group > 0 /\ e.waits = "unit_reservation" /\ e.text["recon"] > 0, "recon">>,
             <<e.group > 0 /\ e.blocks = "task_warning" /\ e.text["combat"] > 0, "combat">>,
             <<TRUE, TextDomain(e.text)>> >>)

\* _build_battle_groups: tasks that fight or scout, the six largest.
InField(e) ==
  DomainOf(e) \in {"combat", "recon"} /\ (e.group > 0 \/ e.state \in {"waiting_units", "running"})

Larger(e, f) ==
  \/ e.group > f.group
  \/ e.group = f.group /\ DomainOf(e) = "combat" /\ DomainOf(f) = "recon"
  \/ e.group = f.group /\ DomainOf(e) = DomainOf(f) /\ e.id < f.id

BattleGroups(es) ==
  {i \in DOMAIN es : InField(es[i]) /\
     Cardinality({k \in DOMAIN es : InField(es[k]) /\ Larger(es[k], es[i])}) < 6}

\* _build_task_overview
InState(es, state) == {i \in DOMAIN es : es[i].state = state}

-----------------------------------------------------------------------------
(* Alerts, for a situation s: stale; attack, low, jam as in a view; truth, *)
(* the roster does not fit the faction; blocker, of the capability; ready, *)
(* finished items nobody has placed; off, disabled structures; waiting, a  *)
(* request is open.                                                        *)

\* An alert of the capability that only repeats the one of power or of the
\* queue is left out (capability_coordinator_alert, _coordinator_alerts).
CapabilityAlert(s) ==
  /\ s.blocker # ""
  /\ ~(s.blocker = "low_power" /\ s.low)
  /\ ~(s.blocker = "queue_blocked" /\ s.jam)

AlertRules(s) ==
  << <<"world_stale", s.stale>>, <<"base_under_attack", s.attack>>,
     <<"capability_truth_blocked", s.truth>>, <<"low_power", s.low>>,
     <<"capability", CapabilityAlert(s)>>,
     <<"queue_ready_items", s.ready>>, <<"queue_blocked", ~s.ready /\ s.jam>>,
     <<"disabled_structures", s.off>>, <<"reservation_waiting", s.waiting>> >>

Raised(s) == {i \in 1..9 : AlertRules(s)[i][2]}

\* The first five are kept.
Alerts(s) ==
  LET rules  == AlertRules(s)
      raised == {i \in 1..9 : rules[i][2]}
  IN  {rules[i][1] : i \in {k \in raised : Cardinality({j \in raised : j < k}) < 5}}

\* The line of status begins with the first of them.
Headline(s) ==
  IF Raised(s) = {} THEN "" ELSE AlertRules(s)[CHOOSE i \in Raised(s) : \A k \in Raised(s) : i <= k][1]

\* What blocks the capability is among the alerts, however many there are.
BlockerIsAlerted(s) ==
  s.blocker # "" => Alerts(s) \cap {"capability", "low_power", "queue_ready_items", "queue_blocked"} # {}

-----------------------------------------------------------------------------
(* Lines.  A line l: text; more, override, interrupt, the kinds of words it *)
(* has that go on with something; map, it speaks of the map; like, the     *)
(* tasks whose text it repeats; label, the task it names (0: none); few,   *)
(* it asks why so few units came.                                          *)

\* _looks_like_followup_signal
FollowsUp(l) == l.more \/ l.override \/ l.interrupt

\* _task_texts_clearly_overlap
Overlaps(l, e) == e.id \in l.like \/ (TextDomain(l.text) = "recon" /\ DomainOf(e) = "recon" /\ l.map /\ e.map)

\* _score_info_target: e's words against the line and the battlefield b.
InfoScore(l, e, b) ==
  LET said == TextDomain(l.text)
      task == TextDomain(e.text)
      both(d) == said = d /\ task = d
  IN  (IF said = "general" THEN 0 ELSE IF said = task THEN 3 ELSE -1 - Points(task = "general", 1))
      + (IF b.focus = task THEN 2 ELSE Points(b.focus # "general" /\ task # "general", 1))
      + Points(b.disposition = "under_pressure" /\ task = "combat", 2)
      + Points(b.disposition \in {"advantage", "stable"} /\ both("combat"), 1)
      + Points(b.disposition \in {"stalled", "under_pressure"} /\ both("economy"), 1)
      + (IF said = "general" THEN 0 ELSE IF e.text[said] > 3 THEN 3 ELSE e.text[said])

\* _select_info_target_task: the task named, else the best score, else one
\* the line repeats; 0 if there is none.
InfoTarget(l, es, b) ==
  LET scored == {i \in DOMAIN es : InfoScore(l, es[i], b) > 0}
      alike  == {i \in DOMAIN es : es[i].id \in l.like}
  IN IF l.label # 0 THEN l.label
     ELSE IF scored # {} THEN es[TopOf(scored, LAMBDA i, k : InfoScore(l, es[i], b) > InfoScore(l, es[k], b))].id
     ELSE IF alike # {} THEN es[CHOOSE i \in alike : \A k \in alike : i <= k].id
     ELSE 0

\* _select_query_focus_task_entry: the task a question is about.
QueryScore(l, e) ==
  LET said == TextDomain(l.text) IN
  (IF said = "general" THEN 0 ELSE IF DomainOf(e) = said THEN 4 ELSE -1)
  + (IF e.group > 6 THEN 6 ELSE e.group)
  + Points(e.state = "running", 2) + Points(e.state \in {"waiting", "waiting_units"}, 1)
  + Points(e.expert \in {"combat", "recon", "move"}, 1)

QueryTarget(l, es) ==
  LET groups == BattleGroups(es)
      scored == {i \in DOMAIN es : ~es[i].cap /\ QueryScore(l, es[i]) > 0}
      Before(i, k) == Larger(es[i], es[k])
  IN IF \E i \in DOMAIN es : l.label = es[i].id THEN l.label
     ELSE IF l.few /\ groups # {} THEN es[TopOf(groups, Before)].id
     ELSE IF scored # {} THEN es[TopOf(scored, LAMBDA i, k : QueryScore(l, es[i]) > QueryScore(l, es[k]))].id
     ELSE 0

\* _build_query_task_focus: the row of the task that is told with its card.
QueryFocus(l, es, rows) ==
  LET t == QueryTarget(l, es) IN IF t = 0 THEN NoRow ELSE TaskFocus(rows, t)

-----------------------------------------------------------------------------
(* Hints: the task a line goes on with, and how.                           *)

EarlyPhase == {"request_units_first", "waiting_for_units"}
LatePhase  == {"ready_to_recon", "recon_running", "ready_to_attack", "attack_running"}

\* _workflow_continuation_score
WorkflowScore(l, e) ==
  LET base == FirstOf(<< <<e.wphase = "request_units_first", 2>>, <<e.wphase = "waiting_for_units", 3>>,
                         <<e.wphase \in {"ready_to_recon", "ready_to_attack"}, 5>>,
                         <<e.wphase \in {"recon_running", "attack_running"}, 6>>, <<TRUE, 0>> >>)
      counts == /\ e.flow # "" /\ TextDomain(l.text) \in {"general", FlowDomain(e.flow)}
                /\ FollowsUp(l) \/ e.wphase \in LatePhase
                /\ base > 0
  IN Points(counts, base + Points(e.group > 0, 1))

Fits(l, e) ==
  LET said == TextDomain(l.text) IN said = "general" \/ said = DomainOf(e) \/ said = FlowDomain(e.flow)

HintScore(l, e) ==
  LET said  == TextDomain(l.text)
      field == said \in {"combat", "recon"}
  IN Points(said # "general", 3) + Points(e.state \in {"waiting_units", "waiting", "running"}, 2)
     + Points(e.cap /\ said = "economy", 4) + Points(e.group > 0 /\ field, 3)
     - Points(e.state = "waiting_units" /\ field, 1) + WorkflowScore(l, e)

StateRank(e) ==
  FirstOf(<< <<e.state = "running", 3>>, <<e.state = "waiting_units", 2>>, <<e.state = "waiting", 1>>, <<TRUE, 0>> >>)

HintKey(l, e) == <<HintScore(l, e), e.group, StateRank(e), Points(e.cap, 1)>>

Ahead(l, e, f) ==
  LET x == HintKey(l, e)
      y == HintKey(l, f)
  IN  \E i \in 1..4 : x[i] > y[i] /\ \A k \in 1..(i - 1) : x[k] = y[k]

Candidates(l, es) == {i \in DOMAIN es : Fits(l, es[i]) /\ HintScore(l, es[i]) > 0}

\* A workflow goes on by a follow-up, or by any line once its units are there.
WorkflowGoesOn(l, e) ==
  /\ e.flow # "" /\ TextDomain(l.text) # "economy" /\ e.wphase \in EarlyPhase \cup LatePhase
  /\ FollowsUp(l) \/ e.wphase \in LatePhase

\* What to do with the candidate e; free is the number of free fighters.
Suggestion(l, e, free) ==
  LET said   == TextDomain(l.text)
      field  == said \in {"combat", "recon"}
      joins  == FollowsUp(l) \/ Overlaps(l, e)
      supply == e.cap /\ (FollowsUp(l) \/ said = "economy")
  IN FirstOf(<< <<l.override, "override">>,
                <<supply /\ e.blocks \in {"missing_prerequisite", "request_inference_pending"}, "merge">>,
                <<supply /\ e.phase \in {"dispatch", "bootstrapping", "fulfilling"}, "merge">>,
                <<WorkflowGoesOn(l, e), "merge">>,
                <<field /\ e.group > 0 /\ free = 0 /\ joins, "merge">>,
                <<field /\ e.group > 0 /\ free > 0 /\ ~FollowsUp(l), "">>,
                <<field /\ joins, "merge">>,
                <<FollowsUp(l) \/ said = "economy", "merge">>,
                <<TRUE, "">> >>)

NoHint == [target |-> 0, how |-> ""]

\* _coordinator_hints
Hint(l, es, b) ==
  LET candidates == Candidates(l, es)
      best   == es[TopOf(candidates, LAMBDA i, k : Ahead(l, es[i], es[k]))]
      urgent == l.interrupt /\ TextDomain(l.text) = "combat" /\ b.attack
  IN CASE es = <<>> -> NoHint
       [] es # <<>> /\ candidates = {} -> IF urgent THEN [target |-> 0, how |-> "interrupt"] ELSE NoHint
       [] OTHER -> [target |-> best.id, how |-> IF urgent THEN "interrupt" ELSE Suggestion(l, best, b.free)]

\* _apply_coordinator_hints: a classification c without a target or a way
\* of its own takes the hint's.
Applied(c, hint) ==
  LET target == IF c.target = 0 THEN hint.target ELSE c.target IN
  CASE c.type = "info" -> [c EXCEPT !.target = target]
    [] c.type = "command" -> [c EXCEPT !.target = target, !.how = IF @ = "" THEN hint.how ELSE @]
    [] OTHER -> c

-----------------------------------------------------------------------------
(* Promises.                                                               *)

\* A line that goes on with something is never left to open a task of its
\* own when some task is a candidate; and a fresh order to the field leaves
\* a group alone as long as fighters are free, unless a workflow's units are
\* there for it (_coordinator_hints).
FollowUpJoins(l, e, free) == FollowsUp(l) => Suggestion(l, e, free) # ""

FreshOrderStaysNew(l, e, free) ==
  (~FollowsUp(l) /\ TextDomain(l.text) \in {"combat", "recon"} /\ e.group > 0 /\ free > 0)
    => (Suggestion(l, e, free) = "merge" => e.wphase \in LatePhase)

\* News of the enemy, told while it is the stronger, goes to a task that
\* speaks of fighting if there is one (_score_info_target).
NewsFindsFighters(l, es, b) ==
  (/\ l.label = 0 /\ TextDomain(l.text) = "combat" /\ b.disposition = "under_pressure"
   /\ \E i \in DOMAIN es : TextDomain(es[i].text) = "combat")
    => \E i \in DOMAIN es : es[i].id = InfoTarget(l, es, b) /\ TextDomain(es[i].text) = "combat"

\* The Adjutant, judging for itself, counts no unit as free that the world
\* model would not, as long as the groups it adds up cover all that is taken.
OwnOffersLess(v) == v.grouped >= Cardinality(v.taken) => OwnBattlefield(v).free <= Battlefield(v).free
=============================================================================
