----------------------------- MODULE StatusBoard -----------------------------
(***************************************************************************)
(* The way of a task's state to the eyes of the player and of the          *)
(* capability's agent: kernel calls change requests, jobs, questions and   *)
(* tasks and export them to the world model (_sync_world_runtime), some of *)
(* them later or not at all; cards are made from the last export and from  *)
(* what is read live (main.py, task_triage.py).                            *)
(*                                                                         *)
(* Task 1 is an ordinary task with an agent, one that is to get units and  *)
(* scout with them; task 2 is the capability.  What units do is reduced to *)
(* deliveries: UnitRequests has the whole of it.                           *)
(***************************************************************************)
EXTENDS AgentBrief

CONSTANTS Worlds,     \* the snapshots of the world, see Readiness
          Asks,       \* what the agent may ask for: [unit, blocking, count, start]
          Kinds,      \* the kinds of messages it reports
          MaxRequests, MaxMessages

ASSUME BoardAssumption ==
  /\ \A w \in Worlds : IsWorld(w)
  /\ \A a \in Asks : a.count \in Nat /\ a.start \in 1..a.count /\ a.blocking \in BOOLEAN
  /\ Kinds \subseteq {"warning", "info"}
  /\ MaxRequests \in Nat /\ MaxMessages \in Nat

VARIABLES
  world,      \* the snapshot the world model has now
  reqs,       \* requests in order; made is the state of the bootstrap job they refer to
  cap,        \* the capability runs
  directive,  \* a note of the player to it is not too old
  taskStatus, \* of task 1
  job,        \* its job: "none" | "running" | "waiting"
  group,      \* units are in its group
  questioned, \* a question of it is pending
  messages,   \* what it reported
  asleep,     \* its agent is suspended
  facts       \* the last export

kernelVars == <<reqs, cap, directive, taskStatus, job, group, questioned, messages, asleep>>
boardVars == <<world, kernelVars, facts>>

-----------------------------------------------------------------------------
(* The export.                                                             *)

Producing(rs) == \E i \in DOMAIN rs : rs[i].made = "running"

\* The live jobs, as a set: equal ones are told apart by nothing below.
LiveJobs(rs, j) ==
  {x \in {[task |-> 1, expert |-> "recon", state |-> j], [task |-> 2, expert |-> "economy", state |-> "running"]} :
     IF x.task = 1 THEN j # "none" ELSE Producing(rs)}

\* build_world_runtime_state: rows are judged by the world as it is now.
Export(rs, c, d, j, g) ==
  LET rows == Rows(world, rs) IN
  [rows |-> rows, jobs |-> LiveJobs(rs, j), groups |-> IF g THEN {1} ELSE {},
   status |-> CapabilityStatus(c, Producing(rs), rs, rows, d)]

\* _sync_world_runtime, the last call of most operations.
Sync == facts' = Export(reqs', cap', directive', job', group')

Waits(r) == r.open /\ r.blocking /\ ~r.released /\ r.count - r.left < r.start

HasWait(rs) == \E i \in DOMAIN rs : Waits(rs[i])

\* release_ready_task_requests, for the requests of an open task.
Released(r) == [r EXCEPT !.released = @ \/ (r.count - r.left >= r.start)]

-----------------------------------------------------------------------------
(* Requests.                                                               *)

\* register_unit_request with n idle units that fit: they are assigned, what
\* is missing is produced if it can be ordered at once, and the agent sleeps
\* while a request of its is below its start package.  Producing creates the
\* capability if need be, and in any case empties its list of notes.
Ask(a, n) ==
  /\ taskStatus = "running" /\ ~asleep /\ Len(reqs) < MaxRequests
  /\ LET starts == n < a.count /\ QueueOf(a.unit) # "" /\ CanIssueNow(world, a.unit, QueueOf(a.unit))
         req == [id |-> Len(reqs) + 1, task |-> 1, unit |-> a.unit, blocking |-> a.blocking,
                 count |-> a.count, start |-> a.start, released |-> n >= a.start, left |-> a.count - n,
                 open |-> n < a.count, boot |-> starts, made |-> IF starts THEN "running" ELSE "none"]
     IN /\ reqs' = Append(reqs, req)
        /\ cap' = (cap \/ starts)
        /\ directive' = (directive /\ ~starts)
        /\ group' = (group \/ n >= a.start)
        /\ asleep' = (n < a.count /\ HasWait(reqs'))
  /\ UNCHANGED <<world, taskStatus, job, questioned, messages>>
  /\ Sync

\* reconcile_request_bootstrap of a request that got a unit; a job that has
\* ordered nothing ends if it has nothing left to make.
Reconciled(r, unordered) ==
  LET clear == [r EXCEPT !.boot = FALSE, !.made = "none"] IN
  CASE r.made = "failed" -> clear
    [] r.made = "succeeded" /\ r.left = 0 -> clear
    [] r.made = "running" /\ r.left = 0 /\ unordered -> clear
    [] OTHER -> r

\* The requests after i got a unit.
Given(i, unordered) ==
  LET r == [reqs[i] EXCEPT !.left = @ - 1, !.open = reqs[i].left > 1]
  IN  [reqs EXCEPT ![i] = Reconciled(r, unordered)]

\* A scan or a production signal gives request i a unit; task 1 wakes when
\* none of its requests waits any more.
Deliver(i, unordered) ==
  /\ reqs[i].open
  /\ LET got == Given(i, unordered)
         wakes == taskStatus = "running" /\ ~HasWait(got)
     IN /\ reqs' = IF wakes THEN [k \in DOMAIN got |-> Released(got[k])] ELSE got
        /\ group' = (group \/ \E k \in DOMAIN reqs : wakes /\ reqs'[k].released /\ (k = i \/ ~reqs[k].released))
        /\ asleep' = (asleep /\ ~wakes)
  /\ UNCHANGED <<world, cap, directive, taskStatus, job, questioned, messages>>
  /\ Sync

\* The bootstrap job ends by itself; nothing is exported.
BootEnds(i, how) ==
  /\ reqs[i].made = "running"
  /\ reqs' = [reqs EXCEPT ![i].made = how]
  /\ UNCHANGED <<world, cap, directive, taskStatus, job, group, questioned, messages, asleep, facts>>

\* A scan that gives an open request nothing clears what failed.
Rescan(i) ==
  /\ reqs[i].open /\ reqs[i].made = "failed"
  /\ reqs' = [reqs EXCEPT ![i] = Reconciled(@, FALSE)]
  /\ UNCHANGED <<world, cap, directive, taskStatus, job, group, questioned, messages, asleep, facts>>

-----------------------------------------------------------------------------
(* The ordinary task.                                                      *)

JobTurns(j) ==
  /\ taskStatus = "running" /\ j # job /\ j # "none"
  /\ job = "none" => ~asleep
  /\ job' = j
  /\ UNCHANGED <<world, reqs, cap, directive, taskStatus, group, questioned, messages, asleep>>
  /\ Sync

ExpertEnds ==
  /\ job # "none" /\ job' = "none"
  /\ UNCHANGED <<world, reqs, cap, directive, taskStatus, group, questioned, messages, asleep, facts>>

\* Its last unit dies.
GroupGone ==
  /\ group /\ group' = FALSE
  /\ UNCHANGED <<world, reqs, cap, directive, taskStatus, job, questioned, messages, asleep>>
  /\ Sync

Question ==
  /\ taskStatus = "running" /\ (questioned \/ ~asleep)
  /\ questioned' = ~questioned
  /\ UNCHANGED <<world, reqs, cap, directive, taskStatus, job, group, messages, asleep, facts>>

Reports(kind) ==
  /\ taskStatus = "running" /\ Len(messages) < MaxMessages
  /\ messages' = Append(messages, kind)
  /\ UNCHANGED <<world, reqs, cap, directive, taskStatus, job, group, questioned, asleep, facts>>

\* abort_job of a bootstrap job that goes on: the request refers to it no more.
Unmade(r) == IF r.made = "running" THEN [r EXCEPT !.boot = FALSE, !.made = "none"] ELSE r

\* cancel_unit_request for an open request of the task: its job is aborted.
Withdrawn(r) == IF r.open THEN [Unmade(r) EXCEPT !.open = FALSE] ELSE r

\* Mutant of EndTask: the export is made before the requests are cancelled.
EndTaskEarlySync(how) ==
  /\ taskStatus = "running" /\ (how = "aborted" \/ ~asleep)
  /\ taskStatus' = how /\ job' = "none" /\ group' = FALSE /\ questioned' = FALSE /\ asleep' = FALSE
  /\ reqs' = IF how = "aborted" THEN [i \in DOMAIN reqs |-> Withdrawn(reqs[i])] ELSE reqs
  /\ facts' = Export(reqs, cap, directive, "none", FALSE)
  /\ UNCHANGED <<world, cap, directive, messages>>

\* complete_task, by the task's agent, leaves the requests open; cancel_task,
\* by anybody, does not.  Both export last.
EndTask(how) ==
  /\ taskStatus = "running" /\ (how = "aborted" \/ ~asleep)
  /\ taskStatus' = how /\ job' = "none" /\ group' = FALSE /\ questioned' = FALSE /\ asleep' = FALSE
  /\ reqs' = IF how = "aborted" THEN [i \in DOMAIN reqs |-> Withdrawn(reqs[i])] ELSE reqs
  /\ UNCHANGED <<world, cap, directive, messages>>
  /\ Sync

-----------------------------------------------------------------------------
(* The capability and the world.                                           *)

\* The player's cancel_task ends it like any task; its jobs are aborted.
CapEnds ==
  /\ cap /\ cap' = FALSE
  /\ reqs' = [i \in DOMAIN reqs |-> Unmade(reqs[i])]
  /\ UNCHANGED <<world, directive, taskStatus, job, group, questioned, messages, asleep>>
  /\ Sync

\* inject_player_message; the last note is the one that counts.
Told ==
  /\ cap /\ directive' = TRUE
  /\ UNCHANGED <<world, reqs, cap, taskStatus, job, group, questioned, messages, asleep>>
  /\ Sync

\* The last note is too old, 30 s after an alarm and 300 s after another.
NoteAges ==
  /\ directive /\ directive' = FALSE
  /\ UNCHANGED <<world, reqs, cap, taskStatus, job, group, questioned, messages, asleep, facts>>

WorldTurns ==
  /\ world' \in Worlds \ {world}
  /\ UNCHANGED <<kernelVars, facts>>

-----------------------------------------------------------------------------
(* The board.                                                              *)

TaskOf(t) ==
  IF t = 1 THEN [id |-> 1, cap |-> FALSE, status |-> taskStatus, flow |-> "recon"]
  ELSE [id |-> 2, cap |-> TRUE, status |-> IF cap THEN "running" ELSE "aborted", flow |-> ""]

\* A card from the last export and the live rest; truth is what the facts
\* say against the capability, which the Adjutant does not ask.
CardWith(t, truth) ==
  Triage(TaskOf(t), facts, Inputs(world.stale, truth, t = 1 /\ questioned, IF t = 1 THEN messages ELSE <<>>))

\* build_live_task_payload: the dashboard's card.
CardOf(t) == CardWith(t, IF t = 2 /\ Unsupported(world) THEN "faction_roster_unsupported" ELSE "")

\* A card that tells what a task waits for or is blocked by.
Telling(c) ==
  \/ c.state \in {"degraded", "waiting_player", "blocked", "waiting_units"}
  \/ c.state = "running" /\ c.phase \in {"dispatch", "bootstrapping"}

-----------------------------------------------------------------------------
(* The Adjutant's context, see Coordinator.                                *)

\* _build_context: the entry of an active task.
EntryOf(t) ==
  LET card == CardWith(t, "")
      works == \E x \in facts.jobs : x.task = t
  IN [id |-> t, cap |-> t = 2, map |-> FALSE, group |-> IF t \in facts.groups THEN 1 ELSE 0,
      text |-> [combat |-> 0, economy |-> 1, recon |-> IF t = 1 THEN 1 ELSE 0],
      flow |-> TaskOf(t).flow, wphase |-> WorkflowPhase(TaskOf(t), facts),
      expert |-> IF ~works THEN "" ELSE IF t = 1 THEN "recon" ELSE "economy",
      state |-> card.state, phase |-> card.phase, waits |-> card.waits, blocks |-> card.blocks]

Entries ==
  (IF taskStatus = "running" THEN <<EntryOf(1)>> ELSE <<>>) \o (IF cap THEN <<EntryOf(2)>> ELSE <<>>)

Jammed == world.ready \cup world.paused # {}

\* What alerts are made of; the base may be attacked and structures be off.
Situation(attack, off) ==
  [stale |-> world.stale, attack |-> attack, truth |-> Unsupported(world), low |-> world.low,
   blocker |-> facts.status.blocker, ready |-> world.ready # {}, jam |-> Jammed, off |-> off,
   waiting |-> facts.rows # <<>> \/ InState(Entries, "waiting_units") # {}]

\* The view of the battlefield without an enemy, and with so many fighters.
ViewWith(fighters, attack) ==
  [ours |-> Cardinality(fighters), theirs |-> 0, units |-> Cardinality(fighters), enemies |-> 0,
   valued |-> TRUE, low |-> world.low, jam |-> Jammed, attack |-> attack, known |-> FALSE,
   pending |-> facts.status.pending, reserved |-> Some(facts.rows, LAMBDA x : x.reserved),
   fighters |-> fighters, taken |-> {}, grouped |-> 0]

-----------------------------------------------------------------------------
(* The briefs of the agents, see AgentBrief.                               *)

\* What comes with a call now: a signal for every report, the other task if
\* it goes on, and the items that wait in their queues are of one type.
CallOf(t) ==
  [signals |-> [i \in DOMAIN messages |-> [job |-> "job", kind |-> "blocked", phase |-> messages[i]]],
   making |-> {}, ready |-> IF world.ready = {} THEN <<>> ELSE <<"e1">>,
   notes |-> IF directive THEN <<"note">> ELSE <<>>, said |-> directive,
   others |-> Siblings(t, <<TaskOf(3 - t)>>)]

-----------------------------------------------------------------------------
BoardInit ==
  /\ world \in Worlds
  /\ reqs = <<>> /\ cap = TRUE /\ directive = FALSE
  /\ taskStatus = "running" /\ job = "none" /\ group = FALSE /\ questioned = FALSE
  /\ messages = <<>> /\ asleep = FALSE
  /\ facts = Export(<<>>, TRUE, FALSE, "none", FALSE)

RequestStep ==
  \/ \E a \in Asks : \E n \in 0..a.count : Ask(a, n)
  \/ \E i \in DOMAIN reqs, unordered \in BOOLEAN : Deliver(i, unordered)
  \/ \E i \in DOMAIN reqs, how \in {"succeeded", "failed"} : BootEnds(i, how)
  \/ \E i \in DOMAIN reqs : Rescan(i)

TaskStep ==
  \/ \E j \in {"running", "waiting"} : JobTurns(j)
  \/ ExpertEnds \/ GroupGone \/ Question
  \/ \E kind \in Kinds : Reports(kind)
  \/ \E how \in Terminal : EndTask(how)

CapabilityStep == CapEnds \/ Told \/ NoteAges

BoardNext == RequestStep \/ TaskStep \/ CapabilityStep \/ WorldTurns

BoardSpec == BoardInit /\ [][BoardNext]_boardVars

-----------------------------------------------------------------------------
(* Properties.                                                             *)

Open(rs) == {rs[i].id : i \in {k \in DOMAIN rs : rs[k].open}}

\* The capability's agent only acts when the export says that something is
\* asked of it (_capability_has_actionable_demand).  Whatever call came last,
\* the export lists the open requests, of running and of ended tasks, and no
\* other, so that the demand is seen, by the agent and, as a headline and no
\* idle capability, by the player; what blocks the capability is told with
\* one of them, but for a request whose type is not known.  The brief of a
\* call then shows the ordinary agent one of its own open requests if it has
\* any, and the capability every one, among the first lines on what is in its
\* way too, with no reservation it cannot see the request of.
DemandIsKnown ==
  /\ {facts.rows[i].id : i \in DOMAIN facts.rows} = Open(reqs)
  /\ facts.status.on = cap
  /\ cap => facts.status.pending = (Open(reqs) # {})
  /\ Open(reqs) # {} => HasDemand(facts.rows, facts.status) /\ Focus(facts.rows).id \in Open(reqs)
  /\ cap /\ Open(reqs) # {} => CardOf(2).state # "idle"
  /\ facts.status.blocker \notin {"", "request_inference_pending"}
       => BlockerRow(facts.status.blocker, facts.rows).id \in Open(reqs)
  /\ BriefTells(world, facts, CallOf(2))
  /\ LET listed == OrdinaryBrief(world, facts, TaskOf(1), CallOf(1)).requests
         told == {listed[i] : i \in DOMAIN listed} IN
     /\ {x.id : x \in told} \subseteq {id \in Open(reqs) : reqs[id].task = 1}
     /\ (told = {}) = (\A i \in DOMAIN reqs : reqs[i].open => reqs[i].task # 1)

\* A line that goes on with the scouting, or with anything.
GoingOn ==
  {[text |-> [combat |-> 0, economy |-> 0, recon |-> n], more |-> more, override |-> ~more,
    interrupt |-> FALSE, map |-> FALSE, like |-> {}, label |-> 0, few |-> FALSE] : n \in {0, 1}, more \in BOOLEAN}

\* An agent that sleeps is never shown as a task that is busy or idle: a card
\* made from the last export and the live state tells what it waits for or is
\* blocked by, whatever else its jobs, units and messages say and whatever
\* has changed since that export (build_task_triage, build_live_task_payload).
\* Nor is its workflow shown as one that has yet to ask for units.  A player
\* who goes on with it is led to it (_coordinator_hints), one who asks is told
\* of a request that is open (_build_query_task_focus), and while there is a
\* capability its blocker is among the few alerts that are kept and the
\* advice is to serve requests (_coordinator_alerts, battlefield_snapshot).
SleepIsShown ==
  asleep =>
    /\ Telling(CardOf(1))
    /\ TaskFocus(facts.rows, 1).id \in Open(reqs)
    /\ WorkflowPhase(TaskOf(1), facts) # "request_units_first"
    /\ LET es == Entries
           b  == Battlefield(ViewWith({1}, TRUE)) IN
       /\ cap /\ ~world.low /\ ~Jammed => b.posture = "satisfy_requests"
       /\ \A l \in GoingOn :
            /\ Applied([type |-> "command", target |-> 0, how |-> ""], Hint(l, es, b)) =
                 [type |-> "command", target |-> 1, how |-> IF l.override THEN "override" ELSE "merge"]
            /\ QueryFocus(l, es, facts.rows).id \in Open(reqs) \cup {0}
    /\ cap => facts.status.blocker # ""
    /\ \A attack, off \in BOOLEAN :
         Headline(Situation(attack, off)) # "" /\ BlockerIsAlerted(Situation(attack, off))

=============================================================================
