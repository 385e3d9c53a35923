--------------------------- MODULE KernelResources ---------------------------
(***************************************************************************)
(* Resource arbitration and the life cycle of tasks and jobs in the kernel *)
(* (kernel/resource_assignment.py, job_lifecycle.py, task_lifecycle.py,    *)
(* task_runtime_ops.py, task_coordination.py, experts/base.py).            *)
(*                                                                         *)
(* A kernel call runs on the event loop without awaiting, so one call      *)
(* starts only when no other is under way (Idle).  Inside a call the       *)
(* rebalance pass is modelled one claim at a time: job ticks run in worker *)
(* threads and world refreshes in another, and both interleave with it.    *)
(*                                                                         *)
(* Task and job ids are numbers in creation order.  The order of the       *)
(* random job_id strings, which only breaks ties, is a free choice.        *)
(***************************************************************************)
EXTENDS Integers, FiniteSets

CONSTANTS
  Task,        \* task ids, in creation order
  Job,         \* job ids, in creation order
  Actor,       \* actor ids of the player's units
  Priority,    \* priorities a task is created with
  Config,      \* what jobs can ask for: each element is a job's set of needs
  Outcome      \* results agents and ticks report

None == 0

Need == [count : Nat, match : SUBSET Actor, busy : BOOLEAN, gate : BOOLEAN]

ASSUME ConstantsOK ==
  /\ Task \subseteq Nat \ {None}
  /\ Job \subseteq Nat \ {None}
  /\ Actor \subseteq Nat /\ IsFiniteSet(Actor)
  /\ Priority \subseteq Nat
  /\ Config \subseteq SUBSET Need
  /\ Outcome \subseteq {"succeeded", "failed", "partial"}

VARIABLES
  status,      \* tasks[t].status
  priority,    \* tasks[t].priority
  direct,      \* _direct_managed_tasks
  jobTask,     \* jobs[j].task_id
  jobStatus,   \* jobs[j].status
  paused,      \* jobs[j]._paused
  needs,       \* _resource_needs[j]
  resources,   \* jobs[j].resources
  bindings,    \* world_model.resource_bindings, None when unbound
  groups,      \* _task_actor_groups
  notified,    \* _resource_loss_notified
  world,       \* the actors of the current world snapshot
  died,        \* actors whose UNIT_DIED event is not routed yet
  fresh,       \* a unit became idle and its UNIT_IDLE event is not routed yet
  pass,        \* how far the kernel call under way is
  requests,    \* the requests its rebalance has still to serve
  closing,     \* the task a cancel_task or complete_task call is ending
  copy,        \* the bindings the sync of this call has read
  ticking,     \* the job whose do_tick is handed to a worker thread
  phase,       \* how far that thread is: off, due, tick, sync
  tickCopy     \* the bindings it has read, in the sync of complete_task

taskVars  == <<status, priority, direct>>
jobVars   == <<jobTask, jobStatus, paused, needs>>
holdVars  == <<resources, bindings, groups, notified>>
worldVars == <<world, died, fresh>>
callVars  == <<pass, requests, closing, copy>>
inCall    == <<pass, closing, copy>>
tickVars  == <<ticking, phase, tickCopy>>
vars == <<taskVars, jobVars, holdVars, worldVars, callVars, tickVars>>

TaskEnded  == {"succeeded", "failed", "aborted", "partial"}
JobEnded   == {"succeeded", "failed", "aborted"}
TaskStatus == TaskEnded \cup {"none", "running", "cleared"}
JobStatus  == JobEnded \cup {"none", "running", "waiting", "cleared"}
NoBindings == [a \in Actor |-> None]

Idle       == pass = "idle" /\ closing = None
Present(a) == world[a] \in {"idle", "busy"}
Live(j)    == jobStatus[j] \in {"running", "waiting"}
Open(t)    == status[t] = "running"
JobsOf(t)  == {j \in Job : jobStatus[j] \notin {"none", "cleared"} /\ jobTask[j] = t}
Rank(j)    == priority[jobTask[j]]

Init ==
  /\ status = [t \in Task |-> "none"]
  /\ priority = [t \in Task |-> 0]
  /\ direct = [t \in Task |-> FALSE]
  /\ jobTask = [j \in Job |-> None]
  /\ jobStatus = [j \in Job |-> "none"]
  /\ paused = [j \in Job |-> FALSE]
  /\ needs = [j \in Job |-> {}]
  /\ resources = [j \in Job |-> {}]
  /\ bindings = NoBindings
  /\ groups = [t \in Task |-> {}]
  /\ notified = {}
  /\ world \in [Actor -> {"unborn", "idle"}]
  /\ died = {}
  /\ fresh = FALSE
  /\ pass = "idle"
  /\ requests = {}
  /\ closing = None
  /\ copy = NoBindings
  /\ ticking = None
  /\ phase = "off"
  /\ tickCopy = NoBindings

-----------------------------------------------------------------------------
(* Releasing and granting.                                                 *)

\* Mutant of Release: the units are forgotten and stay bound.
ReleaseForgets(js) ==
  /\ resources' = [j \in Job |-> IF j \in js THEN {} ELSE resources[j]]
  /\ UNCHANGED bindings

\* release_job_resources for every job of js, and the unbinding it does.
Release(js) ==
  /\ resources' = [j \in Job |-> IF j \in js THEN {} ELSE resources[j]]
  /\ bindings' = [a \in Actor |->
                    IF \E j \in js : a \in resources[j] THEN None ELSE bindings[a]]

\* prune_task_actor_group, which each sync of the runtime applies to all tasks.
Pruned(g) == [t \in Task |-> {a \in g[t] : Present(a)}]

\* Mutant of Regrouped: the actor stays in the groups it was in.
RegroupedTwice(g, t, a) == [g EXCEPT ![t] = {b \in @ \cup {a} : Present(b)}]

\* set_task_actor_group: the actor leaves every other task's group.
Regrouped(g, t, a) ==
  [u \in Task |-> IF u = t THEN {b \in g[t] \cup {a} : Present(b)} ELSE g[u] \ {a}]

\* The jobs a preempted job takes down: itself, and when its task has no
\* agent the abort signal completes the task, which releases all its jobs.
EndsDirect(j) == direct[jobTask[j]] /\ Open(jobTask[j])
AbortSet(j)   == IF EndsDirect(j) THEN JobsOf(jobTask[j]) \cup {j} ELSE {j}

-----------------------------------------------------------------------------
(* What a request may claim.                                               *)

\* An actor of another task's group is out of reach unless that task ranks
\* strictly lower.
Reachable(t, a) ==
  \A u \in Task \ {t} : a \in groups[u] => priority[u] < priority[t]

\* resources_for_need
Serving(j, n) == {a \in resources[j] : Present(a) /\ a \in n.match}

Missing(j, n) == n.count - Cardinality(Serving(j, n))

\* find_unbound_resource: idle actors, or any for an explicit movement group.
Unbound(r) ==
  {a \in r.need.match :
     /\ world[a] = "idle" \/ (r.need.busy /\ Present(a))
     /\ bindings[a] = None
     /\ Reachable(jobTask[r.job], a)}

\* Mutant of Preemptable: only a running holder loses actors.
PreemptableRunning(r) ==
  {a \in r.need.match :
     /\ Present(a) /\ Reachable(jobTask[r.job], a)
     /\ bindings[a] \notin {None, r.job} /\ jobStatus[bindings[a]] = "running"
     /\ Rank(bindings[a]) < Rank(r.job)}

\* find_preemptable_resource: actors held for a strictly lower priority.
Preemptable(r) ==
  {a \in r.need.match :
     /\ Present(a)
     /\ Reachable(jobTask[r.job], a)
     /\ bindings[a] \notin {None, r.job} /\ jobStatus[bindings[a]] \notin {"none", "cleared"}
     /\ Rank(bindings[a]) < Rank(r.job)}

\* The victim: the lowest holder priority, then the lowest actor id of a job.
Victim(r, a) ==
  /\ a \in Preemptable(r)
  /\ \A b \in Preemptable(r) :
       /\ Rank(bindings[a]) <= Rank(bindings[b])
       /\ bindings[a] = bindings[b] => a <= b

\* The order requests are served in: priority, then age of the task, then the
\* job id (free), then the position of the need in the job's list.
Before(r, s) ==
  LET t == jobTask[r.job]  u == jobTask[s.job] IN
  \/ priority[t] > priority[u]
  \/ priority[t] = priority[u] /\ t < u
  \/ r.job = s.job /\ r.need.gate /\ ~s.need.gate

Current(r) == r \in requests /\ \A s \in requests : ~Before(s, r)

-----------------------------------------------------------------------------
(* rebalance_resources, one claim at a time.                               *)

\* A need that a live job of an open task still misses.
Wanted(j, n) ==
  Live(j) /\ Open(jobTask[j]) /\ n \in needs[j] /\ Missing(j, n) > 0

\* The requests are collected once, with what each job misses at this moment.
Collect ==
  /\ pass = "collect"
  /\ requests' = {[job |-> w[1], need |-> w[2], missing |-> Missing(w[1], w[2])] :
                    w \in {v \in Job \X UNION Config : Wanted(v[1], v[2])}}
  /\ pass' = "claim"
  /\ UNCHANGED <<taskVars, jobVars, holdVars, worldVars, closing, copy, tickVars>>

OneLess(r) == (requests \ {r}) \cup {[r EXCEPT !.missing = @ - 1]}

\* on_resource_granted: a waiting job runs again, paused or not.
Woken(js, j) == [js EXCEPT ![j] = IF @ = "waiting" THEN "running" ELSE @]

ClaimUnbound(r, a) ==
  /\ pass = "claim" /\ Current(r) /\ r.missing > 0
  /\ a \in Unbound(r) /\ \A b \in Unbound(r) : a <= b
  /\ resources' = [resources EXCEPT ![r.job] = @ \cup {a}]
  /\ bindings' = [bindings EXCEPT ![a] = r.job]
  /\ groups' = Regrouped(groups, jobTask[r.job], a)
  /\ jobStatus' = Woken(jobStatus, r.job)
  /\ requests' = OneLess(r)
  /\ UNCHANGED <<taskVars, jobTask, paused, needs, notified, worldVars, inCall, tickVars>>

\* A holder of more than this actor only loses it.
ClaimByDegrading(r, a) ==
  LET h == bindings[a] IN
  /\ pass = "claim" /\ Current(r) /\ r.missing > 0
  /\ Unbound(r) = {} /\ Victim(r, a)
  /\ Cardinality(resources[h]) > 1
  /\ resources' = [resources EXCEPT ![h] = @ \ {a}, ![r.job] = @ \cup {a}]
  /\ bindings' = [bindings EXCEPT ![a] = r.job]
  /\ groups' = Regrouped(groups, jobTask[r.job], a)
  /\ jobStatus' = Woken(jobStatus, r.job)
  /\ requests' = OneLess(r)
  /\ UNCHANGED <<taskVars, jobTask, paused, needs, notified, worldVars, inCall, tickVars>>

\* A holder of nothing else is aborted, whatever its status was.
ClaimByAborting(r, a) ==
  LET h == bindings[a]  t == jobTask[h] IN
  /\ pass = "claim" /\ Current(r) /\ r.missing > 0
  /\ Unbound(r) = {} /\ Victim(r, a)
  /\ Cardinality(resources[h]) <= 1
  /\ resources' = [j \in Job |-> IF j = r.job THEN resources[j] \cup {a}
                                 ELSE IF j \in AbortSet(h) THEN {} ELSE resources[j]]
  /\ bindings' = [b \in Actor |-> IF b = a THEN r.job
                                  ELSE IF \E j \in AbortSet(h) : b \in resources[j] THEN None
                                  ELSE bindings[b]]
  /\ groups' = Regrouped(IF EndsDirect(h) THEN [groups EXCEPT ![t] = {}] ELSE groups,
                         jobTask[r.job], a)
  /\ jobStatus' = Woken([jobStatus EXCEPT ![h] = "aborted"], r.job)
  /\ status' = IF EndsDirect(h) THEN [status EXCEPT ![t] = "failed"] ELSE status
  /\ notified' = IF EndsDirect(h) THEN notified \ JobsOf(t) ELSE notified
  /\ requests' = OneLess(r)
  /\ UNCHANGED <<priority, direct, jobTask, paused, needs, worldVars, inCall, tickVars>>

\* The inner loop ends with all that was missing, or with nothing left to claim.
Served(r) == r.missing = 0 \/ (Unbound(r) = {} /\ Preemptable(r) = {})

\* Mutant of MustWait: a start package is a need like any other.
MustWaitEmpty(r) == resources[r.job] = {}

\* What makes a job with a need still short wait.
MustWait(r) == resources[r.job] = {} \/ r.need.gate

\* The tail of the loop body: what is still missing may make the job
\* wait, and is signalled once.
FinishRequest(r) ==
  LET short == Missing(r.job, r.need) > 0 IN
  /\ pass = "claim" /\ Current(r)
  /\ Served(r)
  /\ jobStatus' =
       IF short /\ MustWait(r) /\ Live(r.job)
       THEN [jobStatus EXCEPT ![r.job] = "waiting"] ELSE jobStatus
  /\ notified' = IF short THEN notified \cup {r.job} ELSE notified \ {r.job}
  /\ requests' = requests \ {r}
  /\ UNCHANGED <<taskVars, jobTask, paused, needs, resources, bindings, groups, worldVars,
                 inCall, tickVars>>

\* _sync_world_runtime, the end of every call: it reads the bindings ...
ReadBindings ==
  /\ pass = "sync" \/ (pass = "claim" /\ requests = {})
  /\ copy' = bindings
  /\ pass' = "write"
  /\ UNCHANGED <<taskVars, jobVars, holdVars, worldVars, requests, closing, tickVars>>

\* ... and writes what it has read back, with the groups it has pruned.
WriteBindings ==
  /\ pass = "write"
  /\ bindings' = copy
  /\ copy' = NoBindings
  /\ groups' = Pruned(groups)
  /\ pass' = "idle"
  /\ UNCHANGED <<taskVars, jobVars, resources, notified, worldVars, requests, closing, tickVars>>

Rebalance ==
  \/ Collect
  \/ \E r \in requests : \/ \E a \in Actor : \/ ClaimUnbound(r, a)
                                             \/ ClaimByDegrading(r, a)
                                             \/ ClaimByAborting(r, a)
                         \/ FinishRequest(r)
  \/ ReadBindings
  \/ WriteBindings

-----------------------------------------------------------------------------
(* Kernel calls on tasks.                                                  *)

NextTask(t) == status[t] = "none" /\ \A u \in Task : status[u] = "none" => t <= u
NextJob(j)  == jobStatus[j] = "none" /\ \A i \in Job : jobStatus[i] = "none" => j <= i

\* create_task with an agent.
CreateTask(t, p) ==
  /\ Idle /\ NextTask(t)
  /\ status' = [status EXCEPT ![t] = "running"]
  /\ priority' = [priority EXCEPT ![t] = p]
  /\ pass' = "sync"
  /\ UNCHANGED <<direct, jobVars, holdVars, worldVars, requests, closing, copy, tickVars>>

\* The registration of a new controller: jobs, resource_needs.
NewJob(j, t, ns) ==
  /\ jobTask' = [jobTask EXCEPT ![j] = t]
  /\ jobStatus' = [jobStatus EXCEPT ![j] = "running"]
  /\ needs' = [needs EXCEPT ![j] = ns]
  /\ pass' = "collect"
  /\ UNCHANGED <<paused, holdVars, worldVars, requests, closing, copy, tickVars>>

\* _start_direct_job: a task without an agent and its only job.
StartDirect(t, p, j, ns) ==
  /\ Idle /\ NextTask(t) /\ NextJob(j)
  /\ status' = [status EXCEPT ![t] = "running"]
  /\ priority' = [priority EXCEPT ![t] = p]
  /\ direct' = [direct EXCEPT ![t] = TRUE]
  /\ NewJob(j, t, ns)

\* start_job by the task's agent, which is stopped with its task: the tool
\* calls of its response that have still to run are cancelled.
StartJob(t, j, ns) ==
  /\ Idle /\ NextJob(j) /\ ~direct[t] /\ Open(t)
  /\ status' = [status EXCEPT ![t] = "running"]
  /\ NewJob(j, t, ns)
  /\ UNCHANGED <<priority, direct>>

CancelTask(t) ==
  /\ Idle /\ Open(t)
  /\ status' = [status EXCEPT ![t] = "aborted"]
  /\ closing' = t
  /\ UNCHANGED <<priority, direct, jobVars, holdVars, worldVars, pass, requests, copy, tickVars>>

\* complete_task by the agent.
CompleteTask(t, result) ==
  /\ Idle /\ Open(t) /\ ~direct[t]
  /\ status' = [status EXCEPT ![t] = result]
  /\ closing' = t
  /\ UNCHANGED <<priority, direct, jobVars, holdVars, worldVars, pass, requests, copy, tickVars>>

\* The loop of cancel_task and complete_task: abort_job for each live job of
\* the task in turn, each with a rebalance of its own.
AbortNext(j) ==
  /\ pass = "idle" /\ closing # None
  /\ j \in JobsOf(closing) /\ Live(j)
  /\ \A i \in JobsOf(closing) : Live(i) => j <= i
  /\ jobStatus' = [jobStatus EXCEPT ![j] = "aborted"]
  /\ Release({j})
  /\ notified' = notified \ {j}
  /\ pass' = "collect"
  /\ UNCHANGED <<taskVars, jobTask, paused, needs, groups, worldVars, requests, closing, copy, tickVars>>

\* Mutant of EndClosing: the ended task keeps its group.
EndClosingGrouped ==
  /\ pass = "idle" /\ closing # None
  /\ \A j \in JobsOf(closing) : ~Live(j)
  /\ Release(JobsOf(closing))
  /\ closing' = None /\ pass' = "sync"
  /\ UNCHANGED <<taskVars, jobVars, groups, notified, worldVars, requests, copy, tickVars>>

\* Their tail: what the task's ended jobs still hold, and its group.
EndClosing ==
  /\ pass = "idle" /\ closing # None
  /\ \A j \in JobsOf(closing) : ~Live(j)
  /\ Release(JobsOf(closing))
  /\ notified' = notified \ JobsOf(closing)
  /\ groups' = [groups EXCEPT ![closing] = {}]
  /\ closing' = None
  /\ pass' = "sync"
  /\ UNCHANGED <<taskVars, jobVars, worldVars, requests, copy, tickVars>>

-----------------------------------------------------------------------------
(* Kernel calls on jobs.                                                   *)

PatchJob(j, ns) ==
  /\ Idle /\ jobStatus[j] \notin {"none", "cleared"}
  /\ needs' = [needs EXCEPT ![j] = ns]
  /\ pass' = "collect"
  /\ UNCHANGED <<taskVars, jobTask, jobStatus, paused, holdVars, worldVars, requests, closing,
                 copy, tickVars>>

PauseJob(j) ==
  /\ Idle /\ Live(j)
  /\ paused' = [paused EXCEPT ![j] = TRUE]
  /\ jobStatus' = [jobStatus EXCEPT ![j] = "waiting"]
  /\ pass' = "sync"
  /\ UNCHANGED <<taskVars, jobTask, needs, holdVars, worldVars, requests, closing, copy,
                 tickVars>>

ResumeJob(j) ==
  /\ Idle /\ Live(j)
  /\ paused' = [paused EXCEPT ![j] = FALSE]
  /\ jobStatus' = [jobStatus EXCEPT ![j] = "running"]
  /\ pass' = "collect"
  /\ UNCHANGED <<taskVars, jobTask, needs, holdVars, worldVars, requests, closing, copy,
                 tickVars>>

\* abort_job looks at no status: an ended job is aborted again.  The abort of
\* a direct task's job is signalled and fails the task.
AbortJob(j) ==
  LET t == jobTask[j] IN
  /\ Idle /\ jobStatus[j] \notin {"none", "cleared"}
  /\ jobStatus' = [jobStatus EXCEPT ![j] = "aborted"]
  /\ Release(AbortSet(j))
  /\ notified' = notified \ AbortSet(j)
  /\ status' = IF EndsDirect(j) THEN [status EXCEPT ![t] = "failed"] ELSE status
  /\ groups' = IF EndsDirect(j) THEN [groups EXCEPT ![t] = {}] ELSE groups
  /\ pass' = "collect"
  /\ UNCHANGED <<priority, direct, jobTask, paused, needs, worldVars, requests, closing, copy, tickVars>>

-----------------------------------------------------------------------------
(* Events of the world, routed by the game loop.                           *)

\* Live jobs lose a dead actor, and wait when it was their last.
RouteUnitDied(a) ==
  LET holders == {j \in Job : Live(j) /\ a \in resources[j]} IN
  /\ Idle /\ a \in died
  /\ died' = died \ {a}
  /\ resources' = [j \in Job |-> IF j \in holders THEN resources[j] \ {a} ELSE resources[j]]
  /\ bindings' = IF holders = {} THEN bindings ELSE [bindings EXCEPT ![a] = None]
  /\ jobStatus' = [j \in Job |-> IF j \in holders /\ resources[j] = {a}
                                 THEN "waiting" ELSE jobStatus[j]]
  /\ pass' = IF holders = {} THEN "sync" ELSE "collect"
  /\ UNCHANGED <<taskVars, jobTask, paused, needs, groups, notified, world, fresh, requests,
                 closing, copy, tickVars>>

\* UNIT_IDLE and PRODUCTION_COMPLETE.
RouteUnitIdle ==
  /\ Idle
  /\ fresh' = FALSE
  /\ pass' = "collect"
  /\ UNCHANGED <<taskVars, jobVars, holdVars, world, died, requests, closing, copy, tickVars>>

Cleared(st) == [x \in DOMAIN st |-> IF st[x] = "none" THEN "none" ELSE "cleared"]

\* handle_game_reset: the tables are emptied, the controllers are not aborted.
GameReset ==
  /\ Idle
  /\ status' = Cleared(status)
  /\ jobStatus' = Cleared(jobStatus)
  /\ resources' = [j \in Job |-> {}]
  /\ bindings' = NoBindings
  /\ groups' = [t \in Task |-> {}]
  /\ notified' = {}
  /\ UNCHANGED <<priority, direct, jobTask, paused, needs, worldVars, callVars, tickVars>>

KernelCall ==
  \/ \E t \in Task, p \in Priority : CreateTask(t, p)
  \/ \E t \in Task, p \in Priority, j \in Job, ns \in Config : StartDirect(t, p, j, ns)
  \/ \E t \in Task, j \in Job, ns \in Config : StartJob(t, j, ns)
  \/ \E t \in Task : CancelTask(t)
  \/ \E t \in Task, result \in Outcome : CompleteTask(t, result)
  \/ \E j \in Job, ns \in Config : PatchJob(j, ns)
  \/ \E j \in Job : PauseJob(j) \/ ResumeJob(j) \/ AbortJob(j)
  \/ \E a \in Actor : RouteUnitDied(a)
  \/ RouteUnitIdle
  \/ GameReset

\* The rest of a call under way.
KernelStep == Rebalance \/ (\E j \in Job : AbortNext(j)) \/ EndClosing

-----------------------------------------------------------------------------
(* Job ticks, in a worker thread.                                          *)

\* The loop hands the do_tick of a job that has not ended to a thread ...
TickDue(j) ==
  /\ phase = "off" /\ Idle /\ Live(j)
  /\ ticking' = j /\ phase' = "due"
  /\ UNCHANGED <<taskVars, jobVars, holdVars, worldVars, callVars, tickCopy>>

\* ... where it returns at once unless the job runs.
TickBegin ==
  /\ phase = "due"
  /\ jobStatus[ticking] = "running" /\ ~paused[ticking]
  /\ phase' = "tick"
  /\ UNCHANGED <<taskVars, jobVars, holdVars, worldVars, callVars, ticking, tickCopy>>

TickEnd ==
  /\ \/ phase = "due" /\ ~(jobStatus[ticking] = "running" /\ ~paused[ticking])
     \/ phase = "tick"
  /\ ticking' = None /\ phase' = "off"
  /\ UNCHANGED <<taskVars, jobVars, holdVars, worldVars, callVars, tickCopy>>

InTick == phase = "tick" /\ jobStatus[ticking] # "cleared"

\* The results a job may end with.
JobOutcome == Outcome \ {"partial"}

\* The tick ends its job, whatever happened to it meanwhile, and signals it;
\* the task of a direct job is completed in this thread.
TickFinish(result) ==
  LET j == ticking  t == jobTask[j] IN
  /\ InTick
  /\ jobStatus' = [jobStatus EXCEPT ![j] = result]
  /\ IF EndsDirect(j)
     THEN /\ status' = [status EXCEPT ![t] = result]
          /\ Release(JobsOf(t))
          /\ groups' = [groups EXCEPT ![t] = {}]
          /\ notified' = notified \ JobsOf(t)
          /\ phase' = "sync" /\ tickCopy' = bindings'
          /\ UNCHANGED ticking
     ELSE /\ ticking' = None /\ phase' = "off"
          /\ UNCHANGED <<status, holdVars, tickCopy>>
  /\ UNCHANGED <<priority, direct, jobTask, paused, needs, worldVars, callVars>>

\* MovementExpert: stuck units end the job with a warning only.
TickStuck ==
  /\ InTick
  /\ jobStatus' = [jobStatus EXCEPT ![ticking] = "failed"]
  /\ ticking' = None /\ phase' = "off"
  /\ UNCHANGED <<taskVars, jobTask, paused, needs, holdVars, worldVars, callVars, tickCopy>>

\* MovementExpert signals its arrival while its status is still running, so
\* complete_task aborts it first.  Modelled between kernel calls only.
TickArrive ==
  LET t == jobTask[ticking] IN
  /\ InTick /\ Idle /\ EndsDirect(ticking)
  /\ status' = [status EXCEPT ![t] = "succeeded"]
  /\ closing' = t
  /\ UNCHANGED <<priority, direct, jobVars, holdVars, worldVars, pass, requests, copy, tickVars>>

TickSync ==
  /\ phase = "sync"
  /\ bindings' = tickCopy
  /\ groups' = Pruned(groups)
  /\ tickCopy' = NoBindings
  /\ ticking' = None /\ phase' = "off"
  /\ UNCHANGED <<taskVars, jobVars, resources, notified, worldVars, callVars>>

TickStep == \/ \E j \in Job : TickDue(j)
            \/ TickBegin
            \/ TickEnd
            \/ \E result \in JobOutcome : TickFinish(result)
            \/ TickStuck
            \/ TickArrive
            \/ TickSync

-----------------------------------------------------------------------------
(* The game, seen through refreshes of the world model.                    *)

Appear(a) ==
  /\ world[a] = "unborn"
  /\ world' = [world EXCEPT ![a] = "idle"]
  /\ fresh' = TRUE
  /\ UNCHANGED <<taskVars, jobVars, holdVars, died, callVars, tickVars>>

BecomeBusy(a) ==
  /\ world[a] = "idle"
  /\ world' = [world EXCEPT ![a] = "busy"]
  /\ UNCHANGED <<taskVars, jobVars, holdVars, died, fresh, callVars, tickVars>>

BecomeIdle(a) ==
  /\ world[a] = "busy"
  /\ world' = [world EXCEPT ![a] = "idle"]
  /\ fresh' = TRUE
  /\ UNCHANGED <<taskVars, jobVars, holdVars, died, callVars, tickVars>>

Vanish(a) ==
  /\ Present(a)
  /\ world' = [world EXCEPT ![a] = "dead"]
  /\ died' = died \cup {a}
  /\ UNCHANGED <<taskVars, jobVars, holdVars, fresh, callVars, tickVars>>

WorldStep == \E a \in Actor : Appear(a) \/ BecomeBusy(a) \/ BecomeIdle(a) \/ Vanish(a)

-----------------------------------------------------------------------------
(* The program: ticks and refreshes run beside the kernel's calls.         *)
Next == KernelCall \/ KernelStep \/ TickStep \/ WorldStep
Spec == Init /\ [][Next]_vars

(* The program with the signals of ticks routed on the event loop, as the  *)
(* design's single threaded game loop has it.                              *)
LoopNext ==
  \/ KernelCall /\ phase # "sync"
  \/ KernelStep /\ phase # "sync"
  \/ TickStep /\ Idle
  \/ WorldStep
LoopSpec == Init /\ [][LoopNext]_vars

-----------------------------------------------------------------------------
(* Properties.                                                             *)

Request == [job : Job, need : UNION Config, missing : Int]

\* Every variable keeps to its type.
TypeOK ==
  /\ status \in [Task -> TaskStatus]
  /\ priority \in [Task -> Priority \cup {0}]
  /\ direct \in [Task -> BOOLEAN]
  /\ jobTask \in [Job -> Task \cup {None}]
  /\ jobStatus \in [Job -> JobStatus]
  /\ paused \in [Job -> BOOLEAN]
  /\ needs \in [Job -> Config \cup {{}}]
  /\ resources \in [Job -> SUBSET Actor]
  /\ bindings \in [Actor -> Job \cup {None}]
  /\ groups \in [Task -> SUBSET Actor]
  /\ notified \subseteq Job
  /\ world \in [Actor -> {"unborn", "idle", "busy", "dead"}]
  /\ died \subseteq Actor
  /\ fresh \in BOOLEAN
  /\ pass \in {"idle", "collect", "claim", "sync", "write"}
  /\ requests \subseteq Request
  /\ closing \in Task \cup {None}
  /\ copy \in [Actor -> Job \cup {None}]
  /\ ticking \in Job \cup {None}
  /\ phase \in {"off", "due", "tick", "sync"}
  /\ phase # "off" => ticking \in Job
  /\ tickCopy \in [Actor -> Job \cup {None}]

\* The table of bindings and the resources the controllers believe they hold
\* agree, so no unit ever takes orders from two jobs.
BindingsAgree == \A a \in Actor, j \in Job : bindings[a] = j <=> a \in resources[j]

\* A unit is in one task's group at most, and a unit bound to a job that is on
\* the map is in the group of the job's task: the group is what keeps the unit
\* out of the reach of tasks that do not rank higher.
GroupsFollowBindings ==
  /\ \A t, u \in Task : t # u => groups[t] \cap groups[u] = {}
  /\ \A a \in Actor : bindings[a] # None /\ Present(a) => a \in groups[jobTask[bindings[a]]]

\* Once cancel_task or complete_task of a task with an agent has returned,
\* none of its jobs runs, holds a unit or may be granted one.
EndedTaskHoldsNothing ==
  \A t \in Task :
    status[t] \in TaskEnded /\ ~direct[t] /\ closing # t =>
      /\ \A j \in JobsOf(t) : ~Live(j) /\ resources[j] = {}
      /\ groups[t] = {}

\* The jobs that may still claim and that no other open task outranks.
TopJobs == {j \in Job : /\ Live(j) /\ Open(jobTask[j])
                        /\ \A t \in Task : Open(t) => priority[t] <= Rank(j)}

\* The pass is over, and the world has not changed in a job's favour meanwhile.
PassReturns == pass = "claim" /\ pass' = "write" /\ ~fresh /\ died = {}

\* A busy unit that a need takes only when it is idle, and that its holder
\* listed as one to take while it is busy.
TakenBusy(n, a) ==
  world[a] = "busy" /\ ~n.busy /\ \E m \in needs[bindings[a]] : m.busy /\ a \in m.match

\* A unit nobody holds that is idle, or that the need takes while it moves, too.
Free(n, a) == bindings[a] = None /\ (world[a] = "idle" \/ n.busy)

\* A pass never leaves a job of the highest rank short of a unit that is free,
\* but of one in the group of another task of that rank, nor of a unit that a
\* lower ranking task holds, unless the world has changed while it ran, or the
\* unit moves and the holder has listed it, which the other has not.
PassServesTop ==
  [][PassReturns =>
       \A j \in TopJobs : \A n \in needs[j] : Missing(j, n) > 0 =>
         \A a \in n.match : Present(a) =>
           /\ Free(n, a) => ~Reachable(jobTask[j], a)
           /\ bindings[a] # None => Rank(bindings[a]) >= Rank(j) \/ TakenBusy(n, a)]_vars

\* Every unit that the job may be granted counts for its start package.
CountsAll(j, n) == \A m \in needs[j] : m.match \subseteq n.match /\ (m.busy => n.busy)

\* A pass leaves no job of the highest rank running without its start package,
\* when every unit of the group counts for the package and the world has not
\* changed while it ran.  A lower ranking job that lost a unit to the pass runs
\* on with fewer.
PackageHoldsStart ==
  [][PassReturns =>
       \A j \in TopJobs : \A n \in needs[j] :
         n.gate /\ CountsAll(j, n) /\ Missing(j, n) > 0 => jobStatus[j] = "waiting"]_vars

=============================================================================
