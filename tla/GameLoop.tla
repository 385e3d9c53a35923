------------------------------- MODULE GameLoop -------------------------------
(***************************************************************************)
(* The main loop (game_loop/loop.py) and the runtime that starts, stops    *)
(* and feeds it (main.py: sync_runtime, on_session_clear, restart_game).   *)
(*                                                                         *)
(* A tick hands the refresh, each job and the queue manager to a worker    *)
(* thread and awaits it; agents, the player and the kernel act meanwhile.  *)
(* The loop's timestamps are those of the beginning of a tick, so time     *)
(* passes between ticks.                                                   *)
(***************************************************************************)
EXTENDS Naturals, FiniteSets

CONSTANTS
  Task,        \* tasks that have an agent
  Job,         \* jobs
  Of,          \* the task of each job
  Interval,    \* a job's tick_interval
  Review,      \* an agent's review_interval
  Threshold,   \* the failures in a row after which the player is told
  Escalation,  \* _STALE_ESCALATION_TIMEOUT
  Resets       \* bound: session clears and game resets

ASSUME LoopOK ==
  /\ Of \in [Job -> Task]
  /\ Interval \in [Job -> Nat \ {0}]
  /\ Review \in Nat \ {0} /\ Threshold \in Nat \ {0} /\ Escalation \in Nat \ {0}
  /\ Resets \in Nat
  /\ Job \cap {"off", "refresh", "jobs", "queue"} = {}

VARIABLES
  status,      \* job.status, "none" before it is started
  paused,      \* job._paused
  kernel,      \* the jobs of kernel.jobs
  tasks,       \* the kernel's tasks that have not ended
  asleep,      \* the agents that are suspended
  wake,        \* the agents whose queue holds a review
  jobs,        \* _jobs, the registered jobs
  agents,      \* _agents, the registered agents
  rest,        \* time until each job is due again
  due,         \* time until each agent is due for review
  parked,      \* _paused_for_recovery
  stale,       \* refresh_health: stale
  failures,    \* refresh_health: consecutive_failures, up to Threshold
  active,      \* _world_stale_active
  notified,    \* _world_stale_notified
  escalated,   \* _world_stale_escalated
  since,       \* time since _world_stale_since, up to Escalation
  at,          \* how far the tick is
  list,        \* the registered jobs this tick has still to come to
  run,         \* the loop: running, stopping, restarting or halted
  resets,      \* how many resets there have been
  own,         \* jobs that an agent was the last to pause
  excused,     \* jobs an agent resumed, or that were granted units, since they were parked
  strayed      \* jobs registered in a restart that began on a stale world

jobVars == <<status, paused, kernel, own>>
agentVars == <<tasks, asleep, wake>>
regVars == <<jobs, agents, rest, due, parked, strayed>>
healthVars == <<stale, failures>>
staleVars == <<active, notified, escalated, since>>
loopVars == <<at, list, run, resets>>
vars == <<jobVars, agentVars, regVars, healthVars, staleVars, loopVars, excused>>

Off == "off"
Live(j) == status[j] \in {"running", "waiting"}
Active == {j \in kernel : Live(j)}      \* kernel.active_jobs

Init ==
  /\ status = [j \in Job |-> "none"] /\ paused = [j \in Job |-> FALSE]
  /\ kernel = {} /\ tasks = {} /\ asleep = {} /\ wake = {}
  /\ jobs = {} /\ agents = {}
  /\ rest = [j \in Job |-> 0] /\ due = [t \in Task |-> 0]
  /\ parked = {} /\ stale \in BOOLEAN /\ failures = IF stale THEN 1 ELSE 0
  /\ active = FALSE /\ notified = FALSE /\ escalated = FALSE /\ since = 0
  /\ at = Off /\ list = {} /\ run = "running" /\ resets = 0
  /\ own = {} /\ excused = {} /\ strayed = {}

-----------------------------------------------------------------------------
(* The kernel, the agents and the player.                                  *)

OnlyKernel == UNCHANGED <<regVars, healthVars, staleVars, loopVars>>

\* A new task may take the name of one that has ended and is forgotten.
CreateTask(t) ==
  /\ t \notin tasks \cup agents
  /\ tasks' = tasks \cup {t}
  /\ UNCHANGED <<jobVars, asleep, wake, excused>> /\ OnlyKernel

\* A job starts as running, and waits when it needs a package of units.  It
\* may take the name of one that has ended and that nobody knows any more.
StartJob(j) ==
  /\ j \notin Active \cup jobs \cup list /\ at # j /\ Of[j] \in tasks
  /\ \E s \in {"running", "waiting"} : status' = [status EXCEPT ![j] = s]
  /\ paused' = [paused EXCEPT ![j] = FALSE]
  /\ kernel' = kernel \cup {j}
  /\ own' = own \ {j} /\ excused' = excused \ {j} /\ strayed' = strayed \ {j}
  /\ UNCHANGED <<agentVars, jobs, agents, rest, due, parked, healthVars, staleVars, loopVars>>

\* BaseJob.pause
Paused(S) ==
  /\ paused' = [j \in Job |-> paused[j] \/ j \in S]
  /\ status' = [j \in Job |-> IF j \in S THEN "waiting" ELSE status[j]]

\* BaseJob.resume: nothing happens to a job that has ended.
Resumed(S) ==
  /\ paused' = [j \in Job |-> paused[j] /\ ~(j \in S /\ Live(j))]
  /\ status' = [j \in Job |-> IF j \in S /\ Live(j) THEN "running" ELSE status[j]]

PauseJob(j) ==
  /\ j \in Active
  /\ Paused({j})
  /\ own' = own \cup {j}
  /\ UNCHANGED <<kernel, agentVars, excused>> /\ OnlyKernel

ResumeJob(j) ==
  /\ j \in Active
  /\ Resumed({j})
  /\ own' = own \ {j} /\ excused' = excused \cup {j}
  /\ UNCHANGED <<kernel, agentVars>> /\ OnlyKernel

\* on_resource_granted: a waiting job runs, also one that is paused.
Granted(j) ==
  /\ j \in Active /\ status[j] = "waiting"
  /\ status' = [status EXCEPT ![j] = "running"]
  /\ excused' = excused \cup {j}
  /\ UNCHANGED <<paused, kernel, own, agentVars>> /\ OnlyKernel

\* on_resource_revoked, when no unit is left.
Revoked(j) ==
  /\ j \in Active
  /\ status' = [status EXCEPT ![j] = "waiting"]
  /\ UNCHANGED <<paused, kernel, own, agentVars, excused>> /\ OnlyKernel

AbortJob(j) ==
  /\ j \in Active
  /\ status' = [status EXCEPT ![j] = "ended"]
  /\ UNCHANGED <<paused, kernel, own, agentVars, excused>> /\ OnlyKernel

\* A task ends or is cancelled, with its jobs and its agent.
EndedWith(T) == [j \in Job |-> IF Of[j] \in T /\ j \in Active THEN "ended" ELSE status[j]]

EndTask(t) ==
  /\ t \in tasks
  /\ tasks' = tasks \ {t} /\ asleep' = asleep \ {t} /\ wake' = wake \ {t}
  /\ status' = EndedWith({t})
  /\ UNCHANGED <<paused, kernel, own, excused>> /\ OnlyKernel

\* An agent waits for units, is woken, and takes what its queue holds.
Suspend(t) ==
  /\ t \in tasks
  /\ asleep' = IF t \in asleep THEN asleep \ {t} ELSE asleep \cup {t}
  /\ UNCHANGED <<jobVars, tasks, wake, excused>> /\ OnlyKernel

TakesReview(t) ==
  /\ t \in wake
  /\ wake' = wake \ {t}
  /\ UNCHANGED <<jobVars, tasks, asleep, excused>> /\ OnlyKernel

KernelStep ==
  \/ \E t \in Task : CreateTask(t) \/ EndTask(t) \/ Suspend(t) \/ TakesReview(t)
  \/ \E j \in Job : \/ StartJob(j) \/ PauseJob(j) \/ ResumeJob(j)
                    \/ Granted(j) \/ Revoked(j) \/ AbortJob(j)

-----------------------------------------------------------------------------
(* Registration.                                                           *)

\* Mutant of NewAgents: every sync registers the agents anew.
NewAgentsAlways == tasks

NewAgents == tasks \ agents

\* Mutant of NewlyParked: a job registered on a stale world is let run.
NewlyParkedNone == {}

\* register_job on a stale world.
NewlyParked == IF active THEN {j \in Active \ jobs : status[j] = "running" /\ ~paused[j]} ELSE {}

StillParked == parked \cap Active

\* RuntimeBridge.sync_runtime
Sync ==
  /\ agents' = tasks
  /\ due' = [t \in Task |-> IF t \in NewAgents THEN Review ELSE due[t]]
  /\ jobs' = Active
  /\ rest' = [j \in Job |-> IF j \in Active \cap jobs THEN rest[j] ELSE 0]
  /\ Paused(NewlyParked)
  /\ parked' = StillParked \cup NewlyParked
  /\ strayed' = IF run = "restarting" THEN strayed \cup NewlyParked ELSE strayed
  /\ excused' = excused \ NewlyParked
  /\ UNCHANGED <<kernel, own>>

\* Commands, cancellations, replies and requests of the player sync too.
PlayerSync ==
  /\ <<agents, jobs>> # <<tasks, Active>>
  /\ Sync
  /\ UNCHANGED <<agentVars, healthVars, staleVars, loopVars>>

-----------------------------------------------------------------------------
(* The tick.                                                               *)

Clock ==
  /\ at = Off
  /\ rest' = [j \in Job |-> IF rest[j] > 0 THEN rest[j] - 1 ELSE 0]
  /\ due' = [t \in Task |-> IF due[t] > 0 THEN due[t] - 1 ELSE 0]
  /\ since' = IF active /\ since < Escalation THEN since + 1 ELSE since
  /\ <<rest, due, since>>' # <<rest, due, since>>
  /\ UNCHANGED <<jobVars, agentVars, jobs, agents, parked, strayed, healthVars,
                 active, notified, escalated, loopVars, excused>>

TickBegins ==
  /\ run = "running" /\ at = Off
  /\ at' = "refresh"
  /\ UNCHANGED <<jobVars, agentVars, regVars, healthVars, staleVars, list, run, resets, excused>>

\* The refresh fails in a layer, succeeds, or has nothing to do.
Refreshed ==
  \/ stale' = TRUE /\ failures' = IF failures < Threshold THEN failures + 1 ELSE Threshold
  \/ stale' = FALSE /\ failures' = 0
  \/ UNCHANGED healthVars

\* _pause_jobs_for_recovery
Parkable == {j \in jobs : status[j] = "running" /\ ~paused[j]}

\* Mutant of Began: the outage seems to begin anew at every tick.
BeganAlways == 0

Began == IF active THEN since ELSE 0

\* _handle_world_model_health when the snapshot is stale ...
Outage ==
  /\ stale'
  /\ active' = TRUE
  /\ IF active THEN UNCHANGED <<status, paused, parked, excused>>
     ELSE Paused(Parkable) /\ parked' = parked \cup Parkable /\ excused' = excused \ Parkable
  /\ since' = Began
  /\ notified' = (notified \/ failures' = Threshold)
  /\ escalated' = (escalated \/ since' = Escalation)
  /\ UNCHANGED own

\* Mutant of Resumable: jobs are resumed only after the player was told.
ResumableOld == IF notified THEN parked ELSE {}

\* _resume_jobs_after_recovery
Resumable == IF active THEN parked \cap jobs ELSE {}

\* ... and when it is fresh.
Fresh ==
  /\ ~stale'
  /\ Resumed(Resumable)
  /\ parked' = IF active THEN {} ELSE parked
  /\ own' = own \ Resumable
  /\ active' = FALSE /\ notified' = FALSE /\ escalated' = FALSE /\ since' = 0
  /\ UNCHANGED excused

\* The refresh is over: its events are routed, the kernel ticks and the
\* health is handled before the loop awaits again.
Health ==
  /\ at = "refresh"
  /\ Refreshed
  /\ Outage \/ Fresh
  /\ at' = "jobs" /\ list' = jobs
  /\ UNCHANGED <<kernel, agentVars, jobs, agents, rest, due, strayed, run, resets>>

\* ... and one of its events says that the match was reset: the kernel
\* forgets all its jobs, which go on as they were, and its tasks.
HealthAfterReset ==
  /\ at = "refresh" /\ resets < Resets
  /\ Refreshed
  /\ Outage \/ Fresh
  /\ kernel' = {} /\ tasks' = {} /\ asleep' = {} /\ wake' = {}
  /\ at' = "jobs" /\ list' = jobs
  /\ resets' = resets + 1
  /\ UNCHANGED <<jobs, agents, rest, due, strayed, run>>

\* A job that is not due, or has ended, is passed over.
PassOver(j) ==
  /\ at = "jobs" /\ j \in list
  /\ rest[j] > 0 \/ ~Live(j)
  /\ list' = list \ {j}
  /\ UNCHANGED <<jobVars, agentVars, regVars, healthVars, staleVars, at, run, resets, excused>>

HandOver(j) ==
  /\ at = "jobs" /\ j \in list
  /\ rest[j] = 0 /\ Live(j)
  /\ at' = j /\ list' = list \ {j}
  /\ rest' = [rest EXCEPT ![j] = IF j \in jobs THEN Interval[j] ELSE 0]
  /\ UNCHANGED <<jobVars, agentVars, jobs, agents, due, parked, strayed, healthVars, staleVars,
                 run, resets, excused>>

\* BaseJob.do_tick, in its thread.
MayTick(j) == ~paused[j] /\ status[j] = "running"

JobIdles(j) ==
  /\ at = j /\ ~MayTick(j)
  /\ at' = "jobs"
  /\ UNCHANGED <<jobVars, agentVars, regVars, healthVars, staleVars, list, run, resets, excused>>

\* The tick goes on, ends its job or raises, which ends the job as well.
\* A job that has ended wakes its agent.
JobTicks(j) ==
  /\ at = j /\ MayTick(j)
  /\ \/ /\ UNCHANGED <<status, parked, wake>>
     \/ /\ status' = [status EXCEPT ![j] = "ended"]
        /\ parked' \in {parked, parked \ {j}}
        /\ wake' = wake \cup ({Of[j]} \cap agents)
  /\ at' = "jobs"
  /\ UNCHANGED <<paused, kernel, own, tasks, asleep, jobs, agents, rest, due, strayed,
                 healthVars, staleVars, list, run, resets, excused>>

\* _check_agent_reviews, and the queue manager's tick begins.
Reviews ==
  /\ at = "jobs" /\ list = {}
  /\ due' = [t \in Task |-> IF t \in agents /\ due[t] = 0 THEN Review ELSE due[t]]
  /\ wake' = wake \cup {t \in agents : due[t] = 0 /\ t \notin asleep}
  /\ at' = "queue"
  /\ UNCHANGED <<jobVars, tasks, asleep, jobs, agents, rest, parked, strayed, healthVars,
                 staleVars, list, run, resets, excused>>

\* The queue manager is done; on_tick syncs.
TickEnds ==
  /\ at = "queue"
  /\ Sync
  /\ at' = Off
  /\ UNCHANGED <<agentVars, healthVars, staleVars, list, run, resets>>

Tick ==
  \/ TickBegins \/ Health \/ HealthAfterReset
  \/ \E j \in Job : PassOver(j) \/ HandOver(j) \/ JobIdles(j) \/ JobTicks(j)
  \/ Reviews \/ TickEnds

-----------------------------------------------------------------------------
(* The runtime.                                                            *)

\* reset_runtime_state
Forget ==
  /\ active' = FALSE /\ notified' = FALSE /\ escalated' = FALSE /\ since' = 0
  /\ parked' = {}

\* on_session_clear: the kernel ends everything, the snapshot and the loop's
\* bookkeeping are reset, and the bridge syncs.
SessionClear ==
  /\ run \in {"running", "halted"} /\ resets < Resets
  /\ resets' = resets + 1
  /\ status' = [j \in Job |-> IF j \in Active THEN "ended" ELSE status[j]]
  /\ kernel' = {} /\ tasks' = {} /\ asleep' = {} /\ wake' = {}
  /\ stale' = FALSE /\ failures' = 0
  /\ Forget
  /\ jobs' = {} /\ agents' = {} /\ rest' = [j \in Job |-> 0]
  /\ UNCHANGED <<paused, own, due, strayed, at, list, run, excused>>

\* restart_game: the loop is stopped after its tick ...
RestartBegins ==
  /\ run \in {"running", "halted"}
  /\ run' = "stopping"
  /\ UNCHANGED <<jobVars, agentVars, regVars, healthVars, staleVars, at, list, resets, excused>>

\* ... or, when the tick takes too long, in it; all tasks are cancelled ...
LoopStops ==
  /\ run = "stopping"
  /\ run' = "restarting"
  /\ at' = Off /\ list' = {}
  /\ tasks' = {} /\ asleep' = {} /\ wake' = {}
  /\ status' = EndedWith(tasks)
  /\ jobs' = {j \in Active : Of[j] \notin tasks} /\ parked' = parked \cap jobs'
  /\ agents' = {} /\ rest' = [j \in Job |-> IF j \in jobs' THEN rest[j] ELSE 0]
  /\ UNCHANGED <<paused, kernel, own, due, strayed, healthVars, staleVars, resets, excused>>

\* ... and when the game answers the bookkeeping is reset and the loop goes on.
RestartEnds ==
  /\ run = "restarting"
  /\ run' = "running"
  /\ stale' \in BOOLEAN /\ failures' = IF stale' THEN 1 ELSE 0
  /\ Forget
  /\ UNCHANGED <<jobVars, agentVars, jobs, agents, rest, due, strayed, at, list, resets, excused>>

\* The game does not answer: the loop is not started again.
RestartFails ==
  /\ run = "restarting"
  /\ run' = "halted"
  /\ UNCHANGED <<jobVars, agentVars, regVars, healthVars, staleVars, at, list, resets, excused>>

Runtime == SessionClear \/ RestartBegins \/ LoopStops \/ RestartEnds \/ RestartFails

Next == KernelStep \/ PlayerSync \/ Clock \/ Tick \/ Runtime

Spec == Init /\ [][Next]_vars

\* A tick that began comes to its end, time passes between ticks, and the
\* agents that are woken take what their queues hold.
LiveSpec ==
  /\ Spec
  /\ WF_vars(Tick) /\ SF_vars(Clock) /\ WF_vars(LoopStops)
  /\ \A t \in Task : WF_vars(TakesReview(t))

-----------------------------------------------------------------------------
(* Properties.                                                             *)

\* Every variable keeps to its type, and the loop's books fit together.
TypeOK ==
  /\ status \in [Job -> {"none", "running", "waiting", "ended"}]
  /\ paused \in [Job -> BOOLEAN]
  /\ kernel \cup own \cup excused \cup strayed \subseteq Job
  /\ tasks \cup asleep \cup wake \cup agents \subseteq Task
  /\ parked \subseteq jobs /\ jobs \subseteq Job /\ list \subseteq Job
  /\ \A j \in Job : rest[j] \in 0..Interval[j]
  /\ due \in [Task -> 0..Review]
  /\ failures \in 0..Threshold /\ since \in 0..Escalation
  /\ {stale, active, notified, escalated} \subseteq BOOLEAN
  /\ at \in {Off, "refresh", "jobs", "queue"} \cup Job
  /\ run \in {"running", "stopping", "restarting", "halted"}
  /\ resets \in 0..Resets

\* While the loop knows the snapshot to be stale no job acts on it, but one
\* that an agent resumed or the kernel granted units since it was parked.
StaleStopsJobs == \A j \in Job : active /\ at = j /\ MayTick(j) => j \in excused

\* A job is never left paused by the loop: a live job that is paused is still
\* on the loop's list to resume, or its agent has paused it, or it was
\* registered in a restart, which empties the list.
NobodyForgotten ==
  \A j \in Active : paused[j] => j \in parked \cup own \cup strayed

\* An outage that lasts reaches the player as critical, and stays told once.
OutageIsTold == <>[](stale /\ run = "running") => <>[]escalated

\* While the loop runs, an agent that is registered and not suspended is
\* reviewed again and again.
Reviewed ==
  \A t \in Task : <>[](t \in agents /\ t \notin asleep /\ run = "running") => []<>(t \in wake)
=============================================================================
