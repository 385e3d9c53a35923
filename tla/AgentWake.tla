------------------------------- MODULE AgentWake -------------------------------
(***************************************************************************)
(* The agent of one task (task_agent/agent.py): its queue, the wake cycle  *)
(* that drains it, the calls of the language model with their retries and  *)
(* failures, and the tool calls of a response.                             *)
(*                                                                         *)
(* A wake cycle runs without an await from the drain of the queue to the   *)
(* call of the model, and from the end of the tool calls to the next call; *)
(* jobs tick, units are assigned and the player speaks in between.         *)
(***************************************************************************)
EXTENDS Naturals, FiniteSets

CONSTANTS
  Job,          \* the jobs the task may come to have
  None,         \* no bootstrap job
  MaxTurns,     \* config.max_turns
  MaxRetries,   \* config.max_retries
  MaxFailures   \* config.max_consecutive_failures

ASSUME AgentOK ==
  /\ None \notin Job
  /\ MaxTurns \in Nat \ {0} /\ MaxRetries \in Nat /\ MaxFailures \in Nat \ {0}

VARIABLES
  role,        \* "ordinary", or "capability" for the economy's persistent task
  rule,        \* the jobs whose expert fits the task's text read as a single command
  status,      \* each job: none, live (running or waiting) or ended
  open,        \* the task has not ended
  queue,       \* the kinds of items that wait in the agent's queue
  suspended,   \* _suspended
  demand,      \* the capability has requests to work on
  up,          \* the language model answers
  pc,          \* wait_for_wake, in a call, in the tool calls of a response, or stopped
  attempt,     \* the call's retries so far
  turn,        \* the turn of this wake cycle
  failures,    \* _consecutive_failures
  boot,        \* _bootstrap_job_id
  snap,        \* _last_job_snapshot
  ctx,         \* the statuses the call in progress was given
  calls,       \* the tool calls of the response that have not run
  shown,       \* the statuses the model last answered to
  asked        \* a request was announced to the capability that no call has taken

taskVars == <<role, rule, status, open, demand, up>>
wakeVars == <<boot, snap>>
callVars == <<attempt, turn, ctx, calls>>
vars == <<taskVars, queue, suspended, pc, failures, wakeVars, callVars, shown, asked>>

Jobs == {j \in Job : status[j] # "none"}
Live == {j \in Job : status[j] = "live"}
Over == {j \in Job : status[j] = "ended"}
NoJobs == [j \in Job |-> "none"]

\* A task may come with a job a rule has started for it.
Init ==
  /\ role \in {"ordinary", "capability"}
  /\ rule \in IF role = "ordinary" THEN SUBSET Job ELSE {{}}
  /\ \E first \in SUBSET rule :
       /\ Cardinality(first) <= 1
       /\ status = [j \in Job |-> IF j \in first THEN "live" ELSE "none"]
  /\ open = TRUE /\ queue = {} /\ suspended = FALSE /\ demand = FALSE
  /\ up \in BOOLEAN
  /\ pc = "wait" /\ attempt = 0 /\ turn = 0 /\ failures = 0
  /\ boot = None
  /\ snap = NoJobs /\ ctx = NoJobs /\ shown = NoJobs
  /\ calls = {} /\ asked = FALSE

-----------------------------------------------------------------------------
(* The jobs, the kernel and the player.                                    *)

OnlyTask == UNCHANGED <<role, rule, pc, failures, wakeVars, callVars, shown>>

\* Some endings of a job come without a signal, some signals before the end.
JobEnds(j) ==
  /\ j \in Live
  /\ status' = [status EXCEPT ![j] = "ended"]
  /\ UNCHANGED <<open, queue, suspended, demand, up, asked>> /\ OnlyTask

\* A signal of a job, an event of the world, an answer of the player.
Inform ==
  /\ open
  /\ queue' = queue \cup {"item"}
  /\ UNCHANGED <<status, open, suspended, demand, up, asked>> /\ OnlyTask

\* inject_player_message, which is no item like any other for the capability.
PlayerSpeaks ==
  /\ open /\ role = "capability"
  /\ queue' = queue \cup {"message"}
  /\ UNCHANGED <<status, open, suspended, demand, up, asked>> /\ OnlyTask

\* wake_waiting_agent
UnitsAssigned ==
  /\ open /\ suspended
  /\ suspended' = FALSE
  /\ queue' = queue \cup {"item"}
  /\ UNCHANGED <<status, open, demand, up, asked>> /\ OnlyTask

\* Requests the capability must work on are announced to it, those served by
\* a bootstrap job are not.
DemandArises ==
  /\ open /\ role = "capability"
  /\ demand' = TRUE
  /\ \/ queue' = queue \cup {"item"} /\ asked' = TRUE
     \/ UNCHANGED <<queue, asked>>
  /\ UNCHANGED <<status, open, suspended, up>> /\ OnlyTask

DemandEnds ==
  /\ open /\ demand
  /\ demand' = FALSE /\ asked' = FALSE
  /\ UNCHANGED <<status, open, queue, suspended, up>> /\ OnlyTask

ModelChanges ==
  /\ up' = ~up
  /\ UNCHANGED <<status, open, queue, suspended, demand, asked>> /\ OnlyTask

\* The end of the task, by whomever: its jobs end and its runner is cancelled.
Ended ==
  /\ open' = FALSE
  /\ status' = [j \in Job |-> IF j \in Live THEN "ended" ELSE status[j]]
  /\ pc' = "stopped" /\ calls' = {} /\ turn' = 0 /\ attempt' = 0 /\ ctx' = NoJobs

Cancelled ==
  /\ open
  /\ Ended
  /\ UNCHANGED <<role, rule, demand, up, queue, suspended, failures, wakeVars, shown, asked>>

Environment ==
  \/ \E j \in Job : JobEnds(j)
  \/ Inform \/ PlayerSpeaks \/ UnitsAssigned \/ DemandArises \/ DemandEnds \/ ModelChanges
  \/ Cancelled

-----------------------------------------------------------------------------
(* A wake cycle up to the call: a signal, an event, a review or the timer  *)
(* wakes the agent.                                                        *)

Awake == pc = "wait" /\ ~suspended

\* The queue is drained, and what was in it is gone.
WakesAsleep ==
  /\ pc = "wait" /\ suspended /\ queue # {}
  /\ queue' = {}
  /\ UNCHANGED <<taskVars, suspended, pc, failures, wakeVars, callVars, shown, asked>>

\* Finalization: the job a simple command was bound to has ended.
Finished == boot \in Over

WakeFinishes ==
  /\ Awake /\ Finished
  /\ queue' = {}
  /\ Ended
  /\ UNCHANGED <<role, rule, demand, up, suspended, failures, wakeVars, shown, asked>>

\* _maybe_attach_existing_rule_job
Attached ==
  IF boot = None /\ Cardinality(Jobs) = 1 /\ Jobs \subseteq rule
  THEN CHOOSE j \in Jobs : TRUE ELSE boot

\* Mutant of Actionable: only what the player says sets the capability to work.
ActionableByPlayer == role = "ordinary" \/ "message" \in queue

\* _capability_has_actionable_demand
Actionable == role = "ordinary" \/ demand \/ "message" \in queue

\* Mutant of Unchanged: a job that ends is no news, only a new one is.
UnchangedJobs == {j \in Job : snap[j] # "none"} = Jobs

Unchanged == snap = status

\* The smart wake: nothing new, no call.
Skippable == queue = {} /\ Jobs # {} /\ Unchanged

WakeIdles ==
  /\ Awake /\ ~Finished
  /\ ~Actionable \/ Skippable
  /\ queue' = {}
  /\ boot' = Attached
  /\ UNCHANGED <<taskVars, suspended, pc, failures, snap, callVars, shown, asked>>

WakeCalls ==
  /\ Awake /\ ~Finished /\ Actionable /\ ~Skippable
  /\ queue' = {}
  /\ boot' = Attached
  /\ snap' = status /\ ctx' = status
  /\ pc' = "call" /\ attempt' = 0 /\ turn' = 1
  /\ asked' = FALSE
  /\ UNCHANGED <<taskVars, suspended, failures, calls, shown>>

\* The cycle is over, and what it kept is forgotten.
Rests == pc' = "wait" /\ turn' = 0 /\ attempt' = 0 /\ ctx' = NoJobs

\* Mutant of OneMore: the counter starts anew with every wake cycle.
OneMoreOfWake == IF turn = 1 THEN 1 ELSE failures + 1

OneMore == failures + 1

\* A failure counts, and the last one allowed ends the task.
Fails ==
  /\ failures' = OneMore
  /\ IF failures' >= MaxFailures THEN Ended
     ELSE Rests /\ UNCHANGED <<open, status, calls>>

\* An exception before the call, with the model down: the items are gone.
WakeCrashes ==
  /\ Awake /\ ~Finished /\ ~up
  /\ queue' = {}
  /\ boot' = Attached
  /\ Fails
  /\ UNCHANGED <<role, rule, demand, up, suspended, snap, shown, asked>>

-----------------------------------------------------------------------------
(* The call and the response.                                              *)

MayRetry == attempt < MaxRetries

AttemptFails ==
  /\ pc = "call" /\ ~up /\ MayRetry
  /\ attempt' = attempt + 1
  /\ UNCHANGED <<taskVars, queue, suspended, pc, failures, wakeVars, turn, ctx, calls, shown, asked>>

\* The last attempt fails, or a response is empty, which is not retried.
CallFails ==
  /\ pc = "call" /\ ~up
  /\ Fails
  /\ UNCHANGED <<role, rule, demand, up, queue, suspended, wakeVars, shown, asked>>

Answered ==
  /\ pc = "call" /\ up
  /\ failures' = 0
  /\ shown' = ctx

SaysText ==
  /\ Answered
  /\ Rests
  /\ UNCHANGED <<taskVars, queue, suspended, wakeVars, calls, asked>>

\* ORDINARY_HIDDEN_TOOL_NAMES, CAPABILITY_TOOL_NAMES: what a role is offered,
\* by what it does.  The capability's tools start jobs or look.
Offered ==
  IF role = "capability" THEN {"start", "look"}
  ELSE {"start", "abort", "look", "request", "complete"}

CallsTools ==
  /\ Answered
  /\ pc' = "tools"
  /\ \E T \in SUBSET Offered : T # {} /\ calls' = T
  /\ attempt' = 0 /\ ctx' = NoJobs
  /\ UNCHANGED <<taskVars, queue, suspended, wakeVars, turn, asked>>

Runs(tool) == pc = "tools" /\ tool \in calls /\ calls' = calls \ {tool}

\* Queries, messages, and every call that is refused.
Looks(tool) ==
  /\ Runs(tool)
  /\ UNCHANGED <<taskVars, queue, suspended, pc, failures, wakeVars, attempt, turn, ctx, shown, asked>>

StartsJob ==
  /\ Runs("start")
  /\ \E j \in Job \ Jobs : status' = [status EXCEPT ![j] = "live"]
  /\ UNCHANGED <<role, rule, open, demand, up, queue, suspended, pc, failures, wakeVars,
                 attempt, turn, ctx, shown, asked>>

\* abort_job
AbortsJob ==
  /\ Runs("abort")
  /\ \E j \in Live : status' = [status EXCEPT ![j] = "ended"]
  /\ UNCHANGED <<role, rule, open, demand, up, queue, suspended, pc, failures, wakeVars,
                 attempt, turn, ctx, shown, asked>>

\* A blocking request that is not filled at once suspends the agent.
RequestsUnits ==
  /\ Runs("request")
  /\ suspended' = TRUE
  /\ UNCHANGED <<taskVars, queue, pc, failures, wakeVars, attempt, turn, ctx, shown, asked>>

\* The kernel ends the task and cancels the agent, with its other calls.
CompletesTask ==
  /\ pc = "tools" /\ "complete" \in calls
  /\ Ended
  /\ UNCHANGED <<role, rule, demand, up, queue, suspended, failures, wakeVars, shown, asked>>

\* Mutant of GoesOn: the turn goes on with an agent that is suspended.
GoesOnAsleep == turn < MaxTurns

GoesOn == ~suspended /\ turn < MaxTurns

\* All calls have run: the model is called again with a fresh context.
NextTurn ==
  /\ pc = "tools" /\ calls = {} /\ GoesOn
  /\ pc' = "call" /\ turn' = turn + 1 /\ attempt' = 0 /\ ctx' = status
  /\ UNCHANGED <<taskVars, queue, suspended, failures, wakeVars, calls, shown, asked>>

WakeEnds ==
  /\ pc = "tools" /\ calls = {} /\ ~GoesOn
  /\ Rests
  /\ UNCHANGED <<taskVars, queue, suspended, failures, wakeVars, calls, shown, asked>>

Agent ==
  \/ WakesAsleep \/ WakeFinishes \/ WakeIdles \/ WakeCalls \/ WakeCrashes
  \/ AttemptFails \/ CallFails \/ SaysText \/ CallsTools
  \/ StartsJob \/ AbortsJob \/ RequestsUnits \/ CompletesTask
  \/ \E tool \in Offered : Looks(tool)
  \/ NextTurn \/ WakeEnds

Next == Environment \/ Agent

Spec == Init /\ [][Next]_vars

\* The agent's runner is scheduled, and every call ends.
LiveSpec == Spec /\ WF_vars(Agent)

-----------------------------------------------------------------------------
(* Properties.                                                             *)

\* Every variable keeps to its type.
Flags ==
  /\ open \in BOOLEAN /\ suspended \in BOOLEAN /\ demand \in BOOLEAN
  /\ up \in BOOLEAN /\ asked \in BOOLEAN

TypeOK ==
  /\ Flags
  /\ role \in {"ordinary", "capability"} /\ rule \in SUBSET Job
  /\ status \in [Job -> {"none", "live", "ended"}]
  /\ queue \subseteq {"item", "message"}
  /\ pc \in {"wait", "call", "tools", "stopped"}
  /\ attempt \in 0..MaxRetries /\ turn \in 0..MaxTurns
  /\ failures \in 0..MaxFailures
  /\ boot \in Job \cup {None}

\* The model is never called for an agent that waits for units, though the
\* request that suspends it is one of several calls of a response, and an
\* agent that has stopped belongs to a task that has ended.
NoCallWhileAsleep == (pc = "call" => ~suspended) /\ (pc = "stopped" <=> ~open)

\* While the model answers, the end of a job of an ordinary task reaches it,
\* with or without a signal, unless the task ends or waits for units for ever.
EndIsShown ==
  ([]up /\ role = "ordinary") =>
    \A j \in Job : (j \in Over) ~> (shown[j] = status[j] \/ ~open \/ []suspended)

\* While the model answers, a request announced to the capability reaches it.
DemandIsServed == []up => (asked ~> (~asked \/ ~open))

\* When the model stays down, an ordinary task without jobs is ended.
BrokenEnds ==
  (role = "ordinary" /\ <>[](~up /\ Jobs = {} /\ ~suspended)) => <>~open

=============================================================================
