----------------------------- MODULE UnitRequests -----------------------------
(***************************************************************************)
(* Units that agents ask the kernel for (kernel/unit_request_*.py): idle   *)
(* units are promised to requests, a request whose start package is there  *)
(* hands its units to its task, an agent with a blocking request below its *)
(* start package is suspended, and production is bootstrapped for what is  *)
(* missing (experts/economy.py counts what it yields).                     *)
(*                                                                         *)
(* A scan of the pending requests is modelled request by request; kernel   *)
(* calls and signals are taken one after the other (see KernelResources    *)
(* for calls that interleave).  Requests are numbers in creation order.    *)
(* How well a unit fits the hint of a request only orders the units that   *)
(* fit: which of them are taken is a free choice.                          *)
(***************************************************************************)
EXTENDS Integers, FiniteSets

CONSTANTS
  Task,       \* tasks with an agent
  Request,    \* ids of requests, in creation order
  Actor,      \* units of the player
  Rank,       \* the priority of each task
  Shape       \* what requests ask for

None == 0

ASSUME RequestsOK ==
  /\ Task \subseteq Nat \ {None}
  /\ Request \subseteq Nat \ {None}
  /\ IsFiniteSet(Actor)
  /\ Rank \in [Task -> Nat]
  /\ Shape # {}
  /\ Shape \subseteq [count : Nat \ {0}, start : Nat \ {0}, blocking : BOOLEAN, urgency : Nat,
                      category : SUBSET Actor, fits : SUBSET Actor]
  /\ \A s \in Shape : s.start <= s.count /\ s.fits \subseteq s.category

VARIABLES
  taskState,   \* tasks[t]: new, open, ended, or gone with its session
  suspended,   \* the agent's _suspended
  groups,      \* _task_actor_groups
  bindings,    \* world_model.resource_bindings
  owner,       \* req.task_id
  shape,       \* what the request asks for
  state,       \* req.status
  released,    \* req.start_released
  assigned,    \* req.assigned_actor_ids; their number is req.fulfilled
  job,         \* the bootstrap job of the request: none, live, ended
  target,      \* its config.count
  issued,      \* its issued_count
  produced,    \* its produced_count
  unseen,      \* units it has not looked at since they appeared
  world,       \* the units of the current snapshot
  queue,       \* the requests the scan under way has still to serve
  spare,       \* the idle units it has left
  startable    \* the requests that could reach their start package when it began

taskVars  == <<taskState, suspended>>
unitVars  == <<groups, bindings>>
askVars   == <<owner, shape>>
fillVars  == <<state, released, assigned>>
jobVars   == <<job, target, issued, produced, unseen>>
scanVars  == <<queue, spare, startable>>
vars == <<taskVars, unitVars, askVars, fillVars, jobVars, world, scanVars>>

\* Who a unit is bound to: nobody, a request, or a job of a task.
Unbound    == <<"none", None>>
Promise(r) == <<"req", r>>
Held(t)    == <<"job", t>>

AnyShape == CHOOSE s \in Shape : TRUE

Init ==
  /\ taskState = [t \in Task |-> "new"]
  /\ suspended = [t \in Task |-> FALSE]
  /\ groups = [t \in Task |-> {}]
  /\ bindings = [a \in Actor |-> Unbound]
  /\ owner = [r \in Request |-> None]
  /\ shape = [r \in Request |-> AnyShape]
  /\ state = [r \in Request |-> "none"]
  /\ released = [r \in Request |-> FALSE]
  /\ assigned = [r \in Request |-> {}]
  /\ job = [r \in Request |-> "none"]
  /\ target = [r \in Request |-> 0]
  /\ issued = [r \in Request |-> 0]
  /\ produced = [r \in Request |-> 0]
  /\ unseen = [r \in Request |-> {}]
  /\ world \in [Actor -> {"unborn", "idle"}]
  /\ queue = {} /\ spare = {} /\ startable = {}

Free       == queue = {}
Open(t)    == taskState[t] = "open"
Pending    == {r \in Request : state[r] \in {"pending", "partial"}}
Present(a) == world[a] \in {"idle", "busy"}
Idle       == {a \in Actor : world[a] = "idle" /\ bindings[a] = Unbound}

\* Mutant of Taken: every unit that fits, however many are missing.
TakenAll(fit, missing) == {fit}

\* Of the units that fit, as many as the request misses.
Taken(fit, missing) ==
  {S \in SUBSET fit : Cardinality(S) = missing
                      \/ (Cardinality(fit) <= missing /\ S = fit)}

\* update_request_status_from_progress
Progress(s, units) ==
  IF Cardinality(units) >= s.count THEN "fulfilled"
  ELSE IF units # {} THEN "partial" ELSE "pending"

CanStart(s, units) == Cardinality(units) >= s.start

\* task_has_blocking_wait: a blocking request of the task below its start package.
StillWaits(t, st, units) ==
  \E r \in Request :
    /\ owner[r] = t /\ st[r] \in {"pending", "partial"}
    /\ shape[r].blocking /\ ~released[r] /\ ~CanStart(shape[r], units[r])
BlockingWait(t) == StillWaits(t, state, assigned)

\* set_task_actor_group
Grouped(t, units) ==
  [u \in Task |-> IF u = t THEN {a \in groups[t] \cup units : Present(a)} ELSE groups[u] \ units]

-----------------------------------------------------------------------------
(* Tasks.                                                                  *)

OpenTask(t) ==
  /\ Free /\ taskState[t] = "new"
  /\ taskState' = [taskState EXCEPT ![t] = "open"]
  /\ UNCHANGED <<suspended, unitVars, askVars, fillVars, jobVars, world, scanVars>>

\* register_unit_request: idle units first, then production for the rest.
Register(t, r, s) ==
  /\ Free /\ Open(t) /\ state[r] = "none"
  /\ \A q \in Request : state[q] = "none" => r <= q
  /\ \E S \in Taken(s.fits \cap Idle, s.count), start \in BOOLEAN :
       /\ owner' = [owner EXCEPT ![r] = t]
       /\ shape' = [shape EXCEPT ![r] = s]
       /\ assigned' = [assigned EXCEPT ![r] = S]
       /\ state' = [state EXCEPT ![r] = Progress(s, S)]
       /\ released' = [released EXCEPT ![r] = CanStart(s, S)]
       /\ IF CanStart(s, S)
          THEN groups' = Grouped(t, S) /\ UNCHANGED bindings
          ELSE /\ bindings' = [a \in Actor |-> IF a \in S THEN Promise(r) ELSE bindings[a]]
               /\ UNCHANGED groups
       /\ start => Cardinality(S) < s.count
       /\ job' = [job EXCEPT ![r] = IF start THEN "live" ELSE "none"]
       /\ target' = [target EXCEPT ![r] = IF start THEN s.count - Cardinality(S) ELSE 0]
       /\ suspended' = [suspended EXCEPT ![t] =
                          @ \/ (Cardinality(S) < s.count /\ BlockingWait(t)')]
  /\ UNCHANGED <<taskState, issued, produced, unseen, world, scanVars>>

\* What the end of a task releases: the units of its jobs.
Dropped(ts) == [a \in Actor |-> IF \E t \in ts : bindings[a] = Held(t) THEN Unbound ELSE bindings[a]]

EndsTask(t, result) ==
  /\ Free /\ Open(t)
  /\ taskState' = [taskState EXCEPT ![t] = result]
  /\ bindings' = Dropped({t})
  /\ groups' = [groups EXCEPT ![t] = {}]
  /\ UNCHANGED <<suspended, askVars, released, assigned, target, issued, produced, world, scanVars>>

\* complete_task: the requests of the task stay as they are.
CompleteTask(t) == EndsTask(t, "ended") /\ UNCHANGED <<state, job, unseen>>

\* cancel_task, with cancel_unit_request for each pending request of the task:
\* its production is aborted, its units stay bound to it.
CancelTask(t) ==
  LET mine == {r \in Pending : owner[r] = t} IN
  /\ EndsTask(t, "ended")
  /\ state' = [r \in Request |-> IF r \in mine THEN "cancelled" ELSE state[r]]
  /\ job' = [r \in Request |-> IF r \in mine /\ job[r] = "live" THEN "ended" ELSE job[r]]
  /\ unseen' = [r \in Request |-> IF r \in mine THEN {} ELSE unseen[r]]

\* What both resets do to the tables of the kernel.
Forget ==
  /\ Free
  /\ taskState' = [t \in Task |-> IF taskState[t] = "new" THEN "new" ELSE "gone"]
  /\ groups' = [t \in Task |-> {}]
  /\ state' = [r \in Request |-> IF state[r] = "none" THEN "none" ELSE "gone"]
  /\ job' = [r \in Request |-> IF job[r] = "live" THEN "ended" ELSE job[r]]
  /\ unseen' = [r \in Request |-> {}]
  /\ UNCHANGED <<suspended, askVars, released, assigned, target, issued, produced, world, scanVars>>

\* reset_kernel_session releases what jobs hold.
ResetSession == Forget /\ bindings' = Dropped(Task)

\* handle_game_reset empties the table of bindings.
ResetGame == Forget /\ bindings' = [a \in Actor |-> Unbound]

-----------------------------------------------------------------------------
(* Filling requests.                                                       *)

\* Mutant of Before: a scan goes by age.
BeforeByAge(q, r) == q < r

\* The order of a scan: urgency, blocking, what could start with the units
\* that are idle now, the priority of the task, and age.
Before(q, r) ==
  LET key(x) == <<shape[x].urgency, IF shape[x].blocking THEN 1 ELSE 0,
                  IF x \in startable THEN 1 ELSE 0, Rank[owner[x]], -x>>
  IN \E i \in 1..5 : key(q)[i] > key(r)[i] /\ \A k \in 1..(i - 1) : key(q)[k] = key(r)[k]

\* PRODUCTION_COMPLETE or UNIT_IDLE: fulfill_unit_requests begins.
ScanBegins ==
  /\ Free /\ Idle # {} /\ Pending # {}
  /\ queue' = Pending
  /\ spare' = Idle
  /\ startable' = {r \in Pending :
       Cardinality(assigned[r]) + Cardinality(shape[r].category \cap Idle) >= shape[r].start}
  /\ UNCHANGED <<taskVars, unitVars, askVars, fillVars, jobVars, world>>

\* The bindings once the units of S are promised to a request.
Promised(r, S) == [a \in Actor |-> IF a \in S THEN Promise(r) ELSE bindings[a]]

\* bind_actor_to_request_state and update_request_status_from_progress
Credit(r, S) ==
  /\ assigned' = [assigned EXCEPT ![r] = @ \cup S]
  /\ state' = [state EXCEPT ![r] = Progress(shape[r], assigned[r] \cup S)]

\* Mutant of Ready: requests that were released before are left out.
ReadyNow(t) ==
  {q \in Request : /\ owner[q] = t /\ state'[q] \in {"pending", "partial", "fulfilled"}
                   /\ ~released[q] /\ CanStart(shape[q], assigned'[q])}

\* The requests of a task that are ready to start.
Ready(t) ==
  {q \in Request : /\ owner[q] = t /\ state'[q] \in {"pending", "partial", "fulfilled"}
                   /\ released[q] \/ CanStart(shape[q], assigned'[q])}

\* Mutant of Wake: the agent is resumed when the request is fulfilled.
WakeFull(r, bound) ==
  LET t == owner[r]
      handed == {a \in Actor : \E q \in Ready(t) : a \in assigned'[q] /\ bound[a] = Promise(q)} IN
  IF StillWaits(t, state', assigned')
  THEN bindings' = bound /\ UNCHANGED <<suspended, groups, released>>
  ELSE /\ released' = [q \in Request |-> released[q] \/ q \in Ready(t)]
       /\ bindings' = [a \in Actor |-> IF a \in handed THEN Unbound ELSE bound[a]]
       /\ groups' = Grouped(t, handed)
       /\ suspended' = [suspended EXCEPT ![t] = @ /\ state'[r] # "fulfilled"]

\* wake_waiting_agent, with the units bound as in bound: unless a blocking
\* request still waits, the ready requests of the task hand their units over,
\* and the agent is resumed if there was a unit to hand over.
Wake(r, bound) ==
  LET t == owner[r]
      handed == {a \in Actor : \E q \in Ready(t) : a \in assigned'[q] /\ bound[a] = Promise(q)} IN
  IF StillWaits(t, state', assigned')
  THEN bindings' = bound /\ UNCHANGED <<suspended, groups, released>>
  ELSE /\ released' = [q \in Request |-> released[q] \/ q \in Ready(t)]
       /\ bindings' = [a \in Actor |-> IF a \in handed THEN Unbound ELSE bound[a]]
       /\ groups' = Grouped(t, handed)
       /\ suspended' = [suspended EXCEPT ![t] = @ /\ handed = {}]

\* compute_bootstrap_reconcile_target: what the request still misses, but no
\* less than what is ordered or there, and never more than before.
Goal(r, made) ==
  LET floor == {shape[r].count - Cardinality(assigned'[r]), issued[r], made} IN
  IF \E n \in floor : n >= target[r] THEN target[r]
  ELSE CHOOSE n \in floor : \A k \in floor : k <= n

\* Mutant of Reconcile: production is looked at once the request is fulfilled.
ReconcileFulfilled(r, made) ==
  IF job[r] = "live" /\ state'[r] = "fulfilled"
  THEN /\ target' = [target EXCEPT ![r] = Goal(r, made)]
       /\ job' = [job EXCEPT ![r] = IF Goal(r, made) = 0 THEN "ended" ELSE "live"]
  ELSE UNCHANGED <<job, target>>

\* reconcile_request_bootstrap: a live job is shrunk, or ended when there is
\* nothing left to make and nothing is ordered.
Reconcile(r, made) ==
  IF job[r] = "live"
  THEN /\ target' = [target EXCEPT ![r] = Goal(r, made)]
       /\ job' = [job EXCEPT ![r] = IF Goal(r, made) = 0 THEN "ended" ELSE "live"]
  ELSE UNCHANGED <<job, target>>

\* The scan serves the next request.
Serve(r) ==
  /\ r \in queue /\ \A q \in queue : ~Before(q, r)
  /\ \E S \in Taken(shape[r].fits \cap spare, shape[r].count - Cardinality(assigned[r])) :
       /\ Credit(r, S)
       /\ Wake(r, Promised(r, S))
       /\ queue' = IF spare \ S = {} THEN {} ELSE queue \ {r}
       /\ spare' = IF queue' = {} THEN {} ELSE spare \ S
  /\ startable' = IF queue' = {} THEN {} ELSE startable
  /\ Reconcile(r, produced[r])
  /\ UNCHANGED <<taskState, askVars, issued, produced, unseen, world>>

-----------------------------------------------------------------------------
(* The bootstrap job of a request: what its ticks do.                      *)

\* The whole rest is ordered in one call.
Issue(r) ==
  /\ Free /\ job[r] = "live" /\ issued[r] < target[r]
  /\ issued' = [issued EXCEPT ![r] = target[r]]
  /\ UNCHANGED <<taskVars, unitVars, askVars, fillVars, job, target, produced, unseen, world, scanVars>>

\* _apply_completion_events: any unit of the type that leaves the queue counts.
Counts(r) ==
  /\ Free /\ job[r] = "live" /\ produced[r] < target[r]
  /\ produced' = [produced EXCEPT ![r] = @ + 1]
  /\ job' = [job EXCEPT ![r] = IF produced[r] + 1 = target[r] THEN "ended" ELSE "live"]
  /\ UNCHANGED <<taskVars, unitVars, askVars, fillVars, target, issued, unseen, world, scanVars>>

\* The units a signal of the job is credited for.
Credited(r, a) ==
  /\ r \in Pending /\ a \notin assigned[r]
  /\ world[a] = "idle"
  /\ bindings[a] \in {Unbound, Promise(r)} \cup {Held(t) : t \in Task}

\* _sync_direct_actor_completions finds a new unit and signals it, and
\* _consume_request_linked_signal takes it from whatever job holds it.
Arrives(r, a) ==
  /\ Free /\ job[r] = "live" /\ a \in unseen[r] /\ Present(a)
  /\ produced[r] < target[r] /\ produced[r] < issued[r]
  /\ produced' = [produced EXCEPT ![r] = @ + 1]
  /\ IF Credited(r, a)
     THEN /\ Credit(r, {a})
          /\ Wake(r, Promised(r, {a}))
     ELSE UNCHANGED <<fillVars, bindings, suspended, groups>>
  /\ LET goal == IF Credited(r, a) THEN Goal(r, produced[r] + 1) ELSE target[r] IN
     /\ target' = [target EXCEPT ![r] = goal]
     /\ job' = [job EXCEPT ![r] = IF produced[r] + 1 = goal THEN "ended" ELSE "live"]
  /\ unseen' = [unseen EXCEPT ![r] = @ \ {a}]
  /\ UNCHANGED <<taskState, askVars, issued, world, scanVars>>

\* New units it has nothing to count for are known from now on.
Ignores(r) ==
  /\ Free /\ job[r] = "live" /\ unseen[r] # {}
  /\ produced[r] >= issued[r] \/ \A a \in unseen[r] : ~Present(a)
  /\ unseen' = [unseen EXCEPT ![r] = {}]
  /\ UNCHANGED <<taskVars, unitVars, askVars, fillVars, job, target, issued, produced, world, scanVars>>

\* The job fails, or the capability that owns it aborts it.
Stops(r) ==
  /\ Free /\ job[r] = "live"
  /\ job' = [job EXCEPT ![r] = "ended"]
  /\ UNCHANGED <<taskVars, unitVars, askVars, fillVars, target, issued, produced, unseen, world, scanVars>>

-----------------------------------------------------------------------------
(* What other jobs and the game do to the units.                           *)

\* A job of a task is granted a unit (KernelResources): a free one outside
\* groups that rank no lower, or one of a job of a lower rank.
JobTakes(t, a) ==
  /\ Free /\ Open(t)
  /\ \A u \in Task \ {t} : a \in groups[u] => Rank[u] < Rank[t]
  /\ \/ world[a] = "idle" /\ bindings[a] = Unbound
     \/ Present(a) /\ \E u \in Task : bindings[a] = Held(u) /\ Rank[u] < Rank[t]
  /\ bindings' = [bindings EXCEPT ![a] = Held(t)]
  /\ groups' = Grouped(t, {a})
  /\ UNCHANGED <<taskVars, askVars, fillVars, jobVars, world, scanVars>>

JobDrops(a) ==
  /\ Free /\ \E t \in Task : bindings[a] = Held(t)
  /\ bindings' = [bindings EXCEPT ![a] = Unbound]
  /\ UNCHANGED <<taskVars, groups, askVars, fillVars, jobVars, world, scanVars>>

\* A refresh of the world shows a unit, new, or at work, or idle again.
Appears(a) ==
  /\ Free /\ world[a] = "unborn"
  /\ world' = [world EXCEPT ![a] = "idle"]
  /\ unseen' = [r \in Request |-> IF job[r] = "live" /\ a \in shape[r].fits
                                  THEN unseen[r] \cup {a} ELSE unseen[r]]
  /\ UNCHANGED <<taskVars, unitVars, askVars, fillVars, job, target, issued, produced, scanVars>>

Turns(a) ==
  /\ Free /\ Present(a)
  /\ world' = [world EXCEPT ![a] = IF @ = "idle" THEN "busy" ELSE "idle"]
  /\ UNCHANGED <<taskVars, unitVars, askVars, fillVars, jobVars, scanVars>>

\* A unit dies: its job loses it, a request it was promised to does not.
Dies(a) ==
  /\ Free /\ Present(a)
  /\ world' = [world EXCEPT ![a] = "dead"]
  /\ groups' = [t \in Task |-> groups[t] \ {a}]
  /\ bindings' = [bindings EXCEPT ![a] = IF @ \in {Held(t) : t \in Task} THEN Unbound ELSE @]
  /\ UNCHANGED <<taskVars, askVars, fillVars, jobVars, scanVars>>

TaskCall ==
  \/ \E t \in Task : OpenTask(t) \/ CompleteTask(t) \/ CancelTask(t)
  \/ \E t \in Task, r \in Request, s \in Shape : Register(t, r, s)
  \/ ResetSession
  \/ ResetGame

Scan == ScanBegins \/ \E r \in Request : Serve(r)

Production ==
  \E r \in Request : \/ Issue(r) \/ Counts(r) \/ Ignores(r) \/ Stops(r)
                    \/ \E a \in Actor : Arrives(r, a)

Field ==
  \E a \in Actor : \/ Appears(a) \/ Turns(a) \/ Dies(a) \/ JobDrops(a)
                  \/ \E t \in Task : JobTakes(t, a)

Next == TaskCall \/ Scan \/ Production \/ Field

Spec == Init /\ [][Next]_vars

-----------------------------------------------------------------------------
(* Properties.                                                             *)

\* Every variable keeps to its type.
TypeOK ==
  /\ taskState \in [Task -> {"new", "open", "ended", "gone"}]
  /\ suspended \in [Task -> BOOLEAN]
  /\ groups \in [Task -> SUBSET Actor]
  /\ bindings \in [Actor -> {Unbound} \cup {Promise(r) : r \in Request} \cup {Held(t) : t \in Task}]
  /\ owner \in [Request -> Task \cup {None}]
  /\ shape \in [Request -> Shape]
  /\ state \in [Request -> {"none", "pending", "partial", "fulfilled", "cancelled", "gone"}]
  /\ released \in [Request -> BOOLEAN]
  /\ assigned \in [Request -> SUBSET Actor]
  /\ job \in [Request -> {"none", "live", "ended"}]
  /\ target \in [Request -> Nat] /\ issued \in [Request -> Nat] /\ produced \in [Request -> Nat]
  /\ unseen \in [Request -> SUBSET Actor]
  /\ world \in [Actor -> {"unborn", "idle", "busy", "dead"}]
  /\ queue \subseteq Request /\ spare \subseteq Actor /\ startable \subseteq Request

\* The agent of an open task is suspended exactly while a blocking request of
\* its task is below its start package: it does not wake without the units it
\* said it needs, and it is never left asleep with them at hand.
SuspendedIffWaiting == \A t \in Task : Open(t) => (suspended[t] <=> BlockingWait(t))

\* A request that may start holds no unit back, unless its task still waits
\* for another.
ReadyHoldsNothing ==
  \A r \in Request, a \in Actor :
    bindings[a] = Promise(r) /\ state[r] \in {"pending", "partial", "fulfilled"}
      /\ Open(owner[r]) /\ ~BlockingWait(owner[r]) => ~CanStart(shape[r], assigned[r])

\* A unit is promised to a request that counts it, no request counts more
\* units than it asked for, and its status says how many it has.
RequestsAddUp ==
  /\ \A r \in Request, a \in Actor : bindings[a] = Promise(r) => a \in assigned[r]
  /\ \A r \in Request : state[r] \in {"pending", "partial", "fulfilled"} =>
       /\ Cardinality(assigned[r]) <= shape[r].count
       /\ state[r] = Progress(shape[r], assigned[r])

\* A live bootstrap job makes no more than its request misses, but for what is
\* ordered already: idle units that fill the request shrink the production.
ProductionFits ==
  \A r \in Request : job[r] = "live" =>
    \/ target[r] <= shape[r].count - Cardinality(assigned[r])
    \/ target[r] <= issued[r] \/ target[r] <= produced[r]

\* A scan serves request r while q, more urgent and after a unit of the same
\* kind, still misses one.
Overtakes(r, q) ==
  /\ r \in queue /\ q \in Pending /\ shape[q].urgency > shape[r].urgency
  /\ Cardinality(assigned[q]) < shape[q].count
  /\ (assigned'[r] \ assigned[r]) \cap (shape[q].fits \ assigned[q]) # {}

\* No unit is promised to a request while a more urgent one that has not
\* started misses a unit like it.
UrgentStartsFirst == [][\A r, q \in Request : Overtakes(r, q) => released[q]]_vars

=============================================================================
