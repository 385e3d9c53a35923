---------------------------- MODULE MCUnitRequests ----------------------------
(* A small instance of UnitRequests and the bounds of its runs.            *)
EXTENDS UnitRequests, TLC

\* The later task ranks higher.
LateHigh == <<1, 2>>

Ask(count, start, blocking, urgency) ==
  [count |-> count, start |-> start, blocking |-> blocking, urgency |-> urgency,
   category |-> Actor, fits |-> Actor]

\* A pair an agent waits for, a pair that starts with one unit, and a single
\* unit that no agent waits for.
Pairs == {Ask(2, 2, TRUE, 1), Ask(2, 1, TRUE, 2), Ask(1, 1, FALSE, 1)}

Units == Permutations(Actor)

\* A job has the unit, or it is out of reach.
Away(a) == world[a] # "idle" \/ \E t \in Task : bindings[a] = Held(t)

\* The bounds of the run: one unit is away at a time, unless all that are away
\* have yet to be built; only the first request, of the first task, has
\* production, and of two units only without the second task; tasks are opened
\* in order; the run ends with a reset.
Small ==
  /\ \A a, b \in Actor : a # b /\ Away(a) /\ Away(b) => world[a] = "unborn" /\ world[b] = "unborn"
  /\ job[2] = "none" /\ (target[1] <= 1 \/ taskState[2] = "new")
  /\ owner[1] # 2
  /\ taskState[2] # "new" => taskState[1] # "new"
  /\ ~\E t \in Task : taskState[t] = "gone"
===============================================================================
