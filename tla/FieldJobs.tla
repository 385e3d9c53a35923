------------------------------- MODULE FieldJobs -------------------------------
(***************************************************************************)
(* The jobs that lead units in the field (experts/movement.py, combat.py,  *)
(* occupy.py, deploy.py, rally.py, repair.py, stop.py).  A job looks at    *)
(* the world model's copy of the world, gives its units orders through the *)
(* game's API, and reports how it ended.  Its units come and go as the     *)
(* kernel grants and revokes them.  A tick is atomic here: KernelResources *)
(* models those that run beside the kernel.                                *)
(***************************************************************************)
EXTENDS Naturals, FiniteSets, FiniteSetsExt

CONSTANTS
  Unit,
  Configs,     \* the jobs, by what they are configured to do: see Config
  Far,         \* bound: distance of a unit from the target, 0 is the target
  MaxStuck,    \* _stuck_threshold
  MaxAdvance   \* _MAX_ADVANCE_TICKS

\* group: the units named by the configuration, none for a number of units.
\* full: wait_for_full_group; otherwise it begins with so many of the group as
\* ready says, and so many as need says are enough at the target.
\* hold: the engagement mode HOLD, which does not advance.
Config == [kind : {"move", "combat", "occupy", "deploy", "rally", "repair", "stop"},
           group : SUBSET Unit, full : BOOLEAN, ready : Nat, need : Nat, hold : BOOLEAN]

ASSUME FieldOK ==
  /\ Configs \subseteq Config /\ IsFiniteSet(Unit)
  /\ Far \in Nat \ {0} /\ MaxStuck \in Nat \ {0} /\ MaxAdvance \in Nat \ {0}

VARIABLES
  config, reach,           \* the job's configuration, the units with a way to the target
  at, under,               \* where each unit is, or Gone; those with an order to go there
  been,                    \* history: the units that were at the target
  prize,                   \* the target: foe, hidden, ours, gone
  yards,                   \* construction yards on the map: old, new
  up, clamped,             \* the API answers; do_not_chase forbids the way
  seen, seenPrize,         \* the world model's copies
  status, bound, issued,   \* the job: its state and units, its order went out
  count,                   \* ticks without progress, or of advance
  last,                    \* where the units were at the last tick
  phase, met, first,       \* combat: its phase, an enemy was met, units it began with
  before, blind,           \* deploy: yards there were before; they were not known
  late,                    \* more than _VERIFY_TIMEOUT_S since the order
  result                   \* what the job reported

Gone == Far + 1
tickVars == <<count, last, phase, met, first, before, blind, late>>
game == <<at, under, been, prize, yards>>
conditions == <<up, clamped>>
view == <<seen, seenPrize>>
job == <<status, bound, issued, count, last, phase, met, first, before, blind, late, result>>
vars == <<config, reach, game, conditions, view, job>>

Over == {"succeeded", "failed", "aborted"}
\* Nothing matters any more once the job has ended.
Ended == status \in Over
Alive(u) == at[u] # Gone

Init ==
  /\ config \in Configs
  /\ reach \in IF config.kind \in {"move", "combat", "rally", "repair"} THEN SUBSET Unit ELSE {Unit}
  /\ at = [u \in Unit |-> Far] /\ under = {} /\ been = {}
  /\ prize \in IF config.kind \in {"combat", "occupy"} THEN {"foe", "hidden", "gone"} ELSE {"gone"}
  /\ yards \in IF config.kind = "deploy" THEN {{}, {"old"}} ELSE {{}}
  /\ up = TRUE /\ clamped = FALSE
  /\ seen = at /\ seenPrize = prize
  /\ status = "waiting" /\ bound = {} /\ issued = FALSE
  /\ count = 0 /\ last = Gone
  /\ phase = "approaching" /\ met = FALSE /\ first = 0
  /\ before = {} /\ blind = FALSE /\ late = FALSE /\ result = "none"

-----------------------------------------------------------------------------
(* The game.                                                               *)

\* A unit goes on toward the target it was sent to.
Travels(u) ==
  /\ ~Ended /\ u \in under \cap reach /\ Alive(u) /\ at[u] > 0
  /\ at' = [at EXCEPT ![u] = @ - 1]
  /\ been' = IF at[u] = 1 THEN been \cup {u} ELSE been
  /\ UNCHANGED <<under, prize, yards, config, reach, conditions, view, job>>

Dies(u) ==
  /\ ~Ended /\ Alive(u)
  /\ at' = [at EXCEPT ![u] = Gone] /\ under' = under \ {u}
  /\ UNCHANGED <<been, prize, yards, config, reach, conditions, view, job>>

\* Fog hides an enemy, or shows it; units clear the area or take a building.
PrizeChanges ==
  /\ ~Ended
  /\ \/ prize = "foe" /\ prize' \in {"hidden", "gone"}
     \/ prize = "hidden" /\ prize' \in {"foe", "gone"}
     \/ prize = "foe" /\ config.kind = "occupy" /\ issued /\ prize' = "ours"
  /\ UNCHANGED <<at, under, been, yards, config, reach, conditions, view, job>>

\* The vehicle sent to deploy becomes a yard and is no unit any more, or another
\* one does.
YardAppears ==
  /\ ~Ended /\ config.kind = "deploy" /\ "new" \notin yards /\ phase = "verifying"
  /\ yards' = yards \cup {"new"}
  /\ at' \in {at} \cup {[at EXCEPT ![u] = Gone] : u \in config.group}
  /\ UNCHANGED <<under, been, prize, config, reach, conditions, view, job>>

ConditionsChange ==
  /\ ~Ended
  /\ \/ up' = ~up /\ UNCHANGED clamped
     \/ config.kind = "move" /\ clamped' = ~clamped /\ UNCHANGED up
  /\ UNCHANGED <<config, reach, game, view, job>>

\* The world model is refreshed (WorldRefresh).
Refresh ==
  /\ ~Ended /\ up /\ view # <<at, prize>>
  /\ seen' = at /\ seenPrize' = prize
  /\ UNCHANGED <<config, reach, game, conditions, job>>

TimePasses ==
  /\ config.kind \in {"occupy", "deploy"} /\ issued /\ ~late /\ ~Ended
  /\ late' = TRUE
  /\ UNCHANGED <<config, reach, game, conditions, view, status, bound, issued, result,
                 count, last, phase, met, first, before, blind>>

-----------------------------------------------------------------------------
(* The job and the kernel that lends it units.                             *)

Wanted == IF config.group = {} THEN Unit ELSE config.group

\* Too few to begin with: none, or not yet enough of a group that is not full.
Short(us) ==
  \/ us = {}
  \/ /\ config.kind \in {"move", "combat"} /\ config.group # {} /\ ~config.full
     /\ Cardinality({u \in us : seen[u] # Gone}) < Min({config.ready, Cardinality(config.group)})

Granted(u) ==
  /\ ~Ended /\ u \in Wanted \ bound /\ seen[u] # Gone
  /\ bound' = bound \cup {u}
  /\ status' = IF Short(bound') THEN "waiting" ELSE "running"
  /\ UNCHANGED <<config, reach, game, conditions, view, issued, tickVars, result>>

\* Reported dead, by its event; what the job has left is balanced anew at once,
\* which makes also a job wait that has sent its engineers into a building.
Lost(u) ==
  /\ ~Ended /\ u \in bound /\ seen[u] = Gone
  /\ bound' = bound \ {u}
  /\ status' = IF Short(bound') THEN "waiting" ELSE status
  /\ UNCHANGED <<config, reach, game, conditions, view, issued, tickVars, result>>

\* Taken for a task that matters more, which may send it elsewhere; whoever
\* loses its last unit so is aborted.
Taken(u) ==
  /\ ~Ended /\ u \in bound
  /\ bound' = bound \ {u} /\ under' \in {under, under \ {u}}
  /\ IF bound' = {} THEN status' = "aborted" /\ result' = "aborted" ELSE UNCHANGED <<status, result>>
  /\ UNCHANGED <<config, reach, at, been, prize, yards, conditions, view, issued, tickVars>>

\* The resources are balanced anew for some other reason.
Rebalanced ==
  /\ status = "running" /\ Short(bound)
  /\ status' = "waiting"
  /\ UNCHANGED <<config, reach, game, conditions, view, bound, issued, tickVars, result>>

-----------------------------------------------------------------------------
(* The ticks.                                                              *)

Living(us) == {u \in us : seen[u] # Gone}
Ends(s, r) == status' = s /\ result' = r
GoesOn == UNCHANGED <<status, result>>
NoOrder == UNCHANGED <<under, issued>>
GivesOrders(us) == up /\ under' = under \cup {u \in us : Alive(u)} /\ issued' = TRUE

\* The game loop ends a job whose tick raises.
Raises == ~up /\ NoOrder /\ Ends("failed", "failed")

\* Orders that leave the job as it is, unless they cannot be given.
Sends == (GivesOrders(bound) /\ GoesOn) \/ Raises

Centroid ==
  IF Living(bound) = {} THEN Gone
  ELSE MapThenSumSet(LAMBDA u : seen[u], Living(bound)) \div Cardinality(Living(bound))

\* Mutant of Counted: those that were bound elsewhere meanwhile do not count.
CountedBound == bound
\* A named group is counted whole, also those of it that are not bound.
Counted == IF config.group = {} THEN bound ELSE config.group

Arrived == {u \in Counted : seen[u] = 0}
ArrivalComplete ==
  /\ Living(Counted) # {}
  /\ \/ config.full /\ Living(Counted) \subseteq Arrived
     \/ ~config.full /\ Cardinality(Arrived) >= Min({Cardinality(Living(Counted)), config.need})

Standing == Centroid # Gone /\ Centroid = last

\* Mutant of Stuck: it does not matter how long the units stand.
StuckNever == 0
Stuck == IF Standing THEN count + 1 ELSE IF Centroid = Gone \/ last = Gone THEN count ELSE 0

\* do_not_chase, clamped, forbids a target that far from the units.
Blocked == clamped /\ Centroid \notin {0, Gone}

\* Ordered at first and at every fifth tick, for stragglers; a call that fails
\* is logged.
MoveOrder == (GivesOrders(bound) \/ NoOrder) /\ (~issued /\ up => issued')

MoveTick ==
  /\ config.kind = "move" /\ bound # {}
  /\ UNCHANGED <<phase, met, first, before, blind, late>>
  /\ \/ ArrivalComplete /\ Ends("succeeded", "succeeded") /\ NoOrder /\ UNCHANGED <<count, last>>
     \/ /\ ~ArrivalComplete
        /\ count' = Stuck
        /\ last' = IF Centroid = Gone THEN last ELSE Centroid
        /\ \/ Stuck >= MaxStuck /\ Ends("failed", "stuck") /\ NoOrder
           \/ Stuck < MaxStuck /\ GoesOn /\ IF Blocked THEN NoOrder ELSE MoveOrder

\* Lost are those the job no longer has, wherever they went.
HeavyLosses == first' > 0 /\ 10 * first' >= 3 * first' + 10 * Cardinality(bound)

\* Whoever has units retreats, and the job ends with it.
Retreat ==
  /\ UNCHANGED <<count, met>>
  /\ \/ /\ Centroid = Gone /\ phase' = "completed" /\ Ends("failed", "failed") /\ NoOrder
     \/ /\ Centroid # Gone /\ up /\ phase' = "completed" /\ Ends("succeeded", "partial")
        /\ under' = under \ bound /\ UNCHANGED issued
     \/ Centroid # Gone /\ phase' = "retreating" /\ Raises

Approach ==
  /\ UNCHANGED <<count, met>>
  /\ \/ Centroid = Gone /\ NoOrder /\ GoesOn /\ UNCHANGED phase
     \/ Centroid = 0 /\ NoOrder /\ GoesOn /\ phase' = "engaging"
     \/ Centroid \notin {0, Gone} /\ UNCHANGED phase /\ Sends

\* Mutant of Contact: what was seen before is forgotten.
ContactNow == seenPrize = "foe"
Contact == met \/ seenPrize = "foe"

GivesUp == config.hold \/ count = MaxAdvance

Engage ==
  /\ met' = Contact
  /\ \/ seenPrize = "foe" /\ count' = 0 /\ UNCHANGED phase
        /\ (Sends \/ (config.hold /\ NoOrder /\ GoesOn))
     \/ /\ seenPrize # "foe" /\ met
        /\ phase' = "completed" /\ Ends("succeeded", "succeeded") /\ NoOrder /\ UNCHANGED count
     \/ /\ seenPrize # "foe" /\ ~met /\ GivesUp
        /\ phase' = "completed" /\ Ends("succeeded", "partial") /\ NoOrder
        /\ count' = IF config.hold THEN count ELSE count + 1
     \/ seenPrize # "foe" /\ ~met /\ ~GivesUp /\ count' = count + 1 /\ UNCHANGED phase /\ Sends

CombatTick ==
  /\ config.kind = "combat" /\ bound # {}
  /\ first' = IF first = 0 THEN Cardinality(bound) ELSE first
  /\ UNCHANGED <<last, before, blind, late>>
  /\ \/ HeavyLosses /\ Retreat
     \/ ~HeavyLosses /\ phase = "approaching" /\ Approach
     \/ ~HeavyLosses /\ phase = "engaging" /\ Engage

\* Mutant of Captured: a target out of sight is taken for captured.
CapturedUnseen == seenPrize \notin {"foe"}
Captured == seenPrize = "ours"

OccupyTick ==
  /\ config.kind = "occupy" /\ (bound # {} \/ issued)
  /\ UNCHANGED <<count, last, phase, met, first, before, blind, late>>
  /\ \/ Captured /\ Ends("succeeded", "succeeded") /\ NoOrder
     \/ ~Captured /\ ~issued /\ seenPrize # "foe" /\ Ends("failed", "failed") /\ NoOrder
     \/ ~Captured /\ ~issued /\ seenPrize = "foe" /\ bound # {} /\ Sends
     \/ ~Captured /\ issued /\ NoOrder /\ IF late THEN Ends("failed", "failed") ELSE GoesOn

\* Which yards there are is asked first; when that fails, none is known.
DeployOrder ==
  /\ phase = "approaching"
  /\ \/ up /\ before' = yards /\ blind' = FALSE
     \/ before' = {} /\ blind' = TRUE
  /\ \/ up /\ phase' = "verifying" /\ issued' = TRUE /\ GoesOn
     \/ ~up /\ Ends("failed", "failed") /\ UNCHANGED <<phase, issued>>

NewYard == up /\ yards \ before # {}

DeployVerify ==
  /\ phase = "verifying" /\ UNCHANGED <<before, blind, phase, issued>>
  /\ \/ NewYard /\ Ends("succeeded", "succeeded")
     \/ ~NewYard /\ IF late THEN Ends("failed", "failed") ELSE GoesOn

DeployTick ==
  /\ config.kind = "deploy" /\ (DeployOrder \/ DeployVerify)
  /\ UNCHANGED <<count, last, met, first, late, under>>

\* Rally points, repairs and stops are ordered once, for the units the job then
\* has: the buildings that qualify, the damaged ones, all of them.
Fit == {u \in bound \cap reach : Alive(u)}
OrderedOnce(us) == up /\ us # {} /\ GivesOrders(us) /\ Ends("succeeded", "succeeded")
NothingToOrder(r) == up /\ Fit = {} /\ issued' = TRUE /\ UNCHANGED under /\ Ends(r, r)

RallyTick == config.kind = "rally" /\ (Raises \/ OrderedOnce(Fit) \/ NothingToOrder("failed"))
RepairTick == config.kind = "repair" /\ (Raises \/ OrderedOnce(Fit) \/ NothingToOrder("succeeded"))
StopTick == config.kind = "stop" /\ (Raises \/ OrderedOnce(bound))

OrderOnce ==
  /\ bound # {} /\ ~issued
  /\ RallyTick \/ RepairTick \/ StopTick
  /\ UNCHANGED <<count, last, phase, met, first, before, blind, late>>

Tick ==
  /\ status = "running"
  /\ MoveTick \/ CombatTick \/ OccupyTick \/ DeployTick \/ OrderOnce
  /\ UNCHANGED <<config, reach, at, been, prize, yards, conditions, view, bound>>

-----------------------------------------------------------------------------
Next ==
  \/ PrizeChanges \/ YardAppears \/ ConditionsChange \/ Refresh \/ TimePasses \/ Rebalanced \/ Tick
  \/ \E u \in Unit : Travels(u) \/ Dies(u) \/ Granted(u) \/ Lost(u) \/ Taken(u)

Spec == Init /\ [][Next]_vars

\* While the API answers the game loop refreshes the world, routes what it finds
\* and ticks the job; as long as it does not, the loop parks the jobs on a world
\* that grows stale.  Time passes, and units that can go where they were sent get
\* there.  The end of a vehicle that builds a base is no unit's death to the
\* world model, so a job that deploys one may keep it.
LiveSpec ==
  /\ Spec
  /\ WF_vars(up /\ Tick) /\ WF_vars(Refresh) /\ WF_vars(TimePasses)
  /\ \A u \in Unit : WF_vars(Travels(u)) /\ WF_vars(config.kind # "deploy" /\ Lost(u))

-----------------------------------------------------------------------------
TypeOK ==
  /\ config \in Configs /\ reach \subseteq Unit
  /\ at \in [Unit -> 0 .. Gone] /\ seen \in [Unit -> 0 .. Gone]
  /\ under \subseteq Unit /\ been \subseteq Unit /\ bound \subseteq Wanted
  /\ prize \in {"foe", "hidden", "ours", "gone"} /\ seenPrize \in {"foe", "hidden", "ours", "gone"}
  /\ yards \subseteq {"old", "new"} /\ before \subseteq {"old", "new"}
  /\ {up, clamped, issued, met, blind, late} \subseteq BOOLEAN
  /\ status \in {"running", "waiting"} \cup Over
  /\ phase \in {"approaching", "engaging", "retreating", "completed", "verifying"}
  /\ result \in {"none", "stuck", "partial"} \cup Over
  /\ count \in 0 .. IF config.kind = "combat" THEN MaxAdvance + 1 ELSE MaxStuck
  /\ last \in 0 .. Gone /\ first \in 0 .. Cardinality(Unit)
  /\ (result # "none") = (status \in Over)

Members == IF config.group = {} THEN bound ELSE config.group

\* What a job reports as done was done, although it was judged from the copy of
\* the world: every unit a full group waits for was at the target or is dead,
\* the building is ours, a yard has appeared (or the old ones were not known),
\* there was an enemy and somebody went there.
SuccessIsTrue ==
  result = "succeeded" =>
    /\ config.kind = "move" /\ config.full => \A u \in Members : u \in been \/ ~Alive(u)
    /\ config.kind = "move" /\ ~config.full =>
         Cardinality(been \cap Members) >= Min({config.need, Cardinality({u \in Members : Alive(u)})})
    /\ config.kind = "occupy" => prize = "ours"
    /\ config.kind = "deploy" => blind \/ "new" \in yards
    /\ config.kind = "combat" => met /\ been # {}
    /\ config.kind \in {"rally", "repair", "stop"} => issued

\* From some time on no unit comes or goes, and the job does not wait for any.
KeepsUnits == <>[][bound' = bound]_vars /\ <>[](status # "waiting")

\* A job that does not wait for units ends, once the API answers for good and
\* whatever became of its calls before, of its units and of the target: they
\* arrive, or are seen to be stuck; the area is clear, or nobody is found; the
\* building or the yard is there, or is not there in time.  A fight goes on as
\* long as there is an enemy, the way there as long as there is none.
JobEnds ==
  KeepsUnits /\ <>[]up /\
  (config.kind = "combat" => reach = Unit /\ <>[](prize # "foe"))
    => <>(status \in Over)

=============================================================================
