------------------------------ MODULE ReconSearch ------------------------------
(***************************************************************************)
(* Reconnaissance (experts/recon.py): jobs send their scouts to where the  *)
(* map is unexplored, until an enemy of the wanted kind is seen.  The map  *)
(* is a row of blocks.  A table all jobs share tells where every scout is  *)
(* headed, so that scouts keep apart.                                      *)
(*                                                                         *)
(* A tick runs in a worker thread: it lists the scouts of a job and then   *)
(* handles one after the other, while the kernel goes on beside it.  The   *)
(* game loop ticks one job at a time.  A scout on its way covers ground    *)
(* between two ticks.                                                      *)
(***************************************************************************)
EXTENDS Integers, FiniteSets, FiniteSetsExt

CONSTANTS
  ReconJob, Scout,
  Width,                  \* bound: the blocks of the map, the base is at the first
  Grounds,                \* the maps: see Land
  MaxStuckTicks,          \* _stuck_threshold_ticks
  Mishaps                 \* bound: how often conditions change

Block == 1 .. Width
None == 0
Base == 1

\* walls: blocks nobody can enter.  dim: blocks that stay partly unexplored when
\* somebody is there.  clipped: blocks whose middle lies beyond the end of the
\* map.  off: the game counts cells from 1.
Land == [walls : SUBSET (Block \ {Base}), dim : SUBSET Block, clipped : SUBSET {Width}, off : BOOLEAN]

ASSUME ReconOK ==
  /\ Width \in Nat \ {0, 1} /\ Grounds \subseteq Land
  /\ MaxStuckTicks \in Nat \ {0} /\ Mishaps \in Nat

VARIABLES
  land,                   \* the map
  place, sent,            \* where each scout is (None: dead), where it was ordered to go
  jammed, hurt,           \* scouts that are held up, or low on health
  explored, grid,         \* what was explored, and the world model's copy
  foe, clue,              \* the wanted enemy is seen; a harvester is, and where
  reachable, changes,     \* the API answers; conditions have changed so often
  jobState, scouts,       \* of each job: its state and its scouts
  turn,                   \* the tick of each job: where it saw the scouts it has
                          \* still to handle (None: the others)
  led, headed, visited, stuck, lastAt,  \* _scout_states of each job
  registry,               \* _global_scout_targets
  cut                     \* history: the jobs aborted under a tick

ground == <<land, place, sent, jammed, hurt, explored, foe, clue, reachable, changes>>
scouting == <<led, headed, visited, stuck, lastAt>>
jobs == <<jobState, scouts, turn, scouting, registry, cut>>
searchVars == <<ground, grid, jobState, scouts, turn, scouting, registry, cut>>

NoTurn == [s \in Scout |-> None]

SearchInit ==
  /\ land \in Grounds
  /\ place = [s \in Scout |-> Base] /\ sent = [s \in Scout |-> None]
  /\ jammed = {} /\ hurt = {} /\ explored = {Base} /\ grid = {Base}
  /\ foe = FALSE /\ clue = None /\ reachable = TRUE /\ changes = 0
  /\ jobState = [j \in ReconJob |-> "running"] /\ scouts = [j \in ReconJob |-> {}]
  /\ led = [j \in ReconJob |-> {}]
  /\ headed = [j \in ReconJob |-> [s \in Scout |-> None]]
  /\ visited = [j \in ReconJob |-> [s \in Scout |-> {}]]
  /\ stuck = [j \in ReconJob |-> [s \in Scout |-> 0]]
  /\ lastAt = [j \in ReconJob |-> [s \in Scout |-> None]]
  /\ registry = [s \in Scout |-> None] /\ turn = [j \in ReconJob |-> NoTurn] /\ cut = {}

Active == {"running", "waiting"}

-----------------------------------------------------------------------------
(* The game.                                                               *)

Step(a, b) == IF a < b THEN a + 1 ELSE a - 1
CanTravel(s) ==
  /\ place[s] # None /\ sent[s] \notin {None, place[s]} /\ s \notin jammed
  /\ Step(place[s], sent[s]) \notin land.walls

ScoutTravels(s) ==
  /\ CanTravel(s)
  /\ place' = [place EXCEPT ![s] = Step(@, sent[s])]
  /\ explored' = explored \cup ({place'[s]} \ land.dim)
  /\ UNCHANGED <<land, sent, jammed, hurt, foe, clue, reachable, changes, grid, jobs>>

ScoutDies(s) ==
  /\ place[s] # None
  /\ place' = [place EXCEPT ![s] = None]
  /\ UNCHANGED <<land, sent, jammed, hurt, explored, foe, clue, reachable, grid, jobs>>

HeldUp(s) == jammed' = (jammed \ {s}) \cup ({s} \ jammed) /\ UNCHANGED <<hurt, foe, clue, reachable>>
Hit(s) == hurt' = hurt \cup {s} /\ UNCHANGED <<jammed, foe, clue, reachable>>
Sighting == foe' = ~foe /\ UNCHANGED <<jammed, hurt, clue, reachable>>
Trail == clue' \in {None, Width} /\ UNCHANGED <<jammed, hurt, foe, reachable>>
Link == reachable' = ~reachable /\ UNCHANGED <<jammed, hurt, foe, clue>>

Mishap ==
  /\ changes < Mishaps /\ changes' = changes + 1
  /\ \/ \E s \in Scout : ScoutDies(s)
     \/ /\ Sighting \/ Trail \/ Link \/ \E s \in Scout : HeldUp(s) \/ Hit(s)
        /\ UNCHANGED <<land, place, sent, explored, grid, jobs>>

SeeGround ==
  /\ reachable /\ grid # explored
  /\ grid' = explored
  /\ UNCHANGED <<ground, jobs>>

-----------------------------------------------------------------------------
(* The kernel.                                                             *)

\* A scout belongs to one job at a time, and may come to another.
ScoutGranted(j, s) ==
  /\ jobState[j] \in Active /\ place[s] # None /\ \A i \in ReconJob : s \notin scouts[i]
  /\ scouts' = [scouts EXCEPT ![j] = @ \cup {s}]
  /\ jobState' = [jobState EXCEPT ![j] = "running"]
  /\ UNCHANGED <<ground, grid, turn, scouting, registry, cut>>

\* Dead, or taken for a task that matters more; the last one is not taken, the
\* job is aborted instead.
ScoutRevoked(j, s) ==
  /\ jobState[j] \in Active /\ s \in scouts[j] /\ (place[s] = None \/ scouts[j] # {s})
  /\ scouts' = [scouts EXCEPT ![j] = @ \ {s}]
  /\ jobState' = [jobState EXCEPT ![j] = IF scouts'[j] = {} THEN "waiting" ELSE "running"]
  /\ UNCHANGED <<ground, grid, turn, scouting, registry, cut>>

-----------------------------------------------------------------------------
(* The job.                                                                *)

\* Mutant of Cleaned: the scouts it has at the end, not all it ever led.
CleanedBound(j) == [s \in Scout |-> IF s \in scouts[j] THEN None ELSE registry[s]]
Cleaned(j) == [s \in Scout |-> IF s \in led[j] THEN None ELSE registry[s]]

\* The agent or the kernel aborts it, also under a tick, which goes on; the
\* kernel takes the scouts back.
AbortSearch(j) ==
  /\ jobState[j] \in Active
  /\ jobState' = [jobState EXCEPT ![j] = "aborted"]
  /\ scouts' = [scouts EXCEPT ![j] = {}]
  /\ registry' = Cleaned(j)
  /\ cut' = IF turn[j] = NoTurn THEN cut ELSE cut \cup {j}
  /\ UNCHANGED <<ground, grid, turn, scouting>>

LivingScouts(j) == {s \in scouts[j] : place[s] # None}
TickDue(j) ==
  jobState[j] = "running" /\ LivingScouts(j) # {} /\ \A i \in ReconJob : turn[i] = NoTurn

\* The wanted enemy is on the map: reported, and the job is done.
Finds(j) ==
  /\ TickDue(j) /\ foe
  /\ jobState' = [jobState EXCEPT ![j] = "succeeded"]
  /\ scouts' = [scouts EXCEPT ![j] = {}]
  /\ registry' = Cleaned(j)
  /\ UNCHANGED <<ground, grid, turn, scouting, cut>>

TickStarts(j) ==
  /\ TickDue(j) /\ ~foe
  /\ \A s \in LivingScouts(j) : CanTravel(s) => lastAt[j][s] # place[s]
  /\ turn' = [turn EXCEPT ![j] = [s \in Scout |-> IF s \in LivingScouts(j) THEN place[s] ELSE None]]
  /\ UNCHANGED <<ground, grid, jobState, scouts, scouting, registry, cut>>

NextScout(j, s) == turn' = [turn EXCEPT ![j][s] = None]
SameJob(j, s) == NextScout(j, s) /\ UNCHANGED <<jobState, scouts>>

\* An order that cannot be given raises: the game loop ends the job, which does
\* not clean up.  One of the same goal is not repeated for a while.
SendsScout(j, s, b) ==
  \/ reachable /\ sent' = [sent EXCEPT ![s] = b] /\ SameJob(j, s)
  \/ sent[s] = b /\ UNCHANGED sent /\ SameJob(j, s)
  \/ /\ ~reachable /\ UNCHANGED sent
     /\ jobState' = [jobState EXCEPT ![j] = "failed"] /\ scouts' = [scouts EXCEPT ![j] = {}]
     /\ turn' = [turn EXCEPT ![j] = NoTurn]

Retreats(j, s) ==
  /\ s \in hurt /\ SendsScout(j, s, Base)
  /\ UNCHANGED <<scouting, registry>>

Tracks(j, s) ==
  /\ s \notin hurt /\ clue # None /\ SendsScout(j, s, clue)
  /\ UNCHANGED <<scouting, registry>>

StuckTicks(j, s) == IF turn[j][s] = lastAt[j][s] THEN Min({stuck[j][s] + 1, MaxStuckTicks}) ELSE 0
AtGoal(j, s) == turn[j][s] = headed[j][s]

Reached(j, s) == visited[j][s] \cup (IF AtGoal(j, s) THEN {headed[j][s]} ELSE {})

Unexplored == Block \ grid
Frontier == {b \in Unexplored : b - 1 \in grid \/ b + 1 \in grid}

\* A place is known by its middle, where the scout was sent within the map: that
\* of a clipped block is not looked up so.  Nor is any, where the scout stands at
\* the far end of a map whose cells count from 1: only there this shows, and moves
\* all middles by one.
Recognised(j, s, seen) ==
  {seen \ land.clipped} \cup (IF land.off /\ turn[j][s] = Width THEN {{}} ELSE {})

\* Blocks at the edge of what is known first, of these the best by a score that
\* is left open; else where a ray ends, which looks up the very cell and may miss,
\* or the block with the most to explore.
Goals(j, s, seen) ==
  UNION {IF Frontier \ known # {} THEN Frontier \ known
         ELSE IF Unexplored \ (known \cap seen) # {} THEN Unexplored \ (known \cap seen) ELSE {None}
         : known \in Recognised(j, s, seen)}

\* A new goal for who has none, has arrived or does not get on.
NeedsGoal(j, s) == headed[j][s] = None \/ AtGoal(j, s) \/ StuckTicks(j, s) = MaxStuckTicks
Goal(j, s) == IF NeedsGoal(j, s) THEN Goals(j, s, Reached(j, s)) ELSE {headed[j][s]}

Searches(j, s) ==
  /\ s \notin hurt /\ clue = None
  /\ led' = [led EXCEPT ![j] = @ \cup {s}]
  /\ stuck' = [stuck EXCEPT ![j][s] = StuckTicks(j, s)]
  /\ lastAt' = [lastAt EXCEPT ![j][s] = turn[j][s]]
  /\ visited' = [visited EXCEPT ![j][s] = Reached(j, s)]
  /\ \E b \in Goal(j, s) :
       /\ headed' = [headed EXCEPT ![j][s] = b]
       /\ registry' = IF NeedsGoal(j, s) THEN [registry EXCEPT ![s] = b] ELSE registry
       /\ \/ b # None /\ SendsScout(j, s, b)
          \/ b = None /\ UNCHANGED sent /\ SameJob(j, s)

\* The next scout of the tick, whatever has become of the job and of it meanwhile.
ScoutTick(j, s) ==
  /\ turn[j][s] # None
  /\ Retreats(j, s) \/ Tracks(j, s) \/ Searches(j, s)
  /\ UNCHANGED <<land, place, jammed, hurt, explored, foe, clue, reachable, changes, grid, cut>>

-----------------------------------------------------------------------------
SearchNext ==
  \/ Mishap \/ SeeGround
  \/ \E s \in Scout : ScoutTravels(s)
  \/ \E j \in ReconJob : AbortSearch(j) \/ Finds(j) \/ TickStarts(j)
  \/ \E j \in ReconJob, s \in Scout : ScoutGranted(j, s) \/ ScoutRevoked(j, s) \/ ScoutTick(j, s)

SearchSpec == SearchInit /\ [][SearchNext]_searchVars

\* While the API answers the game loop refreshes the world and comes round to
\* every job; a tick that has begun goes on; scouts go where they were sent.
SearchLiveSpec ==
  /\ SearchSpec
  /\ WF_searchVars(SeeGround)
  /\ \A s \in Scout : WF_searchVars(ScoutTravels(s))
  /\ \A j \in ReconJob : SF_searchVars(reachable /\ TickStarts(j))
  /\ \A j \in ReconJob, s \in Scout : WF_searchVars(ScoutTick(j, s))

-----------------------------------------------------------------------------
SearchTypeOK ==
  /\ land \in Land /\ turn \in [ReconJob -> [Scout -> Block \cup {None}]] /\ cut \subseteq ReconJob
  /\ place \in [Scout -> Block \cup {None}] /\ sent \in [Scout -> Block \cup {None}]
  /\ jammed \subseteq Scout /\ hurt \subseteq Scout
  /\ explored \subseteq Block /\ grid \subseteq explored
  /\ {foe, reachable} \subseteq BOOLEAN /\ clue \in Block \cup {None} /\ changes \in 0 .. Mishaps
  /\ jobState \in [ReconJob -> Active \cup {"succeeded", "failed", "aborted"}]
  /\ scouts \in [ReconJob -> SUBSET Scout] /\ led \in [ReconJob -> SUBSET Scout]
  /\ headed \in [ReconJob -> [Scout -> Block \cup {None}]]
  /\ visited \in [ReconJob -> [Scout -> SUBSET Block]]
  /\ stuck \in [ReconJob -> [Scout -> 0 .. MaxStuckTicks]]
  /\ lastAt \in [ReconJob -> [Scout -> Block \cup {None}]]
  /\ registry \in [Scout -> Block \cup {None}]

\* Whoever keeps others away is led by a job that goes on, or was by one that
\* failed or was aborted in the middle of a tick: a job that ends otherwise takes
\* back the goals of all it ever led, also of the scouts that died or were taken
\* from it meanwhile, and sets none afterwards.
GoalsAreOwned ==
  \A s \in Scout : registry[s] # None =>
    \E j \in ReconJob : s \in led[j] /\ (jobState[j] \in Active \cup {"failed"} \/ j \in cut)

\* Every block can be entered, and a block that a visit leaves partly unexplored
\* is known again.
Open ==
  land.walls = {} /\ (land.dim = {} \/ (land.dim \cap land.clipped = {} /\ ~land.off))


=============================================================================
