---------------------------- MODULE WorldRefresh ----------------------------
(***************************************************************************)
(* The world model's layered refresh and what the game loop reads from it  *)
(* (world_model/core.py: refresh, _due_layers, _detect_events,             *)
(* refresh_health, reset_snapshot; main.py: restart_game and               *)
(* on_session_clear).                                                      *)
(*                                                                         *)
(* A refresh runs in a worker thread, one layer at a time, and the event   *)
(* loop goes on beside it: jobs are granted units of the snapshot, and a   *)
(* session may be cleared.  A restart of the game waits two seconds for the *)
(* tick, then cancels it; the thread cannot be cancelled, so that refresh  *)
(* stays behind and writes beside those of the loop that is started anew.  *)
(* Every timestamp a refresh uses is the time at which its tick began, so  *)
(* time passes between refreshes.                                          *)
(***************************************************************************)
EXTENDS Integers, FiniteSets

CONSTANTS
  Actor,       \* actor ids
  Kind,        \* what each is: a unit, an mcv, a building or an enemy
  Near,        \* pairs of an mcv and a building within 48 cells of it
  Begins,      \* the actors the match of each number begins with
  Every,       \* the period of each layer
  Backoff,     \* CONNECTION_FAILURE_RETRY_BACKOFF_S
  Moves        \* bound: how many things happen in the game

Layer == {"actors", "economy", "map"}

ASSUME RefreshOK ==
  /\ Kind \in [Actor -> {"unit", "mcv", "building", "enemy"}]
  /\ Near \subseteq Actor \X Actor
  /\ Begins \in [{1, 2} -> SUBSET Actor]
  /\ Every \in [Layer -> Nat \ {0}]
  /\ Backoff \in Nat /\ Moves \in Nat

VARIABLES
  game,        \* the actors as the game has them
  link,        \* how the game answers: up, down, or faulty
  hit,         \* a fetch has found it down since it went down
  match,       \* the number of the match
  left,        \* how many moves the game has left
  seen,        \* state.actors, self_ids, enemy_ids
  seenIn,      \* the match these were fetched in
  credit,      \* whether state.economy shows low power, or is empty
  power,       \* whether the game has
  mapped,      \* whether state.map_info is there
  stamped,     \* state.timestamp is not 0
  stale,       \* state.stale
  age,         \* time since each layer was refreshed, up to its period
  retry,       \* time until a failed layer may be tried again
  pending,     \* _pending_events
  lowPower,    \* _low_power_active
  phase,       \* the refresh: off, fetch, or done and not read
  forced,      \* the next refresh is forced, and the loop does not read it
  todo,        \* the layers it has still to fetch
  failed,      \* its local stale
  cut,         \* its local connection_failure_active
  before,      \* its local copy previous; its match is kept until its events are read
  stray,       \* the refresh a restart has left behind, with its locals
  mixed,       \* no refresh of the loop's own has begun since it was there
  held,        \* the player's units that jobs hold
  lent,        \* those of them that were granted in a restart or beside a stray refresh
  cleared,     \* a session was cleared while the refresh ran
  restarting   \* restart_game is waiting for the game

gameVars == <<game, link, match, left, power>>
stateVars == <<seen, seenIn, credit, mapped, stamped, stale>>
timeVars == <<age, retry>>
eventVars == <<pending, lowPower>>
fetchVars == <<phase, forced, todo, failed, cut, before, cleared, hit>>
strayVars == <<stray, mixed>>
kernelVars == <<held, lent, restarting>>
vars == <<gameVars, stateVars, timeVars, eventVars, fetchVars, strayVars, kernelVars>>

Own(a) == Kind[a] # "enemy"
Base(a) == Kind[a] \in {"building", "mcv"}
There(g) == {a \in Actor : g[a] \in {"idle", "busy"}}
Nothing == [a \in Actor |-> "none"]
Shown(g) == [a \in Actor |-> IF a \in There(g) THEN g[a] ELSE "none"]
MatchBegins(m) == [a \in Actor |-> IF a \in Begins[m] THEN "idle"
                                   ELSE "unborn"]

NoCopy == [seen |-> Nothing, of |-> 1, stamped |-> FALSE]
NoStray == [on |-> FALSE, todo |-> {}, failed |-> FALSE, cut |-> FALSE, before |-> NoCopy]

\* The state of a new WorldModel, and of reset_snapshot.
FreshState ==
  /\ seen' = Nothing /\ credit' = "none" /\ mapped' = FALSE /\ seenIn' = match
  /\ stamped' = FALSE /\ stale' = FALSE
  /\ age' = Every /\ retry' = [l \in Layer |-> 0]
  /\ pending' = {} /\ lowPower' = FALSE

\* The first refresh, of start, is forced and comes before the loop.
Init ==
  /\ game = MatchBegins(1) /\ link = "up" /\ match = 1 /\ left = Moves /\ power = "good"
  /\ seen = Nothing /\ seenIn = 1 /\ credit = "none" /\ mapped = FALSE /\ stamped = FALSE /\ stale = FALSE
  /\ age = Every /\ retry = [l \in Layer |-> 0]
  /\ pending = {} /\ lowPower = FALSE
  /\ phase = "off" /\ forced = TRUE /\ todo = {} /\ failed = FALSE /\ cut = FALSE
  /\ before = NoCopy /\ stray = NoStray /\ mixed = FALSE
  /\ held = {} /\ lent = {} /\ cleared = FALSE /\ hit = FALSE /\ restarting = FALSE

-----------------------------------------------------------------------------
(* The game.                                                               *)

Moved == left > 0 /\ left' = left - 1
OnlyGame == UNCHANGED <<stateVars, timeVars, eventVars, fetchVars, strayVars, kernelVars>>

Appears(a) ==
  /\ Moved /\ game[a] = "unborn"
  /\ game' = [game EXCEPT ![a] = "idle"]
  /\ UNCHANGED <<link, match, power>> /\ OnlyGame

Acts(a) ==
  /\ Moved /\ Kind[a] = "unit" /\ a \in There(game)
  /\ game' = [game EXCEPT ![a] = IF @ = "idle" THEN "busy" ELSE "idle"]
  /\ UNCHANGED <<link, match, power>> /\ OnlyGame

Dies(a) ==
  /\ Moved /\ a \in There(game)
  /\ game' = [game EXCEPT ![a] = "gone"]
  /\ UNCHANGED <<link, match, power>> /\ OnlyGame

Deploys(m, b) ==
  /\ Moved /\ <<m, b>> \in Near
  /\ m \in There(game) /\ game[b] = "unborn"
  /\ game' = [game EXCEPT ![m] = "gone", ![b] = "idle"]
  /\ UNCHANGED <<link, match, power>> /\ OnlyGame

PowerChanges ==
  /\ Moved /\ \E b \in There(game) : Kind[b] = "building"
  /\ power' = IF power = "good" THEN "low" ELSE "good"
  /\ UNCHANGED <<game, link, match>> /\ OnlyGame

\* The player starts a new match outside the program.  The game numbers its
\* actors anew, so that an id may come back.
NewMatch ==
  /\ Moved /\ match = 1 /\ ~restarting
  /\ match' = 2 /\ game' = MatchBegins(2) /\ power' = "good"
  /\ UNCHANGED link /\ OnlyGame

LinkChanges ==
  /\ Moved /\ ~restarting
  /\ link' \in {"up", "down", "faulty"} \ {link}
  /\ hit' = FALSE
  /\ UNCHANGED <<game, match, power, stateVars, timeVars, eventVars, phase, forced, todo, failed,
                 cut, before, cleared, strayVars, kernelVars>>

GameStep ==
  \/ \E a \in Actor : Appears(a) \/ Acts(a) \/ Dies(a)
  \/ \E m, b \in Actor : Deploys(m, b)
  \/ PowerChanges \/ NewMatch \/ LinkChanges

-----------------------------------------------------------------------------
(* One refresh.                                                            *)

Lower(n) == IF n > 0 THEN n - 1 ELSE 0

\* Time passes between two ticks.
Clock ==
  /\ phase = "off" /\ ~restarting
  /\ age' = [l \in Layer |-> IF age[l] < Every[l] THEN age[l] + 1 ELSE Every[l]]
  /\ retry' = [l \in Layer |-> Lower(retry[l])]
  /\ <<age, retry>>' # <<age, retry>>
  /\ UNCHANGED <<gameVars, stateVars, eventVars, fetchVars, strayVars, kernelVars>>

Empty(l) == CASE l = "actors" -> seen = Nothing
              [] l = "economy" -> credit = "none"
              [] OTHER -> ~mapped

\* Mutant of Due: a layer is refreshed when its period is over and it is empty.
DueBoth(l) == retry[l] = 0 /\ Empty(l) /\ age[l] >= Every[l]

\* _due_layers
Due(l) == retry[l] = 0 /\ (Empty(l) \/ age[l] >= Every[l])

DueLayers == IF forced THEN Layer ELSE {l \in Layer : Due(l)}

\* Nothing is due: the events are dropped and the loop reads none.
RefreshNothing ==
  /\ phase = "off" /\ ~restarting
  /\ DueLayers = {} /\ stamped
  /\ pending' = {} /\ phase' = "done"
  /\ UNCHANGED <<gameVars, stateVars, timeVars, lowPower, forced, todo, failed, cut, before,
                 cleared, hit, strayVars, kernelVars>>

RefreshBegins ==
  /\ phase = "off" /\ ~restarting
  /\ DueLayers # {} \/ ~stamped
  /\ phase' = "fetch" /\ todo' = DueLayers
  /\ before' = [seen |-> seen, of |-> seenIn, stamped |-> stamped]
  /\ mixed' = (stray.on \/ (mixed /\ forced))
  /\ UNCHANGED <<gameVars, stateVars, timeVars, eventVars, forced, failed, cut, cleared, hit, stray,
                 kernelVars>>

\* The layers are fetched in this order.
First(l) ==
  /\ phase = "fetch" /\ l \in todo
  /\ l = "economy" => "actors" \notin todo
  /\ l = "map" => todo = {"map"}

FetchSucceeds(l) ==
  /\ First(l) /\ ~cut /\ link # "down"
  /\ todo' = todo \ {l}
  /\ seen' = IF l = "actors" THEN Shown(game) ELSE seen
  /\ seenIn' = IF l = "actors" THEN match ELSE seenIn
  /\ credit' = IF l = "economy" THEN power ELSE credit
  /\ mapped' = (l = "map" \/ mapped)
  /\ age' = [age EXCEPT ![l] = 0]
  /\ retry' = [retry EXCEPT ![l] = 0]
  /\ UNCHANGED <<gameVars, stamped, stale, eventVars, phase, forced, failed, cut, before,
                 cleared, hit, strayVars, kernelVars>>

\* Mutant of Kept: a fetch that fails leaves an empty snapshot.
KeptNot(l) == IF l = "actors" THEN Nothing ELSE seen

\* A layer that fails keeps what it had.
Kept(l) == seen

\* A layer fails, or is skipped because the connection failed before it.
FetchFails(l) ==
  /\ First(l) /\ (cut \/ link # "up")
  /\ todo' = todo \ {l}
  /\ seen' = Kept(l)
  /\ failed' = TRUE
  /\ cut' = (cut \/ link = "down")
  /\ hit' = (hit \/ link = "down")
  /\ retry' = [retry EXCEPT ![l] = Backoff]
  /\ UNCHANGED <<gameVars, seenIn, credit, mapped, stamped, stale, age, eventVars, phase, forced,
                 before, cleared, strayVars, kernelVars>>

-----------------------------------------------------------------------------
(* The events of a refresh.                                                *)

Ev(type, a) == [type |-> type, actor |-> a]

Selves(s)  == {a \in Actor : s[a] # "none" /\ Own(a)}
Enemies(s) == {a \in Actor : s[a] # "none" /\ ~Own(a)}

\* _is_probable_match_reset
ProbableReset(old, new) ==
  /\ Selves(old) # {} /\ Selves(new) # {} /\ Selves(old) \cap Selves(new) = {}
  /\ \E a \in Selves(old) : Base(a)
  /\ Enemies(new) = {}
  /\ \A a \in Selves(new) : Kind[a] # "building"
  /\ Cardinality({a \in Selves(new) : Kind[a] = "mcv"}) = 1
  /\ Cardinality(Selves(new)) <= 3
  /\ Cardinality(Selves(old)) > Cardinality(Selves(new))

\* _is_probable_self_deploy
ProbableDeploy(a, old, new) ==
  /\ Kind[a] = "mcv"
  /\ \E b \in Selves(new) \ Selves(old) : Kind[b] = "building" /\ <<a, b>> \in Near

Lost(old, new) == {a \in Actor : old[a] # "none" /\ new[a] = "none" /\ ~ProbableDeploy(a, old, new)}

ActorEvents(old, new) ==
  {Ev(IF Base(a) THEN "STRUCTURE_LOST" ELSE "UNIT_DIED", a) : a \in Lost(old, new)}
  \cup {Ev("ENEMY_DISCOVERED", a) : a \in Enemies(new) \ Enemies(old)}
  \cup {Ev("UNIT_IDLE", a) : a \in {b \in Selves(new) :
           /\ new[b] = "idle" /\ old[b] # "idle"
           /\ Kind[b] = "building" => old[b] # "none"}}
  \cup {Ev("BASE_UNDER_ATTACK", a) : a \in {b \in Lost(old, new) : Base(b)}}

SummaryEvents == IF credit = "low" /\ ~lowPower
                 THEN {Ev("LOW_POWER", CHOOSE a \in Actor : TRUE)} ELSE {}

Reset == {Ev("GAME_RESET", CHOOSE a \in Actor : TRUE)}

\* Mutant of Detected: a refresh in which a layer failed tells no events.
DetectedWhole(old, lost) == IF lost THEN {} ELSE ActorEvents(old.seen, seen) \cup SummaryEvents

\* _detect_events, of a refresh that began with the copy old and in which a layer
\* failed or not.
Detected(old, lost) ==
  IF ~old.stamped THEN {}
  ELSE IF ProbableReset(old.seen, seen) THEN Reset
  ELSE ActorEvents(old.seen, seen) \cup SummaryEvents

\* _low_power_active after it.
PowerTold(old) == IF old.stamped /\ ~ProbableReset(old.seen, seen) THEN credit = "low" ELSE lowPower

\* Mutant of NowStale: only the actors count.
NowStaleActors == failed /\ retry["actors"] = Backoff

\* The snapshot is stale when a layer of this refresh has failed.
NowStale == failed

\* The end of a refresh.  The loop reads the events of its own.
RefreshEnds ==
  /\ phase = "fetch" /\ todo = {}
  /\ stamped' = TRUE /\ stale' = NowStale
  /\ pending' = Detected(before, failed)
  /\ lowPower' = PowerTold(before)
  /\ phase' = IF forced THEN "off" ELSE "done"
  /\ before' = IF forced THEN NoCopy ELSE [NoCopy EXCEPT !.of = before.of]
  /\ forced' = FALSE
  /\ failed' = FALSE /\ cut' = FALSE
  /\ UNCHANGED <<gameVars, seen, seenIn, credit, mapped, timeVars, todo, cleared, hit, strayVars,
                 kernelVars>>

-----------------------------------------------------------------------------
(* The refresh a restart has left behind.  Its tick began more than two     *)
(* seconds ago: what it fetches is due again at once, and the backoff of    *)
(* what it fails to fetch is over.                                          *)

StrayFirst(l) ==
  /\ stray.on /\ l \in stray.todo
  /\ l = "economy" => "actors" \notin stray.todo
  /\ l = "map" => stray.todo = {"map"}

StrayFetches(l) ==
  /\ StrayFirst(l) /\ ~stray.cut /\ link # "down"
  /\ stray' = [stray EXCEPT !.todo = @ \ {l}]
  /\ seen' = IF l = "actors" THEN Shown(game) ELSE seen
  /\ seenIn' = IF l = "actors" THEN match ELSE seenIn
  /\ credit' = IF l = "economy" THEN power ELSE credit
  /\ mapped' = (l = "map" \/ mapped)
  /\ age' = [age EXCEPT ![l] = Every[l]]
  /\ retry' = [retry EXCEPT ![l] = 0]
  /\ UNCHANGED <<gameVars, stamped, stale, eventVars, fetchVars, mixed, kernelVars>>

\* While the game restarts its connection is refused, or breaks in an answer.
StrayFails(l) ==
  /\ StrayFirst(l) /\ (stray.cut \/ link # "up" \/ restarting)
  /\ \E dead \in IF restarting THEN BOOLEAN ELSE {link = "down"} :
       stray' = [stray EXCEPT !.todo = @ \ {l}, !.failed = TRUE, !.cut = @ \/ dead]
  /\ retry' = [retry EXCEPT ![l] = 0]
  /\ UNCHANGED <<gameVars, stateVars, age, eventVars, fetchVars, mixed, kernelVars>>

\* It ends like any other: over the mark of a refresh that failed after it, and
\* over the events that nobody has read.
StrayEnds ==
  /\ stray.on /\ stray.todo = {}
  /\ stamped' = TRUE /\ stale' = stray.failed
  /\ pending' = Detected(stray.before, stray.failed)
  /\ lowPower' = PowerTold(stray.before)
  /\ stray' = NoStray
  /\ UNCHANGED <<gameVars, seen, seenIn, credit, mapped, timeVars, fetchVars, mixed, kernelVars>>

Stray == StrayEnds \/ \E l \in Layer : StrayFetches(l) \/ StrayFails(l)

-----------------------------------------------------------------------------
(* The loop, the kernel and the runtime.                                   *)

Told(type) == {e.actor : e \in {f \in pending : f.type = type}}

\* What jobs hold once the events are routed: a unit that died is taken from
\* its job (on_resource_revoked), a reset of the game clears all jobs.
Released == IF Told("GAME_RESET") # {} THEN {} ELSE held \ Told("UNIT_DIED")

\* detect_events(clear=True) and route_events.
Read ==
  /\ phase = "done"
  /\ held' = Released
  /\ lent' = lent \cap Released
  /\ pending' = {}
  /\ phase' = "off" /\ cleared' = FALSE /\ before' = NoCopy
  /\ UNCHANGED <<gameVars, stateVars, timeVars, lowPower, forced, todo, failed, cut, hit, strayVars,
                 restarting>>

\* The kernel gives a job a unit of the snapshot.
Grant(a) ==
  /\ Kind[a] = "unit" /\ a \in Selves(seen) \ held
  /\ held' = held \cup {a}
  /\ lent' = IF restarting \/ mixed THEN lent \cup {a} ELSE lent
  /\ UNCHANGED <<gameVars, stateVars, timeVars, eventVars, fetchVars, strayVars, restarting>>

\* on_session_clear: the kernel drops every job and the snapshot is reset,
\* also under a refresh that is under way.
SessionClear ==
  /\ stamped /\ left > 0 /\ left' = left - 1
  /\ FreshState
  /\ held' = {} /\ lent' = {}
  /\ cleared' = (phase = "fetch" \/ cleared) /\ hit' = FALSE
  /\ UNCHANGED <<game, link, match, power, phase, forced, todo, failed, cut, before, strayVars,
                 restarting>>

\* restart_game stops the loop, cancels all tasks and starts the game anew.  A
\* refresh that takes more than two seconds goes on without the loop, and events
\* that it had still to read are left.
RestartBegins ==
  /\ Moved /\ ~forced /\ ~restarting /\ match = 1
  /\ restarting' = TRUE
  /\ held' = {} /\ lent' = {}
  /\ match' = 2 /\ game' = MatchBegins(2) /\ power' = "good" /\ link' = "up"
  /\ stray' = IF phase = "fetch"
              THEN [on |-> TRUE, todo |-> todo, failed |-> failed, cut |-> cut, before |-> before]
              ELSE NoStray
  /\ mixed' = (phase = "fetch")
  /\ phase' = "off" /\ todo' = {} /\ failed' = FALSE /\ cut' = FALSE /\ before' = NoCopy
  /\ cleared' = FALSE /\ hit' = FALSE
  /\ UNCHANGED <<stateVars, timeVars, eventVars, forced>>

\* When its API answers it resets the snapshot, refreshes and starts the loop.
RestartEnds ==
  /\ restarting
  /\ restarting' = FALSE
  /\ FreshState
  /\ forced' = TRUE
  /\ UNCHANGED <<gameVars, phase, todo, failed, cut, before, cleared, hit, strayVars, held, lent>>

Refresh ==
  \/ RefreshNothing \/ RefreshBegins
  \/ \E l \in Layer : FetchSucceeds(l) \/ FetchFails(l)
  \/ RefreshEnds \/ Read

Next ==
  \/ GameStep \/ Clock \/ Refresh \/ Stray
  \/ \E a \in Actor : Grant(a)
  \/ SessionClear \/ RestartBegins \/ RestartEnds

Spec == Init /\ [][Next]_vars

\* The loop goes on ticking and time goes on; restart_game returns; each request
\* of a refresh that was left behind is answered or given up after three tries.
LiveSpec ==
  Spec /\ SF_vars(Clock) /\ WF_vars(Refresh) /\ WF_vars(Stray) /\ WF_vars(RestartEnds)

-----------------------------------------------------------------------------
(* Properties.                                                             *)

\* Every variable keeps to its type.
TypeOK ==
  /\ game \in [Actor -> {"unborn", "idle", "busy", "gone"}]
  /\ link \in {"up", "down", "faulty"}
  /\ match \in {1, 2} /\ seenIn \in {1, 2} /\ left \in 0..Moves
  /\ power \in {"good", "low"} /\ credit \in {"none", "good", "low"}
  /\ seen \in [Actor -> {"none", "idle", "busy"}]
  /\ {before, stray.before} \subseteq
        [seen : [Actor -> {"none", "idle", "busy"}], of : {1, 2}, stamped : BOOLEAN]
  /\ stray.todo \subseteq Layer /\ {stray.on, stray.failed, stray.cut, mixed} \subseteq BOOLEAN
  /\ \A l \in Layer : age[l] \in 0..Every[l] /\ retry[l] \in 0..Backoff
  /\ phase \in {"off", "fetch", "done"} /\ todo \subseteq Layer
  /\ {mapped, stamped, stale, lowPower, forced, failed, cut, hit, cleared, restarting} \subseteq BOOLEAN
  /\ held \subseteq Actor /\ lent \subseteq held

\* No job keeps a unit that has gone from the snapshot: whatever layers fail,
\* are skipped or come late, the loop reads of each unit that vanishes.  (The
\* units granted while the game restarts are those of the match before; those
\* granted beside a stray refresh may be lost with the events it overwrites.)
NoGhosts == phase = "off" => \A a \in held \ lent : seen[a] # "none"

\* A unit or a building that is reported lost has gone from the game, if the copy
\* its refresh began with was of this match, unless its session was cleared under
\* that refresh or a stray one ran beside it.
LossIsReal ==
  phase = "done" /\ before.of = match /\ ~cleared /\ ~mixed =>
    \A a \in Told("UNIT_DIED") \cup Told("STRUCTURE_LOST") : Own(a) => game[a] = "gone"

\* While the game is out of reach and a refresh of the loop has met that, the
\* snapshot is stale, so that the loop keeps its jobs from acting on it; a stray
\* refresh may take the mark away until the loop's next has ended.
DownIsStale == hit /\ phase # "fetch" /\ ~mixed => stale

\* When the game answers at last, the snapshot catches up with it.
Recovers == <>[](link = "up") => <>[](seen = Shown(game) /\ ~stale)

=============================================================================
