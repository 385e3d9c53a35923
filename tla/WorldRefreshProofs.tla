-------------------------- MODULE WorldRefreshProofs --------------------------
(***************************************************************************)
(* For any actors, periods and length of play, with ids that come back in   *)
(* the next match and with a refresh that a restart leaves behind: the jobs *)
(* keep no unit that has gone from the snapshot, a lost connection that a  *)
(* refresh has met keeps the snapshot stale, and a loss that is reported is *)
(* one, each but for what the refresh left behind may do.                  *)
(***************************************************************************)
EXTENDS WorldRefresh, TLAPS

-----------------------------------------------------------------------------
(* The invariant.                                                          *)

Copy == [seen : [Actor -> {"none", "idle", "busy"}], of : {1, 2}, stamped : BOOLEAN]
Left == [on : BOOLEAN, todo : SUBSET Layer, failed : BOOLEAN, cut : BOOLEAN, before : Copy]

Typed ==
  /\ seen \in [Actor -> {"none", "idle", "busy"}]
  /\ match \in {1, 2} /\ seenIn \in {1, 2} /\ before \in Copy /\ stray \in Left
  /\ cut \in BOOLEAN /\ mixed \in BOOLEAN
  /\ phase \in {"off", "fetch", "done"} /\ todo \subseteq Layer
  /\ held \subseteq Actor /\ lent \subseteq held
  /\ stamped \in BOOLEAN /\ forced \in BOOLEAN /\ failed \in BOOLEAN
  /\ hit \in BOOLEAN /\ restarting \in BOOLEAN /\ stale \in BOOLEAN

\* Jobs are granted units only, never a building nor the mcv.
UnitsOnly == \A a \in held : Kind[a] = "unit"

\* A refresh is left behind by the one restart.  Beside it, and until the loop has
\* begun one of its own after it, what is granted is lent.
Beside ==
  /\ stray.on => mixed /\ match = 2
  /\ mixed => held \subseteq lent

\* A snapshot that has never been refreshed shows nothing, so every layer is due.
Blank ==
  ~stamped /\ phase # "fetch" /\ ~stray.on =>
    seen = Nothing /\ credit = "none" /\ ~mapped /\ retry = [l \in Layer |-> 0]

\* The forced refresh, whose events nobody reads, follows a new snapshot.
FirstOnly ==
  forced => /\ phase # "done"
            /\ phase = "off" /\ ~mixed => ~stamped
            /\ phase = "fetch" /\ ~mixed => ~before.stamped

\* While the game restarts the loop has no refresh, and what is granted is lent.
Quiet == restarting => phase = "off" /\ ~forced /\ held \subseteq lent /\ ~hit

\* Until the actors are fetched the snapshot is the one the refresh began with,
\* or an empty one.
SameUntilFetched ==
  phase = "fetch" /\ "actors" \in todo /\ ~mixed => seen = Nothing \/ (before.stamped /\ before.seen = seen)

\* A unit that a job holds is seen, was seen when this refresh began, or is
\* reported by the events that are to be read.
Accounted ==
  \A a \in held \ lent :
    \/ seen[a] # "none"
    \/ /\ phase = "fetch" /\ "actors" \notin todo
       /\ before.stamped /\ before.seen[a] # "none"
    \/ /\ phase = "done"
       /\ Ev("UNIT_DIED", a) \in pending \/ Reset \subseteq pending

\* A refresh that meets a dead link has failed, or has a layer left to fail.
HitFails ==
  hit => /\ link = "down"
         /\ phase = "fetch" /\ ~mixed => failed \/ todo # {}
         /\ phase # "fetch" /\ ~mixed => stale

Inv == Typed /\ UnitsOnly /\ Beside /\ Blank /\ FirstOnly /\ Quiet /\ SameUntilFetched /\ Accounted /\ HitFails

LEMMA NothingSeen == Nothing \in [Actor -> {"none", "idle", "busy"}]
  BY DEF Nothing

-----------------------------------------------------------------------------
(* What does not touch the snapshot, the refresh nor the jobs keeps it.    *)

LEMMA SameKeeps ==
  ASSUME Inv, UNCHANGED <<stateVars, retry, pending, phase, forced, todo, failed, cut, before, hit,
                          strayVars, kernelVars>>, hit => link' = link,
         match' \in {match, 2}
  PROVE  Inv'
<1>1. Typed' /\ UnitsOnly' /\ Beside'
  BY DEF Inv, Typed, UnitsOnly, Beside, stateVars, strayVars, kernelVars
<1>2. Blank' /\ FirstOnly' /\ Quiet' /\ SameUntilFetched'
  BY DEF Inv, Blank, FirstOnly, Quiet, SameUntilFetched, stateVars, strayVars, kernelVars
<1>3. Accounted' /\ HitFails'
  BY DEF Inv, Accounted, HitFails, stateVars, strayVars, kernelVars
<1> QED
  BY <1>1, <1>2, <1>3 DEF Inv

LEMMA GameKeeps ==
  ASSUME Inv, GameStep
  PROVE  Inv'
<1>1. CASE LinkChanges
  <2>1. UNCHANGED <<match, stateVars, timeVars, eventVars, phase, forced, todo, failed, cut, before,
                    strayVars, kernelVars>>
        /\ hit' = FALSE
    BY <1>1 DEF LinkChanges
  <2>2. Typed' /\ UnitsOnly' /\ Beside' /\ Blank'
    BY <2>1 DEF Inv, Typed, UnitsOnly, Beside, Blank, stateVars, timeVars, strayVars, kernelVars
  <2> QED
    BY <2>1, <2>2 DEF Inv, FirstOnly, Quiet, SameUntilFetched, Accounted, HitFails, stateVars,
                      eventVars, strayVars, kernelVars
<1>2. CASE OnlyGame /\ link' = link /\ match' \in {match, 2}
  BY <1>2, SameKeeps DEF OnlyGame, timeVars, eventVars, fetchVars
<1> QED
  BY <1>1, <1>2 DEF GameStep, Appears, Acts, Dies, Deploys, PowerChanges, NewMatch

LEMMA ClockKeeps ==
  ASSUME Inv, Clock
  PROVE  Inv'
<1>1. /\ retry' = [l \in Layer |-> Lower(retry[l])]
      /\ UNCHANGED <<gameVars, stateVars, eventVars, fetchVars, strayVars, kernelVars>>
  BY DEF Clock
<1>2. Blank'
  BY <1>1 DEF Inv, Blank, Lower, stateVars, fetchVars, strayVars
<1> QED
  BY <1>1, <1>2 DEF Inv, Typed, UnitsOnly, Beside, FirstOnly, Quiet, SameUntilFetched, Accounted, HitFails,
                    gameVars, stateVars, eventVars, fetchVars, strayVars, kernelVars

-----------------------------------------------------------------------------
(* The refresh.                                                            *)

LEMMA NothingKeeps ==
  ASSUME Inv, RefreshNothing
  PROVE  Inv'
<1>1. /\ phase = "off" /\ ~restarting /\ stamped /\ phase' = "done" /\ ~forced
      /\ UNCHANGED <<gameVars, stateVars, timeVars, forced, todo, failed, cut, before, hit,
                     strayVars, kernelVars>>
  BY DEF RefreshNothing, DueLayers, Layer
<1>2. \A a \in held \ lent : seen[a] # "none"
  BY <1>1 DEF Inv, Accounted
<1>3. Typed' /\ UnitsOnly' /\ Beside' /\ Blank'
  BY <1>1 DEF Inv, Typed, UnitsOnly, Beside, Blank, gameVars, stateVars, timeVars, strayVars, kernelVars
<1> QED
  BY <1>1, <1>2, <1>3 DEF Inv, FirstOnly, Quiet, SameUntilFetched, Accounted, HitFails, gameVars,
                          stateVars, strayVars, kernelVars

LEMMA BeginKeeps ==
  ASSUME Inv, RefreshBegins
  PROVE  Inv'
<1>1. /\ phase = "off" /\ ~restarting /\ (DueLayers # {} \/ ~stamped)
      /\ phase' = "fetch" /\ todo' = DueLayers
      /\ before' = [seen |-> seen, of |-> seenIn, stamped |-> stamped]
      /\ mixed' = (stray.on \/ (mixed /\ forced))
      /\ UNCHANGED <<gameVars, stateVars, timeVars, eventVars, forced, failed, cut, hit, stray, kernelVars>>
  BY DEF RefreshBegins
<1>2. todo' \subseteq Layer /\ (~mixed' => todo' # {})
  <2>1. ~stamped /\ ~mixed' => "actors" \in DueLayers
    BY <1>1 DEF Inv, Blank, DueLayers, Due, Empty, Layer
  <2> QED
    BY <1>1, <2>1 DEF DueLayers
<1>3. \A a \in held \ lent : seen[a] # "none"
  BY <1>1 DEF Inv, Accounted
<1>4. ~mixed' => seen = Nothing \/ stamped
  BY <1>1 DEF Inv, Blank
<1>5. before' \in Copy /\ mixed' \in BOOLEAN
  BY <1>1 DEF Inv, Typed, Copy, Left, stateVars
<1> QED
  BY <1>1, <1>2, <1>3, <1>4, <1>5
  DEF Inv, Typed, UnitsOnly, Beside, Blank, FirstOnly, Quiet, SameUntilFetched, Accounted, HitFails,
      gameVars, stateVars, timeVars, eventVars, kernelVars

LEMMA SuccessKeeps ==
  ASSUME Inv, NEW l \in Layer, FetchSucceeds(l)
  PROVE  Inv'
<1>1. /\ phase = "fetch" /\ l \in todo /\ link # "down" /\ todo' = todo \ {l}
      /\ seen' = IF l = "actors" THEN Shown(game) ELSE seen
      /\ seenIn' = (IF l = "actors" THEN match ELSE seenIn)
      /\ UNCHANGED <<gameVars, stamped, stale, pending, phase, forced, failed, cut, before, hit,
                     strayVars, kernelVars>>
  BY DEF FetchSucceeds, First, eventVars
<1>2. seen' \in [Actor -> {"none", "idle", "busy"}]
  BY <1>1 DEF Inv, Typed, Shown, There
<1>3. Accounted'
  <2>1. CASE l = "actors"
    <3> SUFFICES ASSUME NEW a \in held \ lent
                 PROVE  before.stamped /\ before.seen[a] # "none"
      BY <1>1, <2>1 DEF Accounted, kernelVars
    <3>m. ~mixed
      BY DEF Inv, Beside
    <3>1. seen[a] # "none" /\ a \in Actor
      BY <1>1, <2>1 DEF Inv, Accounted, Typed
    <3>2. seen # Nothing
      BY <3>1 DEF Nothing
    <3> QED
      BY <1>1, <2>1, <3>m, <3>1, <3>2 DEF Inv, SameUntilFetched
  <2>2. CASE l # "actors"
    BY <1>1, <2>2 DEF Inv, Accounted, kernelVars
  <2> QED
    BY <2>1, <2>2
<1> QED
  BY <1>1, <1>2, <1>3
  DEF Inv, Typed, UnitsOnly, Beside, Blank, FirstOnly, Quiet, SameUntilFetched, HitFails, gameVars,
      strayVars, kernelVars

LEMMA FailureKeeps ==
  ASSUME Inv, NEW l \in Layer, FetchFails(l)
  PROVE  Inv'
<1>1. /\ phase = "fetch" /\ l \in todo /\ todo' = todo \ {l} /\ seen' = seen /\ failed' = TRUE
      /\ hit' = (hit \/ link = "down") /\ cut' = (cut \/ link = "down")
      /\ UNCHANGED <<gameVars, seenIn, stamped, stale, pending, phase, forced, before, strayVars,
                     kernelVars>>
  BY DEF FetchFails, First, Kept, eventVars
<1>2. Accounted'
  BY <1>1 DEF Inv, Accounted, kernelVars
<1> QED
  BY <1>1, <1>2
  DEF Inv, Typed, UnitsOnly, Beside, Blank, FirstOnly, Quiet, SameUntilFetched, HitFails, gameVars,
      strayVars, kernelVars

\* A unit that was seen and is not seen any more is among the losses, or the
\* whole match is taken for a new one.
LEMMA LossesAreTold ==
  ASSUME NEW lost, before.stamped, NEW a \in Actor, Kind[a] = "unit",
         before.seen[a] # "none", seen[a] = "none"
  PROVE  Ev("UNIT_DIED", a) \in Detected(before, lost) \/ Reset \subseteq Detected(before, lost)
<1>1. CASE ProbableReset(before.seen, seen)
  BY <1>1 DEF Detected
<1>2. CASE ~ProbableReset(before.seen, seen)
  <2>1. a \in Lost(before.seen, seen) /\ ~Base(a)
    BY DEF Lost, ProbableDeploy, Base
  <2>2. Ev("UNIT_DIED", a) \in ActorEvents(before.seen, seen)
    BY <2>1 DEF ActorEvents
  <2> QED
    BY <1>2, <2>2 DEF Detected
<1> QED
  BY <1>1, <1>2

LEMMA EndKeeps ==
  ASSUME Inv, RefreshEnds
  PROVE  Inv'
<1>1. /\ phase = "fetch" /\ todo = {} /\ stamped' = TRUE /\ stale' = failed
      /\ pending' = Detected(before, failed) /\ phase' = (IF forced THEN "off" ELSE "done")
      /\ forced' = FALSE /\ failed' = FALSE /\ cut' = FALSE
      /\ before' = (IF forced THEN NoCopy ELSE [NoCopy EXCEPT !.of = before.of])
      /\ UNCHANGED <<gameVars, seen, seenIn, todo, hit, strayVars, kernelVars>>
  BY DEF RefreshEnds, NowStale
<1>t. before' \in Copy
  BY <1>1, NothingSeen DEF Inv, Typed, NoCopy, Copy
<1>2. Accounted'
  <2> SUFFICES ASSUME NEW a \in held \ lent, seen[a] = "none"
               PROVE  phase' = "done" 
                        /\ \/ Ev("UNIT_DIED", a) \in Detected(before, failed)
                           \/ Reset \subseteq Detected(before, failed)
    BY <1>1 DEF Accounted, kernelVars
  <2>1. before.stamped /\ before.seen[a] # "none" /\ a \in Actor /\ Kind[a] = "unit"
    BY <1>1 DEF Inv, Accounted, Typed, UnitsOnly
  <2>2. ~forced
    BY <1>1, <2>1 DEF Inv, FirstOnly, Beside
  <2> QED
    BY <1>1, <2>1, <2>2, LossesAreTold
<1>3. HitFails'
  BY <1>1 DEF Inv, HitFails, gameVars, strayVars
<1> QED
  BY <1>1, <1>t, <1>2, <1>3
  DEF Inv, Typed, UnitsOnly, Beside, Blank, FirstOnly, Quiet, SameUntilFetched, gameVars, strayVars,
      kernelVars

LEMMA ReadKeeps ==
  ASSUME Inv, Read
  PROVE  Inv'
<1>1. /\ phase = "done" /\ held' = Released /\ lent' = lent \cap Released /\ phase' = "off"
      /\ before' = NoCopy
      /\ UNCHANGED <<gameVars, stateVars, timeVars, forced, todo, failed, cut, hit, strayVars, restarting>>
  BY DEF Read
<1>t. before' \in Copy
  BY <1>1, NothingSeen DEF NoCopy, Copy
<1>2. held' \subseteq held /\ lent' \subseteq held' /\ held' \ lent' \subseteq held \ lent
  BY <1>1 DEF Released
<1>3. Accounted'
  <2> SUFFICES ASSUME NEW a \in held' \ lent', seen[a] = "none" PROVE FALSE
    BY <1>1 DEF Accounted, stateVars
  <2>1. Ev("UNIT_DIED", a) \in pending \/ Reset \subseteq pending
    BY <1>1, <1>2 DEF Inv, Accounted
  <2>2. Ev("UNIT_DIED", a) \in pending => a \in Told("UNIT_DIED")
    BY DEF Told, Ev
  <2>3. Reset \subseteq pending => Told("GAME_RESET") # {}
    BY DEF Told, Reset, Ev
  <2> QED
    BY <1>1, <2>1, <2>2, <2>3 DEF Released
<1> QED
  BY <1>1, <1>t, <1>2, <1>3
  DEF Inv, Typed, UnitsOnly, Beside, Blank, FirstOnly, Quiet, SameUntilFetched, HitFails, gameVars,
      stateVars, timeVars, strayVars

-----------------------------------------------------------------------------
(* The kernel and the runtime.                                             *)

LEMMA GrantKeeps ==
  ASSUME Inv, NEW a \in Actor, Grant(a)
  PROVE  Inv'
<1>1. /\ Kind[a] = "unit" /\ seen[a] # "none" /\ a \notin held /\ held' = held \cup {a}
      /\ lent' = (IF restarting \/ mixed THEN lent \cup {a} ELSE lent)
      /\ UNCHANGED <<gameVars, stateVars, timeVars, eventVars, fetchVars, strayVars, restarting>>
  BY DEF Grant, Selves
<1>2. Accounted'
  BY <1>1 DEF Inv, Accounted, stateVars, eventVars, fetchVars
<1> QED
  BY <1>1, <1>2
  DEF Inv, Typed, UnitsOnly, Beside, Blank, FirstOnly, Quiet, SameUntilFetched, HitFails,
      gameVars, stateVars, timeVars, eventVars, fetchVars, strayVars

LEMMA ClearKeeps ==
  ASSUME Inv, SessionClear
  PROVE  Inv'
<1>1. /\ FreshState /\ held' = {} /\ lent' = {} /\ hit' = FALSE /\ stamped
      /\ UNCHANGED <<match, link, phase, forced, todo, failed, cut, before, strayVars, restarting>>
  BY DEF SessionClear
<1> QED
  BY <1>1, NothingSeen
  DEF FreshState, Inv, Typed, UnitsOnly, Beside, Blank, FirstOnly, Quiet, SameUntilFetched, Accounted,
      HitFails, strayVars

LEMMA RestartKeeps ==
  ASSUME Inv, RestartBegins \/ RestartEnds
  PROVE  Inv'
<1>1. CASE RestartBegins
  <2>1. /\ ~forced /\ held' = {} /\ lent' = {} /\ hit' = FALSE /\ restarting' = TRUE
        /\ match = 1 /\ match' = 2 /\ forced' = FALSE /\ phase' = "off" /\ todo' = {}
        /\ failed' = FALSE /\ cut' = FALSE /\ before' = NoCopy /\ mixed' = (phase = "fetch")
        /\ stray' = (IF phase = "fetch"
                     THEN [on |-> TRUE, todo |-> todo, failed |-> failed, cut |-> cut, before |-> before]
                     ELSE NoStray)
        /\ UNCHANGED <<stateVars, timeVars>>
    BY <1>1 DEF RestartBegins, Inv, Typed
  <2>2. NoCopy \in Copy
    BY NothingSeen DEF NoCopy, Copy
  <2>3. stray' \in Left
    BY <2>1, <2>2 DEF Inv, Typed, Left, NoStray
  <2>4. ~stray.on /\ (stray'.on <=> phase = "fetch")
    BY <2>1 DEF Inv, Beside, NoStray
  <2>5. Typed' /\ UnitsOnly' /\ Beside'
    BY <2>1, <2>2, <2>3, <2>4 DEF Inv, Typed, UnitsOnly, Beside, stateVars
  <2>6. Blank'
    BY <2>1, <2>4 DEF Inv, Blank, stateVars, timeVars
  <2> QED
    BY <2>1, <2>5, <2>6 DEF Inv, FirstOnly, Quiet, SameUntilFetched, Accounted, HitFails
<1>2. CASE RestartEnds
  <2>1. /\ restarting /\ FreshState /\ forced' = TRUE /\ restarting' = FALSE
        /\ UNCHANGED <<match, link, phase, todo, failed, cut, before, hit, strayVars, held, lent>>
    BY <1>2 DEF RestartEnds, gameVars
  <2>2. phase = "off" /\ held \subseteq lent /\ ~hit
    BY <2>1 DEF Inv, Quiet
  <2> QED
    BY <2>1, <2>2, NothingSeen
    DEF FreshState, Inv, Typed, UnitsOnly, Beside, Blank, FirstOnly, Quiet, SameUntilFetched, Accounted,
        HitFails, strayVars
<1> QED
  BY <1>1, <1>2

-----------------------------------------------------------------------------
(* The refresh that a restart has left behind writes beside the loop's.     *)

LEMMA StrayKeeps ==
  ASSUME Inv, Stray
  PROVE  Inv'
<1>1. stray.on /\ mixed /\ held \subseteq lent
  BY DEF Inv, Beside, Stray, StrayFetches, StrayFails, StrayFirst, StrayEnds
<1>2. ASSUME NEW l \in Layer, StrayFetches(l)
      PROVE  Inv'
  <2>1. /\ stray' = [stray EXCEPT !.todo = @ \ {l}]
        /\ seen' = IF l = "actors" THEN Shown(game) ELSE seen
        /\ seenIn' = IF l = "actors" THEN match ELSE seenIn
        /\ UNCHANGED <<gameVars, stamped, stale, fetchVars, mixed, kernelVars>>
    BY <1>2 DEF StrayFetches
  <2>2. stray' \in Left /\ stray'.on
    BY <1>1, <2>1 DEF Inv, Typed, Left
  <2>3. seen' \in [Actor -> {"none", "idle", "busy"}]
    BY <2>1 DEF Inv, Typed, Shown, There
  <2> QED
    BY <1>1, <2>1, <2>2, <2>3
    DEF Inv, Typed, UnitsOnly, Beside, Blank, FirstOnly, Quiet, SameUntilFetched, Accounted, HitFails,
        gameVars, fetchVars, kernelVars
<1>3. ASSUME NEW l \in Layer, StrayFails(l)
      PROVE  Inv'
  <2>1. PICK dead \in BOOLEAN :
          stray' = [stray EXCEPT !.todo = @ \ {l}, !.failed = TRUE, !.cut = @ \/ dead]
    BY <1>3 DEF StrayFails
  <2>2. UNCHANGED <<gameVars, stateVars, fetchVars, mixed, kernelVars>>
    BY <1>3 DEF StrayFails
  <2>3. stray' \in Left /\ stray'.on
    BY <1>1, <2>1 DEF Inv, Typed, Left
  <2> QED
    BY <1>1, <2>2, <2>3
    DEF Inv, Typed, UnitsOnly, Beside, Blank, FirstOnly, Quiet, SameUntilFetched, Accounted, HitFails,
        gameVars, stateVars, fetchVars, kernelVars
<1>4. CASE StrayEnds
  <2>1. /\ stamped' = TRUE /\ stale' = stray.failed /\ stray' = NoStray
        /\ UNCHANGED <<gameVars, seen, seenIn, fetchVars, mixed, kernelVars>>
    BY <1>4 DEF StrayEnds
  <2>2. stray' \in Left /\ ~stray'.on /\ stale' \in BOOLEAN
    BY <2>1, NothingSeen DEF Inv, Typed, Left, NoStray, NoCopy, Copy
  <2> QED
    BY <1>1, <2>1, <2>2
    DEF Inv, Typed, UnitsOnly, Beside, Blank, FirstOnly, Quiet, SameUntilFetched, Accounted, HitFails,
        gameVars, fetchVars, kernelVars
<1> QED
  BY <1>2, <1>3, <1>4 DEF Stray

-----------------------------------------------------------------------------

LEMMA InitInv == Init => Inv
<1> SUFFICES ASSUME Init PROVE Inv
  OBVIOUS
<1> QED
  BY NothingSeen
  DEF Init, Inv, Typed, UnitsOnly, Beside, Blank, FirstOnly, Quiet, SameUntilFetched, Accounted, HitFails, NoCopy, NoStray,
      Copy, Left

LEMMA StepInv ==
  ASSUME Inv, [Next]_vars
  PROVE  Inv'
<1>1. CASE UNCHANGED vars
  BY <1>1, SameKeeps DEF vars, gameVars, timeVars, eventVars, fetchVars
<1>2. CASE Refresh
  BY <1>2, NothingKeeps, BeginKeeps, SuccessKeeps, FailureKeeps, EndKeeps, ReadKeeps DEF Refresh
<1> QED
  BY <1>1, <1>2, GameKeeps, ClockKeeps, StrayKeeps, GrantKeeps, ClearKeeps, RestartKeeps DEF Next

\* No job keeps a unit that has gone from the snapshot, unless it was granted while
\* the game restarted or beside a refresh that the restart left behind.
THEOREM NoJobHoldsGhosts == Spec => []NoGhosts
<1>1. Init => Inv
  BY InitInv
<1>2. Inv /\ [Next]_vars => Inv'
  BY StepInv
<1>3. Inv => NoGhosts
  BY DEF Inv, Accounted, NoGhosts
<1> QED
  BY <1>1, <1>2, <1>3, PTL DEF Spec

\* A connection the loop found dead keeps the snapshot stale until it changes, but
\* for the end of a refresh that a restart left behind.
THEOREM DeadLinkIsStale == Spec => []DownIsStale
<1>1. Init => Inv
  BY InitInv
<1>2. Inv /\ [Next]_vars => Inv'
  BY StepInv
<1>3. Inv => DownIsStale
  BY DEF Inv, HitFails, DownIsStale
<1> QED
  BY <1>1, <1>2, <1>3, PTL DEF Spec
-----------------------------------------------------------------------------
(* What the snapshot shows of the game: the invariant under LossIsReal.    *)

GameTyped ==
  /\ game \in [Actor -> {"unborn", "idle", "busy", "gone"}]
  /\ match \in {1, 2} /\ phase \in {"off", "fetch", "done"}
  /\ restarting => phase = "off"
  /\ stray.on => mixed

\* There is no copy of a match to come.
NoneLater == seenIn \in {1, 2} /\ before.of \in {1, 2} /\ (match = 1 => seenIn = 1 /\ before.of = 1)

\* What the snapshot of this match shows, or showed when the refresh began, has
\* been there.
Met ==
  \A a \in Actor : /\ seenIn = match /\ seen[a] # "none" => game[a] # "unborn"
                   /\ before.of = match /\ before.seen[a] # "none" => game[a] # "unborn"

\* What a refresh finds missing has gone.
Vanished ==
  phase = "fetch" /\ before.of = match /\ ~cleared /\ ~mixed =>
    \A a \in Actor : before.seen[a] # "none" /\ seen[a] = "none" => game[a] = "gone"

\* What the events to be read report as lost has gone.
ToldGone ==
  phase = "done" /\ before.of = match /\ ~cleared /\ ~mixed =>
    \A e \in pending : e.type \in {"UNIT_DIED", "STRUCTURE_LOST"} =>
       e.actor \in Actor /\ game[e.actor] = "gone"

LossInv == GameTyped /\ NoneLater /\ Met /\ Vanished /\ ToldGone

\* The actors of the game as a step may change them: in a match none comes back
\* and none is unborn again, and in the next one all may.
GoesOn ==
  /\ game' \in [Actor -> {"unborn", "idle", "busy", "gone"}]
  /\ \/ /\ match' = match
        /\ \A a \in Actor : game[a] = "gone" => game'[a] = "gone"
        /\ \A a \in Actor : game[a] # "unborn" => game'[a] # "unborn"
     \/ match = 1 /\ match' = 2

LEMMA GameGoesOn ==
  ASSUME LossInv, GameStep \/ RestartBegins \/ UNCHANGED <<game, match>>
  PROVE  GoesOn
<1> USE DEF LossInv, GameTyped
<1>1. CASE NewMatch \/ RestartBegins
  BY <1>1 DEF NewMatch, RestartBegins, MatchBegins, GoesOn
<1>2. ASSUME NEW a \in Actor, Appears(a) PROVE GoesOn
  BY <1>2 DEF Appears, GoesOn
<1>3. ASSUME NEW a \in Actor, Acts(a) \/ Dies(a) PROVE GoesOn
  BY <1>3 DEF Acts, Dies, There, GoesOn
<1>4. ASSUME NEW m \in Actor, NEW b \in Actor, Deploys(m, b) PROVE GoesOn
  BY <1>4 DEF Deploys, There, GoesOn
<1>5. CASE UNCHANGED <<game, match>>
  BY <1>5 DEF GoesOn
<1> QED
  BY <1>1, <1>2, <1>3, <1>4, <1>5 DEF GameStep, PowerChanges, LinkChanges

\* A step of the game, or of whoever leaves the snapshot and the events alone.
LEMMA OutsideKeepsLosses ==
  ASSUME LossInv, GoesOn,
         UNCHANGED <<seen, seenIn, before, pending, cleared, strayVars>>,
         phase' = phase, restarting' => phase = "off"
  PROVE  LossInv'
BY DEF LossInv, GameTyped, NoneLater, Met, Vanished, ToldGone, GoesOn, strayVars

\* An event that reports a loss is about an actor that is not seen any more.
LEMMA LossWasSeen ==
  ASSUME NEW lost, NEW e \in Detected(before, lost), e.type \in {"UNIT_DIED", "STRUCTURE_LOST"}
  PROVE  e.actor \in Actor /\ before.seen[e.actor] # "none" /\ seen[e.actor] = "none"
<1>1. e \notin Reset /\ e \notin SummaryEvents
  BY DEF Reset, SummaryEvents, Ev
<1>2. e \in ActorEvents(before.seen, seen)
  BY <1>1 DEF Detected
<1>3. e \in {Ev(IF Base(a) THEN "STRUCTURE_LOST" ELSE "UNIT_DIED", a) : a \in Lost(before.seen, seen)}
  BY <1>2 DEF ActorEvents, Ev
<1> QED
  BY <1>3 DEF Lost, Ev

LEMMA RefreshKeepsLosses ==
  ASSUME LossInv, Refresh
  PROVE  LossInv'
<1> USE DEF LossInv, GameTyped, NoneLater, Met, Vanished, ToldGone, gameVars, stateVars, strayVars,
            kernelVars
<1>1. CASE RefreshNothing
  BY <1>1 DEF RefreshNothing
<1>2. CASE RefreshBegins
  BY <1>2 DEF RefreshBegins
<1>3. ASSUME NEW l \in Layer, FetchSucceeds(l)
      PROVE  LossInv'
  <2>1. /\ phase = "fetch" /\ seen' = (IF l = "actors" THEN Shown(game) ELSE seen)
        /\ seenIn' = (IF l = "actors" THEN match ELSE seenIn)
        /\ UNCHANGED <<game, match, phase, before, cleared, pending, restarting, strayVars>>
    BY <1>3 DEF FetchSucceeds, First, eventVars
  <2>2. \A a \in Actor : Shown(game)[a] = (IF a \in There(game) THEN game[a] ELSE "none")
    BY DEF Shown
  <2>3. \A a \in Actor : Shown(game)[a] = "none" => game[a] \in {"unborn", "gone"}
    BY <2>2 DEF There
  <2>4. \A a \in Actor : Shown(game)[a] # "none" => game[a] # "unborn"
    BY <2>2 DEF There
  <2> QED
    BY <2>1, <2>3, <2>4
<1>4. ASSUME NEW l \in Layer, FetchFails(l)
      PROVE  LossInv'
  BY <1>4 DEF FetchFails, First, Kept, eventVars
<1>5. CASE RefreshEnds
  <2>1. /\ phase = "fetch" /\ phase' = (IF forced THEN "off" ELSE "done")
        /\ pending' = Detected(before, failed)
        /\ before' = (IF forced THEN NoCopy ELSE [NoCopy EXCEPT !.of = before.of])
        /\ UNCHANGED <<game, match, seen, seenIn, cleared, restarting, strayVars>>
    BY <1>5 DEF RefreshEnds
  <2>2. /\ before'.of = (IF forced THEN 1 ELSE before.of)
        /\ \A a \in Actor : before'.seen[a] = "none"
    BY <2>1 DEF NoCopy, Nothing
  <2>3. ToldGone'
    BY <2>1, <2>2, LossWasSeen
  <2> QED
    BY <2>1, <2>2, <2>3
<1>6. CASE Read
  BY <1>6 DEF Read, NoCopy, Nothing
<1> QED
  BY <1>1, <1>2, <1>3, <1>4, <1>5, <1>6 DEF Refresh

\* What a refresh that was left behind tells is excused until the loop's next.
LEMMA StrayKeepsLosses ==
  ASSUME LossInv, Stray
  PROVE  LossInv'
<1> USE DEF LossInv, GameTyped, NoneLater, Met, Vanished, ToldGone, gameVars, stateVars, fetchVars,
            kernelVars
<1>1. stray.on /\ mixed
  BY DEF Stray, StrayFetches, StrayFails, StrayFirst, StrayEnds
<1>2. ASSUME NEW l \in Layer, StrayFetches(l)
      PROVE  LossInv'
  <2>1. /\ seen' = (IF l = "actors" THEN Shown(game) ELSE seen)
        /\ seenIn' = (IF l = "actors" THEN match ELSE seenIn)
        /\ UNCHANGED <<game, match, phase, before, cleared, restarting, mixed>>
    BY <1>2 DEF StrayFetches
  <2>2. \A a \in Actor : Shown(game)[a] = (IF a \in There(game) THEN game[a] ELSE "none")
    BY DEF Shown
  <2>3. \A a \in Actor : Shown(game)[a] # "none" => game[a] # "unborn"
    BY <2>2 DEF There
  <2> QED
    BY <1>1, <2>1, <2>3
<1>3. ASSUME NEW l \in Layer, StrayFails(l)
      PROVE  LossInv'
  BY <1>1, <1>3 DEF StrayFails
<1>4. CASE StrayEnds
  BY <1>1, <1>4 DEF StrayEnds
<1> QED
  BY <1>2, <1>3, <1>4 DEF Stray

LEMMA StepLosses ==
  ASSUME LossInv, [Next]_vars
  PROVE  LossInv'
<1>1. CASE GameStep
  <2>1. UNCHANGED <<seen, seenIn, before, pending, cleared, phase, restarting, strayVars>>
    BY <1>1 DEF GameStep, Appears, Acts, Dies, Deploys, PowerChanges, NewMatch, LinkChanges,
                OnlyGame, stateVars, eventVars, fetchVars, kernelVars
  <2> QED
    BY <1>1, <2>1, GameGoesOn, OutsideKeepsLosses DEF LossInv, GameTyped
<1>2. CASE Refresh
  BY <1>2, RefreshKeepsLosses
<1>3. CASE Clock \/ (\E a \in Actor : Grant(a)) \/ UNCHANGED vars
  <2>1. UNCHANGED <<game, match, seen, seenIn, before, pending, cleared, phase, restarting, strayVars>>
    BY <1>3 DEF Clock, Grant, vars, gameVars, stateVars, eventVars, fetchVars, kernelVars
  <2> QED
    BY <2>1, GameGoesOn, OutsideKeepsLosses DEF LossInv, GameTyped
<1>4. CASE SessionClear
  <2>1. /\ seen' = Nothing /\ seenIn' = match /\ pending' = {}
        /\ cleared' = (phase = "fetch" \/ cleared)
        /\ UNCHANGED <<game, match, phase, before, restarting, strayVars>>
    BY <1>4 DEF SessionClear, FreshState
  <2> QED
    BY <2>1 DEF LossInv, GameTyped, NoneLater, Met, Vanished, ToldGone, Nothing, strayVars
<1>5. CASE RestartBegins
  <2>1. /\ match = 1 /\ match' = 2 /\ phase' = "off" /\ before' = NoCopy
        /\ UNCHANGED <<seen, seenIn, pending>>
        /\ (stray.on' => mixed')
    BY <1>5 DEF RestartBegins, stateVars, eventVars, NoStray
  <2>2. game' \in [Actor -> {"unborn", "idle", "busy", "gone"}]
    BY <1>5 DEF RestartBegins, MatchBegins
  <2> QED
    BY <2>1, <2>2 DEF LossInv, GameTyped, NoneLater, Met, Vanished, ToldGone, NoCopy, Nothing
<1>6. CASE RestartEnds
  <2>1. /\ seen' = Nothing /\ seenIn' = match /\ pending' = {}
        /\ restarting /\ restarting' = FALSE
        /\ UNCHANGED <<game, match, phase, before, cleared, strayVars>>
    BY <1>6 DEF RestartEnds, FreshState, gameVars
  <2> QED
    BY <2>1 DEF LossInv, GameTyped, NoneLater, Met, Vanished, ToldGone, Nothing, strayVars
<1>7. CASE Stray
  BY <1>7, StrayKeepsLosses
<1> QED
  BY <1>1, <1>2, <1>3, <1>4, <1>5, <1>6, <1>7 DEF Next

\* A unit or a building of the player's that the loop reads of as lost is gone
\* from the game, however many layers failed or came late, and though ids come
\* back in the next match: when the copy its refresh began with was of this match,
\* no session was cleared under it and no stray refresh ran beside it.
THEOREM ReportedLossIsReal == Spec => []LossIsReal
<1>1. Init => LossInv
  BY DEF Init, MatchBegins, LossInv, GameTyped, NoneLater, Met, Vanished, ToldGone, NoCopy, NoStray,
         Nothing
<1>2. LossInv /\ [Next]_vars => LossInv'
  BY StepLosses
<1>3. LossInv => LossIsReal
  BY DEF LossInv, ToldGone, LossIsReal, Told
<1> QED
  BY <1>1, <1>2, <1>3, PTL DEF Spec
=============================================================================
