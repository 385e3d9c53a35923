----------------------------- MODULE Readiness -----------------------------
(***************************************************************************)
(* What the program tells its agents about production: the demo roster of  *)
(* openra_state/data/dataset.py and the readiness checks of                *)
(* world_model/core.py, as operators on a snapshot of the world.           *)
(*                                                                         *)
(* A snapshot w is a record: stale; own, the types of structure that stand *)
(* (disabled ones too); on, those of which one copy works; dark, those of  *)
(* which a copy is disabled by low power; units, the types of mobile unit; *)
(* low, the economy is short of power; ready and paused, the queues with a *)
(* finished item nobody has placed and with a paused one; credits.         *)
(* Numbers of structures are abstracted to "none" and "some", which is all *)
(* the checks ask.                                                         *)
(***************************************************************************)
EXTENDS Integers, Sequences

Structure == {"fact", "const", "powr", "apwr", "proc", "barr", "tent", "weap", "dome", "fix",
              "stek", "atek", "afld", "tsla", "ftur", "sam"}
Mobile == {"e1", "e3", "e6", "dog", "harv", "jeep", "tank1", "tank2", "arty", "ftrk", "v2rl",
           "tank3", "tank4", "ttnk", "mnly", "mig", "yak", "mcv"}

\* A world the snapshot can describe.
IsWorld(w) ==
  /\ w.own \subseteq Structure /\ w.on \subseteq w.own /\ w.dark \subseteq w.own
  /\ w.units \subseteq Mobile /\ w.credits \in Nat
  /\ {w.stale, w.low} \subseteq BOOLEAN

-----------------------------------------------------------------------------
(* The roster.                                                             *)

QueueType == {"Building", "Defense", "Infantry", "Vehicle", "Aircraft"}

\* Types without a row (dog, ttnk, mnly) need nothing.
Prereq(u) ==
  CASE u = "powr" -> {"fact"}
    [] u \in {"proc", "barr", "tent"} -> {"powr", "fact"}
    [] u \in {"weap", "dome"} -> {"proc", "fact"}
    [] u \in {"fix", "tsla"} -> {"weap", "fact"}
    [] u \in {"apwr", "afld", "sam"} -> {"dome", "fact"}
    [] u \in {"stek", "atek"} -> {"weap", "dome", "fact"}
    [] u = "ftur" -> {"barr", "fact"}
    [] u \in {"e1", "e3", "e6"} -> {"barr"}
    [] u \in {"jeep", "tank1", "ftrk"} -> {"weap"}
    [] u = "harv" -> {"proc", "weap"}
    [] u \in {"tank2", "tank3", "mcv"} -> {"fix", "weap"}
    [] u = "tank4" -> {"fix", "stek", "weap"}
    [] u \in {"v2rl", "arty"} -> {"dome", "weap"}
    [] u \in {"mig", "yak"} -> {"afld"}
    [] OTHER -> {}

Cost(u) ==
  CASE u = "e1" -> 50 [] u \in {"powr", "e3"} -> 150 [] u = "e6" -> 200
    [] u \in {"apwr", "tent", "barr", "afld", "jeep"} -> 250
    [] u \in {"ftur", "ftrk"} -> 300 [] u \in {"sam", "tank1"} -> 350
    [] u \in {"arty", "tank2"} -> 425 [] u = "v2rl" -> 450 [] u = "harv" -> 550 [] u = "tank3" -> 575
    [] u \in {"fix", "tsla"} -> 600 [] u = "yak" -> 675 [] u = "proc" -> 700
    [] u \in {"dome", "atek", "stek"} -> 750
    [] u \in {"fact", "weap", "tank4", "mcv", "mig"} -> 1000
    [] OTHER -> 0

SharedRoster ==
  [Building |-> {"powr", "proc", "barr", "weap", "dome", "fix"}, Defense |-> {},
   Infantry |-> {"e1", "e3"}, Vehicle |-> {"harv"}, Aircraft |-> {}]
AlliedRoster ==
  [Building |-> {}, Defense |-> {}, Infantry |-> {},
   Vehicle |-> {"jeep", "tank1", "tank2", "arty"}, Aircraft |-> {}]
SovietRoster ==
  [Building |-> {"afld", "stek"}, Defense |-> {"tsla", "ftur", "sam"}, Infantry |-> {},
   Vehicle |-> {"ftrk", "v2rl", "tank3", "tank4"}, Aircraft |-> {"mig", "yak"}]

\* An unknown faction gets the soviet roster.
Roster(faction, q) ==
  SharedRoster[q] \cup (IF faction = "allied" THEN AlliedRoster[q] ELSE SovietRoster[q])

\* The queue of a type a request may be understood to ask for, "" for others
\* (the table of hints; some types in it have no row in the roster).
QueueOf(u) ==
  CASE u \in {"powr", "barr", "proc", "weap", "dome"} -> "Building"
    [] u \in {"e1", "e3", "e6", "dog"} -> "Infantry"
    [] u \in {"tank3", "tank4", "ttnk", "ftrk", "v2rl", "harv", "mnly"} -> "Vehicle"
    [] u \in {"mig", "yak"} -> "Aircraft"
    [] OTHER -> ""

OnlyAllied == {"tent", "atek", "jeep", "tank1", "tank2", "arty"}
OnlySoviet == {"stek", "afld", "tsla", "ftur", "sam", "ftrk", "v2rl", "tank3", "tank4", "mig", "yak"}

\* The faction the units tell: none while they tell nothing or both.
Faction(w) ==
  LET seen(types) == (w.own \cup w.units) \cap types # {}
  IN  CASE seen(OnlyAllied) /\ ~seen(OnlySoviet) -> "allied"
        [] seen(OnlySoviet) /\ ~seen(OnlyAllied) -> "soviet"
        [] OTHER -> ""

Unsupported(w) == Faction(w) \notin {"", "soviet"}

-----------------------------------------------------------------------------
(* Counting: one counter for each kind of building.                        *)

CounterOf(s) ==
  CASE s = "const" -> "fact" [] s = "apwr" -> "powr" [] s = "tent" -> "barr" [] s = "atek" -> "stek"
    [] OTHER -> s

\* The kinds whose counter is not zero.
Counted(w) ==
  {CounterOf(s) : s \in w.own} \cap {"fact", "powr", "barr", "proc", "weap", "dome", "stek", "fix", "afld"}

HasYard(w) == "fact" \in Counted(w)

\* By the counters, and of these what working structures allow.
ByCounters(w, faction, q) == {u \in Roster(faction, q) : Prereq(u) \subseteq Counted(w)}

Buildable(w, faction, q) == {u \in ByCounters(w, faction, q) : Prereq(u) \subseteq w.on}

\* The broad order of a base, and the first of it that is missing.
BroadOrder == <<"powr", "proc", "barr", "weap">>
PhaseOf == [powr |-> "bootstrap_power", proc |-> "bootstrap_economy",
            barr |-> "bootstrap_production", weap |-> "vehicle_gateway_gap"]

Missing(w) == {i \in 1..4 : BroadOrder[i] \notin Counted(w)}

Progression(w) ==
  LET missing == Missing(w)
      next == BroadOrder[CHOOSE i \in missing : \A k \in missing : i <= k] IN
  CASE ~HasYard(w) /\ "mcv" \in w.units -> [phase |-> "deploy_mcv", next |-> "", now |-> FALSE]
    [] ~HasYard(w) /\ "mcv" \notin w.units -> [phase |-> "no_build_core", next |-> "", now |-> FALSE]
    [] HasYard(w) /\ Missing(w) # {} ->
         [phase |-> PhaseOf[next], next |-> next, now |-> next \in Buildable(w, Faction(w), "Building")]
    [] OTHER -> [phase |-> "base_online", next |-> "", now |-> FALSE]

-----------------------------------------------------------------------------
(* Is it safe to order u on queue q now?                                   *)

QueueBlock(w, q) ==
  CASE q \in w.ready /\ q \in w.paused -> "mixed"
    [] q \in w.ready /\ q \notin w.paused -> "ready_not_placed"
    [] q \notin w.ready /\ q \in w.paused -> "paused"
    [] OTHER -> ""

Producers(q) ==
  CASE q \in {"Building", "Defense"} -> {"fact", "const"}
    [] q = "Infantry" -> {"barr", "tent"}
    [] q = "Vehicle" -> {"weap"}
    [] q = "Aircraft" -> {"afld"}
    [] OTHER -> {}

AllProducersOff(w, q) == Producers(q) \cap w.own # {} /\ Producers(q) \cap w.on = {}

\* The prerequisites that stand but do not work.
OffPrereq(w, u) == (Prereq(u) \cap w.own) \ w.on

PrereqOwned(w, u) == Prereq(u) \subseteq w.own

\* The checks in the order of production_readiness_for.
Checks(w, u, q) ==
  << <<"world_sync_stale", w.stale>>,
     <<"deploy_required", ~HasYard(w) /\ Progression(w).phase = "deploy_mcv">>,
     <<"missing_prerequisite", ~PrereqOwned(w, u)>>,
     <<"queue_blocked", QueueBlock(w, q) # "">>,
     <<"low_power", AllProducersOff(w, q) /\ w.low /\ Producers(q) \cap w.dark # {}>>,
     <<"producer_disabled", AllProducersOff(w, q)>>,
     <<"disabled_prerequisite", ~(Prereq(u) \subseteq w.on) /\ OffPrereq(w, u) # {}>>,
     <<"low_power", w.low /\ u \notin {"powr", "apwr"}>>,
     <<"insufficient_funds", Cost(u) > w.credits>> >>

\* The reason against an order, "" for none.
ReadinessReason(w, u, q) ==
  LET checks == Checks(w, u, q)
      failing == {i \in 1..9 : checks[i][2]}
  IN  IF failing = {} THEN "" ELSE checks[CHOOSE i \in failing : \A k \in failing : i <= k][1]

CanIssueNow(w, u, q) == PrereqOwned(w, u) /\ ReadinessReason(w, u, q) = ""

\* The two lists of the capability's facts: what may be ordered, and what is
\* held up by something else than a missing building.
BuildableNow(w, q) == {u \in Roster(Faction(w), q) : CanIssueNow(w, u, q)}
BuildableBlocked(w, q) == {u \in Roster(Faction(w), q) : ~CanIssueNow(w, u, q) /\ PrereqOwned(w, u)}

\* The next step as it is shown: the coarse hint corrected by those lists.
ShownStep(w) ==
  LET p == Progression(w) IN
  CASE Unsupported(w) -> [next |-> "", now |-> FALSE, why |-> "faction_roster_unsupported"]
    [] ~Unsupported(w) /\ p.next \in BuildableNow(w, "Building") -> [next |-> p.next, now |-> TRUE, why |-> ""]
    [] ~Unsupported(w) /\ p.next \in BuildableBlocked(w, "Building") ->
         [next |-> p.next, now |-> FALSE, why |-> ReadinessReason(w, p.next, "Building")]
    [] OTHER -> [next |-> p.next, now |-> p.now, why |-> ""]

-----------------------------------------------------------------------------
(* Promises, for every snapshot.                                           *)

\* What is offered for an order now is among what the base can build, and
\* all the base can build is offered or listed with the reason against it:
\* the three lists agent prompts are made of never contradict each other
\* (compute_runtime_facts, _demo_capability_issue_now_snapshot).
OffersAgree(w) ==
  \A q \in QueueType :
    /\ BuildableNow(w, q) \subseteq Buildable(w, Faction(w), q)
    /\ Buildable(w, Faction(w), q) \subseteq BuildableNow(w, q) \cup BuildableBlocked(w, q)
    /\ \A u \in BuildableBlocked(w, q) : ReadinessReason(w, u, q) # ""

\* A step that is shown as possible can be ordered, and no step is shown as
\* possible on a stale world, before the yard is deployed or with a jam.
StepIsSafe(w) ==
  ShownStep(w).now =>
    /\ CanIssueNow(w, ShownStep(w).next, "Building")
    /\ ~w.stale /\ HasYard(w) /\ QueueBlock(w, "Building") = ""
=============================================================================
