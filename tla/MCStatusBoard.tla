---------------------------- MODULE MCStatusBoard ----------------------------
(* A small instance of StatusBoard.                                        *)
EXTENDS StatusBoard

World(own, credits, stale) ==
  [stale |-> stale, own |-> own, on |-> own, dark |-> {}, units |-> {}, low |-> FALSE,
   ready |-> {}, paused |-> {}, credits |-> credits]

\* A base that can make e1; the base of an allied player with a jammed queue,
\* and that base when it is short of power and not seen.
Jam == [World({"fact", "powr", "barr", "tent"}, 1000, FALSE) EXCEPT !.ready = {"Infantry"}]
SmallWorlds == {World({"fact", "powr", "barr"}, 1000, FALSE), Jam, [Jam EXCEPT !.stale = TRUE, !.low = TRUE]}

\* A pair the agent waits for, and a unit of a kind nothing was inferred for.
SmallAsks ==
  {[unit |-> "e1", blocking |-> TRUE, count |-> 2, start |-> 1],
   [unit |-> "", blocking |-> FALSE, count |-> 1, start |-> 1]}

\* Bases of the types the broad order names and two that come after it, with
\* structures that work or not, little or much money, and a jam or none.
Bases == {"fact", "powr", "proc", "barr", "weap", "fix"}
ManyWorlds ==
  {[World(on \cup off, credits, stale) EXCEPT !.on = on, !.dark = off, !.low = low, !.units = {"mcv"}, !.ready = jam] :
     on \in SUBSET Bases, off \in SUBSET {"barr", "weap", "dome"}, credits \in {200, 900},
     stale \in {FALSE}, low \in BOOLEAN, jam \in {{}, {"Building"}}}

ASSUME PromisesHold == \A w \in ManyWorlds : OffersAgree(w) /\ StepIsSafe(w)

\* The lists are of the roster, and the lines agree, also on requests of every
\* type, of which some can be ordered.
ASSUME ListsAreComplete ==
  \A q \in QueueType : {Listed[q][i] : i \in DOMAIN Listed[q]} = Roster("soviet", q)

AskedFor == {"powr", "barr", "weap", "e1", "e3", "e6", "tank3", "harv", "ftrk", "yak", ""}
Wanted(u) ==
  [id |-> 1, task |-> 1, unit |-> u, blocking |-> TRUE, count |-> 2, start |-> 1, released |-> FALSE,
   left |-> 2, open |-> TRUE, boot |-> FALSE, made |-> "none"]

BriefWorlds == {w \in ManyWorlds : w.credits = 900 /\ "dome" \notin w.dark /\ "fix" \notin w.own}

ASSUME BriefsHold ==
  \A w \in BriefWorlds : /\ LinesAgree(w)
                        /\ \A u \in AskedFor : RowsAgree(w, Rows(w, <<Wanted(u)>>))

\* Texts with at most one hint of a domain or two of scouting, the lines and
\* tasks made of them, and the views of two armies of at most three.
Texts == [{"combat", "economy"} -> {0, 1}]
Text(t, recon) == [combat |-> t["combat"], economy |-> t["economy"], recon |-> recon]
ManyLines ==
  {[text |-> Text(t, r), more |-> m, override |-> o, interrupt |-> i, map |-> FALSE, like |-> like, label |-> 0, few |-> FALSE] :
     t \in Texts, r \in {0, 2}, m \in BOOLEAN, o \in BOOLEAN, i \in BOOLEAN, like \in {{}, {1}}}
ManyEntries ==
  {[id |-> 1, cap |-> c, text |-> Text(t, r), map |-> FALSE, flow |-> f[1], wphase |-> f[2], expert |-> x, group |-> g,
    state |-> "running", phase |-> p, waits |-> "", blocks |-> b] :
     c \in BOOLEAN, t \in Texts, r \in {0, 2}, g \in {0, 2}, x \in {"", "economy", "combat"},
     f \in {<<"", "">>, <<"attack", "waiting_for_units">>, <<"recon", "recon_running">>},
     p \in {"dispatch", "job_running"}, b \in {"", "missing_prerequisite"}}
Few == {e \in ManyEntries : e.expert = "" /\ e.flow = "" /\ e.phase = "dispatch" /\ e.blocks = "" /\ e.group = 0}

ManyViews ==
  {[ours |-> a, theirs |-> b, units |-> u, enemies |-> 2, valued |-> val, low |-> low, jam |-> FALSE, attack |-> FALSE,
    known |-> TRUE, pending |-> FALSE, reserved |-> FALSE, fighters |-> 1..u, taken |-> taken, grouped |-> g] :
     a \in {0, 3, 6}, b \in {0, 4, 5}, u \in 0..3, val \in BOOLEAN, low \in BOOLEAN, taken \in SUBSET {2, 3, 4}, g \in 0..3}

ASSUME JudgementHolds == \A v \in ManyViews : OwnOffersLess(v)

ASSUME HintsHold ==
  \A l \in ManyLines, e \in ManyEntries, free \in {0, 1} : FollowUpJoins(l, e, free) /\ FreshOrderStaysNew(l, e, free)

ASSUME NewsHolds ==
  \A l \in ManyLines, e \in Few, f \in Few, b \in {Battlefield(v) : v \in ManyViews} :
    NewsFindsFighters(l, <<e, [f EXCEPT !.id = 2]>>, b)
===============================================================================
