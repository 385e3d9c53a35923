----------------------------- MODULE Utterances -----------------------------
(***************************************************************************)
(* What the adjutant makes of a line the player types, before any language *)
(* model sees it: the recognisers of adjutant.py and runtime_nlu.py, and   *)
(* the order handle_player_input tries them in.                            *)
(*                                                                         *)
(* A text u is the set of the marks its words carry: one mark for each     *)
(* table of words or pattern of the source ("attack" is _ATTACK_KEYWORDS,  *)
(* "asks" the marks of a question, "chained" the words for then, if, not). *)
(* What the rules look up is a record w: the facts of the world they       *)
(* query, whether its sync is stale, how many questions are pending, the   *)
(* domains of the active tasks an agent runs, and whether the capability   *)
(* task that takes the orders for production is there.                     *)
(***************************************************************************)
EXTENDS Integers, Sequences

(* ---------------- what kind of text it is ---------------- *)

Query(u) == "asks" \in u
Question(u) == "why" \in u
Complex(u) == "chained" \in u
Deploy(u) == {"mcv", "deploy"} \subseteq u
Repair(u) == "repair" \in u \/ ("mend" \in u /\ "workshop" \notin u)
Occupy(u) == "occupy" \in u
Attack(u) == "attack" \in u
Vague(u) == "vague" \in u
Retreat(u) == "retreat" \in u /\ ("home" \in u \/ "only" \in u)
Pullback(u) == "pullback" \in u
WideAttack(u) == "allout" \in u \/ {"attack", "all"} \subseteq u
WideMove(u) == {"all", "go", "centre"} \subseteq u
EnemyBase(u) == "base" \in u
ForceThenEnemy(u) == {"enemy", "unit"} \subseteq u

\* To prepare an attack is not to attack: mustering needs a unit to be named.
Preparation(u) ==
    /\ Attack(u) /\ ("muster" \in u \/ "gather" \in u) /\ "now" \notin u
    /\ "muster" \in u => "unit" \in u

Economy(u) ==
    /\ ~Question(u)
    /\ \/ "economy" \in u
       \/ "produce" \in u /\ ("unit" \in u \/ "building" \in u \/ "several" \in u)
       \/ "shorthand" \in u /\ "several" \in u /\ ~Attack(u) /\ "retreat" \notin u
       \/ "bare" \in u

\* Production first, an attack afterwards.
Mixed(u) ==
    /\ ~Query(u) /\ Attack(u)
    /\ IF Economy(u) THEN "unit" \in u ELSE {"force", "muster"} \subseteq u

\* The domain of the words, for a follow-up to a task.
DomainOf(u) ==
    CASE "recon" \in u -> "recon"
      [] "recon" \notin u /\ Attack(u) -> "combat"
      [] OTHER -> "other"

(* ---------------- what the rules look up in the world ---------------- *)

McvKnown(w) == "mcv" \in w.facts /\ "ambiguous" \notin w.facts
HasForce(w) == "force" \in w.facts
HasHome(w) == "home" \in w.facts
CentreKnown(w) == "centre" \in w.facts
FoeKnown(w) == "foe" \in w.facts
NamedSeen(w) == "seen" \in w.facts
Damaged(w) == "damaged" \in w.facts
FacilityMissing(w) == {"vehicles", "nofacility"} \subseteq w.facts
CanOccupy(w) == {"engineer", "capturable"} \subseteq w.facts

(* ---------------- the rules that need no model ---------------- *)

Order(expert, preempts) == [do |-> "order", expert |-> expert, preempts |-> preempts]
Does(deed) == [do |-> deed, expert |-> "none", preempts |-> "none"]

DeployMatch(u, w) == Deploy(u) /\ McvKnown(w)
RepairMatch(u, w) == ~Query(u) /\ Repair(u) /\ Damaged(w)
OccupyMatch(u, w) == Occupy(u) /\ CanOccupy(w)
MoveMatch(u, w) == ~Query(u) /\ WideMove(u) /\ HasForce(w) /\ CentreKnown(w)
WideAttackMatch(u, w) == WideAttack(u) /\ HasForce(w) /\ FoeKnown(w)
AttackMatch(u, w) ==
    /\ ~Query(u) /\ ~Retreat(u) /\ Attack(u) /\ ~Preparation(u)
    /\ \/ WideAttackMatch(u, w)
       \/ "unit" \in u /\ NamedSeen(w)
       \/ EnemyBase(u) /\ FoeKnown(w)
RetreatMatch(u, w) ==
    ~Query(u) /\ (Retreat(u) \/ Pullback(u)) /\ HasForce(w) /\ HasHome(w)
BuildMatch(u) == {"produce", "building"} \subseteq u /\ u \cap {"several", "count"} = {}
ProductionMatch(u) == {"produce", "unit"} \subseteq u
ReconMatch(u) == "recon" \in u

AttackOrder(u, w) ==
    Order("combat", IF WideAttackMatch(u, w) THEN "operator" ELSE "none")
RetreatOrder == Order("movement", "retreat")
MoveOrder == Order("movement", "operator")

\* Feedback where the world shows that the order cannot be carried out.
DeployFeedback(u, w) ==
    /\ Deploy(u) /\ ~Query(u) /\ ~Complex(u)
    /\ w.stale \/ ~McvKnown(w)
RepairFeedback(u, w) ==
    /\ Repair(u) /\ ~Query(u) /\ ~Complex(u)
    /\ w.stale \/ ~Damaged(w) \/ FacilityMissing(w)
OccupyFeedback(u, w) ==
    /\ Occupy(u) /\ ~Query(u) /\ ~Complex(u)
    /\ w.stale \/ ~CanOccupy(w)
AttackFeedback(u, w) ==
    /\ Attack(u) /\ ~Query(u) /\ ~Economy(u) /\ ~Complex(u) /\ ~Preparation(u)
    /\ ~EnemyBase(u) /\ ~ForceThenEnemy(u)
    /\ w.stale \/ ("unit" \in u /\ ~NamedSeen(w))

When(condition, deed) == [when |-> condition, deed |-> deed]
FirstOf(rules) ==
    LET hits == {i \in 1..Len(rules) : rules[i].when}
    IN rules[CHOOSE i \in hits : \A j \in hits : i <= j].deed

\* The rules in their order; a text that asks or chains clauses has none.
RuleMatch(u, w) ==
    LET may == ~Query(u) /\ ~Complex(u) IN FirstOf(<<
        When(may /\ DeployMatch(u, w), Order("deploy", "none")),
        When(may /\ RepairMatch(u, w), Order("repair", "none")),
        When(may /\ OccupyMatch(u, w), Order("occupy", "none")),
        When(may /\ MoveMatch(u, w), MoveOrder),
        When(may /\ AttackMatch(u, w), AttackOrder(u, w)),
        When(may /\ RetreatMatch(u, w), RetreatOrder),
        When(may /\ (BuildMatch(u) \/ ProductionMatch(u)), Order("economy", "none")),
        When(may /\ ReconMatch(u), Order("recon", "none")),
        When(TRUE, Does("none")) >>)

(* ---------------- the router of the trained model ---------------- *)

Intents == {"deploy_mcv", "produce", "explore", "mine", "stop_attack",
            "query_actor", "attack", "composite_sequence"}

\* The intent the pattern router finds; its predictor agrees where the text is
\* marked "sure", and only safe intents may overrule it.
SafeOverride(u, intent) ==
    CASE intent = "produce" -> "produce" \in u \/ "bare" \in u
      [] intent = "attack" -> Attack(u)
      [] intent = "stop_attack" -> "stop" \in u
      [] OTHER -> intent \in {"explore", "deploy_mcv", "composite_sequence"}

RouterIntent(u) ==
    LET found == u \cap Intents
        intent == IF "stop" \in u THEN "stop_attack" ELSE CHOOSE i \in found : TRUE
        passes ==
            /\ "blocked" \notin u
            /\ found # {} \/ "stop" \in u
            /\ "sure" \in u \/ SafeOverride(u, intent)
            /\ intent = "produce" => SafeOverride(u, intent)
            /\ intent \in {"attack", "explore"} => "sure" \in u
    IN IF passes THEN intent ELSE "none"

\* What the adjutant accepts of it: questions only as queries, attacks only if
\* they are not prepared, production only if no attack follows.
Decision(u) ==
    LET intent == RouterIntent(u)
        refused ==
            \/ Question(u)
            \/ Query(u) /\ intent # "query_actor"
            \/ intent = "produce" /\ Mixed(u)
            \/ intent = "attack" /\ Preparation(u)
    IN IF refused THEN "none" ELSE intent

(* ---------------- the order of the attempts ---------------- *)

\* The attempts before any question is looked at.
ExplicitRoutes(u, w) == <<
    When("ack" \in u /\ w.questions = 0, Does("answer")),
    When(DeployFeedback(u, w) \/ RepairFeedback(u, w) \/ OccupyFeedback(u, w),
         Does("answer")),
    When(MoveMatch(u, w), MoveOrder),
    When(AttackFeedback(u, w), Does("answer")),
    When(RepairMatch(u, w), Order("repair", "none")),
    When(AttackMatch(u, w), AttackOrder(u, w)),
    When(RetreatMatch(u, w), RetreatOrder),
    When(w.stale /\ Query(u) /\ w.questions = 0, Does("answer")) >>

\* Replies to pending questions: several at once, or a plain answer to the one.
ReplyRoutes(u, w) == <<
    When(w.questions > 1 /\ "options" \in u, Does("reply")),
    When(w.questions = 1 /\ ("option" \in u \/ "yesno" \in u), Does("reply")) >>

\* Words that belong to a task under way.
VagueRoute(u) == ~Query(u) /\ ~Economy(u) /\ ~Complex(u) /\ Vague(u)
FollowUp(u, w) ==
    /\ ~Query(u) /\ ~Economy(u) /\ "followup" \in u
    /\ DomainOf(u) \in {"recon", "combat"} \cap w.domains
ContinueRoutes(u, w) == <<
    When(VagueRoute(u), Does("answer")),
    When(FollowUp(u, w), Does("inject")) >>

\* The routes that start something, and last the language model.
CommandRoutes(u, w) ==
    LET rule == RuleMatch(u, w) IN <<
    When(Mixed(u), Does("manage")),
    When(Decision(u) # "none", Does("nlu")),
    When(Economy(u) /\ (w.stale \/ w.capability), Does("economy")),
    When(rule.do = "order", rule),
    When(TRUE, Does("classify")) >>

RouteOf(u, w) ==
    FirstOf(ExplicitRoutes(u, w) \o ReplyRoutes(u, w) \o ContinueRoutes(u, w)
            \o CommandRoutes(u, w))
=============================================================================
