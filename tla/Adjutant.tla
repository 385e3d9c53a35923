------------------------------ MODULE Adjutant ------------------------------
(***************************************************************************)
(* The adjutant at its desk (adjutant/adjutant.py), composed with the feed *)
(* of task messages that calls it back.  A line of a player is routed by   *)
(* the rules of Utterances or classified by a language model, and becomes  *)
(* a direct task, a task with an agent, an order to the capability, an     *)
(* answer to a question, a cancellation or nothing.  An order of several   *)
(* steps starts its first step and keeps the others; the report of a step  *)
(* that has ended comes back through the feed and starts the next.         *)
(*                                                                         *)
(* One handler runs from await to await: a rule's route is one step; a     *)
(* classification lets everything else happen before its outcome is acted  *)
(* upon.  Which class the model or its fallback finds, and which task it   *)
(* means, is open.  A message put into an agent's queue changes nothing    *)
(* here (AgentWake has the queue).                                         *)
(***************************************************************************)
EXTENDS Feed, Utterances, SequencesExt

CONSTANTS
    MaxTasks,    \* bound on the tasks of a session
    Texts,       \* the texts players type, as sets of marks
    FactSets,    \* what the rules may find when they query the world
    Results,     \* how tasks end
    Plan         \* the experts of the steps of an order in several steps

ASSUME DeskAssumption ==
    /\ MaxTasks \in Nat \ {0} /\ NoTask \notin 1..MaxTasks
    /\ Results \subseteq {"succeeded", "partial", "failed"}
    /\ Plan \in Seq({"recon", "combat", "movement", "deploy", "economy"})
    /\ Len(Plan) \in 2..MaxTasks

VARIABLES
    stale,        \* the world's sync is stale
    tasks,        \* kernel.tasks: [kind, dom, status, order, step]
    asking,       \* tasks with a pending question
    pending,      \* _pending_sequence: [order, step]
    current,      \* _sequence_task_id
    directives,   \* recent_directives of the capability
    handler       \* what the handler of a client's message awaits

deskVars == <<tasks, asking, pending, current, directives>>
vars == <<feedVars, stale, deskVars, handler>>

Tasks == 1..MaxTasks
Unused == [kind |-> "none", dom |-> "none", status |-> "none", order |-> 0, step |-> 0]
Idle == [at |-> "idle", text |-> {}]

Init ==
    /\ FeedInit
    /\ stale = FALSE
    /\ tasks = [t \in Tasks |-> Unused]
    /\ asking = {} /\ pending = <<>> /\ current = NoTask /\ directives = {}
    /\ handler = [c \in Clients |-> Idle]

\* The desk as a value: what a handler does is a set of desks it may leave behind.
Desk == [tasks |-> tasks, asking |-> asking, pending |-> pending,
         current |-> current, directives |-> directives]
Becomes(d) ==
    /\ tasks' = d.tasks /\ asking' = d.asking /\ pending' = d.pending
    /\ current' = d.current /\ directives' = d.directives

Running(d) == {t \in Tasks : d.tasks[t].status = "running"}
Agents(d) == {t \in Running(d) : d.tasks[t].kind = "agent"}
Spare(d) == {t \in Tasks : d.tasks[t].status = "none"}
NextId(d) == CHOOSE t \in Spare(d) : \A s \in Spare(d) : t <= s

\* What the rules see.
Sight(facts) ==
    [stale |-> stale, facts |-> facts, questions |-> Cardinality(asking),
     domains |-> {tasks[t].dom : t \in Agents(Desk)},
     capability |-> "capability" \in facts]

(* ---------------- calls of the kernel ---------------- *)

\* cancel_task: no report is registered for the task.
Cancelled(d, ts) ==
    [d EXCEPT !.tasks = [t \in Tasks |->
                  IF t \in ts \cap Running(d) THEN [@[t] EXCEPT !.status = "aborted"] ELSE @[t]],
              !.asking = @ \ ts]

Created(d, kind, dom, order, step) ==
    [d EXCEPT !.tasks[NextId(d)] =
        [kind |-> kind, dom |-> dom, status |-> "running",
         order |-> IF order = 0 THEN NextId(d) ELSE order, step |-> step]]

\* A task the adjutant runs itself; with the configurations it builds, start_job
\* does not raise.
Direct(d, dom) == Created(d, "direct", dom, 0, 1)

(* ---------------- what the routes do ---------------- *)

\* The tasks an order of the player overrules, told by what they are about.
Conflicting(d, preempts) ==
    {t \in Running(d) : d.tasks[t].dom \in
        CASE preempts = "retreat" -> {"combat", "recon", "movement"}
          [] preempts = "operator" -> {"combat", "recon", "movement", "occupy", "repair"}
          [] OTHER -> {}}

\* An order the capability has had lately is not given again; a job it still has
\* that matches does as well.
EconomyOutcomes(d, u, w) ==
    IF ~w.capability THEN {Direct(d, "economy")}
    ELSE IF u \in d.directives THEN {d}
    ELSE {d, [d EXCEPT !.directives = @ \cup {u}]}

MergeOutcomes(d, u, w) ==
    IF w.stale \/ ~w.capability \/ u \in d.directives THEN {d}
    ELSE {[d EXCEPT !.directives = @ \cup {u}]}

\* _handle_rule_command: the tasks in the way are cancelled before the job is tried.
OrderOutcomes(d, u, w, deed) ==
    IF w.stale THEN {d}
    ELSE LET cleared == Cancelled(d, Conflicting(d, deed.preempts))
         IN IF deed.expert = "economy" THEN EconomyOutcomes(cleared, u, w)
            ELSE {Direct(cleared, deed.expert)}

\* The first step is started; the steps left replace those of an earlier order.
SequenceOutcomes(d) ==
    LET id == NextId(d)
    IN {[Direct(d, Plan[1]) EXCEPT
            !.pending = [k \in 1..(Len(Plan) - 1) |-> [order |-> id, step |-> k + 1]],
            !.current = id]}

\* _handle_runtime_nlu.
NluOutcomes(d, u, w) ==
    LET intent == Decision(u)
        wide == WideAttack(u)
    IN CASE w.stale -> {d}
         [] ~w.stale /\ intent = "produce" ->
              IF "buildable" \in w.facts THEN EconomyOutcomes(d, u, w)
              ELSE MergeOutcomes(d, u, w)
         [] ~w.stale /\ intent = "attack" ->
              IF ~wide THEN {Direct(d, "combat")}
              ELSE IF ~HasForce(w) THEN {d}
              ELSE {Direct(Cancelled(d, Conflicting(d, "operator")), "combat")}
         [] ~w.stale /\ intent = "deploy_mcv" ->
              IF McvKnown(w) THEN {Direct(d, "deploy")} ELSE {d}
         [] ~w.stale /\ intent = "explore" -> {Direct(d, "recon")}
         [] ~w.stale /\ intent = "composite_sequence" -> SequenceOutcomes(d)
         [] OTHER -> {d}      \* an answer, or an order straight to the game

\* One pending question is answered; several where the text answers several.
Answered(d) ==
    {[d EXCEPT !.asking = @ \ ts] : ts \in SUBSET d.asking \ {{}}}

Managed(d, u) == {Created(d, "agent", DomainOf(u), 0, 1)}

\* Mutant of CommandOutcomes: the sync is not looked at again after the model's answer.
CommandAnyway(d, u, w) ==
    Managed(d, u) \cup {e \in {d} : DomainOf(u) \in {d.tasks[t].dom : t \in Running(d)}}

\* _handle_command: a running task that seems to want the same stands for it.
CommandOutcomes(d, u, w) ==
    IF w.stale THEN {d}
    ELSE Managed(d, u) \cup {e \in {d} : DomainOf(u) \in {d.tasks[t].dom : t \in Running(d)}}

DeedOutcomes(d, u, w, deed) ==
    CASE deed.do = "order" -> OrderOutcomes(d, u, w, deed)
      [] deed.do = "reply" -> Answered(d)
      [] deed.do = "manage" -> IF w.stale THEN {d} ELSE Managed(d, u)
      [] deed.do = "nlu" -> NluOutcomes(d, u, w)
      [] deed.do = "economy" -> MergeOutcomes(d, u, w)
      [] OTHER -> {d}         \* answered, put into an agent's queue, or to be classified

(* ---------------- the handlers of a client's messages ---------------- *)

\* The bound on tasks: what is left must do for the steps that are pending and for
\* what the handlers under way may start.
Fits(d, busy) ==
    Cardinality(Spare(d)) >= Len(d.pending) + Len(Plan) * Cardinality(busy)

Submit(c) ==
    /\ socket[c] # "off" /\ handler[c] = Idle /\ Spare(Desk) # {}
    /\ \E u \in Texts, facts \in FactSets :
         LET w == Sight(facts)
             deed == RouteOf(u, w)
         IN /\ handler' = [handler EXCEPT ![c] =
                  IF deed.do = "classify" THEN [at |-> "classify", text |-> u] ELSE Idle]
            /\ \E d \in DeedOutcomes(Desk, u, w, deed) :
                  Fits(d, {b \in Clients : handler'[b] # Idle}) /\ Becomes(d)
    /\ UNCHANGED <<feedVars, stale>>

\* _try_execute_direct_command, or what stands in for it where it finds nothing.
DirectOr(d, u, w, otherwise) ==
    LET rule == RuleMatch(u, w)
    IN IF MoveMatch(u, w) THEN OrderOutcomes(d, u, w, MoveOrder)
       ELSE IF rule.do = "order" THEN OrderOutcomes(d, u, w, rule)
       ELSE IF Decision(u) # "none" THEN NluOutcomes(d, u, w)
       ELSE otherwise

\* The classes of a line that is no query, a command's by its disposition.
Classes == {"cancel", "reply", "info", "merge", "override", "interrupt", "command"}

\* What is done with a class: the task it means may have ended while the model
\* thought, and then cannot be cancelled or take a message.
ClassOutcomes(d, u, w, class) ==
    CASE class = "cancel" -> {d} \cup {Cancelled(d, {t}) : t \in Running(d)}
      [] class = "reply" ->
           IF d.asking = {} THEN CommandOutcomes(d, u, w) ELSE Answered(d)
      [] class \in {"info", "merge"} ->      \* put into an agent's queue, or a command
           CommandOutcomes(d, u, w) \cup {e \in {d} : Agents(d) # {}}
      [] class = "override" ->
           IF w.stale THEN {d}
           ELSE CommandOutcomes(d, u, w) \cup
                UNION {LET freed == Cancelled(d, {t})
                       IN DirectOr(freed, u, w, CommandOutcomes(freed, u, w)) : t \in Agents(d)}
      [] class = "interrupt" ->
           IF w.stale THEN {d} ELSE DirectOr(d, u, w, Managed(d, u))
      [] OTHER -> CommandOutcomes(d, u, w)

\* The model has answered, timed out or failed: a query goes on to a second call.
Classified(c) ==
    /\ handler[c].at = "classify"
    /\ \/ /\ ~stale
          /\ handler' = [handler EXCEPT ![c].at = "answer"]
          /\ UNCHANGED deskVars
       \/ \E class \in Classes, facts \in FactSets :
            /\ \E d \in ClassOutcomes(Desk, handler[c].text, Sight(facts), class) : Becomes(d)
            /\ handler' = [handler EXCEPT ![c] = Idle]
    /\ UNCHANGED <<feedVars, stale>>

\* _handle_query ends with the model's answer or the one that stands in for it.
QueryAnswered(c) ==
    /\ handler[c].at = "answer"
    /\ handler' = [handler EXCEPT ![c] = Idle]
    /\ UNCHANGED <<feedVars, stale, deskVars>>

\* on_command_cancel: the cancel button.
CancelPressed(c, t) ==
    /\ socket[c] # "off" /\ handler[c] = Idle /\ t \in Running(Desk)
    /\ Becomes(Cancelled(Desk, {t}))
    /\ UNCHANGED <<feedVars, stale, handler>>

\* on_session_clear.
ClearSession(c) ==
    /\ socket[c] # "off" /\ handler[c] = Idle
    /\ FeedCleared
    /\ tasks' = [t \in Tasks |-> Unused]
    /\ asking' = {} /\ pending' = <<>> /\ current' = NoTask /\ directives' = {}
    /\ UNCHANGED <<stale, handler>>

(* ---------------- the reports come back ---------------- *)

\* Mutant of Advanced: the next step starts, and the ended one stays the current one.
AdvancedStaying(d, result) ==
    IF d.pending = <<>> THEN {[d EXCEPT !.current = NoTask]}
    ELSE IF stale \/ result \notin {"succeeded", "partial"}
    THEN {[d EXCEPT !.pending = <<>>, !.current = NoTask]}
    ELSE LET next == Head(d.pending)
         IN {[Created(d, "direct", Plan[next.step], next.order, next.step)
                 EXCEPT !.pending = Tail(@)]}

\* _advance_sequence: the next step starts if the last one came to something and
\* the world is in sync; otherwise, or if it cannot start, the rest is dropped.
Advanced(d, result) ==
    LET dropped == [d EXCEPT !.pending = <<>>, !.current = NoTask]
    IN IF d.pending = <<>> THEN {[d EXCEPT !.current = NoTask]}
       ELSE IF stale \/ result \notin {"succeeded", "partial"} THEN {dropped}
       ELSE LET next == Head(d.pending)
                started == Created(d, "direct", Plan[next.step], next.order, next.step)
            IN {[started EXCEPT !.pending = Tail(@), !.current = NextId(d)], dropped}

\* Mutant of Notified: the report of any task ends the current step.
NotifiedByAny(i) ==
    IF i # 0 /\ messages[i].kind = "report"
    THEN \E d \in Advanced(Desk, tasks[messages[i].task].status) : Becomes(d)
    ELSE UNCHANGED deskVars

\* The callback of a message that has been sent: one of a session cleared since
\* finds no task, and only the report of the current step moves the order on.
Notified(i) ==
    IF i # 0 /\ messages[i].kind = "report" /\ messages[i].task = current
    THEN \E d \in Advanced(Desk, tasks[current].status) : Becomes(d)
    ELSE UNCHANGED deskVars

Publish ==
    \/ /\ \E loop \in BOOLEAN : TakeNew(loop)
       /\ UNCHANGED deskVars
    \/ \E failing \in SUBSET Clients : SendNext(failing) /\ Notified(Head(batch))
PublishStep == Publish /\ UNCHANGED <<stale, handler>>

(* ---------------- the tasks and the world ---------------- *)

\* complete_task registers a report.
TaskEnds(t) ==
    /\ tasks[t].status = "running" /\ Len(messages) < MaxMessages
    /\ \E result \in Results :
         tasks' = [tasks EXCEPT ![t].status = result]
    /\ asking' = asking \ {t}
    /\ messages' = Registered(t, "report")
    /\ UNCHANGED <<offset, batch, byLoop, socket, synced, heard, before, asof, stale, pending,
                   current, directives, handler>>

\* An agent informs, warns or asks; the bound leaves room for every report.
AgentSpeaks(t) ==
    /\ t \in Agents(Desk)
    /\ Len(messages) + Cardinality(Spare(Desk) \cup Running(Desk)) < MaxMessages
    /\ \/ messages' = Registered(t, "note") /\ UNCHANGED asking
       \/ messages' = Registered(t, "question") /\ asking' = asking \cup {t}
    /\ UNCHANGED <<offset, batch, byLoop, socket, synced, heard, before, asof, stale, tasks,
                   pending, current, directives, handler>>

SyncTurns ==
    /\ stale' = ~stale
    /\ UNCHANGED <<feedVars, deskVars, handler>>

Client(c) ==
    \/ Connect(c) \/ (handler[c] = Idle /\ Disconnect(c))
    \/ \E fails \in BOOLEAN : handler[c] = Idle /\ Sync(c, fails)
ClientStep(c) == Client(c) /\ UNCHANGED <<stale, deskVars, handler>>

Next ==
    \/ \E c \in Clients :
          Submit(c) \/ Classified(c) \/ QueryAnswered(c) \/ ClearSession(c) \/ ClientStep(c)
    \/ \E c \in Clients, t \in Tasks : CancelPressed(c, t)
    \/ PublishStep
    \/ \E t \in Tasks : TaskEnds(t) \/ AgentSpeaks(t)
    \/ SyncTurns

Spec == Init /\ [][Next]_vars

\* The loop publishes at every tick, and a send ends within its timeout.
LiveSpec == Spec /\ WF_vars(PublishStep)

(* ---------------- properties ---------------- *)

\* The records are what the actions make of them.
TypeOK ==
    /\ FeedTypeOK
    /\ stale \in BOOLEAN
    /\ \A t \in Tasks :
          /\ tasks[t].kind \in {"none", "direct", "agent"}
          /\ tasks[t].status \in
                {"none", "running", "succeeded", "partial", "failed", "aborted"}
    /\ asking \subseteq Agents(Desk)
    /\ current \in Tasks \cup {NoTask}
    /\ directives \subseteq Texts

\* A step of an order exists only if the step before it has come to something:
\* orders overwritten, cancelled, cleared, reported late or out of sync never start
\* a later step without the earlier one.
StepsInTurn ==
    \A t \in Tasks : tasks[t].step > 1 =>
        \E s \in Tasks : /\ tasks[s].order = tasks[t].order
                         /\ tasks[s].step = tasks[t].step - 1
                         /\ tasks[s].status \in {"succeeded", "partial"}

\* No task is created on a stale world, whichever route leads there, also when the
\* sync is lost while a language model classifies or between two steps of an order.
OrdersNeedSync ==
    [][\A t \in Tasks : tasks[t].status = "none" /\ tasks'[t].status # "none" => ~stale]_vars

\* Once the current step of an order has been reported to the kernel, the order goes
\* on or is dropped: its report is neither lost on the way nor taken for another's.
\* (A step that is cancelled registers no report, and its order hangs.)
Reported(t) == \E i \in DOMAIN messages : messages[i] = [task |-> t, kind |-> "report"]
ReportMovesOrder ==
    \A t \in Tasks : (current = t /\ Reported(t)) ~> (current # t)
=============================================================================
