--------------------------- MODULE PlayerQuestions ---------------------------
(***************************************************************************)
(* The questions agents put to the player: the kernel's store of pending   *)
(* questions (kernel/task_questions.py), its entry points                  *)
(* (kernel/player_interaction.py), the timeout scan of the game loop and   *)
(* the ways a reply comes in, from the dashboard and through the adjutant, *)
(* which awaits a language model between the player's words and the reply. *)
(*                                                                         *)
(* Every kernel call here runs on the event loop without awaiting, so each *)
(* is one action.  Questions are numbers in the order they are asked.      *)
(* Deadlines are compared with two clocks: the time of a reply, and the    *)
(* time the game loop read when its tick began.                            *)
(***************************************************************************)
EXTENDS Naturals, FiniteSets

CONSTANTS
  Task,      \* tasks with an agent
  Question   \* message ids of questions, in the order they are asked

None == 0

ASSUME QuestionsOK ==
  /\ Task \subseteq Nat \ {None}
  /\ Question \subseteq Nat \ {None}

VARIABLES
  taskState,   \* tasks[t]: new, open, ended, or gone with its session
  asker,       \* message.task_id
  pending,     \* _pending_questions
  timedOut,    \* _timed_out_questions
  closed,      \* _closed_questions
  due,         \* questions whose deadline has passed
  tickDue,     \* those whose deadline had passed when the loop's tick began
  loop,        \* whether the game loop is in a tick, before its timeout scan
  answers,     \* how many answers of the player went to the question's task
  defaults,    \* how many default answers did
  heard        \* the words the adjutant is having classified

taskVars  == <<taskState, asker>>
storeVars == <<pending, timedOut, closed>>
timeVars  == <<due, tickDue, loop>>
sentVars  == <<answers, defaults>>
vars == <<taskVars, storeVars, timeVars, sentVars, heard>>

\* What the adjutant makes of the player's words: the question and the task
\* they are meant for, and the questions that were pending when they came.
Silence == [target |-> None, task |-> None, shown |-> {}, spoken |-> FALSE]
Words == [target : Question \cup {None}, task : Task \cup {None},
          shown : SUBSET Question, spoken : BOOLEAN]

Unasked == {q \in Question : asker[q] = None}

Init ==
  /\ taskState = [t \in Task |-> "new"]
  /\ asker = [q \in Question |-> None]
  /\ pending = {} /\ timedOut = {} /\ closed = {}
  /\ due = {} /\ tickDue = {} /\ loop = "rest"
  /\ answers = [q \in Question |-> 0]
  /\ defaults = [q \in Question |-> 0]
  /\ heard = Silence

-----------------------------------------------------------------------------
(* The store.                                                              *)

OpenTask(t) ==
  /\ taskState[t] = "new"
  /\ taskState' = [taskState EXCEPT ![t] = "open"]
  /\ UNCHANGED <<asker, storeVars, timeVars, sentVars, heard>>

\* Mutant of Ask: a settled question may be asked again.
AskAgain(t, q) ==
  /\ taskState[t] = "open" /\ asker[q] \in {None, t}
  /\ asker' = [asker EXCEPT ![q] = t]
  /\ pending' = pending \cup {q}
  /\ timedOut' = timedOut \ {q} /\ closed' = closed \ {q}
  /\ UNCHANGED <<taskState, timeVars, sentVars, heard>>

\* register_task_message with a question, sent by the task's agent.
Ask(t, q) ==
  /\ taskState[t] = "open"
  /\ q \in Unasked /\ \A p \in Unasked : q <= p
  /\ asker' = [asker EXCEPT ![q] = t]
  /\ pending' = pending \cup {q}
  /\ timedOut' = timedOut \ {q}
  /\ closed' = closed \ {q}
  /\ UNCHANGED <<taskState, timeVars, sentVars, heard>>

\* The deadline of a pending question passes.
DeadlinePasses(q) ==
  /\ q \in pending \ due
  /\ due' = due \cup {q}
  /\ UNCHANGED <<taskVars, storeVars, tickDue, loop, sentVars, heard>>

\* One more response for each question of qs.
Sent(count, qs) == [q \in Question |-> IF q \in qs THEN count[q] + 1 ELSE count[q]]

\* _expire: each question is answered with its default.
Expire(qs) ==
  /\ pending' = pending \ qs
  /\ timedOut' = timedOut \cup qs
  /\ defaults' = Sent(defaults, qs)

\* The answers that submit refuses: the question is not pending, or it is
\* pending and in time and the task is another.
Refused(q, t) == q \notin pending \/ (q \notin due /\ asker[q] # t)

\* Mutant of Submit: an answer is taken after the deadline too, beside the default.
SubmitLate(S, to) ==
  LET taken == {q \in S : q \in pending /\ asker[q] = to[q]} IN
  /\ pending' = pending \ taken
  /\ timedOut' = timedOut \cup (taken \cap due)
  /\ defaults' = Sent(defaults, taken \cap due)
  /\ answers' = Sent(answers, taken)
  /\ UNCHANGED <<taskVars, closed, timeVars>>

\* submit, for every question of S with the task the reply names: a question
\* that is due expires whatever the task, one that is not takes the answer.
Submit(S, to) ==
  LET taken == {q \in S : ~Refused(q, to[q])} IN
  /\ pending' = pending \ taken
  /\ timedOut' = timedOut \cup (taken \cap due)
  /\ defaults' = Sent(defaults, taken \cap due)
  /\ answers' = Sent(answers, taken \ due)
  /\ UNCHANGED <<taskVars, closed, timeVars>>

\* Mutant of TaskEnds: the questions of the task are left open.
TaskEndsOnly(t) ==
  /\ taskState[t] = "open"
  /\ taskState' = [taskState EXCEPT ![t] = "ended"]
  /\ UNCHANGED <<asker, storeVars, timeVars, sentVars, heard>>

\* close_for_task, when cancel_task or complete_task ends the task.
TaskEnds(t) ==
  LET mine == {q \in pending : asker[q] = t} IN
  /\ taskState[t] = "open"
  /\ taskState' = [taskState EXCEPT ![t] = "ended"]
  /\ pending' = pending \ mine
  /\ closed' = closed \cup mine
  /\ UNCHANGED <<asker, timedOut, timeVars, sentVars, heard>>

\* cancel_pending_question
CancelQuestion(q) ==
  /\ q \in pending
  /\ pending' = pending \ {q}
  /\ closed' = closed \cup {q}
  /\ UNCHANGED <<taskVars, timedOut, timeVars, sentVars, heard>>

\* The reset of the session empties the store, the delivered responses and
\* the tasks; what the adjutant is having classified goes on.
Reset ==
  /\ taskState' = [t \in Task |-> IF taskState[t] = "new" THEN "new" ELSE "gone"]
  /\ pending' = {} /\ timedOut' = {} /\ closed' = {}
  /\ UNCHANGED <<asker, timeVars, sentVars, heard>>

-----------------------------------------------------------------------------
(* The game loop.                                                          *)

\* Mutant of TickBegins: the clock of the tick before is used.
TickBeginsStale ==
  /\ loop = "rest" /\ loop' = "tick"
  /\ UNCHANGED <<taskVars, storeVars, due, tickDue, sentVars, heard>>

\* A tick reads the clock, and then waits for the refresh of the world ...
TickBegins ==
  /\ loop = "rest"
  /\ loop' = "tick"
  /\ tickDue' = due
  /\ UNCHANGED <<taskVars, storeVars, due, sentVars, heard>>

\* ... before it scans for timeouts with the time it had read.
TickScans ==
  /\ loop = "tick"
  /\ loop' = "rest" /\ tickDue' = {}
  /\ Expire(pending \cap tickDue)
  /\ UNCHANGED <<taskVars, closed, due, answers, heard>>

-----------------------------------------------------------------------------
(* Replies of the player.                                                  *)

\* on_question_reply: a question card of the dashboard, which may show a
\* question that is settled by now.
DashboardReply(q) ==
  /\ asker[q] # None
  /\ Submit({q}, asker)
  /\ UNCHANGED heard

\* _try_route_single_reply and _try_route_multi_reply: the words match the
\* option of the only pending question, or of several.
DirectReply ==
  /\ \/ \E q \in pending : pending = {q} /\ Submit({q}, asker)
     \/ \E S \in SUBSET pending : Cardinality(S) > 1 /\ Submit(S, asker)
  /\ UNCHANGED heard

\* Other words go to the language model, which is shown the pending questions
\* and names one, or none, with a task.
Speak(q, t) ==
  /\ ~heard.spoken
  /\ q \in pending \cup {None}
  /\ heard' = [target |-> q, task |-> t, shown |-> pending, spoken |-> TRUE]
  /\ UNCHANGED <<taskVars, storeVars, timeVars, sentVars>>

\* The question list_pending_questions puts first: no question carries its
\* task's priority, so the one asked last.
Top == CHOOSE q \in pending : \A p \in pending : p <= q

\* _handle_reply: words without a target answer the first pending question.
HandleReply ==
  /\ heard.spoken
  /\ heard' = Silence
  /\ IF heard.target # None
     THEN /\ heard.task # None
          /\ Submit({heard.target}, [q \in Question |-> heard.task])
     ELSE /\ pending # {}
          /\ Submit({Top}, asker)

\* The words turn out to be no reply, or there is nothing to reply to.
HandleOther ==
  /\ heard.spoken
  /\ heard' = Silence
  /\ UNCHANGED <<taskVars, storeVars, timeVars, sentVars>>

Tick == TickBegins \/ TickScans

Next ==
  \/ \E t \in Task : OpenTask(t) \/ TaskEnds(t)
  \/ \E t \in Task, q \in Question : Ask(t, q)
  \/ \E q \in Question : DeadlinePasses(q) \/ CancelQuestion(q) \/ DashboardReply(q)
  \/ Reset
  \/ Tick
  \/ DirectReply
  \/ \E q \in Question \cup {None}, t \in Task \cup {None} : Speak(q, t)
  \/ HandleReply
  \/ HandleOther

Spec == Init /\ [][Next]_vars

\* Time passes and the game loop goes on ticking.
LiveSpec == Spec /\ WF_vars(Tick) /\ \A q \in Question : WF_vars(DeadlinePasses(q))

-----------------------------------------------------------------------------
(* Properties.                                                             *)

\* Every variable keeps to its type.
TypeOK ==
  /\ taskState \in [Task -> {"new", "open", "ended", "gone"}]
  /\ asker \in [Question -> Task \cup {None}]
  /\ pending \subseteq Question /\ timedOut \subseteq Question /\ closed \subseteq Question
  /\ due \subseteq Question /\ tickDue \subseteq Question
  /\ loop \in {"rest", "tick"}
  /\ answers \in [Question -> Nat] /\ defaults \in [Question -> Nat]
  /\ heard \in Words

\* A question's task hears of it once at most: a late answer, a timeout scan
\* with an older clock, a repeated reply and a reply to several questions at
\* once never tell the agent twice.
ToldOnce == \A q \in Question : answers[q] + defaults[q] <= 1

\* Only open tasks have pending questions, so no answer goes to a task that
\* has ended.
PendingHasTask == \A q \in pending : asker[q] \in Task /\ taskState[asker[q]] = "open"

\* What the store says became of each question.
Outcome == [q \in Question |->
  IF asker[q] = None THEN "unasked"
  ELSE IF taskState[asker[q]] = "gone" THEN "forgotten"
  ELSE IF q \in pending THEN "open"
  ELSE IF q \in timedOut THEN "defaulted"
  ELSE IF q \in closed THEN "withdrawn"
  ELSE "answered"]

Lifecycle == INSTANCE QuestionLifecycle WITH outcome <- Outcome

\* The store implements the life cycle of questions.
Implements == Lifecycle!Spec

\* Every question is settled in the end: its deadline passes and a later tick
\* of the game loop finds it, unless it is answered or closed before.
AskedIsSettled == \A q \in Question : q \in pending ~> q \notin pending

==============================================================================
