------------------------ MODULE PlayerQuestionsProofs ------------------------
(***************************************************************************)
(* Proofs about the player's questions: the type invariant, that a task    *)
(* hears of its question once at most, that only open tasks have pending   *)
(* questions, and that the store implements QuestionLifecycle.  They hold  *)
(* for every set of tasks and questions, and whatever the order in which   *)
(* replies, deadlines, ticks, the ends of tasks and resets come.           *)
(***************************************************************************)
EXTENDS PlayerQuestions, TLAPS

(***************************************************************************)
(* The inductive invariant.  ToldOnce does not survive a step by itself:   *)
(* a question that is still pending must not have been told of, and one    *)
(* that is not asked yet must be in none of the store's sets.              *)
(***************************************************************************)
NotAskedYet == \A q \in Question : asker[q] = None =>
  /\ q \notin pending /\ q \notin timedOut /\ q \notin closed
  /\ answers[q] = 0 /\ defaults[q] = 0

PendingIsFresh == \A q \in pending :
  /\ q \notin timedOut /\ q \notin closed
  /\ answers[q] = 0 /\ defaults[q] = 0

AskersExist == \A q \in Question : asker[q] # None => taskState[asker[q]] # "new"

StoreInv == TypeOK /\ NotAskedYet /\ PendingIsFresh /\ AskersExist /\ PendingHasTask /\ ToldOnce

\* In the initial state nothing is asked.
LEMMA InitStore == Init => StoreInv
  BY QuestionsOK DEF Init, StoreInv, TypeOK, NotAskedYet, PendingIsFresh, AskersExist,
       PendingHasTask, ToldOnce, Words, Silence, None

\* The effect of submit on the store, whatever the questions and the tasks of
\* the replies: only pending questions are taken, and each is told of once.
LEMMA SubmitKeeps ==
  ASSUME StoreInv, NEW S, NEW to, Submit(S, to), heard' \in Words
  PROVE  StoreInv'
<1> DEFINE taken == {q \in S : ~Refused(q, to[q])}
<1>1. taken \subseteq pending
  BY DEF Refused
<1>2. /\ pending' = pending \ taken
      /\ timedOut' = timedOut \cup (taken \cap due)
      /\ defaults' = Sent(defaults, taken \cap due)
      /\ answers' = Sent(answers, taken \ due)
      /\ UNCHANGED <<taskState, asker, closed, due, tickDue, loop>>
  BY DEF Submit, taskVars, timeVars
<1> HIDE DEF taken
<1>3. TypeOK'
  BY <1>1, <1>2 DEF StoreInv, TypeOK, Sent
<1>4. \A q \in Question \ taken : answers'[q] = answers[q] /\ defaults'[q] = defaults[q]
  BY <1>2 DEF Sent
<1>5. \A q \in Question \cap taken : answers'[q] + defaults'[q] = 1
  BY <1>1, <1>2 DEF Sent, StoreInv, TypeOK, PendingIsFresh
<1>6. NotAskedYet' /\ PendingIsFresh'
  BY <1>1, <1>2, <1>4 DEF StoreInv, TypeOK, NotAskedYet, PendingIsFresh
<1>7. AskersExist' /\ PendingHasTask'
  BY <1>2 DEF StoreInv, AskersExist, PendingHasTask
<1>8. ToldOnce'
  BY <1>4, <1>5 DEF StoreInv, ToldOnce
<1> QED
  BY <1>3, <1>6, <1>7, <1>8 DEF StoreInv

\* Every step keeps the invariant.
LEMMA StepStore == StoreInv /\ [Next]_vars => StoreInv'
<1> SUFFICES ASSUME StoreInv, [Next]_vars PROVE StoreInv'
  OBVIOUS
<1> USE QuestionsOK
<1>1. ASSUME NEW t \in Task, OpenTask(t) PROVE StoreInv'
  BY <1>1 DEF OpenTask, StoreInv, TypeOK, NotAskedYet, PendingIsFresh, AskersExist,
    PendingHasTask, ToldOnce, storeVars, timeVars, sentVars
<1>2. ASSUME NEW t \in Task, TaskEnds(t) PROVE StoreInv'
  <2> DEFINE mine == {q \in pending : asker[q] = t}
  <2>1. mine \subseteq pending /\ pending' = pending \ mine /\ closed' = closed \cup mine
    BY <1>2 DEF TaskEnds
  <2> QED
    BY <1>2, <2>1 DEF TaskEnds, StoreInv, TypeOK, NotAskedYet, PendingIsFresh, AskersExist,
      PendingHasTask, ToldOnce, timeVars, sentVars
<1>3. ASSUME NEW t \in Task, NEW q \in Question, Ask(t, q) PROVE StoreInv'
  <2>1. asker[q] = None
    BY <1>3 DEF Ask, Unasked
  <2>2. TypeOK' /\ AskersExist' /\ PendingHasTask' /\ ToldOnce'
    BY <1>3, <2>1 DEF Ask, StoreInv, TypeOK, AskersExist, PendingHasTask, ToldOnce,
      timeVars, sentVars, None
  <2>3. NotAskedYet' /\ PendingIsFresh'
    BY <1>3, <2>1 DEF Ask, StoreInv, TypeOK, NotAskedYet, PendingIsFresh, timeVars, sentVars, None
  <2> QED
    BY <2>2, <2>3 DEF StoreInv
<1>4. ASSUME NEW q \in Question, DeadlinePasses(q) PROVE StoreInv'
  BY <1>4 DEF DeadlinePasses, StoreInv, TypeOK, NotAskedYet, PendingIsFresh, AskersExist,
    PendingHasTask, ToldOnce, taskVars, storeVars, sentVars
<1>5. ASSUME NEW q \in Question, CancelQuestion(q) PROVE StoreInv'
  BY <1>5 DEF CancelQuestion, StoreInv, TypeOK, NotAskedYet, PendingIsFresh, AskersExist,
    PendingHasTask, ToldOnce, taskVars, timeVars, sentVars
<1>6. ASSUME NEW q \in Question, DashboardReply(q) PROVE StoreInv'
  BY <1>6, SubmitKeeps DEF DashboardReply, StoreInv, TypeOK
<1>7. CASE Reset
  BY <1>7 DEF Reset, StoreInv, TypeOK, NotAskedYet, PendingIsFresh, AskersExist,
    PendingHasTask, ToldOnce, timeVars, sentVars, None
<1>8. CASE TickBegins
  BY <1>8 DEF TickBegins, StoreInv, TypeOK, NotAskedYet, PendingIsFresh, AskersExist,
    PendingHasTask, ToldOnce, taskVars, storeVars, sentVars
<1>9. CASE TickScans
  <2> DEFINE late == pending \cap tickDue
  <2>1. /\ pending' = pending \ late /\ timedOut' = timedOut \cup late
        /\ defaults' = Sent(defaults, late)
        /\ loop' = "rest" /\ tickDue' = {}
        /\ UNCHANGED <<taskState, asker, closed, due, answers, heard>>
    BY <1>9 DEF TickScans, Expire, taskVars
  <2>2. late \subseteq pending
    OBVIOUS
  <2> HIDE DEF late
  <2>3. TypeOK'
    BY <2>1, <2>2 DEF StoreInv, TypeOK, Sent
  <2>4. NotAskedYet' /\ PendingIsFresh' /\ ToldOnce'
    BY <2>1, <2>2 DEF StoreInv, TypeOK, NotAskedYet, PendingIsFresh, ToldOnce, Sent
  <2>5. AskersExist' /\ PendingHasTask'
    BY <2>1 DEF StoreInv, AskersExist, PendingHasTask
  <2> QED
    BY <2>3, <2>4, <2>5 DEF StoreInv
<1>10. CASE DirectReply
  BY <1>10, SubmitKeeps DEF DirectReply, StoreInv, TypeOK
<1>11. ASSUME NEW q \in Question \cup {None}, NEW t \in Task \cup {None}, Speak(q, t) PROVE StoreInv'
  BY <1>11 DEF Speak, StoreInv, TypeOK, Words, NotAskedYet, PendingIsFresh, AskersExist,
    PendingHasTask, ToldOnce, taskVars, storeVars, timeVars, sentVars
<1>12. CASE HandleReply
  <2>1. heard' \in Words
    BY <1>12 DEF HandleReply, Silence, Words
  <2>2. \E S, to : Submit(S, to)
    BY <1>12 DEF HandleReply
  <2> QED
    BY <2>1, <2>2, SubmitKeeps
<1>13. CASE HandleOther
  BY <1>13 DEF HandleOther, Silence, StoreInv, TypeOK, Words, NotAskedYet, PendingIsFresh,
    AskersExist, PendingHasTask, ToldOnce, taskVars, storeVars, timeVars, sentVars
<1>14. CASE UNCHANGED vars
  BY <1>14 DEF vars, StoreInv, TypeOK, NotAskedYet, PendingIsFresh, AskersExist,
    PendingHasTask, ToldOnce, taskVars, storeVars, timeVars, sentVars
<1> QED
  BY <1>1, <1>2, <1>3, <1>4, <1>5, <1>6, <1>7, <1>8, <1>9, <1>10, <1>11, <1>12, <1>13, <1>14
  DEF Next, Tick

\* The invariant holds throughout.
LEMMA StoreCorrect == Spec => []StoreInv
<1>1. Init => StoreInv
  BY InitStore
<1>2. StoreInv /\ [Next]_vars => StoreInv'
  BY StepStore
<1> QED
  BY <1>1, <1>2, PTL DEF Spec

\* No task is told twice of its question, by an answer or a default, however
\* late replies, repeated replies, timeout scans and resets interleave.
THEOREM AtMostOneAnswer == Spec => []ToldOnce
  BY StoreCorrect, PTL DEF StoreInv

\* Pending questions belong to open tasks: closing a task leaves none behind.
THEOREM NoOrphanQuestion == Spec => []PendingHasTask
  BY StoreCorrect, PTL DEF StoreInv

-----------------------------------------------------------------------------
(***************************************************************************)
(* The store implements the life cycle: asking and the reset map to Ask    *)
(* and Forget, and every other step settles the questions it takes out of  *)
(* the pending ones, which may be none.                                    *)
(***************************************************************************)

\* A step that only takes questions out of the pending ones settles them.
LEMMA Settles ==
  ASSUME StoreInv, NEW S \in SUBSET pending,
         pending' = pending \ S, asker' = asker,
         \A q \in Question \ S : (q \in timedOut' <=> q \in timedOut) /\ (q \in closed' <=> q \in closed),
         \A t \in Task : taskState'[t] = "gone" <=> taskState[t] = "gone"
  PROVE  Lifecycle!Settle
<1> DEFINE how == [q \in Question |-> IF q \in S THEN Outcome'[q] ELSE "answered"]
<1>1. ASSUME NEW q \in S PROVE Outcome[q] = "open" /\ Outcome'[q] \in Lifecycle!Settled
  <2>1. /\ q \in Question /\ q \in pending /\ q \notin pending'
        /\ asker[q] \in Task /\ taskState[asker[q]] = "open" /\ taskState'[asker[q]] # "gone"
    BY DEF StoreInv, TypeOK, PendingHasTask
  <2>2. asker[q] # None
    BY <2>1, QuestionsOK
  <2> QED
    BY <2>1, <2>2 DEF Outcome, Lifecycle!Settled
<1>2. ASSUME NEW q \in Question \ S PROVE Outcome'[q] = Outcome[q]
  <2>1. asker[q] \in Task \cup {None}
    BY DEF StoreInv, TypeOK
  <2>2. asker[q] # None => (taskState'[asker[q]] = "gone" <=> taskState[asker[q]] = "gone")
    BY <2>1
  <2> QED
    BY <2>2 DEF Outcome
<1>3. how \in [Question -> Lifecycle!Settled]
  BY <1>1 DEF Lifecycle!Settled
<1>4. S \in SUBSET {q \in Question : Outcome[q] = "open"}
  BY <1>1 DEF StoreInv, TypeOK
<1>5. Outcome' = [q \in Question |-> IF q \in S THEN how[q] ELSE Outcome[q]]
  <2>1. Outcome' = [q \in Question |-> Outcome'[q]]
    BY DEF Outcome
  <2> QED
    BY <2>1, <1>2
<1> QED
  BY <1>3, <1>4, <1>5 DEF Lifecycle!Settle

\* Submit settles what it takes.
LEMMA SubmitSettles ==
  ASSUME StoreInv, NEW S, NEW to, Submit(S, to)
  PROVE  Lifecycle!Settle
<1> DEFINE taken == {q \in S : ~Refused(q, to[q])}
<1>1. taken \in SUBSET pending
  BY DEF Refused
<1>2. /\ pending' = pending \ taken
      /\ timedOut' = timedOut \cup (taken \cap due)
      /\ UNCHANGED <<taskState, asker, closed>>
  BY DEF Submit, taskVars
<1> HIDE DEF taken
<1> QED
  BY <1>1, <1>2, Settles

LEMMA InitMaps == Init => Lifecycle!Init
  BY DEF Init, Lifecycle!Init, Outcome

\* Every step of the store is a step of the life cycle or leaves it as it is.
LEMMA StepMaps == StoreInv /\ [Next]_vars => [Lifecycle!Next]_Outcome
<1> SUFFICES ASSUME StoreInv, [Next]_vars PROVE Lifecycle!Next \/ Outcome' = Outcome
  OBVIOUS
<1>1. ASSUME NEW t \in Task, NEW q \in Question, Ask(t, q) PROVE Lifecycle!Ask(q)
  <2>1. /\ asker[q] = None /\ t # None /\ taskState[t] = "open"
        /\ asker' = [asker EXCEPT ![q] = t] /\ asker \in [Question -> Task \cup {None}]
        /\ pending' = pending \cup {q} /\ timedOut' = timedOut \ {q} /\ closed' = closed \ {q}
        /\ taskState' = taskState
    BY <1>1, QuestionsOK DEF Ask, Unasked, StoreInv, TypeOK
  <2>2. Outcome[q] = "unasked" /\ Outcome'[q] = "open"
    <3>1. asker'[q] = t /\ taskState'[t] # "gone" /\ q \in pending'
      BY <2>1
    <3> QED
      BY <2>1, <3>1 DEF Outcome
  <2>3. \A p \in Question \ {q} : Outcome'[p] = Outcome[p]
    BY <2>1 DEF Outcome
  <2>4. Outcome' = [p \in Question |-> Outcome'[p]] /\ Outcome = [p \in Question |-> Outcome[p]]
    BY DEF Outcome
  <2>5. Outcome' = [Outcome EXCEPT ![q] = "open"]
    BY <2>2, <2>3, <2>4
  <2> QED
    BY <2>2, <2>5 DEF Lifecycle!Ask
<1>2. CASE Reset
  <2>1. /\ asker' = asker /\ asker \in [Question -> Task \cup {None}]
        /\ \A q \in Question : asker[q] # None => taskState'[asker[q]] = "gone"
    BY <1>2 DEF Reset, StoreInv, TypeOK, AskersExist
  <2>2. ASSUME NEW q \in Question, asker[q] = None
        PROVE  Outcome[q] = "unasked" /\ Outcome'[q] = "unasked"
    BY <2>1, <2>2 DEF Outcome
  <2>3. ASSUME NEW q \in Question, asker[q] # None
        PROVE  Outcome[q] # "unasked" /\ Outcome'[q] = "forgotten"
    <3>1. taskState'[asker'[q]] = "gone" /\ asker'[q] # None
      BY <2>1, <2>3
    <3>2. Outcome'[q] = "forgotten"
      BY <3>1 DEF Outcome
    <3>3. Outcome[q] # "unasked"
      BY <2>3 DEF Outcome
    <3> QED
      BY <3>2, <3>3
  <2>4. Outcome' = [q \in Question |-> Outcome'[q]]
    BY DEF Outcome
  <2>5. Lifecycle!Forget
    BY <2>2, <2>3, <2>4 DEF Lifecycle!Forget
  <2> QED
    BY <2>5 DEF Lifecycle!Next
<1>3. ASSUME NEW t \in Task, OpenTask(t) PROVE Lifecycle!Settle
  <2>1. \A u \in Task : taskState'[u] = "gone" <=> taskState[u] = "gone"
    BY <1>3 DEF OpenTask, StoreInv, TypeOK
  <2> QED
    BY <1>3, <2>1, Settles, {} \in SUBSET pending, pending \ {} = pending DEF OpenTask, storeVars
<1>4. ASSUME NEW t \in Task, TaskEnds(t) PROVE Lifecycle!Settle
  <2> DEFINE mine == {q \in pending : asker[q] = t}
  <2>1. \A u \in Task : taskState'[u] = "gone" <=> taskState[u] = "gone"
    BY <1>4 DEF TaskEnds, StoreInv, TypeOK
  <2>2. /\ mine \in SUBSET pending /\ pending' = pending \ mine /\ closed' = closed \cup mine
        /\ UNCHANGED <<asker, timedOut>>
    BY <1>4 DEF TaskEnds
  <2> HIDE DEF mine
  <2> QED
    BY <2>1, <2>2, Settles
<1>5. ASSUME NEW q \in Question, CancelQuestion(q) PROVE Lifecycle!Settle
  BY <1>5, Settles, {q} \in SUBSET pending DEF CancelQuestion, taskVars
<1>6. ASSUME NEW q \in Question, DashboardReply(q) PROVE Lifecycle!Settle
  BY <1>6, SubmitSettles DEF DashboardReply
<1>7. CASE DirectReply
  <2>1. Lifecycle!Settle
    BY <1>7, SubmitSettles DEF DirectReply
  <2> QED
    BY <2>1 DEF Lifecycle!Next
<1>8. CASE HandleReply
  <2>1. \E S, to : Submit(S, to)
    BY <1>8 DEF HandleReply
  <2>2. Lifecycle!Settle
    BY <2>1, SubmitSettles
  <2> QED
    BY <2>2 DEF Lifecycle!Next
<1>9. CASE TickScans
  <2> DEFINE late == pending \cap tickDue
  <2>1. /\ late \in SUBSET pending /\ pending' = pending \ late /\ timedOut' = timedOut \cup late
        /\ UNCHANGED <<taskState, asker, closed>>
    BY <1>9 DEF TickScans, Expire, taskVars
  <2> HIDE DEF late
  <2>2. Lifecycle!Settle
    BY <2>1, Settles
  <2> QED
    BY <2>2 DEF Lifecycle!Next
<1>10. CASE /\ UNCHANGED <<taskVars, storeVars>>
  BY <1>10 DEF Outcome, taskVars, storeVars
<1> QED
  BY <1>1, <1>2, <1>3, <1>4, <1>5, <1>6, <1>7, <1>8, <1>9, <1>10
  DEF Next, Tick, Lifecycle!Next, DeadlinePasses, TickBegins, Speak, HandleOther, vars

\* The kernel's store of questions implements their life cycle: a question is
\* settled once and in one way, and only a reset of the session forgets it.
THEOREM StoreImplements == Spec => Implements
<1>1. Init => Lifecycle!Init
  BY InitMaps
<1>2. StoreInv /\ [Next]_vars => [Lifecycle!Next]_Outcome
  BY StepMaps
<1> QED
  BY <1>1, <1>2, StoreCorrect, PTL DEF Spec, Implements, Lifecycle!Spec
==============================================================================
