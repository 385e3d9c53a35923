---------------------------- MODULE AgentProofs ----------------------------
(***************************************************************************)
(* What is proved of the agents: of AgentWake, for every set of jobs and   *)
(* every bound on turns, retries and failures, the types, and that the     *)
(* model is not called for an agent that waits for units.  Both are        *)
(* inductive: a request suspends the agent among the tool calls of a       *)
(* response, and the two ways into a call look at the suspension in the    *)
(* step that takes them.                                                   *)
(*                                                                         *)
(* Of StatusBoard, for every set of worlds, wishes and kinds of messages   *)
(* and any number of requests: the demand reaches the capability's agent,  *)
(* and a sleeping agent is shown as one.  The invariant says that the last *)
(* export shows the requests as they are now, but for what became of their *)
(* jobs; the rest is about the operators that make lists, cards, briefs,   *)
(* alerts and hints of an export.                                          *)
(***************************************************************************)
EXTENDS AgentWake, StatusBoard, FiniteSetTheorems, SequenceTheorems, WellFoundedInduction, TLAPS

\* The failures of an agent that has not stopped are below the limit.
Inductive ==
  /\ TypeOK
  /\ NoCallWhileAsleep
  /\ open => failures < MaxFailures
  /\ pc \in {"call", "tools"} => turn \in 1..MaxTurns

LEMMA InitInductive == Init => Inductive
<1> SUFFICES ASSUME Init PROVE Inductive
  OBVIOUS
<1>1. status \in [Job -> {"none", "live", "ended"}]
  BY DEF Init
<1>2. rule \in SUBSET Job
  BY DEF Init
<1>3. Flags
  BY Zenon DEF Init, Flags
<1> QED
  BY <1>1, <1>2, <1>3, AgentOK DEF Init, Inductive, TypeOK, NoCallWhileAsleep

\* The end of the task leaves every job of it ended or never started.
LEMMA EndedTypes ==
  ASSUME TypeOK, Ended
  PROVE  status' \in [Job -> {"none", "live", "ended"}]
  BY DEF TypeOK, Ended

\* What the jobs, the kernel and the player do keeps the agent's state.
LEMMA EnvironmentKeeps == Inductive /\ Environment => Inductive'
<1> SUFFICES ASSUME Inductive, Environment PROVE Inductive'
  OBVIOUS
<1> USE AgentOK DEF Inductive, TypeOK, NoCallWhileAsleep, OnlyTask, wakeVars, callVars
<1>1. ASSUME NEW j \in Job, JobEnds(j) PROVE Inductive'
  BY <1>1 DEF JobEnds, Flags
<1>2. CASE Inform
  BY <1>2 DEF Inform, Flags
<1>3. CASE PlayerSpeaks
  BY <1>3 DEF PlayerSpeaks, Flags
<1>4. CASE UnitsAssigned
  BY <1>4 DEF UnitsAssigned, Flags
<1>5. CASE DemandArises
  BY <1>5 DEF DemandArises, Flags
<1>6. CASE DemandEnds
  BY <1>6 DEF DemandEnds, Flags
<1>7. CASE ModelChanges
  BY <1>7 DEF ModelChanges, Flags
<1>8. CASE Cancelled
  <2>F. Flags'
    BY <1>8, Zenon DEF Cancelled, Ended, Flags
  <2> QED
    BY <2>F, <1>8, EndedTypes DEF Cancelled, Ended
<1> QED
  BY <1>1, <1>2, <1>3, <1>4, <1>5, <1>6, <1>7, <1>8 DEF Environment

\* Finalization attaches a job of the task or none.
LEMMA AttachedType == TypeOK => Attached \in Job \cup {None}
<1> SUFFICES ASSUME TypeOK PROVE Attached \in Job \cup {None}
  OBVIOUS
<1>1. CASE Cardinality(Jobs) = 1 /\ boot = None /\ Jobs \subseteq rule
  <2>1. Jobs # {}
    <3> SUFFICES ASSUME Jobs = {} PROVE FALSE
      OBVIOUS
    <3>1. Cardinality({}) = 0
      BY FS_EmptySet
    <3> QED
      BY <1>1, <3>1
  <2>2. (CHOOSE j \in Jobs : TRUE) \in Jobs
    BY <2>1
  <2> QED
    BY <1>1, <2>2 DEF Attached, Jobs
<1>2. CASE ~(Cardinality(Jobs) = 1 /\ boot = None /\ Jobs \subseteq rule)
  BY <1>2 DEF Attached, TypeOK
<1> QED
  BY <1>1, <1>2

\* A wake cycle, up to the call.
LEMMA WakeKeeps ==
  ASSUME Inductive,
         WakesAsleep \/ WakeFinishes \/ WakeIdles \/ WakeCalls \/ WakeCrashes
  PROVE  Inductive'
<1> USE AgentOK DEF Inductive, TypeOK, NoCallWhileAsleep, taskVars, wakeVars, callVars, Awake
<1>0. Attached \in Job \cup {None}
  BY AttachedType
<1>1. CASE WakesAsleep
  BY <1>1 DEF WakesAsleep, Flags
<1>2. CASE WakeFinishes
  <2>F. Flags'
    BY <1>2, Zenon DEF WakeFinishes, Ended, Flags
  <2> QED
    BY <2>F, <1>2, EndedTypes DEF WakeFinishes, Ended
<1>3. CASE WakeIdles
  BY <1>0, <1>3 DEF WakeIdles, Flags
<1>4. CASE WakeCalls
  <2>F. Flags'
    BY <1>4, Zenon DEF WakeCalls, Flags
  <2> QED
    BY <2>F, <1>0, <1>4 DEF WakeCalls
<1>5. CASE WakeCrashes
  <2>1. open /\ failures < MaxFailures /\ Fails
    BY <1>5 DEF WakeCrashes
  <2>2. Flags'
    BY <1>5, <2>1, Zenon DEF WakeCrashes, Fails, Ended, Flags
  <2>3. CASE failures' >= MaxFailures
    <3>1. Ended
      BY <2>1, <2>3 DEF Fails
    <3> QED
      BY <1>0, <1>5, <2>1, <2>2, <2>3, <3>1, EndedTypes DEF WakeCrashes, Fails, OneMore, Ended
  <2>4. CASE ~(failures' >= MaxFailures)
    <3>1. Rests /\ UNCHANGED <<open, status, calls>>
      BY <2>1, <2>4 DEF Fails
    <3>2. failures' < MaxFailures /\ failures' \in Nat
      BY <2>1, <2>4 DEF Fails, OneMore
    <3> QED
      BY <1>0, <1>5, <2>1, <2>2, <3>1, <3>2 DEF WakeCrashes, Rests
  <2> QED
    BY <2>3, <2>4
<1> QED
  BY <1>1, <1>2, <1>3, <1>4, <1>5

\* The call and the tool calls.
LEMMA CallKeeps ==
  ASSUME Inductive,
         \/ AttemptFails \/ CallFails \/ SaysText \/ CallsTools
         \/ StartsJob \/ AbortsJob \/ RequestsUnits \/ CompletesTask
         \/ \E tool \in Offered : Looks(tool)
         \/ NextTurn \/ WakeEnds
  PROVE  Inductive'
<1> USE AgentOK DEF Inductive, TypeOK, NoCallWhileAsleep, taskVars, wakeVars, callVars
<1>1. CASE AttemptFails
  BY <1>1 DEF AttemptFails, MayRetry, Flags
<1>2. CASE CallFails
  <2>1. open /\ failures < MaxFailures /\ Fails
    BY <1>2 DEF CallFails
  <2>2. Flags'
    BY <1>2, <2>1, Zenon DEF CallFails, Fails, Ended, Flags
  <2>3. CASE failures' >= MaxFailures
    <3>1. Ended
      BY <2>1, <2>3 DEF Fails
    <3> QED
      BY <1>2, <2>1, <2>2, <2>3, <3>1, EndedTypes DEF CallFails, Fails, OneMore, Ended
  <2>4. CASE ~(failures' >= MaxFailures)
    <3>1. Rests /\ UNCHANGED <<open, status, calls>>
      BY <2>1, <2>4 DEF Fails
    <3>2. failures' < MaxFailures /\ failures' \in Nat
      BY <2>1, <2>4 DEF Fails, OneMore
    <3> QED
      BY <1>2, <2>1, <2>2, <3>1, <3>2 DEF CallFails, Rests
  <2> QED
    BY <2>3, <2>4
<1>3. CASE SaysText
  BY <1>3 DEF SaysText, Answered, Rests, Flags
<1>4. CASE CallsTools
  BY <1>4 DEF CallsTools, Answered, Flags
<1>5. CASE StartsJob
  BY <1>5 DEF StartsJob, Runs, Jobs, Flags
<1>6. CASE AbortsJob
  BY <1>6 DEF AbortsJob, Runs, Live, Flags
<1>7. CASE RequestsUnits
  BY <1>7 DEF RequestsUnits, Runs, Flags
<1>8. CASE CompletesTask
  <2>F. Flags'
    BY <1>8, Zenon DEF CompletesTask, Ended, Flags
  <2> QED
    BY <2>F, <1>8, EndedTypes DEF CompletesTask, Ended
<1>9. ASSUME NEW tool \in Offered, Looks(tool) PROVE Inductive'
  BY <1>9 DEF Looks, Runs, Flags
<1>10. CASE NextTurn
  BY <1>10 DEF NextTurn, GoesOn, Flags
<1>11. CASE WakeEnds
  BY <1>11 DEF WakeEnds, Rests, Flags
<1> QED
  BY <1>1, <1>2, <1>3, <1>4, <1>5, <1>6, <1>7, <1>8, <1>9, <1>10, <1>11

LEMMA InductiveStep == Inductive /\ [Next]_vars => Inductive'
<1> SUFFICES ASSUME Inductive, [Next]_vars PROVE Inductive'
  OBVIOUS
<1>1. CASE Environment
  BY <1>1, EnvironmentKeeps
<1>2. CASE Agent
  BY <1>2, WakeKeeps, CallKeeps DEF Agent
<1>3. CASE UNCHANGED vars
  BY <1>3 DEF Inductive, TypeOK, Flags, NoCallWhileAsleep, vars, taskVars, wakeVars, callVars
<1> QED
  BY <1>1, <1>2, <1>3 DEF Next

\* The types of every reachable state.
THEOREM TypeCorrect == Spec => []TypeOK
<1>1. Inductive => TypeOK
  BY DEF Inductive
<1> QED
  BY <1>1, InitInductive, InductiveStep, PTL DEF Spec

\* No call of the model while the agent waits for units, whatever tool calls
\* a response mixes.
THEOREM NoCallAsleep == Spec => []NoCallWhileAsleep
<1>1. Inductive => NoCallWhileAsleep
  BY DEF Inductive
<1> QED
  BY <1>1, InitInductive, InductiveStep, PTL DEF Spec

-----------------------------------------------------------------------------
\* At lists the entries at the indices I, each of them, and nothing else.
LEMMA AtLists ==
  ASSUME NEW list, NEW n \in Nat, NEW I \in SUBSET (1..n)
  PROVE  /\ Cardinality(I) \in Nat
         /\ At(list, I) = [k \in 1..Cardinality(I) |-> At(list, I)[k]]
         /\ \A k \in 1..Cardinality(I) : \E i \in I : At(list, I)[k] = list[i]
         /\ \A i \in I : \E k \in 1..Cardinality(I) : At(list, I)[k] = list[i]
         /\ Cardinality(I) = 0 <=> I = {}
<1> DEFINE Before(i) == {j \in I : j < i}
           c == Cardinality(I)
           rank == [i \in I |-> Cardinality(Before(i)) + 1]
<1>0. \A i \in I : i \in Int
  OBVIOUS
<1>1. IsFiniteSet(I) /\ c \in Nat /\ (c = 0 <=> I = {})
  <2>1. IsFiniteSet(1..n)
    BY FS_Interval
  <2>2. IsFiniteSet(I)
    BY <2>1, FS_Subset, Zenon
  <2> QED BY <2>2, FS_CardinalityType, FS_EmptySet, Zenon
<1>2. \A i \in I : IsFiniteSet(Before(i)) /\ Cardinality(Before(i)) \in Nat /\ Cardinality(Before(i)) < c
  <2> TAKE i \in I
  <2>1. Before(i) \in SUBSET I /\ i \notin Before(i) /\ I # Before(i)
    OBVIOUS
  <2>2. IsFiniteSet(Before(i)) /\ Cardinality(Before(i)) <= c /\ Cardinality(Before(i)) # c
    BY <1>1, <2>1, FS_Subset, Zenon
  <2>3. Cardinality(Before(i)) \in Nat
    BY <2>2, FS_CardinalityType, Zenon
  <2> HIDE DEF Before, c
  <2> QED BY <1>1, <2>2, <2>3
<1>3. \A i, j \in I : i < j => Cardinality(Before(i)) < Cardinality(Before(j))
  <2> SUFFICES ASSUME NEW i \in I, NEW j \in I, i < j
               PROVE  Cardinality(Before(i)) < Cardinality(Before(j))
    OBVIOUS
  <2>1. Before(i) \in SUBSET Before(j) /\ Before(i) # Before(j)
    <3>1. i \in Before(j) /\ i \notin Before(i)
      OBVIOUS
    <3>2. ASSUME NEW k \in I, k < i
          PROVE  k < j
      BY <1>0, <3>2
    <3>3. Before(i) \in SUBSET Before(j)
      BY <3>2
    <3> QED BY <3>1, <3>3
  <2>2. Cardinality(Before(i)) <= Cardinality(Before(j)) /\ Cardinality(Before(i)) # Cardinality(Before(j))
    BY <1>2, <2>1, FS_Subset, Zenon
  <2> HIDE DEF Before
  <2> QED BY <1>2, <2>2
<1>4. rank \in Injection(I, 1..c)
  <2>1. rank \in [I -> 1..c]
    <3> HIDE DEF Before, c
    <3> QED BY <1>1, <1>2
  <2>2. ASSUME NEW i \in I, NEW j \in I, rank[i] = rank[j]
        PROVE  i = j
    <3>1. Cardinality(Before(i)) = Cardinality(Before(j))
      <4> HIDE DEF Before
      <4> QED BY <1>2, <2>2
    <3> HIDE DEF Before
    <3> QED BY <1>2, <1>3, <3>1
  <2> QED BY <2>1, <2>2 DEF Injection, IsInjective
<1>5. IsFiniteSet(1..c) /\ Cardinality(1..c) = c
  BY <1>1, FS_Interval
<1>6. rank \in Surjection(I, 1..c)
  <2>1. Cardinality(I) = Cardinality(1..c)
    BY <1>5
  <2> HIDE DEF rank, c
  <2> QED BY <1>4, <1>5, <2>1, FS_Injection, Zenon
<1>7. \A k \in 1..c : \E i \in I : Cardinality(Before(i)) = k - 1
  <2> TAKE k \in 1..c
  <2>1. PICK i \in I : rank[i] = k
    BY <1>6 DEF Surjection
  <2>2. rank[i] = Cardinality(Before(i)) + 1
    OBVIOUS
  <2> HIDE DEF Before, rank, c
  <2> QED BY <1>1, <1>2, <2>1, <2>2
<1> DEFINE pick(k) == CHOOSE i \in I : Cardinality(Before(i)) = k - 1
<1>8. \A k \in 1..c : pick(k) \in I /\ Cardinality(Before(pick(k))) = k - 1
  BY <1>7
<1>9. DOMAIN At(list, I) = 1..c /\ \A k \in 1..c : At(list, I)[k] = list[pick(k)]
  BY DEF At
<1>10. \A i \in I : \E k \in 1..c : pick(k) = i
  <2> TAKE i \in I
  <2> DEFINE k == Cardinality(Before(i)) + 1
  <2>1. k \in 1..c /\ k - 1 = Cardinality(Before(i))
    <3> HIDE DEF Before, c
    <3> QED BY <1>1, <1>2
  <2>2. pick(k) \in I /\ Cardinality(Before(pick(k))) = Cardinality(Before(i))
    BY <1>8, <2>1
  <2>3. pick(k) = i
    <3> DEFINE p == pick(k)
    <3>1. p \in I /\ Cardinality(Before(p)) = Cardinality(Before(i)) /\ Cardinality(Before(i)) \in Nat
      BY <1>2, <2>2
    <3> HIDE DEF p, pick, k
    <3>2. ~(p < i)
      <4> SUFFICES ASSUME p < i PROVE FALSE
        OBVIOUS
      <4>1. Cardinality(Before(p)) < Cardinality(Before(i))
        BY <1>3, <3>1, Zenon
      <4> HIDE DEF Before
      <4> QED BY <3>1, <4>1
    <3>3. ~(i < p)
      <4> SUFFICES ASSUME i < p PROVE FALSE
        OBVIOUS
      <4>1. Cardinality(Before(i)) < Cardinality(Before(p))
        BY <1>3, <3>1, Zenon
      <4> HIDE DEF Before
      <4> QED BY <3>1, <4>1
    <3>4. p = i
      BY <1>0, <3>1, <3>2, <3>3
    <3> QED BY <3>4 DEF p
  <2> QED BY <2>1, <2>3
<1>11. At(list, I) = [k \in 1..c |-> At(list, I)[k]]
  BY DEF At
<1> HIDE DEF pick, c, Before, rank
<1> QED BY <1>1, <1>8, <1>9, <1>10, <1>11 DEF c

\* Induction as a fact about a set of numbers, and the least of them.
LEMMA AllNumbers ==
  ASSUME NEW T, 0 \in T, \A n \in Nat : n \in T => n + 1 \in T
  PROVE  Nat \subseteq T
<1> SUFFICES ASSUME Nat \ T # {} PROVE FALSE
  OBVIOUS
<1>0. Nat \ T \subseteq Nat
  OBVIOUS
<1>1. PICK m \in Nat \ T : \A k \in Nat \ T : <<k, m>> \notin OpToRel(<, Nat)
  BY <1>0, WFMin, NatLessThanWellFounded, Zenon
<1>2. \A k \in Nat \ T : ~(k < m)
  BY <1>1, Zenon DEF OpToRel
<1>3. m # 0 /\ m - 1 \in Nat /\ m - 1 < m /\ (m - 1) + 1 = m
  OBVIOUS
<1>4. m - 1 \in T
  BY <1>2, <1>3
<1> QED BY <1>3, <1>4

LEMMA LeastNumber ==
  ASSUME NEW S \in SUBSET Nat, S # {}
  PROVE  \E m \in S : \A k \in S : m <= k
<1>1. PICK m \in S : \A k \in S : <<k, m>> \notin OpToRel(<, Nat)
  BY WFMin, NatLessThanWellFounded, Zenon
<1>2. \A k \in S : ~(k < m)
  BY <1>1, Zenon DEF OpToRel
<1>3. \A k \in S : m <= k
  BY <1>2
<1> QED BY <1>3

\* The rule that FirstOf takes.
LEMMA FirstIs ==
  ASSUME NEW rules, NEW n \in Nat, DOMAIN rules = 1..n,
         NEW i \in 1..n, rules[i][1], \A k \in 1..(i - 1) : ~rules[k][1]
  PROVE  FirstOf(rules) = rules[i][2]
<1> DEFINE First(k) == rules[k][1] /\ \A h \in 1..(k - 1) : ~rules[h][1]
           c == CHOOSE k \in DOMAIN rules : First(k)
<1>1. i \in DOMAIN rules /\ First(i)
  OBVIOUS
<1>2. c \in DOMAIN rules /\ First(c)
  BY <1>1
<1>3. \A h, k \in 1..n : First(h) /\ First(k) => ~(h < k)
  OBVIOUS
<1>4. c = i
  <2> HIDE DEF First, c
  <2> QED BY <1>1, <1>2, <1>3
<1>5. FirstOf(rules) = rules[c][2]
  BY DEF FirstOf
<1> QED BY <1>4, <1>5

LEMMA FirstHolds ==
  ASSUME NEW rules, NEW n \in Nat, DOMAIN rules = 1..n, \E i \in 1..n : rules[i][1]
  PROVE  \E i \in 1..n : /\ rules[i][1] /\ FirstOf(rules) = rules[i][2]
                         /\ \A k \in 1..(i - 1) : ~rules[k][1]
<1> DEFINE S == {i \in 1..n : rules[i][1]}
<1>1. S \in SUBSET Nat /\ S # {}
  OBVIOUS
<1>2. PICK m \in S : \A k \in S : m <= k
  BY <1>1, LeastNumber, Zenon
<1>3. m \in 1..n /\ rules[m][1] /\ \A k \in 1..(m - 1) : ~rules[k][1]
  BY <1>2
<1>4. FirstOf(rules) = rules[m][2]
  BY <1>3, FirstIs
<1> QED BY <1>3, <1>4

\* The entries of two lists in a row.
LEMMA ConcatIs ==
  ASSUME NEW m \in Nat, NEW n \in Nat, NEW s, NEW t,
         s = [i \in 1..m |-> s[i]], t = [i \in 1..n |-> t[i]]
  PROVE  /\ DOMAIN (s \o t) = 1..(m + n)
         /\ \A i \in 1..m : (s \o t)[i] = s[i]
         /\ \A i \in 1..n : (s \o t)[m + i] = t[i]
<1> DEFINE X == {s[i] : i \in 1..m} \cup {t[i] : i \in 1..n}
<1>1. s \in [1..m -> X] /\ t \in [1..n -> X]
  OBVIOUS
<1> HIDE DEF X
<1>2. s \in Seq(X) /\ Len(s) = m /\ t \in Seq(X) /\ Len(t) = n
  BY <1>1
<1> QED BY <1>2

-----------------------------------------------------------------------------
(* The row that is told first.                                             *)

LEMMA PriorityInt ==
  ASSUME NEW reason
  PROVE  Priority(reason) \in Int
<1> DEFINE rules == << <<reason = "world_sync_stale", 0>>, <<reason \in BlockingReason, 1>>,
             <<reason \in BootstrapReason, 2>>, <<reason \in DispatchReason, 3>>,
             <<reason \in DeliveryReason, 4>>, <<TRUE, 5>> >>
<1>1. DOMAIN rules = 1..6 /\ rules[6][1]
  OBVIOUS
<1>2. \A i \in 1..6 : rules[i][2] \in Int
  OBVIOUS
<1>3. Priority(reason) = FirstOf(rules)
  BY DEF Priority
<1> HIDE DEF rules
<1>4. \E i \in 1..6 : rules[i][1]
  BY <1>1
<1>5. \E i \in 1..6 : FirstOf(rules) = rules[i][2]
  BY <1>1, <1>4, FirstHolds
<1> QED BY <1>2, <1>3, <1>5

\* A row that no other comes before exists.
LEMMA FocusIsThere ==
  ASSUME NEW rows, NEW n \in Nat, DOMAIN rows = 1..n, n > 0,
         \A i \in 1..n : rows[i].left \in Int
  PROVE  \E i \in 1..n : Focus(rows) = rows[i]
<1> DEFINE p(i) == Priority(rows[i].reason)
           b(i) == IF rows[i].blocking THEN 0 ELSE 1
           q(i) == -rows[i].left
           Sooner(i, k) == \/ p(i) < p(k)
                           \/ p(i) = p(k) /\ b(i) < b(k)
                           \/ p(i) = p(k) /\ b(i) = b(k) /\ q(i) < q(k)
<1>1. \A i \in 1..n : p(i) \in Int /\ b(i) \in Int /\ q(i) \in Int
  BY PriorityInt
<1>2. ASSUME NEW i \in 1..n, NEW k \in 1..n
      PROVE  FocusBefore(rows[i], rows[k]) <=> Sooner(i, k)
  <2> DEFINE s == SortKey(rows[i])
             t == SortKey(rows[k])
  <2>1. /\ s[1] = p(i) /\ s[2] = b(i) /\ s[3] = q(i)
        /\ t[1] = p(k) /\ t[2] = b(k) /\ t[3] = q(k)
    BY DEF SortKey
  <2>2. FocusBefore(rows[i], rows[k]) <=>
          \E h \in 1..3 : s[h] < t[h] /\ \A g \in 1..(h - 1) : s[g] = t[g]
    BY DEF FocusBefore
  <2> HIDE DEF s, t
  <2>3. (\E h \in 1..3 : s[h] < t[h] /\ \A g \in 1..(h - 1) : s[g] = t[g]) <=>
          \/ s[1] < t[1]
          \/ s[1] = t[1] /\ s[2] < t[2]
          \/ s[1] = t[1] /\ s[2] = t[2] /\ s[3] < t[3]
    OBVIOUS
  <2> HIDE DEF p, b, q
  <2> QED BY <2>1, <2>2, <2>3
<1> DEFINE Best(m) == \E i \in 1..m : \A k \in 1..m : ~Sooner(k, i)
           T == {m \in Nat : m + 1 <= n => Best(m + 1)}
<1>3. 0 \in T
  <2>1. ~Sooner(1, 1)
    <3>1. p(1) \in Int /\ b(1) \in Int /\ q(1) \in Int
      BY <1>1
    <3> HIDE DEF p, b, q
    <3> QED BY <3>1
  <2>2. Best(1)
    <3> HIDE DEF Sooner
    <3> QED BY <2>1
  <2> HIDE DEF Best
  <2> QED BY <2>2
<1>4. ASSUME NEW m \in Nat, m \in T
      PROVE  m + 1 \in T
  <2> SUFFICES ASSUME (m + 1) + 1 <= n PROVE Best((m + 1) + 1)
    OBVIOUS
  <2>1. Best(m + 1)
    <3> HIDE DEF Best
    <3> QED BY <1>4
  <2>2. PICK i \in 1..(m + 1) : \A k \in 1..(m + 1) : ~Sooner(k, i)
    BY <2>1
  <2> DEFINE z == (m + 1) + 1
  <2>3. z \in 1..n /\ i \in 1..n /\ \A k \in 1..z : k \in 1..n /\ (k \in 1..(m + 1) \/ k = z)
    OBVIOUS
  <2> HIDE DEF z
  <2>4. ~Sooner(z, z) /\ (Sooner(z, i) => ~Sooner(i, z))
    <3>1. p(z) \in Int /\ b(z) \in Int /\ q(z) \in Int /\ p(i) \in Int /\ b(i) \in Int /\ q(i) \in Int
      BY <1>1, <2>3
    <3> HIDE DEF p, b, q
    <3> QED BY <3>1
  <2>5. \A k \in 1..n : ~Sooner(k, i) /\ Sooner(z, i) => ~Sooner(k, z)
    <3> TAKE k \in 1..n
    <3>1. /\ p(z) \in Int /\ b(z) \in Int /\ q(z) \in Int /\ p(i) \in Int /\ b(i) \in Int /\ q(i) \in Int
          /\ p(k) \in Int /\ b(k) \in Int /\ q(k) \in Int
      BY <1>1, <2>3
    <3> HIDE DEF p, b, q
    <3> QED BY <3>1
  <2> HIDE DEF Sooner
  <2>6. CASE Sooner(z, i)
    <3>1. \A k \in 1..z : ~Sooner(k, z)
      BY <2>2, <2>3, <2>4, <2>5, <2>6
    <3>2. z \in 1..z
      BY <2>3
    <3> QED BY <3>1, <3>2 DEF z
  <2>7. CASE ~Sooner(z, i)
    <3>1. \A k \in 1..z : ~Sooner(k, i)
      BY <2>2, <2>3, <2>7
    <3>2. i \in 1..z
      BY DEF z
    <3> QED BY <3>1, <3>2 DEF z
  <2> QED BY <2>6, <2>7
<1>5. Nat \subseteq T
  <2> HIDE DEF T
  <2> QED BY <1>3, <1>4, AllNumbers
<1>6. Best(n)
  <2>1. n - 1 \in T /\ (n - 1) + 1 = n
    <3>1. n - 1 \in Nat /\ (n - 1) + 1 = n
      OBVIOUS
    <3> HIDE DEF T
    <3> QED BY <1>5, <3>1
  <2> HIDE DEF Best
  <2> QED BY <2>1
<1>7. \E i \in DOMAIN rows : \A k \in DOMAIN rows : ~FocusBefore(rows[k], rows[i])
  <2> HIDE DEF Sooner
  <2> QED BY <1>2, <1>6
<1>8. rows # <<>>
  OBVIOUS
<1> QED BY <1>7, <1>8 DEF Focus

-----------------------------------------------------------------------------
(* What an export shows of the requests it was made from.                  *)

IsList(s) == \E n \in Nat : s = [i \in 1..n |-> s[i]]

\* The rows are those of the open requests.
RowsTell(rows, rs) ==
  /\ IsList(rows)
  /\ \A i \in DOMAIN rows : \E k \in DOMAIN rs :
       rs[k].open /\ rows[i].id = rs[k].id /\ rows[i].task = 1 /\ rows[i].left \in Int
  /\ \A k \in DOMAIN rs : rs[k].open => \E i \in DOMAIN rows : rows[i].id = rs[k].id

\* What the status of a capability that runs says of them, and whence the
\* blocker it names comes.
StatusTells(s, rows, rs, on) ==
  /\ s.on = on
  /\ on => s.pending = (\E k \in DOMAIN rs : rs[k].open)
  /\ ~on => s.blocker = "" /\ s.pending = FALSE
  /\ on /\ (\E k \in DOMAIN rs : rs[k].open /\ ~rs[k].released) => s.blocker # ""
  /\ \/ s.blocker \in {"", "request_inference_pending"}
     \/ s.blocker \in {"pending_requests_waiting_dispatch", "bootstrap_in_progress"} /\ DOMAIN rows # {}
     \/ \E i \in DOMAIN rows : rows[i].reason = s.blocker

Shows(f, rs, on) == RowsTell(f.rows, rs) /\ f.groups \subseteq {1} /\ StatusTells(f.status, f.rows, rs, on)

\* An export shows as much of requests that differ in their jobs only.
LEMMA ShowsAlike ==
  ASSUME NEW f, NEW rs, NEW qs, NEW on, Shows(f, rs, on), DOMAIN qs = DOMAIN rs,
         \A k \in DOMAIN rs : qs[k].id = rs[k].id /\ qs[k].open = rs[k].open /\ qs[k].released = rs[k].released
  PROVE  Shows(f, qs, on)
<1> DEFINE rows == f.rows
           s == f.status
<1> HIDE DEF rows, s
<1>1. RowsTell(rows, rs) /\ StatusTells(s, rows, rs, on)
  BY DEF Shows, rows, s
<1>2. RowsTell(rows, qs)
  <2>1. \A i \in DOMAIN rows : \E k \in DOMAIN qs :
           qs[k].open /\ rows[i].id = qs[k].id /\ rows[i].task = 1 /\ rows[i].left \in Int
    BY <1>1 DEF RowsTell
  <2>2. \A k \in DOMAIN qs : qs[k].open => \E i \in DOMAIN rows : rows[i].id = qs[k].id
    BY <1>1 DEF RowsTell
  <2> QED BY <1>1, <2>1, <2>2 DEF RowsTell
<1>3. StatusTells(s, rows, qs, on)
  <2>1. (\E k \in DOMAIN qs : qs[k].open) <=> (\E k \in DOMAIN rs : rs[k].open)
    OBVIOUS
  <2>2. (\E k \in DOMAIN qs : qs[k].open /\ ~qs[k].released)
          <=> (\E k \in DOMAIN rs : rs[k].open /\ ~rs[k].released)
    OBVIOUS
  <2> QED BY <1>1, <2>1, <2>2, Zenon DEF StatusTells
<1> QED BY <1>2, <1>3 DEF Shows, rows, s

LEMMA AtOf ==
  ASSUME NEW list, IsList(list), NEW I \in SUBSET DOMAIN list
  PROVE  /\ IsList(At(list, I))
         /\ \A k \in DOMAIN At(list, I) : \E i \in I : At(list, I)[k] = list[i]
         /\ \A i \in I : \E k \in DOMAIN At(list, I) : At(list, I)[k] = list[i]
<1>1. PICK n \in Nat : DOMAIN list = 1..n
  BY DEF IsList
<1>2. I \in SUBSET (1..n)
  BY <1>1
<1>3. /\ Cardinality(I) \in Nat
      /\ At(list, I) = [k \in 1..Cardinality(I) |-> At(list, I)[k]]
      /\ \A k \in 1..Cardinality(I) : \E i \in I : At(list, I)[k] = list[i]
      /\ \A i \in I : \E k \in 1..Cardinality(I) : At(list, I)[k] = list[i]
      /\ Cardinality(I) = 0 <=> I = {}
  BY <1>2, AtLists, Zenon
<1> DEFINE s == At(list, I)
<1> HIDE DEF s
<1>4. /\ IsList(s)
      /\ \A k \in DOMAIN s : \E i \in I : s[k] = list[i]
      /\ \A i \in I : \E k \in DOMAIN s : s[k] = list[i]
  BY <1>3 DEF IsList, s
<1> QED BY <1>4 DEF s

LEMMA ListHead ==
  ASSUME NEW s, IsList(s), DOMAIN s # {}, NEW x
  PROVE  1 \in DOMAIN s /\ (s \o <<x>>)[1] = s[1]
<1> DEFINE t == <<x>>
<1>1. PICK n \in Nat : s = [i \in 1..n |-> s[i]]
  BY DEF IsList
<1>2. DOMAIN s = 1..n
  BY <1>1
<1>3. n # 0
  BY <1>2
<1>4. t = [i \in 1..1 |-> t[i]]
  OBVIOUS
<1> HIDE DEF t
<1>5. \A i \in 1..n : (s \o t)[i] = s[i]
  BY <1>1, <1>4, ConcatIs
<1>6. 1 \in 1..n
  BY <1>3
<1> QED BY <1>2, <1>5, <1>6 DEF t

LEMMA ListEmpty ==
  ASSUME NEW s, IsList(s)
  PROVE  s = <<>> <=> DOMAIN s = {}
<1>1. PICK n \in Nat : s = [i \in 1..n |-> s[i]]
  BY DEF IsList
<1>2. CASE n = 0
  <2>1. s = <<>> /\ DOMAIN s = {}
    BY <1>1, <1>2
  <2> QED BY <2>1
<1>3. CASE n # 0
  <2>1. 1 \in DOMAIN s
    BY <1>1, <1>3
  <2> QED BY <2>1
<1> QED BY <1>2, <1>3

LEMMA OpenListed ==
  ASSUME NEW rs, IsList(rs)
  PROVE  LET pending == Those(rs, LAMBDA r : r.open) IN
         /\ IsList(pending)
         /\ \A i \in DOMAIN pending : \E k \in DOMAIN rs : rs[k].open /\ pending[i] = rs[k]
         /\ \A k \in DOMAIN rs : rs[k].open => \E i \in DOMAIN pending : pending[i] = rs[k]
         /\ pending # <<>> <=> \E k \in DOMAIN rs : rs[k].open
<1> DEFINE I == {k \in DOMAIN rs : rs[k].open}
           pending == Those(rs, LAMBDA r : r.open)
<1>1. pending = At(rs, I)
  BY DEF Those
<1>2. I \in SUBSET DOMAIN rs
  OBVIOUS
<1> HIDE DEF pending, I
<1>3. /\ IsList(pending)
      /\ \A k \in DOMAIN pending : \E i \in I : pending[k] = rs[i]
      /\ \A i \in I : \E k \in DOMAIN pending : pending[k] = rs[i]
  BY <1>1, <1>2, AtOf
<1>4. pending # <<>> <=> I # {}
  BY <1>3, ListEmpty
<1>5. /\ IsList(pending)
      /\ \A i \in DOMAIN pending : \E k \in DOMAIN rs : rs[k].open /\ pending[i] = rs[k]
      /\ \A k \in DOMAIN rs : rs[k].open => \E i \in DOMAIN pending : pending[i] = rs[k]
      /\ pending # <<>> <=> \E k \in DOMAIN rs : rs[k].open
  BY <1>3, <1>4 DEF I
<1> QED BY <1>5 DEF pending

LEMMA RowsListed ==
  ASSUME NEW w, NEW rs, IsList(rs)
  PROVE  /\ IsList(Rows(w, rs))
         /\ \A i \in DOMAIN Rows(w, rs) : \E k \in DOMAIN rs : rs[k].open /\ Rows(w, rs)[i] = Row(w, rs[k])
         /\ \A k \in DOMAIN rs : rs[k].open => \E i \in DOMAIN Rows(w, rs) : Rows(w, rs)[i] = Row(w, rs[k])
<1> DEFINE pending == Those(rs, LAMBDA r : r.open)
           rows == Rows(w, rs)
<1>1. /\ IsList(pending)
      /\ \A i \in DOMAIN pending : \E k \in DOMAIN rs : rs[k].open /\ pending[i] = rs[k]
      /\ \A k \in DOMAIN rs : rs[k].open => \E i \in DOMAIN pending : pending[i] = rs[k]
  BY OpenListed, Zenon
<1>2. rows = [i \in DOMAIN pending |-> Row(w, pending[i])]
  BY DEF Rows
<1> HIDE DEF pending, rows
<1>3. DOMAIN rows = DOMAIN pending /\ \A i \in DOMAIN pending : rows[i] = Row(w, pending[i])
  BY <1>2
<1>4. /\ IsList(rows)
      /\ \A i \in DOMAIN rows : \E k \in DOMAIN rs : rs[k].open /\ rows[i] = Row(w, rs[k])
      /\ \A k \in DOMAIN rs : rs[k].open => \E i \in DOMAIN rows : rows[i] = Row(w, rs[k])
  <2>1. PICK n \in Nat : pending = [i \in 1..n |-> pending[i]]
    BY <1>1 DEF IsList
  <2>2. rows = [i \in 1..n |-> rows[i]]
    <3>1. DOMAIN pending = 1..n
      BY <2>1
    <3> QED BY <1>2, <3>1
  <2>3. IsList(rows)
    BY <2>2 DEF IsList
  <2> QED BY <1>1, <1>3, <2>3
<1> QED BY <1>4 DEF rows

\* The status of the capability, of the requests rs and the rows made of them.
LEMMA StatusShows ==
  ASSUME NEW on \in BOOLEAN, NEW jobs, NEW rs, IsList(rs), NEW rows, NEW note, RowsTell(rows, rs),
         NEW s, s = CapabilityStatus(on, jobs, rs, rows, note)
  PROVE  StatusTells(s, rows, rs, on)
<1>0. \A k \in DOMAIN rs : rs[k].open => \E i \in DOMAIN rows : rows[i].id = rs[k].id
  BY DEF RowsTell
<1>1. CASE ~on
  <2>1. s = NoStatus /\ on = FALSE
    BY <1>1 DEF CapabilityStatus
  <2>2. NoStatus.on = FALSE /\ NoStatus.blocker = "" /\ NoStatus.pending = FALSE
    BY DEF NoStatus
  <2>3. s.on = FALSE /\ s.blocker = "" /\ s.pending = FALSE
    BY <2>1, <2>2
  <2> QED BY <2>1, <2>3 DEF StatusTells
<1>2. CASE on
  <2> DEFINE pending     == Those(rs, LAMBDA r : r.open)
             dispatch == Some(pending, LAMBDA r : ~r.boot /\ ~r.released)
             boots    == Some(pending, LAMBDA r : r.boot /\ ~r.released)
             reasons  == [i \in DOMAIN BlockerOf |->
                            <<Some(rows, LAMBDA x : x.reason = BlockerOf[i][1]), BlockerOf[i][2]>>]
             rest     == << <<dispatch, "pending_requests_waiting_dispatch">>,
                            <<boots, "bootstrap_in_progress">>, <<TRUE, "">> >>
             rules    == reasons \o rest
  <2>1. s.on = on /\ s.pending = (pending # <<>>) /\ s.blocker = FirstOf(rules)
    BY <1>2 DEF CapabilityStatus
  <2>2. /\ \A i \in DOMAIN pending : \E k \in DOMAIN rs : rs[k].open /\ pending[i] = rs[k]
        /\ \A k \in DOMAIN rs : rs[k].open => \E i \in DOMAIN pending : pending[i] = rs[k]
        /\ pending # <<>> <=> \E k \in DOMAIN rs : rs[k].open
    BY OpenListed, Zenon
  <2>3. dispatch \/ boots <=> \E k \in DOMAIN rs : rs[k].open /\ ~rs[k].released
    <3>1. dispatch <=> \E i \in DOMAIN pending : ~pending[i].boot /\ ~pending[i].released
      BY DEF Some
    <3>2. boots <=> \E i \in DOMAIN pending : pending[i].boot /\ ~pending[i].released
      BY DEF Some
    <3> HIDE DEF pending, dispatch, boots
    <3> QED BY <2>2, <3>1, <3>2
  <2>4. /\ DOMAIN rules = 1..12
        /\ \A i \in 1..9 : rules[i] = reasons[i]
        /\ rules[10] = rest[1] /\ rules[11] = rest[2] /\ rules[12] = rest[3]
    <3>1. DOMAIN BlockerOf = 1..9
      BY DEF BlockerOf
    <3>2. reasons = [i \in 1..9 |-> reasons[i]]
      BY <3>1
    <3>3. rest = [i \in 1..3 |-> rest[i]]
      OBVIOUS
    <3> HIDE DEF reasons, rest
    <3>4. /\ DOMAIN rules = 1..(9 + 3)
          /\ \A i \in 1..9 : rules[i] = reasons[i]
          /\ \A i \in 1..3 : rules[9 + i] = rest[i]
      BY <3>2, <3>3, ConcatIs
    <3> HIDE DEF rules
    <3> QED BY <3>4
  <2>5. /\ rest[1][1] <=> dispatch
        /\ rest[2][1] <=> boots
        /\ rest[3][1]
        /\ rest[1][2] = "pending_requests_waiting_dispatch"
        /\ rest[2][2] = "bootstrap_in_progress"
        /\ rest[3][2] = ""
    OBVIOUS
  <2>6. \A i \in 1..9 : /\ reasons[i][1] <=> \E k \in DOMAIN rows : rows[k].reason = BlockerOf[i][1]
                        /\ reasons[i][2] = BlockerOf[i][2]
    BY DEF Some, BlockerOf
  <2>7. \A i \in 1..9 : /\ BlockerOf[i][2] # ""
                        /\ BlockerOf[i][2] = BlockerOf[i][1] \/ BlockerOf[i][2] = "request_inference_pending"
    <3> DEFINE Good(r) == r[2] # "" /\ (r[2] = r[1] \/ r[2] = "request_inference_pending")
    <3>1. /\ Good(BlockerOf[1]) /\ Good(BlockerOf[2]) /\ Good(BlockerOf[3])
          /\ Good(BlockerOf[4]) /\ Good(BlockerOf[5]) /\ Good(BlockerOf[6])
          /\ Good(BlockerOf[7]) /\ Good(BlockerOf[8]) /\ Good(BlockerOf[9])
      BY DEF BlockerOf
    <3>2. \A i \in 1..9 : Good(BlockerOf[i])
      <4> HIDE DEF Good
      <4> QED BY <3>1
    <3> QED BY <3>2
  <2> HIDE DEF reasons, rest, rules
  <2>8. PICK i \in 1..12 : /\ rules[i][1] /\ FirstOf(rules) = rules[i][2]
                           /\ \A k \in 1..(i - 1) : ~rules[k][1]
    <3>1. rules[12][1]
      BY <2>4, <2>5
    <3>2. \E i \in 1..12 : rules[i][1]
      BY <3>1
    <3> QED BY <2>4, <3>2, FirstHolds
  <2>9. dispatch \/ boots => DOMAIN rows # {}
    <3> HIDE DEF dispatch, boots
    <3> QED BY <1>0, <2>3
  <2> HIDE DEF dispatch, boots, pending
  <2>10. on = TRUE /\ s.on = on /\ s.pending = (\E k \in DOMAIN rs : rs[k].open)
    BY <1>2, <2>1, <2>2
  <2>11. CASE i \in 1..9
    <3>1. reasons[i][1] /\ s.blocker = BlockerOf[i][2]
      BY <2>1, <2>4, <2>6, <2>8, <2>11
    <3>2. PICK k \in DOMAIN rows : rows[k].reason = BlockerOf[i][1]
      BY <2>6, <2>11, <3>1
    <3>3. s.blocker # "" /\ (s.blocker = BlockerOf[i][1] \/ s.blocker = "request_inference_pending")
      BY <2>7, <2>11, <3>1
    <3> QED BY <2>10, <3>2, <3>3 DEF StatusTells
  <2>12. CASE i = 10
    <3>1. dispatch /\ s.blocker = "pending_requests_waiting_dispatch"
      BY <2>1, <2>4, <2>5, <2>8, <2>12
    <3> QED BY <2>9, <2>10, <3>1 DEF StatusTells
  <2>13. CASE i = 11
    <3>1. boots /\ s.blocker = "bootstrap_in_progress"
      BY <2>1, <2>4, <2>5, <2>8, <2>13
    <3> QED BY <2>9, <2>10, <3>1 DEF StatusTells
  <2>14. CASE i = 12
    <3>1. ~rules[10][1] /\ ~rules[11][1]
      <4>1. 10 \in 1..(i - 1) /\ 11 \in 1..(i - 1)
        BY <2>14
      <4> QED BY <2>8, <4>1
    <3>3. s.blocker = ""
      BY <2>1, <2>4, <2>5, <2>8, <2>14
    <3>2. ~dispatch /\ ~boots
      BY <2>4, <2>5, <3>1
    <3> QED BY <2>3, <2>10, <3>2, <3>3 DEF StatusTells
  <2>15. i \in 1..9 \/ i = 10 \/ i = 11 \/ i = 12
    OBVIOUS
  <2> QED BY <2>11, <2>12, <2>13, <2>14, <2>15
<1> QED BY <1>1, <1>2

LEMMA ExportShows ==
  ASSUME NEW rs, IsList(rs), \A k \in DOMAIN rs : rs[k].task = 1 /\ rs[k].left \in Int,
         NEW on \in BOOLEAN, NEW d, NEW j, NEW g
  PROVE  Shows(Export(rs, on, d, j, g), rs, on)
<1> DEFINE rows == Rows(world, rs)
           s    == CapabilityStatus(on, Producing(rs), rs, rows, d)
           f    == Export(rs, on, d, j, g)
<1>1. /\ IsList(rows)
      /\ \A i \in DOMAIN rows : \E k \in DOMAIN rs : rs[k].open /\ rows[i] = Row(world, rs[k])
      /\ \A k \in DOMAIN rs : rs[k].open => \E i \in DOMAIN rows : rows[i] = Row(world, rs[k])
  BY RowsListed
<1>2. \A r : Row(world, r).id = r.id /\ Row(world, r).task = r.task /\ Row(world, r).left = r.left
  BY DEF Row
<1>3. f.rows = rows /\ f.status = s /\ f.groups \subseteq {1}
  BY DEF Export
<1> HIDE DEF rows, f, s
<1>4. RowsTell(rows, rs)
  BY <1>1, <1>2 DEF RowsTell
<1>5. StatusTells(s, rows, rs, on)
  BY <1>4, StatusShows DEF s
<1> QED BY <1>3, <1>4, <1>5 DEF Shows, f

-----------------------------------------------------------------------------
(* The rows of a task and what is told of them.                            *)

LEMMA MineListed ==
  ASSUME NEW rows, IsList(rows), NEW t
  PROVE  /\ IsList(OfTask(rows, t))
         /\ \A i \in DOMAIN OfTask(rows, t) : \E k \in DOMAIN rows : rows[k].task = t /\ OfTask(rows, t)[i] = rows[k]
         /\ \A k \in DOMAIN rows : rows[k].task = t => \E i \in DOMAIN OfTask(rows, t) : OfTask(rows, t)[i] = rows[k]
<1> DEFINE I == {k \in DOMAIN rows : rows[k].task = t}
           s == OfTask(rows, t)
<1>1. s = At(rows, I)
  BY DEF OfTask, Those
<1>2. I \in SUBSET DOMAIN rows
  OBVIOUS
<1> HIDE DEF s, I
<1>3. /\ IsList(s)
      /\ \A k \in DOMAIN s : \E i \in I : s[k] = rows[i]
      /\ \A i \in I : \E k \in DOMAIN s : s[k] = rows[i]
  BY <1>1, <1>2, AtOf
<1>4. /\ \A i \in DOMAIN s : \E k \in DOMAIN rows : rows[k].task = t /\ s[i] = rows[k]
      /\ \A k \in DOMAIN rows : rows[k].task = t => \E i \in DOMAIN s : s[i] = rows[k]
  BY <1>3 DEF I
<1> QED BY <1>3, <1>4 DEF s

\* The rows of a task 1 are all of them.
LEMMA RowsAreMine ==
  ASSUME NEW rows, NEW rs, RowsTell(rows, rs)
  PROVE  RowsTell(OfTask(rows, 1), rs)
<1> DEFINE s == OfTask(rows, 1)
<1>1. IsList(rows) /\ \A k \in DOMAIN rows : rows[k].task = 1
  BY DEF RowsTell
<1>2. /\ IsList(s)
      /\ \A i \in DOMAIN s : \E k \in DOMAIN rows : s[i] = rows[k]
      /\ \A k \in DOMAIN rows : \E i \in DOMAIN s : s[i] = rows[k]
  BY <1>1, MineListed
<1> HIDE DEF s
<1>3. \A i \in DOMAIN s : \E k \in DOMAIN rs :
        rs[k].open /\ s[i].id = rs[k].id /\ s[i].task = 1 /\ s[i].left \in Int
  BY <1>2 DEF RowsTell
<1>4. \A k \in DOMAIN rs : rs[k].open => \E i \in DOMAIN s : s[i].id = rs[k].id
  BY <1>2 DEF RowsTell
<1>5. RowsTell(s, rs)
  BY <1>2, <1>3, <1>4 DEF RowsTell
<1> QED BY <1>5 DEF s

LEMMA IdsTold ==
  ASSUME NEW rows, NEW rs, RowsTell(rows, rs)
  PROVE  /\ {rows[i].id : i \in DOMAIN rows} = Open(rs)
         /\ Open(rs) # {} <=> \E k \in DOMAIN rs : rs[k].open
         /\ rows # <<>> <=> Open(rs) # {}
         /\ DOMAIN rows # {} <=> Open(rs) # {}
<1>1. \A id : id \in Open(rs) <=> \E k \in DOMAIN rs : rs[k].open /\ id = rs[k].id
  BY DEF Open
<1>2. \A i \in DOMAIN rows : \E k \in DOMAIN rs : rs[k].open /\ rows[i].id = rs[k].id
  BY DEF RowsTell
<1>3. \A k \in DOMAIN rs : rs[k].open => \E i \in DOMAIN rows : rows[i].id = rs[k].id
  BY DEF RowsTell
<1>4. {rows[i].id : i \in DOMAIN rows} = Open(rs)
  BY <1>1, <1>2, <1>3
<1>5. Open(rs) # {} <=> \E k \in DOMAIN rs : rs[k].open
  BY <1>1
<1>6. DOMAIN rows # {} <=> Open(rs) # {}
  BY <1>4
<1>7. rows # <<>> <=> DOMAIN rows # {}
  BY ListEmpty DEF RowsTell
<1> QED BY <1>4, <1>5, <1>6, <1>7

LEMMA FocusTold ==
  ASSUME NEW rows, NEW rs, RowsTell(rows, rs), Open(rs) # {}
  PROVE  Focus(rows).id \in Open(rs)
<1>1. PICK n \in Nat : DOMAIN rows = 1..n
  BY DEF RowsTell, IsList
<1>2. n > 0
  BY <1>1, IdsTold
<1>3. \A i \in 1..n : rows[i].left \in Int
  BY <1>1 DEF RowsTell
<1>4. PICK i \in 1..n : Focus(rows) = rows[i]
  BY <1>1, <1>2, <1>3, FocusIsThere
<1> QED BY <1>1, <1>4, IdsTold

-----------------------------------------------------------------------------
(* Cards.                                                                  *)

LEMMA BlockerTold ==
  ASSUME NEW f, NEW rs, NEW on, Shows(f, rs, on),
         f.status.blocker \notin {"", "request_inference_pending"}
  PROVE  BlockerRow(f.status.blocker, f.rows).id \in Open(rs)
<1> DEFINE b == f.status.blocker
           rows == f.rows
           I == {i \in DOMAIN rows : \/ rows[i].reason = b
                                     \/ b \in {"pending_requests_waiting_dispatch", "bootstrap_in_progress"}}
           told == At(rows, I)
<1>1. BlockerRow(b, rows) = (told \o <<NoRow>>)[1]
  BY DEF BlockerRow, Those
<1>2. I # {}
  BY DEF Shows, StatusTells
<1>3. RowsTell(rows, rs)
  BY DEF Shows
<1>4. I \in SUBSET DOMAIN rows
  OBVIOUS
<1> HIDE DEF b, rows, I
<1>5. /\ IsList(told)
      /\ \A k \in DOMAIN told : \E i \in I : told[k] = rows[i]
      /\ \A i \in I : \E k \in DOMAIN told : told[k] = rows[i]
  BY <1>3, <1>4, AtOf DEF RowsTell
<1> HIDE DEF told
<1>6. DOMAIN told # {}
  BY <1>2, <1>5
<1>7. 1 \in DOMAIN told
  BY <1>5, <1>6, ListHead
<1>8. (told \o <<NoRow>>)[1] = told[1]
  BY <1>5, <1>6, ListHead
<1>9. told[1].id \in Open(rs)
  <2>1. PICK i \in I : told[1] = rows[i]
    BY <1>5, <1>7
  <2>2. rows[i].id \in {rows[k].id : k \in DOMAIN rows}
    BY <1>4
  <2> QED BY <1>3, <2>1, <2>2, IdsTold
<1> QED BY <1>1, <1>8, <1>9 DEF b, rows

LEMMA PipelineTells ==
  ASSUME NEW reason
  PROVE  Telling(PipelineCard(reason))
<1> DEFINE rules == << <<reason = "world_sync_stale", Card("degraded", "world_sync", reason, reason)>>,
             <<reason \in BootstrapReason, Card("running", "bootstrapping", reason, "")>>,
             <<reason \in DispatchReason, Card("running", "dispatch", reason, "")>>,
             <<reason \in BlockingReason, Card("blocked", "blocked", reason, reason)>>,
             <<reason \in DeliveryReason, Card("waiting_units", "reservation", reason, "")>>,
             <<TRUE, Card("waiting_units", "reservation", "unit_reservation", "")>> >>
<1>1. DOMAIN rules = 1..6 /\ rules[6][1]
  OBVIOUS
<1>4. /\ rules[1][2] = Card("degraded", "world_sync", reason, reason)
      /\ rules[2][2] = Card("running", "bootstrapping", reason, "")
      /\ rules[3][2] = Card("running", "dispatch", reason, "")
      /\ rules[4][2] = Card("blocked", "blocked", reason, reason)
      /\ rules[5][2] = Card("waiting_units", "reservation", reason, "")
      /\ rules[6][2] = Card("waiting_units", "reservation", "unit_reservation", "")
  OBVIOUS
<1>5. PipelineCard(reason) = FirstOf(rules)
  BY DEF PipelineCard
<1> HIDE DEF rules
<1>6. \E i \in 1..6 : rules[i][1]
  BY <1>1
<1>7. PICK i \in 1..6 : FirstOf(rules) = rules[i][2]
  BY <1>1, <1>6, FirstHolds
<1>8. /\ Telling(rules[1][2]) /\ Telling(rules[2][2]) /\ Telling(rules[3][2])
      /\ Telling(rules[4][2]) /\ Telling(rules[5][2]) /\ Telling(rules[6][2])
  <2>1. /\ Telling(Card("degraded", "world_sync", reason, reason))
        /\ Telling(Card("blocked", "blocked", reason, reason))
        /\ Telling(Card("waiting_units", "reservation", reason, ""))
        /\ Telling(Card("waiting_units", "reservation", "unit_reservation", ""))
    BY DEF Telling, Card
  <2>2. Telling(Card("running", "bootstrapping", reason, "")) /\ Telling(Card("running", "dispatch", reason, ""))
    BY DEF Telling, Card
  <2> QED BY <1>4, <2>1, <2>2, Zenon
<1>9. Telling(rules[i][2])
  BY <1>8
<1> QED BY <1>5, <1>7, <1>9

\* What a card is made from.
LEMMA CardCases ==
  ASSUME NEW t, NEW f, NEW in
  PROVE  LET c == Triage(t, f, in)
             mine == OfTask(f.rows, t.id) IN
         \/ t.status \in Terminal
         \/ c = Card("degraded", "world_sync", "world_stale", "world_stale")
         \/ in.asked /\ c = Card("waiting_player", "question", "player_response", "")
         \/ in.warning /\ c = Card("blocked", "warning", "", "task_warning")
         \/ t.cap /\ c = CapabilityCard(f.status, in.truth)
         \/ ~t.cap /\ mine # <<>> /\ c = PipelineCard(FirstRow(mine).reason)
         \/ ~t.cap /\ mine = <<>>
<1> DEFINE front == << <<t.status \in Terminal, Card("completed", t.status, "", "")>>,
             <<in.stale, Card("degraded", "world_sync", "world_stale", "world_stale")>>,
             <<in.asked, Card("waiting_player", "question", "player_response", "")>>,
             <<in.warning, Card("blocked", "warning", "", "task_warning")>>,
             <<t.cap, CapabilityCard(f.status, in.truth)>> >>
           mine == OfTask(f.rows, t.id)
           rest == OrdinaryCards(t, f, in)
           rules == front \o rest
           c == Triage(t, f, in)
<1>1. c = FirstOf(rules)
  BY DEF Triage
<1>2. front = [i \in 1..5 |-> front[i]]
  OBVIOUS
<1>3. rest = [i \in 1..5 |-> rest[i]]
  BY DEF OrdinaryCards
<1>4. /\ front[1][1] <=> t.status \in Terminal
      /\ front[2][2] = Card("degraded", "world_sync", "world_stale", "world_stale")
      /\ front[3][1] <=> in.asked
      /\ front[3][2] = Card("waiting_player", "question", "player_response", "")
      /\ front[4][1] <=> in.warning
      /\ front[4][2] = Card("blocked", "warning", "", "task_warning")
      /\ front[5][1] <=> t.cap
      /\ front[5][2] = CapabilityCard(f.status, in.truth)
  OBVIOUS
<1>5. /\ rest[1][1] <=> mine # <<>>
      /\ rest[1][2] = PipelineCard(FirstRow(mine).reason)
      /\ rest[5][1]
  BY DEF OrdinaryCards
<1> HIDE DEF front, rest, mine, c
<1>6. /\ DOMAIN rules = 1..(5 + 5)
      /\ \A i \in 1..5 : rules[i] = front[i]
      /\ \A i \in 1..5 : rules[5 + i] = rest[i]
  BY <1>2, <1>3, ConcatIs
<1> HIDE DEF rules
<1>7. rules[6] = rest[1] /\ rules[10] = rest[5] /\ DOMAIN rules = 1..10
  <2>1. rules[5 + 1] = rest[1] /\ rules[5 + 5] = rest[5]
    BY <1>6
  <2> QED BY <1>6, <2>1
<1>8. \E i \in 1..10 : rules[i][1]
  <2>1. rules[10][1]
    BY <1>5, <1>7
  <2> QED BY <2>1
<1>9. PICK i \in 1..10 : /\ rules[i][1] /\ FirstOf(rules) = rules[i][2]
                         /\ \A k \in 1..(i - 1) : ~rules[k][1]
  BY <1>7, <1>8, FirstHolds
<1>10. /\ i = 1 => t.status \in Terminal
       /\ i = 2 => c = Card("degraded", "world_sync", "world_stale", "world_stale")
       /\ i = 3 => in.asked /\ c = Card("waiting_player", "question", "player_response", "")
       /\ i = 4 => in.warning /\ c = Card("blocked", "warning", "", "task_warning")
       /\ i = 5 => t.cap /\ c = CapabilityCard(f.status, in.truth)
  <2>1. i \in 1..5 => front[i][1] /\ c = front[i][2]
    BY <1>1, <1>6, <1>9
  <2>2. i = 1 \/ i = 2 \/ i = 3 \/ i = 4 \/ i = 5 => i \in 1..5
    OBVIOUS
  <2> QED BY <1>4, <2>1, <2>2, Zenon
<1>11. i > 5 => ~t.cap
  <2>1. i > 5 => 5 \in 1..(i - 1)
    OBVIOUS
  <2>2. rules[5] = front[5]
    BY <1>6
  <2> QED BY <1>4, <1>9, <2>1, <2>2, Zenon
<1>12. i > 6 => mine = <<>>
  <2>1. i > 6 => 6 \in 1..(i - 1)
    OBVIOUS
  <2> QED BY <1>5, <1>7, <1>9, <2>1
<1>13. i = 6 => mine # <<>> /\ c = PipelineCard(FirstRow(mine).reason)
  BY <1>1, <1>5, <1>7, <1>9
<1>14. i = 1 \/ i = 2 \/ i = 3 \/ i = 4 \/ i = 5 \/ i = 6 \/ i > 6
  OBVIOUS
<1> DEFINE All == \/ t.status \in Terminal
                  \/ c = Card("degraded", "world_sync", "world_stale", "world_stale")
                  \/ in.asked /\ c = Card("waiting_player", "question", "player_response", "")
                  \/ in.warning /\ c = Card("blocked", "warning", "", "task_warning")
                  \/ t.cap /\ c = CapabilityCard(f.status, in.truth)
                  \/ ~t.cap /\ mine # <<>> /\ c = PipelineCard(FirstRow(mine).reason)
                  \/ ~t.cap /\ mine = <<>>
<1>15. All
  <2>1. CASE i = 1
    BY <1>10, <2>1, Zenon
  <2>2. CASE i = 2
    BY <1>10, <2>2, Zenon
  <2>3. CASE i = 3
    BY <1>10, <2>3, Zenon
  <2>4. CASE i = 4
    BY <1>10, <2>4, Zenon
  <2>5. CASE i = 5
    BY <1>10, <2>5, Zenon
  <2>6. CASE i = 6
    <3>1. i > 5
      BY <2>6
    <3> QED BY <1>11, <1>13, <2>6, <3>1, Zenon
  <2>7. CASE i > 6
    <3>1. i > 5
      BY <2>7
    <3> QED BY <1>11, <1>12, <2>7, <3>1, Zenon
  <2> HIDE DEF All
  <2> QED BY <1>14, <2>1, <2>2, <2>3, <2>4, <2>5, <2>6, <2>7, Zenon
<1> QED BY <1>15 DEF c, mine, All

LEMMA CapabilityBusy ==
  ASSUME NEW s, NEW truth, s.pending = TRUE
  PROVE  CapabilityCard(s, truth).state \in {"blocked", "running"}
<1> DEFINE phase == FirstOf(<< <<s.phase # "", s.phase>>, <<s.jobs, "dispatch">>, <<TRUE, "idle">> >>)
           busy  == \/ phase \in {"bootstrapping", "dispatch", "fulfilling", "executing"}
                    \/ s.jobs \/ s.pending \/ s.released \/ s.reinforce
           rules == << <<truth # "", "blocked">>, <<busy, "running">>, <<TRUE, "idle">> >>
<1>1. CapabilityCard(s, truth).state = FirstOf(rules)
  BY DEF CapabilityCard, Card
<1>2. busy = TRUE
  OBVIOUS
<1> HIDE DEF busy
<1>3. /\ DOMAIN rules = 1..3 /\ rules[1][2] = "blocked" /\ rules[2][2] = "running"
      /\ rules[2][1]
  BY <1>2
<1> HIDE DEF rules
<1>4. \E i \in 1..3 : rules[i][1]
  BY <1>3
<1>5. PICK i \in 1..3 : /\ rules[i][1] /\ FirstOf(rules) = rules[i][2]
                        /\ \A k \in 1..(i - 1) : ~rules[k][1]
  BY <1>3, <1>4, FirstHolds
<1>6. i # 3
  BY <1>3, <1>5
<1> QED BY <1>1, <1>3, <1>5, <1>6

-----------------------------------------------------------------------------
(* Briefs.                                                                 *)

\* The first m entries of a list.
LEMMA FirstNIs ==
  ASSUME NEW list, NEW n \in Nat, list = [i \in 1..n |-> list[i]], NEW m \in Nat
  PROVE  /\ DOMAIN FirstN(list, m) = 1..(IF n < m THEN n ELSE m)
         /\ IsList(FirstN(list, m))
         /\ \A i \in 1..(IF n < m THEN n ELSE m) : FirstN(list, m)[i] = list[i]
<1> DEFINE S == {list[i] : i \in 1..n}
           k == IF n < m THEN n ELSE m
           sub == SubSeq(list, 1, k)
<1>1. \A i \in 1..n : list[i] \in S
  OBVIOUS
<1>2. list \in Seq(S) /\ Len(list) = n
  <2> HIDE DEF S
  <2> QED BY <1>1
<1>3. FirstN(list, m) = sub
  BY <1>2 DEF FirstN
<1>4. k \in Nat /\ 1..k \subseteq 1..n
  OBVIOUS
<1>5. \A i \in 1..k : list[i] \in S
  BY <1>1, <1>4, Zenon
<1>6. k \in Int /\ 1 \in Int
  BY <1>4
<1> HIDE DEF S, k
<1>7. /\ sub \in Seq(S)
      /\ Len(sub) = IF 1 <= k THEN k - 1 + 1 ELSE 0
      /\ \A i \in 1..(k - 1 + 1) : sub[i] = list[1 + i - 1]
  BY <1>5, <1>6, SubSeqProperties
<1> HIDE DEF sub
<1>8. Len(sub) = k
  BY <1>4, <1>7
<1>9. sub \in [1..k -> S]
  BY <1>7, <1>8, LenProperties
<1>10. IsList(sub) /\ DOMAIN sub = 1..k
  BY <1>4, <1>9 DEF IsList
<1>11. \A i \in 1..k : sub[i] = list[i]
  <2> TAKE i \in 1..k
  <2>1. i \in 1..(k - 1 + 1) /\ 1 + i - 1 = i
    BY <1>4
  <2> QED BY <1>7, <2>1
<1> QED BY <1>3, <1>10, <1>11 DEF k

LEMMA ReverseIs ==
  ASSUME NEW list, IsList(list)
  PROVE  IsList(Reverse(list))
<1>1. PICK n \in Nat : list = [i \in 1..n |-> list[i]]
  BY DEF IsList
<1> DEFINE S == {list[i] : i \in 1..n}
<1>2. \A i \in 1..n : list[i] \in S
  OBVIOUS
<1>3. Len(list) = n
  <2> HIDE DEF S
  <2> QED BY <1>1, <1>2
<1> QED BY <1>3 DEF Reverse, IsList

\* Lists one after the other.
LEMMA ListsConcat ==
  ASSUME NEW s, NEW t, IsList(s), IsList(t)
  PROVE  IsList(s \o t)
<1>1. PICK m \in Nat : s = [i \in 1..m |-> s[i]]
  BY DEF IsList
<1>2. PICK n \in Nat : t = [i \in 1..n |-> t[i]]
  BY DEF IsList
<1>3. DOMAIN (s \o t) = 1..(m + n)
  BY <1>1, <1>2, ConcatIs
<1> DEFINE S == {s[i] : i \in 1..m} \cup {t[i] : i \in 1..n}
<1>4. s \in Seq(S) /\ t \in Seq(S)
  <2>1. (\A i \in 1..m : s[i] \in S) /\ (\A i \in 1..n : t[i] \in S)
    OBVIOUS
  <2> HIDE DEF S
  <2> QED BY <1>1, <1>2, <2>1
<1>5. s \o t \in Seq(S)
  <2> HIDE DEF S
  <2> QED BY <1>4
<1>6. \E k \in Nat : s \o t \in [1..k -> S]
  <2> HIDE DEF S
  <2> QED BY <1>5, LenProperties
<1> QED BY <1>6 DEF IsList

\* The first of the entries at some indices.
LEMMA FirstOfThose ==
  ASSUME NEW list, IsList(list), NEW I \in SUBSET DOMAIN list, NEW m \in Nat \ {0}
  PROVE  LET s == FirstN(At(list, I), m) IN
         /\ IsList(s)
         /\ \A k \in DOMAIN s : \E i \in I : s[k] = list[i]
         /\ DOMAIN s # {} <=> I # {}
<1> DEFINE all == At(list, I)
           s == FirstN(all, m)
<1>1. /\ IsList(all)
      /\ \A k \in DOMAIN all : \E i \in I : all[k] = list[i]
      /\ \A i \in I : \E k \in DOMAIN all : all[k] = list[i]
  BY AtOf
<1> HIDE DEF all
<1>2. PICK n \in Nat : all = [i \in 1..n |-> all[i]]
  BY <1>1 DEF IsList
<1>3. m \in Nat
  OBVIOUS
<1>4. /\ DOMAIN s = 1..(IF n < m THEN n ELSE m)
      /\ IsList(s)
      /\ \A i \in 1..(IF n < m THEN n ELSE m) : s[i] = all[i]
  BY <1>2, <1>3, FirstNIs
<1> HIDE DEF s
<1>5. \A k \in DOMAIN s : k \in DOMAIN all /\ s[k] = all[k]
  BY <1>2, <1>4
<1>6. DOMAIN s # {} <=> n > 0
  <2>1. n > 0 => 1 \in DOMAIN s
    BY <1>4
  <2>2. DOMAIN s # {} => n > 0
    BY <1>4
  <2> QED BY <2>1, <2>2
<1>7. DOMAIN all # {} <=> I # {}
  BY <1>1
<1>8. DOMAIN all # {} <=> n > 0
  <2>1. n > 0 => 1 \in DOMAIN all
    BY <1>2
  <2> QED BY <1>2, <2>1
<1>9. \A k \in DOMAIN s : \E i \in I : s[k] = list[i]
  BY <1>1, <1>5
<1> QED BY <1>4, <1>6, <1>7, <1>8, <1>9 DEF s, all

\* The blocker comes first, and then there is place for three requests.
LEMMA BlockersListed ==
  ASSUME NEW f, NEW in, IsList(f.rows), IsList(in.signals)
  PROVE  LET lines == BlockerLines(f, in) IN
         /\ f.status.blocker # "" => lines[1] = Line("capability", f.status.blocker)
         /\ \A i \in DOMAIN f.rows : i <= 3 => \E k \in DOMAIN lines : lines[k] = Line("request", f.rows[i].id)
<1> DEFINE trouble == Those(Reverse(in.signals),
                            LAMBDA s : s.kind \in {"blocked", "constraint_violated", "decision_request"})
           one == IF f.status.blocker = "" THEN <<>> ELSE <<Line("capability", f.status.blocker)>>
           asks == [i \in DOMAIN f.rows |-> Line("request", f.rows[i].id)]
           last == [i \in DOMAIN trouble |-> Line(trouble[i].job, trouble[i].kind)]
           some == one \o asks
           all == some \o last
           blocked == f.status.blocker # ""
           told == Line("capability", f.status.blocker)
<1>1. BlockerLines(f, in) = FirstN(all, 4)
  BY DEF BlockerLines
<1>2. PICK n \in Nat : DOMAIN f.rows = 1..n
  BY DEF IsList
<1>3. asks = [i \in 1..n |-> asks[i]] /\ \A i \in 1..n : asks[i] = Line("request", f.rows[i].id)
  BY <1>2
<1>4. IsList(last)
  <2>1. IsList(Reverse(in.signals))
    BY ReverseIs
  <2>2. IsList(trouble)
    <3> DEFINE r == Reverse(in.signals)
               I == {i \in DOMAIN r : r[i].kind \in {"blocked", "constraint_violated", "decision_request"}}
    <3>1. trouble = At(r, I)
      BY DEF Those
    <3>2. I \in SUBSET DOMAIN r
      OBVIOUS
    <3> HIDE DEF trouble, r, I
    <3>3. IsList(r)
      BY <2>1 DEF r
    <3> QED BY <3>1, <3>2, <3>3, AtOf
  <2> HIDE DEF trouble
  <2> QED BY <2>2 DEF IsList
<1> HIDE DEF asks, last, trouble, some, all
<1>41. blocked => one = <<told>>
  OBVIOUS
<1>42. ~blocked => one = <<>>
  OBVIOUS
<1> HIDE DEF one, blocked, told
<1>5. PICK b \in Nat : /\ b <= 1 /\ one = [i \in 1..b |-> one[i]]
                       /\ blocked => b = 1 /\ one[1] = told
  <2>1. CASE ~blocked
    <3>1. one = [i \in 1..0 |-> one[i]]
      BY <1>42, <2>1
    <3>2. 0 \in Nat /\ 0 <= 1
      OBVIOUS
    <3> QED BY <2>1, <3>1, <3>2, Zenon
  <2>2. CASE blocked
    <3>1. one = <<told>>
      BY <1>41, <2>2
    <3>2. one = [i \in 1..1 |-> one[i]] /\ one[1] = told
      BY <3>1
    <3> QED BY <2>2, <3>2
  <2> QED BY <2>1, <2>2
<1>51. b <= 1 /\ one = [i \in 1..b |-> one[i]]
  BY <1>5, Zenon
<1>52. blocked => b = 1 /\ one[1] = told
  BY <1>5, Zenon
<1>53. b <= 1
  BY <1>51, Zenon
<1>54. asks = [i \in 1..n |-> asks[i]]
  BY <1>3, Zenon
<1> USE DEF some, all
<1>6. /\ DOMAIN some = 1..(b + n)
      /\ \A i \in 1..b : some[i] = one[i]
      /\ \A i \in 1..n : some[b + i] = asks[i]
  BY <1>54, <1>51, ConcatIs
<1>7. IsList(one) /\ IsList(asks)
  BY <1>54, <1>51 DEF IsList
<1>8. IsList(some)
  BY <1>7, ListsConcat
<1> HIDE DEF some
<1>9. some = [i \in 1..(b + n) |-> some[i]]
  BY <1>6, <1>8 DEF IsList
<1>10. PICK m \in Nat : last = [i \in 1..m |-> last[i]]
  BY <1>4 DEF IsList
<1>11. b + n \in Nat /\ (b + n) + m \in Nat
  BY <1>5
<1>12. /\ DOMAIN all = 1..((b + n) + m)
       /\ \A i \in 1..(b + n) : all[i] = some[i]
  BY <1>9, <1>10, <1>11, ConcatIs
<1>13. IsList(all)
  BY <1>4, <1>8, ListsConcat
<1> HIDE DEF all
<1> DEFINE lines == FirstN(all, 4)
           c == (b + n) + m
<1>14. c \in Nat /\ all = [i \in 1..c |-> all[i]]
  BY <1>11, <1>12, <1>13 DEF IsList
<1> HIDE DEF c
<1>15. /\ DOMAIN lines = 1..(IF c < 4 THEN c ELSE 4)
       /\ \A i \in 1..(IF c < 4 THEN c ELSE 4) : lines[i] = all[i]
  <2>1. 4 \in Nat
    OBVIOUS
  <2> QED BY <1>14, <2>1, FirstNIs, SMTT(60)
<1> HIDE DEF lines
<1> USE DEF c
<1>16. blocked => lines[1] = told
  <2> SUFFICES ASSUME blocked PROVE lines[1] = told
    OBVIOUS
  <2>1. b = 1 /\ one[1] = told
    BY <1>52
  <2>2. 1 \in 1..b /\ 1 \in 1..(b + n) /\ 1 \in 1..(IF c < 4 THEN c ELSE 4)
    BY <2>1
  <2>3. lines[1] = one[1]
    BY <1>6, <1>12, <1>15, <2>2
  <2> QED BY <2>1, <2>3
<1>17. ASSUME NEW i \in DOMAIN f.rows, i <= 3
       PROVE  \E k \in DOMAIN lines : lines[k] = Line("request", f.rows[i].id)
  <2>1. i \in 1..n /\ b <= 1
    BY <1>2, <1>53
  <2>2. b + i \in 1..(b + n) /\ b + i \in DOMAIN lines
    BY <1>15, <1>17, <2>1
  <2>3. lines[b + i] = asks[i]
    BY <1>6, <1>12, <1>15, <2>1, <2>2
  <2>4. asks[i] = Line("request", f.rows[i].id)
    BY <1>3, <2>1, Zenon
  <2> QED BY <2>2, <2>3, <2>4, Zenon
<1> QED BY <1>1, <1>16, <1>17, Zenon DEF lines, blocked, told

\* What a call is told of the exports it comes with.
LEMMA BriefShows ==
  ASSUME NEW w, NEW f, NEW in, NEW rs, NEW on \in BOOLEAN, Shows(f, rs, on), IsList(in.signals)
  PROVE  BriefTells(w, f, in)
<1> DEFINE b == DemandLines(w, f, in)
           rows == f.rows
           lines == BlockerLines(f, in)
           held == ReservationLines(w, f)
<1>1. /\ b.reservations = held /\ b.requests = rows /\ b.blockers = lines
      /\ b.work = WorkLine(f, in) /\ b.low = LowLine(w, in)
  BY DEF DemandLines
<1>2. b.work.pending = f.status.pending
  BY <1>1 DEF WorkLine
<1>3. LowLine(w, in) => w.low
  BY DEF LowLine
<1> HIDE DEF b
<1>4. IsList(rows)
  BY DEF Shows, RowsTell
<1>5. /\ f.status.blocker # "" => lines[1] = Line("capability", f.status.blocker)
      /\ \A i \in DOMAIN rows : i <= 3 => \E k \in DOMAIN lines : lines[k] = Line("request", rows[i].id)
  BY <1>4, BlockersListed, Zenon
<1>6. ToSet(held) \subseteq ToSet(rows)
  <2> DEFINE I == {i \in DOMAIN rows :
                    /\ rows[i].reserved
                    /\ \E q \in QueueType : q = QueueOf(rows[i].unit) /\ rows[i].unit \in Roster(Faction(w), q)}
  <2>1. held = FirstN(At(rows, I), 8)
    BY DEF ReservationLines, Those
  <2>2. I \in SUBSET DOMAIN rows /\ 8 \in Nat \ {0}
    OBVIOUS
  <2> HIDE DEF held, rows, I
  <2>3. \A k \in DOMAIN held : \E i \in I : held[k] = rows[i]
    BY <1>4, <2>1, <2>2, FirstOfThose
  <2> QED BY <2>2, <2>3 DEF ToSet
<1>7. f.status.pending => 1 \in DOMAIN rows
  <2> SUFFICES ASSUME f.status.pending PROVE 1 \in DOMAIN rows
    OBVIOUS
  <2>1. \E k \in DOMAIN rs : rs[k].open
    <3>1. CASE on
      BY <3>1 DEF Shows, StatusTells
    <3>2. CASE ~on
      BY <3>2 DEF Shows, StatusTells
    <3> QED BY <3>1, <3>2
  <2>2. RowsTell(rows, rs)
    BY DEF Shows
  <2> HIDE DEF rows
  <2>3. DOMAIN rows # {}
    BY <2>1, <2>2 DEF RowsTell
  <2> QED BY <1>4, <2>3, ListHead
<1> HIDE DEF lines, rows, held
<1>8. f.status.pending => lines # <<>>
  <2> SUFFICES ASSUME f.status.pending PROVE lines # <<>>
    OBVIOUS
  <2>1. 1 \in DOMAIN rows /\ 1 <= 3
    BY <1>7
  <2>2. DOMAIN lines # {}
    BY <1>5, <2>1
  <2> QED BY <2>2
<1>9. \A i \in DOMAIN b.requests : i <= 3 => Line("request", b.requests[i].id) \in {b.blockers[k] : k \in DOMAIN b.blockers}
  <2> TAKE i \in DOMAIN b.requests
  <2> HAVE i <= 3
  <2>1. PICK k \in DOMAIN lines : lines[k] = Line("request", rows[i].id)
    BY <1>1, <1>5
  <2> QED BY <1>1, <2>1
<1>10. ToSet(b.reservations) \subseteq ToSet(b.requests)
  BY <1>1, <1>6
<1>11. /\ f.status.blocker # "" => b.blockers[1] = Line("capability", f.status.blocker)
       /\ b.work.pending => b.blockers # <<>>
       /\ b.low => w.low
  BY <1>1, <1>2, <1>3, <1>5, <1>8, Zenon
<1> QED BY <1>9, <1>10, <1>11, Zenon DEF BriefTells, b

\* The ordinary agent is told of its own open requests, of one at least.
LEMMA OwnRequestsTold ==
  ASSUME NEW w, NEW f, NEW t, t.id = 1, NEW in, NEW rs, RowsTell(f.rows, rs)
  PROVE  /\ \A i \in DOMAIN OrdinaryBrief(w, f, t, in).requests : OrdinaryBrief(w, f, t, in).requests[i].id \in Open(rs)
         /\ DOMAIN OrdinaryBrief(w, f, t, in).requests = {} <=> ~\E k \in DOMAIN rs : rs[k].open
<1> DEFINE listed == OrdinaryBrief(w, f, t, in).requests
           mine == OfTask(f.rows, 1)
<1>1. listed = FirstN(mine, 2)
  BY DEF OrdinaryBrief
<1> HIDE DEF listed, mine
<1>2. RowsTell(mine, rs)
  BY RowsAreMine DEF mine
<1>3. PICK n \in Nat : mine = [i \in 1..n |-> mine[i]]
  BY <1>2 DEF RowsTell, IsList
<1>4. 2 \in Nat
  OBVIOUS
<1>5. /\ DOMAIN listed = 1..(IF n < 2 THEN n ELSE 2)
      /\ \A i \in 1..(IF n < 2 THEN n ELSE 2) : listed[i] = mine[i]
  BY <1>1, <1>3, <1>4, FirstNIs
<1>6. DOMAIN mine = 1..n
  BY <1>3
<1>7. \A i \in DOMAIN listed : i \in DOMAIN mine /\ listed[i] = mine[i]
  BY <1>5, <1>6
<1>8. \A i \in DOMAIN mine : mine[i].id \in Open(rs)
  BY <1>2, IdsTold
<1>9. DOMAIN listed # {} <=> n > 0
  <2>1. n > 0 => 1 \in DOMAIN listed
    BY <1>5
  <2>2. DOMAIN listed # {} => n > 0
    BY <1>5
  <2> QED BY <2>1, <2>2
<1>10. DOMAIN mine # {} <=> n > 0
  <2>1. n > 0 => 1 \in DOMAIN mine
    BY <1>6
  <2>2. DOMAIN mine # {} => n > 0
    BY <1>6
  <2> QED BY <2>1, <2>2
<1>11. DOMAIN mine # {} <=> \E k \in DOMAIN rs : rs[k].open
  BY <1>2, IdsTold
<1>12. DOMAIN listed = {} <=> ~\E k \in DOMAIN rs : rs[k].open
  BY <1>9, <1>10, <1>11
<1>13. \A i \in DOMAIN listed : listed[i].id \in Open(rs)
  BY <1>7, <1>8
<1> QED BY <1>12, <1>13 DEF listed

-----------------------------------------------------------------------------
(* The invariant.                                                          *)

Request ==
  [id : Nat, task : {1}, unit : {a.unit : a \in Asks}, blocking : BOOLEAN, count : Nat, start : Nat,
   released : BOOLEAN, left : Int, open : BOOLEAN, boot : BOOLEAN,
   made : {"none", "running", "succeeded", "failed"}]

BoardTyped ==
  /\ world \in Worlds
  /\ reqs \in Seq(Request) /\ \A i \in DOMAIN reqs : reqs[i].id = i
  /\ cap \in BOOLEAN /\ asleep \in BOOLEAN
  /\ taskStatus \in {"running"} \cup Terminal
  /\ messages \in Seq(Kinds)

BoardInv ==
  /\ BoardTyped
  /\ asleep => taskStatus = "running" /\ HasWait(reqs)
  /\ Shows(facts, reqs, cap)

LEMMA RequestsListed ==
  ASSUME NEW rs \in Seq(Request)
  PROVE  IsList(rs) /\ \A i \in DOMAIN rs : rs[i] \in Request /\ rs[i].task = 1 /\ rs[i].left \in Int
<1>1. rs \in [1..Len(rs) -> Request] /\ Len(rs) \in Nat
  BY LenProperties
<1>2. IsList(rs)
  BY <1>1 DEF IsList
<1>3. \A i \in DOMAIN rs : rs[i] \in Request
  BY <1>1
<1> QED BY <1>2, <1>3 DEF Request

LEMMA CapabilityNotIdle ==
  ASSUME BoardTyped, Shows(facts, reqs, cap), cap, Open(reqs) # {}
  PROVE  CardOf(2).state # "idle"
<1> DEFINE truth == IF 2 = 2 /\ Unsupported(world) THEN "faction_roster_unsupported" ELSE ""
           t == TaskOf(2)
           in == Inputs(world.stale, truth, 2 = 1 /\ questioned, IF 2 = 1 THEN messages ELSE <<>>)
           c == Triage(t, facts, in)
<1>1. t.cap = TRUE /\ t.status = "running"
  BY DEF TaskOf
<1>2. CardOf(2) = c
  BY DEF CardOf, CardWith
<1> HIDE DEF t, in
<1>3. \/ t.status \in Terminal
      \/ c = Card("degraded", "world_sync", "world_stale", "world_stale")
      \/ in.asked /\ c = Card("waiting_player", "question", "player_response", "")
      \/ in.warning /\ c = Card("blocked", "warning", "", "task_warning")
      \/ t.cap /\ c = CapabilityCard(facts.status, in.truth)
      \/ ~t.cap /\ OfTask(facts.rows, t.id) # <<>> /\ c = PipelineCard(FirstRow(OfTask(facts.rows, t.id)).reason)
      \/ ~t.cap /\ OfTask(facts.rows, t.id) = <<>>
  BY CardCases, Zenon
<1> HIDE DEF c
<1>4. t.status \notin Terminal
  BY <1>1 DEF Terminal
<1>5. facts.status.pending = TRUE
  <2>1. \E k \in DOMAIN reqs : reqs[k].open
    BY DEF Open
  <2> QED BY <2>1 DEF Shows, StatusTells
<1>6. CapabilityCard(facts.status, in.truth).state \in {"blocked", "running"}
  BY <1>5, CapabilityBusy
<1>7. \/ c = Card("degraded", "world_sync", "world_stale", "world_stale")
      \/ c = Card("waiting_player", "question", "player_response", "")
      \/ c = Card("blocked", "warning", "", "task_warning")
      \/ c = CapabilityCard(facts.status, in.truth)
  BY <1>1, <1>3, <1>4, Zenon
<1>8. c.state # "idle"
  <2>1. /\ Card("degraded", "world_sync", "world_stale", "world_stale").state = "degraded"
        /\ Card("waiting_player", "question", "player_response", "").state = "waiting_player"
        /\ Card("blocked", "warning", "", "task_warning").state = "blocked"
    BY DEF Card
  <2>2. c.state \in {"degraded", "waiting_player", "blocked", "running"}
    BY <1>6, <1>7, <2>1
  <2> QED BY <2>2
<1> QED BY <1>2, <1>8

LEMMA DemandShown ==
  ASSUME BoardInv
  PROVE  DemandIsKnown
<1>1. BoardTyped /\ Shows(facts, reqs, cap)
  BY DEF BoardInv
<1>2. IsList(reqs) /\ \A i \in DOMAIN reqs : reqs[i].id = i /\ reqs[i].task = 1
  BY <1>1, RequestsListed DEF BoardTyped
<1>3. RowsTell(facts.rows, reqs) /\ StatusTells(facts.status, facts.rows, reqs, cap)
  BY <1>1 DEF Shows
<1>4. {facts.rows[i].id : i \in DOMAIN facts.rows} = Open(reqs)
  BY <1>3, IdsTold
<1>5. facts.status.on = cap
  BY <1>3 DEF StatusTells
<1>6. cap => facts.status.pending = (Open(reqs) # {})
  <2>1. (Open(reqs) # {}) = (\E k \in DOMAIN reqs : reqs[k].open)
    BY <1>3, IdsTold
  <2> QED BY <1>3, <2>1 DEF StatusTells
<1>7. Open(reqs) # {} => HasDemand(facts.rows, facts.status) /\ Focus(facts.rows).id \in Open(reqs)
  <2>1. Open(reqs) # {} => facts.rows # <<>>
    BY <1>3, IdsTold
  <2>2. facts.rows # <<>> => HasDemand(facts.rows, facts.status)
    BY DEF HasDemand
  <2> QED BY <1>3, <2>1, <2>2, FocusTold
<1>8. cap /\ Open(reqs) # {} => CardOf(2).state # "idle"
  BY <1>1, CapabilityNotIdle
<1>9. facts.status.blocker \notin {"", "request_inference_pending"}
        => BlockerRow(facts.status.blocker, facts.rows).id \in Open(reqs)
  BY <1>1, BlockerTold
<1>10. BriefTells(world, facts, CallOf(2))
  <2>1. messages \in [1..Len(messages) -> Kinds] /\ Len(messages) \in Nat
    BY <1>1, LenProperties DEF BoardTyped
  <2>2. IsList(CallOf(2).signals)
    BY <2>1 DEF CallOf, IsList
  <2>3. cap \in BOOLEAN
    BY <1>1 DEF BoardTyped
  <2> QED BY <1>1, <2>2, <2>3, BriefShows
<1>11. LET listed == OrdinaryBrief(world, facts, TaskOf(1), CallOf(1)).requests
           told == {listed[i] : i \in DOMAIN listed} IN
       /\ {x.id : x \in told} \subseteq {id \in Open(reqs) : reqs[id].task = 1}
       /\ (told = {}) = (\A i \in DOMAIN reqs : reqs[i].open => reqs[i].task # 1)
  <2>1. TaskOf(1).id = 1
    BY DEF TaskOf
  <2> DEFINE listed == OrdinaryBrief(world, facts, TaskOf(1), CallOf(1)).requests
             told == {listed[i] : i \in DOMAIN listed}
  <2>2. /\ \A i \in DOMAIN listed : listed[i].id \in Open(reqs)
        /\ DOMAIN listed = {} <=> ~\E k \in DOMAIN reqs : reqs[k].open
    BY <1>3, <2>1, OwnRequestsTold, Zenon
  <2> HIDE DEF listed
  <2>3. \A id \in Open(reqs) : reqs[id].task = 1
    BY <1>2 DEF Open
  <2>4. {x.id : x \in told} \subseteq {id \in Open(reqs) : reqs[id].task = 1}
    BY <2>2, <2>3
  <2>5. told = {} <=> DOMAIN listed = {}
    OBVIOUS
  <2> HIDE DEF told
  <2>6. (told = {}) = (\A i \in DOMAIN reqs : reqs[i].open => reqs[i].task # 1)
    BY <1>2, <2>2, <2>5
  <2> QED BY <2>4, <2>6 DEF told, listed
<1> QED BY <1>4, <1>5, <1>6, <1>7, <1>8, <1>9, <1>10, <1>11, Zenon DEF DemandIsKnown

\* What an export made after the step shows.
LEMMA SyncShows ==
  ASSUME NEW rs \in Seq(Request), NEW on \in BOOLEAN, NEW d, NEW j, NEW g
  PROVE  Shows(Export(rs, on, d, j, g), rs, on)
BY RequestsListed, ExportShows

\* A request that is asked for is one; one that was changed still is.
LEMMA AskedIs ==
  ASSUME BoardTyped, NEW a \in Asks, NEW n \in 0..a.count,
         NEW req, NEW starts \in BOOLEAN,
         req = [id |-> Len(reqs) + 1, task |-> 1, unit |-> a.unit, blocking |-> a.blocking,
                count |-> a.count, start |-> a.start, released |-> n >= a.start, left |-> a.count - n,
                open |-> n < a.count, boot |-> starts, made |-> IF starts THEN "running" ELSE "none"]
  PROVE  /\ req \in Request
         /\ Append(reqs, req) \in Seq(Request)
         /\ \A i \in DOMAIN Append(reqs, req) : Append(reqs, req)[i].id = i
<1>1. a.count \in Nat /\ a.start \in Nat /\ a.blocking \in BOOLEAN /\ n \in Nat
  BY BoardAssumption
<1>2. reqs \in Seq(Request) /\ \A i \in DOMAIN reqs : reqs[i].id = i
  BY DEF BoardTyped
<1>3. Len(reqs) \in Nat /\ DOMAIN reqs = 1..Len(reqs)
  BY <1>2, LenProperties
<1>4. req \in Request
  <2>1. /\ Len(reqs) + 1 \in Nat /\ a.count - n \in Int /\ a.unit \in {x.unit : x \in Asks}
        /\ (n >= a.start) \in BOOLEAN /\ (n < a.count) \in BOOLEAN
        /\ (IF starts THEN "running" ELSE "none") \in {"none", "running", "succeeded", "failed"}
    BY <1>1, <1>3
  <2> QED BY <1>1, <2>1 DEF Request
<1>5. req.id = Len(reqs) + 1
  OBVIOUS
<1> DEFINE all == Append(reqs, req)
<1>6. /\ all \in Seq(Request) /\ DOMAIN all = 1..(Len(reqs) + 1)
      /\ \A i \in 1..Len(reqs) : all[i] = reqs[i]
      /\ all[Len(reqs) + 1] = req
  BY <1>2, <1>3, <1>4
<1> HIDE DEF all
<1>7. \A i \in DOMAIN all : all[i].id = i
  <2> TAKE i \in DOMAIN all
  <2>1. CASE i = Len(reqs) + 1
    BY <1>5, <1>6, <2>1
  <2>2. CASE i # Len(reqs) + 1
    <3>1. i \in 1..Len(reqs)
      BY <1>3, <1>6, <2>2
    <3> QED BY <1>2, <1>3, <1>6, <3>1
  <2> QED BY <2>1, <2>2
<1> QED BY <1>4, <1>6, <1>7 DEF all

\* A list of requests of which each one keeps its number.
LEMMA ChangedAre ==
  ASSUME NEW rs \in Seq(Request), NEW qs, DOMAIN qs = DOMAIN rs, qs = [k \in DOMAIN rs |-> qs[k]],
         \A k \in DOMAIN rs : qs[k] \in Request /\ qs[k].id = rs[k].id,
         \A k \in DOMAIN rs : rs[k].id = k
  PROVE  qs \in Seq(Request) /\ \A k \in DOMAIN qs : qs[k].id = k
<1>1. Len(rs) \in Nat /\ DOMAIN rs = 1..Len(rs)
  BY LenProperties
<1> DEFINE n == Len(rs)
<1>2. n \in Nat /\ qs = [k \in 1..n |-> qs[k]] /\ \A k \in 1..n : qs[k] \in Request
  BY <1>1
<1> HIDE DEF n
<1>3. qs \in Seq(Request)
  BY <1>2
<1> QED BY <1>3

LEMMA ReconciledIs ==
  ASSUME NEW r \in Request, NEW u
  PROVE  /\ Reconciled(r, u) \in Request
         /\ Reconciled(r, u).id = r.id /\ Reconciled(r, u).open = r.open
         /\ Reconciled(r, u).released = r.released /\ Waits(Reconciled(r, u)) = Waits(r)
<1>1. Reconciled(r, u) = r \/ Reconciled(r, u) = [r EXCEPT !.boot = FALSE, !.made = "none"]
  BY DEF Reconciled
<1> QED BY <1>1 DEF Request, Waits

LEMMA ReleasedIs ==
  ASSUME NEW r \in Request
  PROVE  Released(r) \in Request /\ Released(r).id = r.id
BY DEF Released, Request

LEMMA UnmadeIs ==
  ASSUME NEW r \in Request
  PROVE  /\ Unmade(r) \in Request
         /\ Unmade(r).id = r.id /\ Unmade(r).open = r.open
         /\ Unmade(r).released = r.released /\ Waits(Unmade(r)) = Waits(r)
<1>1. Unmade(r) = r \/ Unmade(r) = [r EXCEPT !.boot = FALSE, !.made = "none"]
  BY DEF Unmade
<1> QED BY <1>1 DEF Request, Waits

LEMMA CancelledIs ==
  ASSUME NEW r \in Request
  PROVE  Withdrawn(r) \in Request /\ Withdrawn(r).id = r.id
<1>1. Withdrawn(r) = r \/ Withdrawn(r) = [Unmade(r) EXCEPT !.open = FALSE]
  BY DEF Withdrawn
<1>2. Unmade(r) \in Request /\ Unmade(r).id = r.id
  BY UnmadeIs
<1> HIDE DEF Unmade
<1> QED BY <1>1, <1>2 DEF Request

LEMMA MadeIs ==
  ASSUME NEW r \in Request, NEW m \in {"none", "running", "succeeded", "failed"}
  PROVE  /\ [r EXCEPT !.made = m] \in Request
         /\ [r EXCEPT !.made = m].id = r.id /\ [r EXCEPT !.made = m].open = r.open
         /\ [r EXCEPT !.made = m].released = r.released /\ Waits([r EXCEPT !.made = m]) = Waits(r)
BY DEF Request, Waits

\* Requests that wait alike.
LEMMA WaitsAlike ==
  ASSUME NEW rs, NEW qs, DOMAIN qs = DOMAIN rs, \A k \in DOMAIN rs : Waits(qs[k]) = Waits(rs[k])
  PROVE  HasWait(qs) = HasWait(rs)
BY DEF HasWait

\* An export that is made last shows what the step leaves.
LEMMA SyncStep ==
  ASSUME world' = world, reqs' \in Seq(Request), cap' \in BOOLEAN, Sync
  PROVE  Shows(facts', reqs', cap')
BY SyncShows DEF Sync

LEMMA InitBoard == BoardInit => BoardInv
<1> SUFFICES ASSUME BoardInit PROVE BoardInv
  OBVIOUS
<1>1. <<>> \in Seq(Request) /\ <<>> \in Seq(Kinds) /\ DOMAIN <<>> = {}
  OBVIOUS
<1>2. BoardTyped
  BY <1>1 DEF BoardInit, BoardTyped
<1>3. Shows(Export(<<>>, TRUE, FALSE, "none", FALSE), <<>>, TRUE)
  BY <1>1, SyncShows
<1>4. asleep = FALSE
  BY DEF BoardInit
<1>5. Shows(facts, reqs, cap)
  BY <1>3 DEF BoardInit
<1> QED BY <1>2, <1>4, <1>5 DEF BoardInv

LEMMA AskKeeps ==
  ASSUME BoardInv, NEW a \in Asks, NEW n \in 0..a.count, Ask(a, n)
  PROVE  BoardInv'
<1> DEFINE starts == n < a.count /\ QueueOf(a.unit) # "" /\ CanIssueNow(world, a.unit, QueueOf(a.unit))
           req == [id |-> Len(reqs) + 1, task |-> 1, unit |-> a.unit, blocking |-> a.blocking,
                   count |-> a.count, start |-> a.start, released |-> n >= a.start, left |-> a.count - n,
                   open |-> n < a.count, boot |-> starts, made |-> IF starts THEN "running" ELSE "none"]
<1>1. BoardTyped
  BY DEF BoardInv
<1>2. /\ reqs' = Append(reqs, req) /\ cap' = (cap \/ starts)
      /\ asleep' = (n < a.count /\ HasWait(reqs')) /\ taskStatus = "running"
      /\ world' = world /\ taskStatus' = taskStatus /\ messages' = messages /\ Sync
  BY DEF Ask
<1>3. starts \in BOOLEAN
  OBVIOUS
<1> HIDE DEF starts
<1>4. /\ Append(reqs, req) \in Seq(Request)
      /\ \A i \in DOMAIN Append(reqs, req) : Append(reqs, req)[i].id = i
  BY <1>1, <1>3, AskedIs
<1> HIDE DEF req
<1>5. cap' \in BOOLEAN /\ asleep' \in BOOLEAN /\ (asleep' => HasWait(reqs'))
  BY <1>2
<1>6. Shows(facts', reqs', cap')
  BY <1>2, <1>4, <1>5, SyncStep
<1>7. BoardTyped'
  BY <1>1, <1>2, <1>4, <1>5 DEF BoardTyped
<1>8. asleep' => taskStatus' = "running" /\ HasWait(reqs)'
  BY <1>2, <1>5 DEF HasWait
<1> QED BY <1>6, <1>7, <1>8 DEF BoardInv

LEMMA DeliverKeeps ==
  ASSUME BoardInv, NEW i \in DOMAIN reqs, NEW unordered \in BOOLEAN, Deliver(i, unordered)
  PROVE  BoardInv'
<1> DEFINE r == [reqs[i] EXCEPT !.left = @ - 1, !.open = reqs[i].left > 1]
           got == Given(i, unordered)
           wakes == taskStatus = "running" /\ ~HasWait(got)
<1>1. BoardTyped /\ reqs \in Seq(Request) /\ (\A k \in DOMAIN reqs : reqs[k].id = k) /\ asleep \in BOOLEAN
  BY DEF BoardInv, BoardTyped
<1>2. /\ reqs' = IF wakes THEN [k \in DOMAIN got |-> Released(got[k])] ELSE got
      /\ asleep' = (asleep /\ ~wakes)
      /\ world' = world /\ cap' = cap /\ taskStatus' = taskStatus /\ messages' = messages /\ Sync
  BY DEF Deliver
<1>3. \A k \in DOMAIN reqs : reqs[k] \in Request
  BY <1>1, RequestsListed
<1>4. r \in Request /\ r.id = reqs[i].id
  <2>1. reqs[i] \in Request
    BY <1>3
  <2>2. reqs[i].left - 1 \in Int /\ (reqs[i].left > 1) \in BOOLEAN
    BY <2>1 DEF Request
  <2> QED BY <2>1, <2>2 DEF Request
<1>50. got = [reqs EXCEPT ![i] = Reconciled(r, unordered)]
  BY DEF Given
<1>5. Reconciled(r, unordered) \in Request /\ Reconciled(r, unordered).id = reqs[i].id
  <2> HIDE DEF r
  <2> QED BY <1>4, ReconciledIs
<1> HIDE DEF r
<1>6. /\ got = [k \in DOMAIN reqs |-> got[k]] /\ DOMAIN got = DOMAIN reqs
      /\ \A k \in DOMAIN reqs : got[k] \in Request /\ got[k].id = reqs[k].id
  BY <1>3, <1>5, <1>50
<1> HIDE DEF got
<1>7. got \in Seq(Request) /\ \A k \in DOMAIN got : got[k].id = k
  BY <1>1, <1>6, ChangedAre
<1> DEFINE all == [k \in DOMAIN got |-> Released(got[k])]
<1>8. all \in Seq(Request) /\ \A k \in DOMAIN all : all[k].id = k
  <2>1. \A k \in DOMAIN got : all[k] \in Request /\ all[k].id = got[k].id
    BY <1>6, ReleasedIs
  <2>2. DOMAIN all = DOMAIN got /\ all = [k \in DOMAIN got |-> all[k]]
    OBVIOUS
  <2> HIDE DEF all
  <2> QED BY <1>7, <2>1, <2>2, ChangedAre
<1> HIDE DEF all
<1>9. reqs' \in Seq(Request) /\ \A k \in DOMAIN reqs' : reqs'[k].id = k
  BY <1>2, <1>7, <1>8 DEF all
<1>10. cap' \in BOOLEAN /\ asleep' \in BOOLEAN
  BY <1>1, <1>2 DEF BoardTyped
<1>11. Shows(facts', reqs', cap')
  BY <1>2, <1>9, <1>10, SyncStep
<1>12. BoardTyped'
  BY <1>1, <1>2, <1>9, <1>10 DEF BoardTyped
<1>13. asleep' => taskStatus' = "running" /\ HasWait(reqs')
  <2> SUFFICES ASSUME asleep' PROVE taskStatus' = "running" /\ HasWait(reqs')
    OBVIOUS
  <2>1. asleep /\ ~wakes
    BY <1>2
  <2>2. taskStatus = "running"
    BY <2>1 DEF BoardInv
  <2>3. HasWait(got) /\ reqs' = got
    BY <1>2, <2>1, <2>2
  <2> QED BY <1>2, <2>2, <2>3
<1>14. HasWait(reqs') = HasWait(reqs)'
  BY DEF HasWait
<1> QED BY <1>11, <1>12, <1>13, <1>14 DEF BoardInv

\* Steps of which no export tells change nothing an export shows.
LEMMA QuietKeeps ==
  ASSUME BoardInv, reqs' \in Seq(Request), DOMAIN reqs' = DOMAIN reqs,
         \A k \in DOMAIN reqs : /\ reqs'[k].id = reqs[k].id /\ reqs'[k].open = reqs[k].open
                                /\ reqs'[k].released = reqs[k].released /\ Waits(reqs'[k]) = Waits(reqs[k]),
         world' \in Worlds, cap' = cap, asleep' = asleep, taskStatus' = taskStatus,
         messages' \in Seq(Kinds), facts' = facts
  PROVE  BoardInv'
<1>1. BoardTyped /\ Shows(facts, reqs, cap) /\ (asleep => taskStatus = "running" /\ HasWait(reqs))
  BY DEF BoardInv
<1>2. BoardTyped'
  BY <1>1 DEF BoardTyped
<1>3. Shows(facts, reqs', cap)
  BY <1>1, ShowsAlike
<1>4. HasWait(reqs') = HasWait(reqs)
  BY WaitsAlike
<1>5. HasWait(reqs') = HasWait(reqs)'
  BY DEF HasWait
<1> QED BY <1>1, <1>2, <1>3, <1>4, <1>5 DEF BoardInv

\* Other steps that export last.
LEMMA SyncKeeps ==
  ASSUME BoardInv, reqs' = reqs, cap' \in BOOLEAN, world' = world, asleep' = asleep, taskStatus' = taskStatus,
         messages' = messages, Sync
  PROVE  BoardInv'
<1>1. BoardTyped /\ (asleep => taskStatus = "running" /\ HasWait(reqs))
  BY DEF BoardInv
<1>2. BoardTyped'
  BY <1>1 DEF BoardTyped
<1>3. Shows(facts', reqs', cap')
  BY <1>1, SyncStep DEF BoardTyped
<1>4. HasWait(reqs)' = HasWait(reqs)
  BY DEF HasWait
<1> QED BY <1>1, <1>2, <1>3, <1>4 DEF BoardInv

LEMMA RescanKeeps ==
  ASSUME BoardInv, NEW i \in DOMAIN reqs, Rescan(i)
  PROVE  BoardInv'
<1>1. BoardTyped /\ reqs \in Seq(Request)
  BY DEF BoardInv, BoardTyped
<1>2. \A k \in DOMAIN reqs : reqs[k] \in Request
  BY <1>1, RequestsListed
<1> DEFINE new == Reconciled(reqs[i], FALSE)
<1>3. reqs' = [reqs EXCEPT ![i] = new]
  BY DEF Rescan
<1>4. /\ new \in Request /\ new.id = reqs[i].id /\ new.open = reqs[i].open
      /\ new.released = reqs[i].released /\ Waits(new) = Waits(reqs[i])
  BY <1>2, ReconciledIs
<1> HIDE DEF new
<1>5. /\ DOMAIN reqs' = DOMAIN reqs /\ reqs' = [k \in DOMAIN reqs |-> reqs'[k]]
      /\ \A k \in DOMAIN reqs : reqs'[k] = IF k = i THEN new ELSE reqs[k]
  BY <1>3
<1>6. \A k \in DOMAIN reqs : /\ reqs'[k].id = reqs[k].id /\ reqs'[k].open = reqs[k].open
                             /\ reqs'[k].released = reqs[k].released /\ Waits(reqs'[k]) = Waits(reqs[k])
  BY <1>4, <1>5
<1>7. \A k \in DOMAIN reqs : reqs'[k] \in Request /\ reqs'[k].id = reqs[k].id
  BY <1>2, <1>4, <1>5
<1>8. \A k \in DOMAIN reqs : reqs[k].id = k
  BY <1>1 DEF BoardTyped
<1>9. reqs' \in Seq(Request)
  BY <1>1, <1>5, <1>7, <1>8, ChangedAre
<1>10. world' \in Worlds /\ cap' = cap /\ asleep' = asleep /\ taskStatus' = taskStatus
       /\ messages' \in Seq(Kinds) /\ facts' = facts
  BY <1>1 DEF Rescan, BoardTyped
<1> QED BY <1>5, <1>6, <1>9, <1>10, QuietKeeps

LEMMA BootEndsKeeps ==
  ASSUME BoardInv, NEW i \in DOMAIN reqs, NEW how \in {"succeeded", "failed"}, BootEnds(i, how)
  PROVE  BoardInv'
<1>1. BoardTyped /\ reqs \in Seq(Request)
  BY DEF BoardInv, BoardTyped
<1>2. \A k \in DOMAIN reqs : reqs[k] \in Request
  BY <1>1, RequestsListed
<1> DEFINE new == [reqs[i] EXCEPT !.made = how]
<1>3. reqs' = [reqs EXCEPT ![i] = new]
  BY DEF BootEnds
<1>4. /\ new \in Request /\ new.id = reqs[i].id /\ new.open = reqs[i].open
      /\ new.released = reqs[i].released /\ Waits(new) = Waits(reqs[i])
  BY <1>2, MadeIs
<1> HIDE DEF new
<1>5. /\ DOMAIN reqs' = DOMAIN reqs /\ reqs' = [k \in DOMAIN reqs |-> reqs'[k]]
      /\ \A k \in DOMAIN reqs : reqs'[k] = IF k = i THEN new ELSE reqs[k]
  BY <1>3
<1>6. \A k \in DOMAIN reqs : /\ reqs'[k].id = reqs[k].id /\ reqs'[k].open = reqs[k].open
                             /\ reqs'[k].released = reqs[k].released /\ Waits(reqs'[k]) = Waits(reqs[k])
  BY <1>4, <1>5
<1>7. \A k \in DOMAIN reqs : reqs'[k] \in Request /\ reqs'[k].id = reqs[k].id
  BY <1>2, <1>4, <1>5
<1>8. \A k \in DOMAIN reqs : reqs[k].id = k
  BY <1>1 DEF BoardTyped
<1>9. reqs' \in Seq(Request)
  BY <1>1, <1>5, <1>7, <1>8, ChangedAre
<1>10. world' \in Worlds /\ cap' = cap /\ asleep' = asleep /\ taskStatus' = taskStatus
       /\ messages' \in Seq(Kinds) /\ facts' = facts
  BY <1>1 DEF BootEnds, BoardTyped
<1> QED BY <1>5, <1>6, <1>9, <1>10, QuietKeeps

\* Whatever ends, every request of the list stays one.
LEMMA EndTaskKeeps ==
  ASSUME BoardInv, NEW how \in Terminal, EndTask(how)
  PROVE  BoardInv'
<1>1. BoardTyped /\ reqs \in Seq(Request) /\ \A k \in DOMAIN reqs : reqs[k].id = k
  BY DEF BoardInv, BoardTyped
<1>2. \A k \in DOMAIN reqs : reqs[k] \in Request
  BY <1>1, RequestsListed
<1> DEFINE all == [k \in DOMAIN reqs |-> Withdrawn(reqs[k])]
<1>3. /\ reqs' = IF how = "aborted" THEN all ELSE reqs
      /\ asleep' = FALSE /\ taskStatus' = how /\ world' = world /\ cap' = cap /\ messages' = messages /\ Sync
  BY DEF EndTask
<1>4. all \in Seq(Request) /\ \A k \in DOMAIN all : all[k].id = k
  <2>1. \A k \in DOMAIN reqs : all[k] \in Request /\ all[k].id = reqs[k].id
    BY <1>2, CancelledIs
  <2>2. DOMAIN all = DOMAIN reqs /\ all = [k \in DOMAIN reqs |-> all[k]]
    OBVIOUS
  <2> HIDE DEF all
  <2> QED BY <1>1, <2>1, <2>2, ChangedAre
<1> HIDE DEF all
<1>5. reqs' \in Seq(Request) /\ \A k \in DOMAIN reqs' : reqs'[k].id = k
  BY <1>1, <1>3, <1>4
<1>6. BoardTyped'
  BY <1>1, <1>3, <1>5 DEF BoardTyped
<1>7. Shows(facts', reqs', cap')
  BY <1>1, <1>3, <1>5, SyncStep DEF BoardTyped
<1> QED BY <1>3, <1>6, <1>7 DEF BoardInv

LEMMA CapEndsKeeps ==
  ASSUME BoardInv, CapEnds
  PROVE  BoardInv'
<1>1. BoardTyped /\ reqs \in Seq(Request) /\ \A k \in DOMAIN reqs : reqs[k].id = k
  BY DEF BoardInv, BoardTyped
<1>2. \A k \in DOMAIN reqs : reqs[k] \in Request
  BY <1>1, RequestsListed
<1> DEFINE all == [k \in DOMAIN reqs |-> Unmade(reqs[k])]
<1>3. /\ reqs' = all /\ cap' = FALSE
      /\ asleep' = asleep /\ taskStatus' = taskStatus /\ world' = world /\ messages' = messages /\ Sync
  BY DEF CapEnds
<1>5. \A k \in DOMAIN reqs : all[k] \in Request /\ all[k].id = reqs[k].id /\ Waits(all[k]) = Waits(reqs[k])
  BY <1>2, UnmadeIs
<1>6. DOMAIN all = DOMAIN reqs /\ all = [k \in DOMAIN reqs |-> all[k]]
  OBVIOUS
<1> HIDE DEF all
<1>7. all \in Seq(Request) /\ \A k \in DOMAIN all : all[k].id = k
  BY <1>1, <1>5, <1>6, ChangedAre
<1>8. HasWait(all) = HasWait(reqs)
  BY <1>5, <1>6, WaitsAlike
<1>9. BoardTyped'
  BY <1>1, <1>3, <1>7 DEF BoardTyped
<1>10. Shows(facts', reqs', cap')
  BY <1>3, <1>7, SyncStep
<1>11. asleep' => taskStatus' = "running" /\ HasWait(reqs)'
  BY <1>3, <1>8 DEF BoardInv, HasWait
<1> QED BY <1>9, <1>10, <1>11 DEF BoardInv

\* Steps of the ordinary task, of the capability and of the world that leave
\* the requests alone.
LEMMA TaskKeeps ==
  ASSUME BoardInv, ExpertEnds \/ GroupGone \/ Question
                     \/ (\E j \in {"running", "waiting"} : JobTurns(j)) \/ (\E kind \in Kinds : Reports(kind))
  PROVE  BoardInv'
<1>1. BoardTyped /\ reqs \in Seq(Request) /\ world \in Worlds /\ messages \in Seq(Kinds) /\ cap \in BOOLEAN
  BY DEF BoardInv, BoardTyped
<1>2. CASE ExpertEnds
  <2>1. world' \in Worlds /\ cap' = cap /\ asleep' = asleep /\ taskStatus' = taskStatus
        /\ messages' \in Seq(Kinds) /\ facts' = facts
        /\ reqs' = reqs
    BY <1>1, <1>2 DEF ExpertEnds
  <2> QED BY <1>1, <2>1, QuietKeeps
<1>3. CASE GroupGone
  <2>1. reqs' = reqs /\ cap' \in BOOLEAN /\ world' = world /\ asleep' = asleep /\ taskStatus' = taskStatus
        /\ messages' = messages /\ Sync
    BY <1>1, <1>3 DEF GroupGone
  <2> QED BY <2>1, SyncKeeps
<1>4. CASE Question
  <2>1. world' \in Worlds /\ cap' = cap /\ asleep' = asleep /\ taskStatus' = taskStatus
        /\ messages' \in Seq(Kinds) /\ facts' = facts
        /\ reqs' = reqs
    BY <1>1, <1>4 DEF Question
  <2> QED BY <1>1, <2>1, QuietKeeps
<1>5. ASSUME NEW j \in {"running", "waiting"}, JobTurns(j) PROVE BoardInv'
  <2>1. reqs' = reqs /\ cap' \in BOOLEAN /\ world' = world /\ asleep' = asleep /\ taskStatus' = taskStatus
        /\ messages' = messages /\ Sync
    BY <1>1, <1>5 DEF JobTurns
  <2> QED BY <2>1, SyncKeeps
<1>6. ASSUME NEW kind \in Kinds, Reports(kind) PROVE BoardInv'
  <2>1. world' \in Worlds /\ cap' = cap /\ asleep' = asleep /\ taskStatus' = taskStatus /\ facts' = facts /\ reqs' = reqs
        /\ messages' = Append(messages, kind)
    BY <1>1, <1>6 DEF Reports
  <2>2. messages' \in Seq(Kinds)
    BY <1>1, <2>1
  <2> QED BY <1>1, <2>1, <2>2, QuietKeeps
<1> QED BY <1>2, <1>3, <1>4, <1>5, <1>6

LEMMA SurroundingsKeep ==
  ASSUME BoardInv, Told \/ NoteAges \/ WorldTurns \/ UNCHANGED boardVars
  PROVE  BoardInv'
<1>1. BoardTyped /\ reqs \in Seq(Request) /\ world \in Worlds /\ messages \in Seq(Kinds) /\ cap \in BOOLEAN
  BY DEF BoardInv, BoardTyped
<1>2. CASE Told
  <2>1. reqs' = reqs /\ cap' \in BOOLEAN /\ world' = world /\ asleep' = asleep /\ taskStatus' = taskStatus
        /\ messages' = messages /\ Sync
    BY <1>1, <1>2 DEF Told
  <2> QED BY <2>1, SyncKeeps
<1>3. CASE NoteAges \/ WorldTurns \/ UNCHANGED boardVars
  <2>1. world' \in Worlds /\ cap' = cap /\ asleep' = asleep /\ taskStatus' = taskStatus
        /\ messages' \in Seq(Kinds) /\ facts' = facts
        /\ reqs' = reqs
    BY <1>1, <1>3 DEF NoteAges, WorldTurns, boardVars, kernelVars
  <2> QED BY <1>1, <2>1, QuietKeeps
<1> QED BY <1>2, <1>3

\* The invariant: the export shows the requests as they are, but for what has
\* become of their jobs, and an agent only sleeps over a request that waits.
LEMMA BoardHolds == BoardSpec => []BoardInv
<1>1. ASSUME BoardInv, [BoardNext]_boardVars
      PROVE  BoardInv'
  <2>1. ASSUME NEW a \in Asks, NEW n \in 0..a.count, Ask(a, n) PROVE BoardInv'
    BY <1>1, <2>1, AskKeeps
  <2>2. ASSUME NEW i \in DOMAIN reqs, NEW unordered \in BOOLEAN, Deliver(i, unordered) PROVE BoardInv'
    BY <1>1, <2>2, DeliverKeeps
  <2>3. ASSUME NEW i \in DOMAIN reqs, NEW how \in {"succeeded", "failed"}, BootEnds(i, how) PROVE BoardInv'
    BY <1>1, <2>3, BootEndsKeeps
  <2>4. ASSUME NEW i \in DOMAIN reqs, Rescan(i) PROVE BoardInv'
    BY <1>1, <2>4, RescanKeeps
  <2>5. CASE RequestStep
    BY <2>1, <2>2, <2>3, <2>4, <2>5 DEF RequestStep
  <2>6. ASSUME NEW how \in Terminal, EndTask(how) PROVE BoardInv'
    BY <1>1, <2>6, EndTaskKeeps
  <2>7. CASE TaskStep
    BY <1>1, <2>6, <2>7, TaskKeeps DEF TaskStep
  <2>8. CASE CapabilityStep
    BY <1>1, <2>8, CapEndsKeeps, SurroundingsKeep DEF CapabilityStep
  <2>9. CASE WorldTurns \/ UNCHANGED boardVars
    BY <1>1, <2>9, SurroundingsKeep
  <2> QED BY <1>1, <2>5, <2>7, <2>8, <2>9 DEF BoardNext
<1> QED BY <1>1, InitBoard, PTL DEF BoardSpec

\* Demand for units is never out of sight: after every step, whatever calls
\* came, the last export lists the open requests and no other, so that the
\* capability's agent is called on, its card is not idle, and the briefs of
\* both agents tell of them (_sync_world_runtime, build_task_triage,
\* context_to_message).
THEOREM DemandReachesAgent == BoardSpec => []DemandIsKnown
BY BoardHolds, DemandShown, PTL

-----------------------------------------------------------------------------
(* An agent that sleeps.                                                   *)

\* What blocks the capability is among the alerts, in every situation.
LEMMA BlockerAlerts ==
  ASSUME NEW s
  PROVE  BlockerIsAlerted(s)
<1> DEFINE rules == AlertRules(s)
           raised == {i \in 1..9 : rules[i][2]}
           Early(i) == {j \in raised : j < i}
<1>1. /\ rules[4][1] = "low_power" /\ rules[5][1] = "capability" /\ rules[6][1] = "queue_ready_items"
      /\ rules[7][1] = "queue_blocked"
      /\ rules[4][2] <=> s.low
      /\ rules[5][2] <=> CapabilityAlert(s)
      /\ rules[6][2] <=> s.ready
      /\ rules[7][2] <=> ~s.ready /\ s.jam
  BY DEF AlertRules
<1>2. Alerts(s) = {rules[i][1] : i \in {k \in raised : Cardinality(Early(k)) < 5}}
  BY DEF Alerts
<1> HIDE DEF rules
<1>9. \A i, j : j \in Early(i) => j \in raised /\ j \in 1..9 /\ j < i
  OBVIOUS
<1>3. ASSUME NEW i \in {4, 5, 6, 7}, rules[i][2], Early(i) \subseteq 1..4
      PROVE  rules[i][1] \in Alerts(s)
  <2>1. i \in raised
    BY <1>3
  <2>2. IsFiniteSet(1..4) /\ Cardinality(1..4) = 4
    <3>1. 1 \in Int /\ 4 \in Int
      OBVIOUS
    <3>2. IsFiniteSet(1..4) /\ Cardinality(1..4) = IF 1 > 4 THEN 0 ELSE 4 - 1 + 1
      BY <3>1, FS_Interval, Zenon
    <3> QED BY <3>2
  <2> HIDE DEF Early, raised
  <2>3. IsFiniteSet(Early(i)) /\ Cardinality(Early(i)) <= Cardinality(1..4)
    BY <1>3, <2>2, FS_Subset, Zenon
  <2>4. Cardinality(Early(i)) \in Nat
    BY <2>3, FS_CardinalityType, Zenon
  <2>5. Cardinality(Early(i)) < 5
    BY <2>2, <2>3, <2>4
  <2> QED BY <1>2, <2>1, <2>5
<1>10. /\ \A j \in 1..9 : j < 4 => j \in 1..4
       /\ \A j \in 1..9 : j < 5 => j \in 1..4
       /\ \A j \in 1..9 : j < 6 /\ j # 5 => j \in 1..4
       /\ \A j \in 1..9 : j < 7 /\ j # 5 /\ j # 6 => j \in 1..4
  OBVIOUS
<1>11. (5 \in raised <=> rules[5][2]) /\ (6 \in raised <=> rules[6][2])
  OBVIOUS
<1> HIDE DEF raised, Early
<1> SUFFICES ASSUME s.blocker # ""
             PROVE  Alerts(s) \cap {"capability", "low_power", "queue_ready_items", "queue_blocked"} # {}
  BY DEF BlockerIsAlerted
<1>4. CASE CapabilityAlert(s)
  <2>1. rules[5][2]
    BY <1>1, <1>4, Zenon
  <2>2. Early(5) \subseteq 1..4
    BY <1>9, <1>10, Zenon
  <2>3. "capability" \in Alerts(s)
    BY <1>1, <1>3, <2>1, <2>2
  <2> QED BY <2>3
<1>5. CASE s.blocker = "low_power" /\ s.low
  <2>1. rules[4][2] /\ Early(4) \subseteq 1..4
    BY <1>1, <1>5, <1>9, <1>10, Zenon
  <2>2. "low_power" \in Alerts(s)
    BY <1>1, <1>3, <2>1
  <2> QED BY <2>2
<1>6. CASE s.jam /\ ~CapabilityAlert(s)
  <2>1. 5 \notin raised
    BY <1>1, <1>6, <1>11, Zenon
  <2>2. CASE s.ready
    <3>1. rules[6][2]
      BY <1>1, <2>2, Zenon
    <3>2. Early(6) \subseteq 1..4
      BY <1>9, <1>10, <2>1, Zenon
    <3>3. "queue_ready_items" \in Alerts(s)
      BY <1>1, <1>3, <3>1, <3>2
    <3> QED BY <3>3
  <2>3. CASE ~s.ready
    <3>1. 6 \notin raised /\ rules[7][2]
      BY <1>1, <1>6, <1>11, <2>3, Zenon
    <3>2. Early(7) \subseteq 1..4
      BY <1>9, <1>10, <2>1, <3>1, Zenon
    <3>3. "queue_blocked" \in Alerts(s)
      BY <1>1, <1>3, <3>1, <3>2
    <3> QED BY <3>3
  <2> QED BY <2>2, <2>3
<1>7. CapabilityAlert(s) \/ (s.blocker = "low_power" /\ s.low) \/ (s.jam /\ ~CapabilityAlert(s))
  BY DEF CapabilityAlert
<1> QED BY <1>4, <1>5, <1>6, <1>7

\* There is a headline as long as a request is open.
LEMMA HeadlineThere ==
  ASSUME NEW s, s.waiting
  PROVE  Headline(s) # ""
<1> DEFINE rules == AlertRules(s)
           raised == Raised(s)
           Least(i) == \A k \in raised : i <= k
           first == CHOOSE i \in raised : Least(i)
<1>1. /\ rules[1][1] # "" /\ rules[2][1] # "" /\ rules[3][1] # "" /\ rules[4][1] # "" /\ rules[5][1] # ""
      /\ rules[6][1] # "" /\ rules[7][1] # "" /\ rules[8][1] # "" /\ rules[9][1] # ""
  BY DEF AlertRules
<1>2. rules[9][2]
  BY DEF AlertRules
<1>3. raised = {i \in 1..9 : rules[i][2]}
  BY DEF Raised
<1>4. Headline(s) = IF raised = {} THEN "" ELSE rules[first][1]
  BY DEF Headline
<1> HIDE DEF rules, raised
<1>5. raised \in SUBSET Nat /\ raised # {} /\ raised \subseteq 1..9
  BY <1>2, <1>3
<1>6. \E m \in raised : Least(m)
  BY <1>5, LeastNumber
<1>7. first \in raised
  BY <1>6
<1> HIDE DEF first
<1>8. first \in 1..9
  BY <1>5, <1>7
<1>9. rules[first][1] # ""
  <2>1. \/ first = 1 \/ first = 2 \/ first = 3 \/ first = 4 \/ first = 5
        \/ first = 6 \/ first = 7 \/ first = 8 \/ first = 9
    BY <1>8
  <2> QED BY <1>1, <2>1, Zenon
<1> QED BY <1>4, <1>5, <1>9, Zenon

\* The card of the sleeper, with whatever is said against the capability.
LEMMA SleeperTells ==
  ASSUME BoardInv, asleep, NEW truth
  PROVE  Telling(CardWith(1, truth))
<1> DEFINE t == TaskOf(1)
           in == Inputs(world.stale, truth, 1 = 1 /\ questioned, IF 1 = 1 THEN messages ELSE <<>>)
           c == Triage(t, facts, in)
           mine == OfTask(facts.rows, t.id)
<1>1. t.cap = FALSE /\ t.status = taskStatus /\ t.id = 1
  BY DEF TaskOf
<1>2. CardWith(1, truth) = c
  BY DEF CardWith
<1>3. taskStatus = "running" /\ HasWait(reqs) /\ RowsTell(facts.rows, reqs)
  BY DEF BoardInv, Shows
<1>4. \E k \in DOMAIN reqs : reqs[k].open
  BY <1>3 DEF HasWait, Waits
<1>5. mine # <<>>
  <2>1. RowsTell(mine, reqs)
    BY <1>1, <1>3, RowsAreMine
  <2> HIDE DEF mine
  <2> QED BY <1>4, <2>1, IdsTold
<1> HIDE DEF t, in
<1>6. \/ t.status \in Terminal
      \/ c = Card("degraded", "world_sync", "world_stale", "world_stale")
      \/ in.asked /\ c = Card("waiting_player", "question", "player_response", "")
      \/ in.warning /\ c = Card("blocked", "warning", "", "task_warning")
      \/ t.cap /\ c = CapabilityCard(facts.status, in.truth)
      \/ ~t.cap /\ mine # <<>> /\ c = PipelineCard(FirstRow(mine).reason)
      \/ ~t.cap /\ mine = <<>>
  BY CardCases, Zenon
<1> HIDE DEF c, mine
<1>7. t.status \notin Terminal
  BY <1>1, <1>3 DEF Terminal
<1>8. \/ c = Card("degraded", "world_sync", "world_stale", "world_stale")
      \/ c = Card("waiting_player", "question", "player_response", "")
      \/ c = Card("blocked", "warning", "", "task_warning")
      \/ c = PipelineCard(FirstRow(mine).reason)
  BY <1>1, <1>5, <1>6, <1>7, Zenon
<1>9. /\ Telling(Card("degraded", "world_sync", "world_stale", "world_stale"))
      /\ Telling(Card("waiting_player", "question", "player_response", ""))
      /\ Telling(Card("blocked", "warning", "", "task_warning"))
  BY DEF Telling, Card
<1>10. Telling(c)
  BY <1>8, <1>9, PipelineTells, Zenon
<1> QED BY <1>2, <1>10

\* Its workflow is under way.
LEMMA SleeperWorks ==
  ASSUME NEW t, NEW f, t.flow = "recon", OfTask(f.rows, t.id) # <<>>
  PROVE  WorkflowPhase(t, f) \in {"recon_running", "ready_to_recon", "waiting_for_units"}
<1> DEFINE runs(expert) == \E j \in JobsOf(f, t) : j.expert = expert
           attack == t.flow = "attack"
           none == t.flow = ""
           scouts == ~attack /\ runs("recon")
           fights == attack /\ runs("combat")
           ready == IF attack THEN "ready_to_attack" ELSE "ready_to_recon"
           waits == OfTask(f.rows, t.id) # <<>>
           rules == << <<none, "">>, <<scouts, "recon_running">>, <<fights, "attack_running">>,
                       <<t.id \in f.groups, ready>>, <<waits, "waiting_for_units">>, <<TRUE, "request_units_first">> >>
<1>1. WorkflowPhase(t, f) = FirstOf(rules)
  BY DEF WorkflowPhase
<1>2. ~none /\ ~fights /\ waits /\ ready = "ready_to_recon"
  OBVIOUS
<1> HIDE DEF none, scouts, fights, waits, ready
<1>3. /\ DOMAIN rules = 1..6 /\ ~rules[1][1] /\ ~rules[3][1] /\ rules[5][1]
      /\ rules[2][2] = "recon_running" /\ rules[4][2] = "ready_to_recon" /\ rules[5][2] = "waiting_for_units"
  <2>1. /\ DOMAIN rules = 1..6
        /\ rules[2][2] = "recon_running" /\ rules[4][2] = ready /\ rules[5][2] = "waiting_for_units"
    OBVIOUS
  <2>2. rules[1][1] = none /\ rules[3][1] = fights /\ rules[5][1] = waits
    OBVIOUS
  <2> HIDE DEF rules
  <2> QED BY <1>2, <2>1, <2>2
<1> HIDE DEF rules
<1>4. \E i \in 1..6 : rules[i][1]
  BY <1>3
<1>5. PICK i \in 1..6 : /\ rules[i][1] /\ FirstOf(rules) = rules[i][2]
                        /\ \A k \in 1..(i - 1) : ~rules[k][1]
  BY <1>3, <1>4, FirstHolds
<1>6. i # 6 /\ i # 1 /\ i # 3
  BY <1>3, <1>5
<1>7. i = 2 \/ i = 4 \/ i = 5
  BY <1>6
<1> QED BY <1>1, <1>3, <1>5, <1>7

LEMMA FirstOneIs ==
  ASSUME NEW rules, NEW n \in Nat, n > 0, DOMAIN rules = 1..n, rules[1][1]
  PROVE  FirstOf(rules) = rules[1][2]
<1>1. 1 \in 1..n /\ \A k \in 1..(1 - 1) : ~rules[k][1]
  OBVIOUS
<1> QED BY <1>1, FirstIs

\* A task that is not made for scouting or fighting has no workflow.
LEMMA NoFlowNoPhase ==
  ASSUME NEW t, NEW f
  PROVE  t.flow = "" => WorkflowPhase(t, f) = ""
<1> DEFINE runs(expert) == \E j \in JobsOf(f, t) : j.expert = expert
           attack == t.flow = "attack"
           nothing == ""
           none == t.flow = ""
           scouts == ~attack /\ runs("recon")
           fights == attack /\ runs("combat")
           ready == IF attack THEN "ready_to_attack" ELSE "ready_to_recon"
           waits == OfTask(f.rows, t.id) # <<>>
           there == t.id \in f.groups
           rules == << <<none, nothing>>, <<scouts, "recon_running">>, <<fights, "attack_running">>,
                       <<there, ready>>, <<waits, "waiting_for_units">>, <<TRUE, "request_units_first">> >>
<1>1. WorkflowPhase(t, f) = FirstOf(rules)
  BY DEF WorkflowPhase
<1> HIDE DEF nothing, none, scouts, fights, ready, waits, there
<1>2. rules[1][2] = nothing /\ rules[1][1] = none
  OBVIOUS
<1>3. DOMAIN rules = 1..6 /\ 6 \in Nat /\ 6 > 0
  OBVIOUS
<1> HIDE DEF rules
<1>4. none => FirstOf(rules) = nothing
  BY <1>2, <1>3, FirstOneIs, Zenon
<1> USE DEF nothing, none
<1> QED BY <1>1, <1>4, Zenon

\* The advice while a request is open and nothing is worse.
LEMMA AdviceServes ==
  ASSUME NEW v, ~v.low, ~v.jam, v.pending
  PROVE  Battlefield(v).posture = "satisfy_requests"
<1> DEFINE d == Disposition(v)
           low == v.low
           jam == v.jam
           asked_for == v.pending \/ v.reserved
           pressed == v.attack \/ d = "under_pressure"
           unknown == ~v.known
           ahead == d = "advantage"
           rules == << <<low, "stabilize_power">>, <<jam, "unblock_queue">>, <<asked_for, "satisfy_requests">>,
                       <<pressed, "defend_base">>, <<unknown, "expand_recon">>, <<ahead, "press_advantage">>,
                       <<TRUE, "maintain_posture">> >>
<1>1. Battlefield(v).posture = FirstOf(rules)
  BY DEF Battlefield, Posture
<1>0. ~low /\ ~jam /\ asked_for
  OBVIOUS
<1> HIDE DEF low, jam, asked_for, pressed, unknown, ahead
<1>2. /\ DOMAIN rules = 1..7 /\ rules[3][2] = "satisfy_requests"
      /\ rules[1][1] = low /\ rules[2][1] = jam /\ rules[3][1] = asked_for
  OBVIOUS
<1> HIDE DEF rules
<1>3. 3 \in 1..7 /\ \A k \in 1..(3 - 1) : ~rules[k][1]
  <2>1. \A k \in 1..(3 - 1) : k = 1 \/ k = 2
    OBVIOUS
  <2> QED BY <1>0, <1>2, <2>1
<1>4. FirstOf(rules) = rules[3][2]
  BY <1>0, <1>2, <1>3, FirstIs
<1> QED BY <1>1, <1>2, <1>4

-----------------------------------------------------------------------------
(* Where a line goes that goes on with the sleeper's work.                 *)

\* The sleeper's entry, and that of the capability beside it.
SleeperEntry(e) ==
  /\ e.id = 1 /\ ~e.cap /\ e.flow = "recon" /\ e.group \in {0, 1}
  /\ e.wphase \in {"recon_running", "ready_to_recon", "waiting_for_units"}

SupplyEntry(e) == e.id = 2 /\ e.cap /\ e.flow = "" /\ e.wphase = "" /\ e.group = 0

TwoEntries(es) ==
  /\ DOMAIN es = 1..1 \/ DOMAIN es = 1..2
  /\ SleeperEntry(es[1])
  /\ 2 \in DOMAIN es => SupplyEntry(es[2])

LEMMA GoingOnIs ==
  ASSUME NEW l \in GoingOn
  PROVE  /\ TextDomain(l.text) \in {"general", "recon"}
         /\ FollowsUp(l) /\ l.interrupt = FALSE /\ l.label = 0 /\ l.few = FALSE /\ l.override \in BOOLEAN
<1>1. PICK n \in {0, 1}, more \in BOOLEAN :
        l = [text |-> [combat |-> 0, economy |-> 0, recon |-> n], more |-> more, override |-> ~more,
             interrupt |-> FALSE, map |-> FALSE, like |-> {}, label |-> 0, few |-> FALSE]
  BY DEF GoingOn
<1>2. /\ l.text = [combat |-> 0, economy |-> 0, recon |-> n] /\ l.more = more /\ l.override = ~more
      /\ l.interrupt = FALSE /\ l.label = 0 /\ l.few = FALSE
  BY <1>1
<1>3. FollowsUp(l) /\ l.override \in BOOLEAN
  BY <1>2 DEF FollowsUp
<1>4. TextDomain(l.text) \in {"general", "recon"}
  <2> DEFINE c == l.text["combat"] > 0
             e == l.text["economy"] > 0
             r == l.text["recon"] > 0
             rules == << <<c, "combat">>, <<e, "economy">>, <<r, "recon">>, <<TRUE, "general">> >>
  <2>1. TextDomain(l.text) = FirstOf(rules)
    BY DEF TextDomain
  <2>2. ~c /\ ~e
    BY <1>2
  <2> HIDE DEF c, e, r
  <2>3. /\ DOMAIN rules = 1..4 /\ rules[3][2] = "recon" /\ rules[4][2] = "general" /\ rules[4][1]
        /\ rules[1][1] = c /\ rules[2][1] = e
    OBVIOUS
  <2> HIDE DEF rules
  <2>4. 4 \in Nat /\ \E i \in 1..4 : rules[i][1]
    BY <2>3
  <2>5. PICK i \in 1..4 : rules[i][1] /\ FirstOf(rules) = rules[i][2]
    BY <2>3, <2>4, FirstHolds
  <2>6. i = 3 \/ i = 4
    BY <2>2, <2>3, <2>5
  <2> QED BY <2>1, <2>3, <2>5, <2>6
<1> QED BY <1>2, <1>3, <1>4

LEMMA PointsAre ==
  ASSUME NEW p \in BOOLEAN, NEW n \in Nat
  PROVE  Points(p, n) \in 0..n /\ (p => Points(p, n) = n) /\ (~p => Points(p, n) = 0)
BY DEF Points

LEMMA FlowDomains == FlowDomain("recon") = "recon" /\ FlowDomain("") = "general"
<1>1. FlowDomain("recon") = "recon"
  <2> DEFINE flow == "recon"
             scouts == flow = "recon"
             fights == flow = "attack"
             rules == << <<scouts, "recon">>, <<fights, "combat">>, <<TRUE, "general">> >>
  <2>1. FlowDomain(flow) = FirstOf(rules)
    BY DEF FlowDomain
  <2>2. scouts
    OBVIOUS
  <2> HIDE DEF scouts, fights, flow
  <2>3. rules[1][1] = scouts /\ rules[1][2] = "recon"
    OBVIOUS
  <2>4. DOMAIN rules = 1..3 /\ 3 \in Nat /\ 3 > 0
    OBVIOUS
  <2> HIDE DEF rules
  <2>5. FirstOf(rules) = "recon"
    BY <2>2, <2>3, <2>4, FirstOneIs, Zenon
  <2> USE DEF flow
  <2> QED BY <2>1, <2>5, Zenon
<1>2. FlowDomain("") = "general"
  <2> DEFINE flow == ""
             scouts == flow = "recon"
             fights == flow = "attack"
             rules == << <<scouts, "recon">>, <<fights, "combat">>, <<TRUE, "general">> >>
  <2>1. FlowDomain(flow) = FirstOf(rules)
    BY DEF FlowDomain
  <2>2. ~scouts /\ ~fights
    <3>1. "" # "recon"
      BY Zenon
    <3>2. "" # "attack"
      BY Zenon
    <3> QED BY <3>1, <3>2, Zenon
  <2> HIDE DEF scouts, fights, flow
  <2>3. rules[1][1] = scouts /\ rules[2][1] = fights /\ rules[3][1] /\ rules[3][2] = "general" /\ DOMAIN rules = 1..3
    OBVIOUS
  <2> HIDE DEF rules
  <2>4. 3 \in Nat /\ 3 \in 1..3 /\ \A k \in 1..(3 - 1) : k = 1 \/ k = 2
    OBVIOUS
  <2>5. FirstOf(rules) = "general"
    BY <2>2, <2>3, <2>4, FirstIs, Zenon
  <2> USE DEF flow
  <2> QED BY <2>1, <2>5, Zenon
<1> QED BY <1>1, <1>2

\* The capability's domain.
LEMMA SupplyDomain ==
  ASSUME NEW e, e.cap
  PROVE  DomainOf(e) = "economy"
<1> DEFINE supply == e.cap \/ e.expert \in {"economy", "deploy"}
           field == e.expert \in {"recon", "combat"}
           flows == e.flow # ""
           flow == FlowDomain(e.flow)
           expert == e.expert
           phase == e.phase \in {"dispatch", "bootstrapping", "fulfilling"}
           scouts == e.group > 0 /\ e.waits = "unit_reservation" /\ e.text["recon"] > 0
           fights == e.group > 0 /\ e.blocks = "task_warning" /\ e.text["combat"] > 0
           says == TextDomain(e.text)
           rules == << <<supply, "economy">>, <<field, expert>>, <<flows, flow>>, <<phase, "economy">>,
                       <<scouts, "recon">>, <<fights, "combat">>, <<TRUE, says>> >>
<1>1. DomainOf(e) = FirstOf(rules)
  BY DEF DomainOf
<1>2. supply
  OBVIOUS
<1> HIDE DEF supply, field, flows, flow, expert, phase, scouts, fights, says
<1>3. rules[1][1] = supply /\ rules[1][2] = "economy"
  OBVIOUS
<1>4. DOMAIN rules = 1..7 /\ 7 \in Nat /\ 7 > 0
  OBVIOUS
<1> HIDE DEF rules
<1>5. FirstOf(rules) = "economy"
  BY <1>2, <1>3, <1>4, FirstOneIs, Zenon
<1> QED BY <1>1, <1>5

\* How far along a workflow is counts for three at least, and none for nothing.
LEMMA WorkflowCounts ==
  ASSUME NEW l \in GoingOn, NEW e
  PROVE  /\ SleeperEntry(e) => WorkflowScore(l, e) \in 3..7
         /\ SupplyEntry(e) => WorkflowScore(l, e) = 0
<1> DEFINE early == e.wphase = "request_units_first"
           waiting == e.wphase = "waiting_for_units"
           ready == e.wphase \in {"ready_to_recon", "ready_to_attack"}
           runs == e.wphase \in {"recon_running", "attack_running"}
           rules == << <<early, 2>>, <<waiting, 3>>, <<ready, 5>>, <<runs, 6>>, <<TRUE, 0>> >>
           base == FirstOf(rules)
           joins == e.flow # "" /\ TextDomain(l.text) \in {"general", FlowDomain(e.flow)}
           counts == /\ joins
                     /\ FollowsUp(l) \/ e.wphase \in LatePhase
                     /\ base > 0
           grown == e.group > 0
<1>1. WorkflowScore(l, e) = Points(counts, base + Points(grown, 1))
  BY DEF WorkflowScore
<1>2. ASSUME SleeperEntry(e) PROVE WorkflowScore(l, e) \in 3..7
  <2>1. ~early /\ (waiting \/ ready \/ runs)
    BY <1>2 DEF SleeperEntry
  <2>2. joins
    <3>1. e.flow = "recon" /\ FlowDomain(e.flow) = "recon"
      BY <1>2, FlowDomains, Zenon DEF SleeperEntry
    <3>2. "recon" # ""
      BY Zenon
    <3> QED BY <3>1, <3>2, GoingOnIs, Zenon
  <2>3. base \in {3, 5, 6}
    <3> HIDE DEF early, waiting, ready, runs
    <3>1. /\ DOMAIN rules = 1..5 /\ rules[1][1] = early /\ rules[2][1] = waiting /\ rules[3][1] = ready /\ rules[4][1] = runs
          /\ rules[2][2] = 3 /\ rules[3][2] = 5 /\ rules[4][2] = 6
      OBVIOUS
    <3> HIDE DEF rules
    <3>2. 5 \in Nat /\ \E i \in 1..5 : rules[i][1]
      BY <2>1, <3>1
    <3>3. PICK i \in 1..5 : /\ rules[i][1] /\ FirstOf(rules) = rules[i][2]
                            /\ \A k \in 1..(i - 1) : ~rules[k][1]
      BY <3>1, <3>2, FirstHolds
    <3>4. i # 5 /\ i # 1
      BY <2>1, <3>1, <3>3
    <3>5. i = 2 \/ i = 3 \/ i = 4
      BY <3>4
    <3> QED BY <3>1, <3>3, <3>5
  <2> HIDE DEF joins, base, grown
  <2>4. counts
    <3>1. base > 0
      BY <2>3
    <3> QED BY <2>2, <3>1, GoingOnIs, Zenon
  <2> HIDE DEF counts
  <2>5. Points(grown, 1) \in 0..1
    BY DEF Points, grown
  <2> HIDE DEF grown
  <2>6. WorkflowScore(l, e) = base + Points(grown, 1)
    BY <1>1, <2>4 DEF Points
  <2> QED BY <2>3, <2>5, <2>6
<1>3. ASSUME SupplyEntry(e) PROVE WorkflowScore(l, e) = 0
  <2>1. ~joins
    BY <1>3, Zenon DEF SupplyEntry
  <2> HIDE DEF joins, base, grown
  <2>2. ~counts
    BY <2>1
  <2> HIDE DEF counts
  <2> QED BY <1>1, <2>2 DEF Points
<1> QED BY <1>2, <1>3

\* The sleeper's score beats the capability's, or the line does not fit that.
LEMMA SleeperScores ==
  ASSUME NEW l \in GoingOn, NEW e
  PROVE  /\ SleeperEntry(e) => HintScore(l, e) \in Int /\ HintScore(l, e) >= 3 /\ Fits(l, e)
         /\ SupplyEntry(e) /\ Fits(l, e) => HintScore(l, e) \in 0..2
<1> DEFINE said  == TextDomain(l.text)
           field == said \in {"combat", "recon"}
           p == said # "general"
           a == e.state \in {"waiting_units", "waiting", "running"}
           c == e.cap /\ said = "economy"
           g == e.group > 0 /\ field
           u == e.state = "waiting_units" /\ field
           ws == WorkflowScore(l, e)
<1>1. HintScore(l, e) = Points(p, 3) + Points(a, 2) + Points(c, 4) + Points(g, 3) - Points(u, 1) + ws
  BY DEF HintScore
<1>2. said \in {"general", "recon"}
  BY GoingOnIs
<1>3. Points(p, 3) \in {0, 3} /\ Points(a, 2) \in {0, 2} /\ Points(c, 4) \in {0, 4} /\ Points(g, 3) \in {0, 3}
      /\ Points(u, 1) \in {0, 1}
  <2> HIDE DEF p, a, c, g, u
  <2> QED BY DEF Points
<1>4. ~c
  BY <1>2
<1>5. ~p => ~field
  BY <1>2
<1>6. ASSUME SleeperEntry(e)
      PROVE  HintScore(l, e) \in Int /\ HintScore(l, e) >= 3 /\ Fits(l, e)
  <2>1. ws \in 3..7
    BY <1>6, WorkflowCounts, Zenon
  <2>2. p => Points(p, 3) = 3
    <3> HIDE DEF p
    <3> QED BY DEF Points
  <2>3. ~p => Points(u, 1) = 0
    <3>1. ~p => ~u
      BY <1>5, Zenon
    <3> HIDE DEF p, u
    <3> QED BY <3>1 DEF Points
  <2>4. Fits(l, e)
    <3>1. e.flow = "recon" /\ FlowDomain(e.flow) = "recon"
      BY <1>6, FlowDomains, Zenon DEF SleeperEntry
    <3> QED BY <1>2, <3>1, Zenon DEF Fits
  <2> HIDE DEF p, a, c, g, u, ws, field, said
  <2>5. HintScore(l, e) \in Int /\ HintScore(l, e) >= 3
    <3>1. CASE p
      <4>1. Points(p, 3) = 3
        BY <2>2, <3>1, Zenon
      <4> DEFINE x == Points(a, 2)
                 y == Points(c, 4)
                 z == Points(g, 3)
                 v == Points(u, 1)
      <4>2. x \in Nat /\ y \in Nat /\ z \in Nat /\ v \in {0, 1}
        BY <1>3
      <4>3. HintScore(l, e) = 3 + x + y + z - v + ws
        BY <1>1, <4>1, Zenon
      <4> HIDE DEF x, y, z, v
      <4> QED BY <2>1, <4>2, <4>3
    <3>2. CASE ~p
      BY <1>1, <1>3, <2>1, <2>3, <3>2
    <3> QED BY <3>1, <3>2
  <2> QED BY <2>4, <2>5
<1>7. ASSUME SupplyEntry(e), Fits(l, e)
      PROVE  HintScore(l, e) \in 0..2
  <2>1. ws = 0
    BY <1>7, WorkflowCounts, Zenon
  <2>2. ~p
    <3>1. e.cap /\ e.flow = ""
      BY <1>7, Zenon DEF SupplyEntry
    <3>2. FlowDomain(e.flow) = "general"
      BY <3>1, FlowDomains, Zenon
    <3>3. DomainOf(e) = "economy"
      BY <3>1, SupplyDomain, Zenon
    <3>4. "recon" # "economy" /\ "recon" # "general"
      OBVIOUS
    <3> QED BY <1>2, <1>7, <3>2, <3>3, <3>4, Zenon DEF Fits
  <2>3. Points(p, 3) = 0 /\ Points(c, 4) = 0 /\ Points(g, 3) = 0 /\ Points(u, 1) = 0
    <3>1. ~c /\ ~g /\ ~u
      BY <1>4, <1>5, <2>2, Zenon
    <3> HIDE DEF p, c, g, u
    <3> QED BY <2>2, <3>1 DEF Points
  <2> HIDE DEF p, a, c, g, u, ws, field, said
  <2> QED BY <1>1, <1>3, <2>1, <2>3
<1> QED BY <1>6, <1>7

LEMMA RanksAre ==
  ASSUME NEW e
  PROVE  StateRank(e) \in Int
<1> DEFINE a == e.state = "running"
           b == e.state = "waiting_units"
           c == e.state = "waiting"
           rules == << <<a, 3>>, <<b, 2>>, <<c, 1>>, <<TRUE, 0>> >>
<1>1. StateRank(e) = FirstOf(rules)
  BY DEF StateRank
<1> HIDE DEF a, b, c
<1>2. DOMAIN rules = 1..4 /\ rules[4][1] /\ \A i \in 1..4 : rules[i][2] \in Int
  OBVIOUS
<1> HIDE DEF rules
<1>3. 4 \in Nat /\ \E i \in 1..4 : rules[i][1]
  BY <1>2
<1>4. PICK i \in 1..4 : FirstOf(rules) = rules[i][2]
  BY <1>2, <1>3, FirstHolds
<1> QED BY <1>1, <1>2, <1>4

\* An entry is not ahead of itself, and a better score decides.
LEMMA AheadIs ==
  ASSUME NEW l, NEW e, NEW f, HintScore(l, e) \in Int, HintScore(l, f) \in Int, e.group \in Int
  PROVE  /\ ~Ahead(l, e, e)
         /\ HintScore(l, f) < HintScore(l, e) => Ahead(l, e, f) /\ ~Ahead(l, f, e)
<1> DEFINE x == HintKey(l, e)
           y == HintKey(l, f)
<1>1. /\ x[1] = HintScore(l, e) /\ x[2] = e.group /\ x[3] = StateRank(e) /\ x[4] = Points(e.cap, 1)
      /\ y[1] = HintScore(l, f)
  BY DEF HintKey
<1>2. x[1] \in Int /\ x[2] \in Int /\ x[3] \in Int /\ x[4] \in Int /\ y[1] \in Int
  BY <1>1, RanksAre DEF Points
<1>3. Ahead(l, e, e) <=> \E i \in 1..4 : x[i] > x[i] /\ \A k \in 1..(i - 1) : x[k] = x[k]
  BY DEF Ahead
<1>4. Ahead(l, e, f) <=> \E i \in 1..4 : x[i] > y[i] /\ \A k \in 1..(i - 1) : x[k] = y[k]
  BY DEF Ahead
<1>5. Ahead(l, f, e) <=> \E i \in 1..4 : y[i] > x[i] /\ \A k \in 1..(i - 1) : y[k] = x[k]
  BY DEF Ahead
<1> HIDE DEF x, y
<1>6. ~Ahead(l, e, e)
  <2>1. ~(x[1] > x[1]) /\ ~(x[2] > x[2]) /\ ~(x[3] > x[3]) /\ ~(x[4] > x[4])
    BY <1>2
  <2>2. \A i \in 1..4 : i = 1 \/ i = 2 \/ i = 3 \/ i = 4
    OBVIOUS
  <2> QED BY <1>3, <2>1, <2>2
<1>7. ASSUME HintScore(l, f) < HintScore(l, e)
      PROVE  Ahead(l, e, f) /\ ~Ahead(l, f, e)
  <2>1. x[1] > y[1] /\ ~(y[1] > x[1]) /\ y[1] # x[1]
    BY <1>1, <1>2, <1>7
  <2>2. 1 \in 1..4 /\ \A k \in 1..(1 - 1) : x[k] = y[k]
    OBVIOUS
  <2>3. \A i \in 1..4 : i = 1 \/ 1 \in 1..(i - 1)
    OBVIOUS
  <2> QED BY <1>4, <1>5, <2>1, <2>2, <2>3
<1> QED BY <1>6, <1>7

\* It is told to take over a workflow, or to be replaced.
LEMMA SuggestsSleeper ==
  ASSUME NEW l \in GoingOn, NEW e, SleeperEntry(e), NEW free
  PROVE  Suggestion(l, e, free) = IF l.override THEN "override" ELSE "merge"
<1> DEFINE said   == TextDomain(l.text)
           field  == said \in {"combat", "recon"}
           joins  == FollowsUp(l) \/ Overlaps(l, e)
           supply == e.cap /\ (FollowsUp(l) \/ said = "economy")
           r1 == l.override
           r2 == supply /\ e.blocks \in {"missing_prerequisite", "request_inference_pending"}
           r3 == supply /\ e.phase \in {"dispatch", "bootstrapping", "fulfilling"}
           r4 == WorkflowGoesOn(l, e)
           r5 == field /\ e.group > 0 /\ free = 0 /\ joins
           r6 == field /\ e.group > 0 /\ free > 0 /\ ~FollowsUp(l)
           r7 == field /\ joins
           r8 == FollowsUp(l) \/ said = "economy"
           nothing == ""
           rules == << <<r1, "override">>, <<r2, "merge">>, <<r3, "merge">>, <<r4, "merge">>, <<r5, "merge">>,
                       <<r6, nothing>>, <<r7, "merge">>, <<r8, "merge">>, <<TRUE, nothing>> >>
<1>1. Suggestion(l, e, free) = FirstOf(rules)
  BY DEF Suggestion
<1>2. ~r2 /\ ~r3
  BY DEF SleeperEntry
<1>3. r4
  <2>1. e.flow = "recon" /\ e.wphase \in {"recon_running", "ready_to_recon", "waiting_for_units"}
    BY DEF SleeperEntry
  <2>2. e.wphase \in EarlyPhase \cup LatePhase
    BY <2>1 DEF EarlyPhase, LatePhase
  <2>3. "recon" # ""
    BY Zenon
  <2>4. said # "economy"
    <3>1. said \in {"general", "recon"}
      BY GoingOnIs
    <3> HIDE DEF said
    <3> QED BY <3>1
  <2> QED BY <2>1, <2>2, <2>3, <2>4, GoingOnIs, Zenon DEF WorkflowGoesOn
<1> HIDE DEF r1, r2, r3, r4, r5, r6, r7, r8, nothing
<1>4. /\ rules[1][1] = r1 /\ rules[2][1] = r2 /\ rules[3][1] = r3 /\ rules[4][1] = r4
      /\ rules[1][2] = "override" /\ rules[4][2] = "merge"
  OBVIOUS
<1>5. DOMAIN rules = 1..9
  OBVIOUS
<1> HIDE DEF rules
<1>6. CASE r1
  <2>1. 9 \in Nat /\ 9 > 0
    OBVIOUS
  <2>2. FirstOf(rules) = "override"
    BY <1>4, <1>5, <1>6, <2>1, FirstOneIs, Zenon
  <2> QED BY <1>1, <1>6, <2>2 DEF r1
<1>7. CASE ~r1
  <2>1. 9 \in Nat /\ 4 \in 1..9 /\ \A k \in 1..(4 - 1) : k = 1 \/ k = 2 \/ k = 3
    OBVIOUS
  <2>2. FirstOf(rules) = "merge"
    BY <1>2, <1>3, <1>4, <1>5, <1>7, <2>1, FirstIs, Zenon
  <2> QED BY <1>1, <1>7, <2>2 DEF r1
<1> QED BY <1>6, <1>7

\* The hint of a line that goes on with it is the sleeper.
LEMMA HintsSleeper ==
  ASSUME NEW l \in GoingOn, NEW es, TwoEntries(es), NEW b
  PROVE  Hint(l, es, b) = [target |-> 1, how |-> IF l.override THEN "override" ELSE "merge"]
<1> DEFINE C == Candidates(l, es)
           Top(i) == \A k \in C : ~Ahead(l, es[k], es[i]) /\ (k < i => Ahead(l, es[i], es[k]))
           top == CHOOSE i \in C : Top(i)
           urgent == l.interrupt /\ TextDomain(l.text) = "combat" /\ b.attack
<1>1. /\ 1 \in DOMAIN es /\ SleeperEntry(es[1])
      /\ \A i \in DOMAIN es : i = 1 \/ (i = 2 /\ SupplyEntry(es[2]))
  BY DEF TwoEntries
<1>2. /\ HintScore(l, es[1]) \in Int /\ HintScore(l, es[1]) >= 3 /\ Fits(l, es[1])
      /\ 2 \in DOMAIN es /\ Fits(l, es[2]) => HintScore(l, es[2]) \in 0..2
  BY <1>1, SleeperScores
<1>3. 1 \in C /\ \A i \in C : i = 1 \/ (i = 2 /\ HintScore(l, es[2]) \in 0..2 /\ es[2].group \in Int)
  <2>1. \A i : i \in C <=> i \in DOMAIN es /\ Fits(l, es[i]) /\ HintScore(l, es[i]) > 0
    BY DEF Candidates
  <2>2. HintScore(l, es[1]) > 0
    BY <1>2
  <2> HIDE DEF C
  <2>3. SupplyEntry(es[2]) => es[2].group \in Int
    <3>1. SupplyEntry(es[2]) => es[2].group = 0
      BY Zenon DEF SupplyEntry
    <3> QED BY <3>1
  <2> QED BY <1>1, <1>2, <2>1, <2>2, <2>3, Zenon
<1>4. es[1].group \in Int
  BY <1>1 DEF SleeperEntry
<1> HIDE DEF C
<1>5. ~Ahead(l, es[1], es[1]) /\ ~(1 < 1)
  BY <1>2, <1>4, AheadIs
<1>6. 2 \in C => Ahead(l, es[1], es[2]) /\ ~Ahead(l, es[2], es[1])
  <2> SUFFICES ASSUME 2 \in C PROVE Ahead(l, es[1], es[2]) /\ ~Ahead(l, es[2], es[1])
    OBVIOUS
  <2>1. HintScore(l, es[2]) \in 0..2
    BY <1>3
  <2>2. HintScore(l, es[2]) \in Int /\ HintScore(l, es[2]) < HintScore(l, es[1])
    BY <1>2, <2>1
  <2> QED BY <1>2, <1>4, <2>2, AheadIs
<1>7. Top(1)
  BY <1>3, <1>5, <1>6
<1>8. ~(2 \in C /\ Top(2))
  BY <1>3, <1>6
<1>9. top = 1
  <2>1. top \in C /\ Top(top)
    BY <1>3, <1>7
  <2> HIDE DEF top, Top
  <2> QED BY <1>3, <1>8, <2>1
<1>10. TopOf(C, LAMBDA i, k : Ahead(l, es[i], es[k])) = 1
  BY <1>9 DEF TopOf
<1>11. ~urgent
  BY GoingOnIs
<1>12. es # <<>> /\ C # {}
  BY <1>1, <1>3
<1> HIDE DEF urgent
<1>13. Hint(l, es, b) = [target |-> es[1].id, how |-> Suggestion(l, es[1], b.free)]
  BY <1>10, <1>11, <1>12 DEF Hint, C, urgent
<1>14. es[1].id = 1
  BY <1>1 DEF SleeperEntry
<1>15. Suggestion(l, es[1], b.free) = IF l.override THEN "override" ELSE "merge"
  BY <1>1, SuggestsSleeper
<1> QED BY <1>13, <1>14, <1>15

\* A line without a target of its own takes the hint's.
LEMMA AppliesHint ==
  ASSUME NEW hint
  PROVE  Applied([type |-> "command", target |-> 0, how |-> ""], hint) =
           [type |-> "command", target |-> hint.target, how |-> hint.how]
BY DEF Applied

\* Who asks is led to it or to no task.
LEMMA AsksSleeper ==
  ASSUME NEW l \in GoingOn, NEW es, TwoEntries(es)
  PROVE  QueryTarget(l, es) \in {0, 1}
<1> DEFINE scored == {i \in DOMAIN es : ~es[i].cap /\ QueryScore(l, es[i]) > 0}
           top == CHOOSE i \in scored : \A k \in scored : /\ ~(QueryScore(l, es[k]) > QueryScore(l, es[i]))
                                                          /\ k < i => QueryScore(l, es[i]) > QueryScore(l, es[k])
<1>1. /\ SleeperEntry(es[1])
      /\ \A i \in DOMAIN es : i = 1 \/ (i = 2 /\ SupplyEntry(es[2]))
  BY DEF TwoEntries
<1>2. es[1].id = 1 /\ es[1].group \in {0, 1} /\ (2 \in DOMAIN es => es[2].id = 2 /\ es[2].cap)
  <2>1. es[1].id = 1 /\ es[1].group \in {0, 1}
    BY <1>1, Zenon DEF SleeperEntry
  <2>2. 2 \in DOMAIN es => SupplyEntry(es[2])
    BY DEF TwoEntries
  <2>3. SupplyEntry(es[2]) => es[2].id = 2 /\ es[2].cap
    BY Zenon DEF SupplyEntry
  <2> QED BY <2>1, <2>2, <2>3, Zenon
<1>3. l.label = 0 /\ ~l.few
  BY GoingOnIs
<1>4. ~\E i \in DOMAIN es : l.label = es[i].id
  BY <1>1, <1>2, <1>3
<1>5. QueryTarget(l, es) = IF scored # {} THEN es[top].id ELSE 0
  BY <1>3, <1>4 DEF QueryTarget, TopOf
<1>6. QueryScore(l, es[1]) \in Int
  <2> DEFINE e == es[1]
             said == TextDomain(l.text)
             fits == DomainOf(e) = said
             x == IF said = "general" THEN 0 ELSE IF fits THEN 4 ELSE -1
             y == IF e.group > 6 THEN 6 ELSE e.group
             p == e.state = "running"
             q == e.state \in {"waiting", "waiting_units"}
             r == e.expert \in {"combat", "recon", "move"}
  <2>1. QueryScore(l, e) = x + y + Points(p, 2) + Points(q, 1) + Points(r, 1)
    BY DEF QueryScore
  <2>2. y \in Int
    BY <1>2
  <2>3. x \in Int
    <3> HIDE DEF fits, said
    <3> QED OBVIOUS
  <2> HIDE DEF x, y, p, q, r
  <2>4. Points(p, 2) \in Int /\ Points(q, 1) \in Int /\ Points(r, 1) \in Int
    BY DEF Points
  <2> HIDE DEF e
  <2>5. QueryScore(l, e) \in Int
    BY <2>1, <2>2, <2>3, <2>4
  <2> QED BY <2>5 DEF e
<1>7. \A i \in scored : i = 1
  BY <1>1, <1>2
<1> HIDE DEF scored
<1>8. scored # {} => top = 1
  <2> SUFFICES ASSUME scored # {} PROVE top = 1
    OBVIOUS
  <2>1. scored = {1}
    BY <1>7
  <2>2. ~(QueryScore(l, es[1]) > QueryScore(l, es[1])) /\ ~(1 < 1)
    BY <1>6
  <2> QED BY <2>1, <2>2
<1> HIDE DEF top
<1> QED BY <1>2, <1>5, <1>8

\* The entries of the Adjutant's context while an agent sleeps.
LEMMA SleeperEntries ==
  ASSUME BoardInv, asleep
  PROVE  TwoEntries(Entries)
<1> DEFINE e == EntryOf(1)
           f == EntryOf(2)
           rest == IF cap THEN <<f>> ELSE <<>>
           es == <<e>> \o rest
<1>1. taskStatus = "running" /\ HasWait(reqs) /\ RowsTell(facts.rows, reqs) /\ facts.groups \subseteq {1}
  BY DEF BoardInv, Shows
<1>2. Entries = es
  BY <1>1 DEF Entries
<1>3. SleeperEntry(e)
  <2>1. TaskOf(1).flow = "recon" /\ TaskOf(1).id = 1
    BY DEF TaskOf
  <2>2. \E k \in DOMAIN reqs : reqs[k].open
    BY <1>1 DEF HasWait, Waits
  <2>3. OfTask(facts.rows, 1) # <<>>
    <3> DEFINE mine == OfTask(facts.rows, 1)
    <3>1. RowsTell(mine, reqs)
      BY <1>1, RowsAreMine
    <3> HIDE DEF mine
    <3>2. mine # <<>>
      BY <2>2, <3>1, IdsTold
    <3> QED BY <3>2 DEF mine
  <2>4. WorkflowPhase(TaskOf(1), facts) \in {"recon_running", "ready_to_recon", "waiting_for_units"}
    BY <2>1, <2>3, SleeperWorks, Zenon
  <2>5. /\ e.id = 1 /\ e.cap = (1 = 2) /\ e.flow = TaskOf(1).flow /\ e.wphase = WorkflowPhase(TaskOf(1), facts)
        /\ e.group = IF 1 \in facts.groups THEN 1 ELSE 0
    BY DEF EntryOf
  <2> HIDE DEF e
  <2>6. e.group \in {0, 1} /\ ~e.cap
    <3>1. 1 # 2
      OBVIOUS
    <3>2. ~e.cap
      BY <2>5, <3>1, Zenon
    <3>3. e.group = 0 \/ e.group = 1
      BY <2>5, Zenon
    <3> QED BY <3>2, <3>3
  <2> QED BY <2>1, <2>4, <2>5, <2>6, Zenon DEF SleeperEntry
<1>4. SupplyEntry(f)
  <2>1. TaskOf(2).flow = ""
    <3>1. 2 # 1
      OBVIOUS
    <3>2. TaskOf(2) = [id |-> 2, cap |-> TRUE, status |-> IF cap THEN "running" ELSE "aborted", flow |-> ""]
      BY <3>1, Zenon DEF TaskOf
    <3> DEFINE nothing == ""
               now == IF cap THEN "running" ELSE "aborted"
               task == [id |-> 2, cap |-> TRUE, status |-> now, flow |-> nothing]
    <3>3. TaskOf(2) = task
      BY <3>2
    <3> HIDE DEF nothing, now
    <3>4. task.flow = nothing
      OBVIOUS
    <3> HIDE DEF task
    <3>5. TaskOf(2).flow = nothing
      BY <3>3, <3>4, Zenon
    <3> QED BY <3>5, Zenon DEF nothing
  <2>2. WorkflowPhase(TaskOf(2), facts) = ""
    BY <2>1, NoFlowNoPhase, Zenon
  <2>3. /\ f.id = 2 /\ f.cap = (2 = 2) /\ f.flow = TaskOf(2).flow /\ f.wphase = WorkflowPhase(TaskOf(2), facts)
        /\ f.group = IF 2 \in facts.groups THEN 1 ELSE 0
    BY DEF EntryOf
  <2>4. 2 \notin facts.groups
    BY <1>1
  <2> QED BY <2>1, <2>2, <2>3, <2>4, Zenon DEF SupplyEntry
<1> HIDE DEF e, f
<1>5. /\ DOMAIN es = 1..1 \/ DOMAIN es = 1..2
      /\ es[1] = e /\ (2 \in DOMAIN es => es[2] = f)
  OBVIOUS
<1> HIDE DEF es
<1> QED BY <1>2, <1>3, <1>4, <1>5 DEF TwoEntries

LEMMA SleeperShown ==
  ASSUME BoardInv
  PROVE  SleepIsShown
<1> SUFFICES ASSUME asleep PROVE SleepIsShown
  BY DEF SleepIsShown
<1>1. /\ HasWait(reqs) /\ RowsTell(facts.rows, reqs) /\ StatusTells(facts.status, facts.rows, reqs, cap)
      /\ cap \in BOOLEAN
  BY DEF BoardInv, Shows, BoardTyped
<1>2. PICK k \in DOMAIN reqs : reqs[k].open /\ ~reqs[k].released
  BY <1>1 DEF HasWait, Waits
<1>3. Open(reqs) # {} /\ facts.rows # <<>>
  BY <1>1, <1>2, IdsTold
<1>4. Telling(CardOf(1))
  <2>1. \A truth : Telling(CardWith(1, truth))
    BY SleeperTells
  <2> QED BY <2>1 DEF CardOf
<1>5. RowsTell(OfTask(facts.rows, 1), reqs)
  BY <1>1, RowsAreMine
<1>6. TaskFocus(facts.rows, 1).id \in Open(reqs)
  <2> DEFINE mine == OfTask(facts.rows, 1)
  <2>1. TaskFocus(facts.rows, 1) = Focus(mine)
    BY DEF TaskFocus
  <2> HIDE DEF mine
  <2>2. RowsTell(mine, reqs)
    BY <1>5 DEF mine
  <2> QED BY <1>3, <2>1, <2>2, FocusTold
<1>7. TwoEntries(Entries)
  BY SleeperEntries
<1>8. WorkflowPhase(TaskOf(1), facts) # "request_units_first"
  <2> DEFINE mine == OfTask(facts.rows, 1)
  <2>1. TaskOf(1).flow = "recon" /\ TaskOf(1).id = 1
    BY DEF TaskOf
  <2>2. RowsTell(mine, reqs)
    BY <1>5
  <2> HIDE DEF mine
  <2>3. mine # <<>>
    BY <1>3, <2>2, IdsTold
  <2>4. WorkflowPhase(TaskOf(1), facts) \in {"recon_running", "ready_to_recon", "waiting_for_units"}
    BY <2>1, <2>3, SleeperWorks, Zenon DEF mine
  <2> QED BY <2>4
<1> DEFINE v == ViewWith({1}, TRUE)
           b == Battlefield(v)
<1>9. cap /\ ~world.low /\ ~Jammed => b.posture = "satisfy_requests"
  <2> SUFFICES ASSUME cap, ~world.low, ~Jammed PROVE b.posture = "satisfy_requests"
    OBVIOUS
  <2>1. v.low = world.low /\ v.jam = Jammed /\ v.pending = facts.status.pending
    BY DEF ViewWith
  <2>2. facts.status.pending
    BY <1>1, <1>2 DEF StatusTells
  <2> HIDE DEF v
  <2> QED BY <2>1, <2>2, AdviceServes
<1> HIDE DEF b, v
<1>10. ASSUME NEW l \in GoingOn
       PROVE  /\ Applied([type |-> "command", target |-> 0, how |-> ""], Hint(l, Entries, b)) =
                   [type |-> "command", target |-> 1, how |-> IF l.override THEN "override" ELSE "merge"]
              /\ QueryFocus(l, Entries, facts.rows).id \in Open(reqs) \cup {0}
  <2> DEFINE hint == Hint(l, Entries, b)
             way == IF l.override THEN "override" ELSE "merge"
  <2>1. hint = [target |-> 1, how |-> way]
    BY <1>7, HintsSleeper
  <2> HIDE DEF hint, way
  <2>2. Applied([type |-> "command", target |-> 0, how |-> ""], hint) =
          [type |-> "command", target |-> hint.target, how |-> hint.how]
    BY AppliesHint, Zenon
  <2>3. hint.target = 1 /\ hint.how = way
    BY <2>1
  <2>4. QueryTarget(l, Entries) \in {0, 1}
    BY <1>7, AsksSleeper
  <2>5. QueryFocus(l, Entries, facts.rows).id \in Open(reqs) \cup {0}
    <3> DEFINE t == QueryTarget(l, Entries)
    <3>1. QueryFocus(l, Entries, facts.rows) = IF t = 0 THEN NoRow ELSE TaskFocus(facts.rows, t)
      BY DEF QueryFocus
    <3>2. NoRow.id = 0
      BY DEF NoRow
    <3> HIDE DEF t
    <3>3. t = 0 \/ t = 1
      BY <2>4 DEF t
    <3> QED BY <1>6, <3>1, <3>2, <3>3, Zenon
  <2> QED BY <2>2, <2>3, <2>5, Zenon DEF hint, way
<1>11. cap => facts.status.blocker # ""
  BY <1>1, <1>2, Zenon DEF StatusTells
<1>12. ASSUME NEW attack \in BOOLEAN, NEW off \in BOOLEAN
       PROVE  Headline(Situation(attack, off)) # "" /\ BlockerIsAlerted(Situation(attack, off))
  <2> DEFINE s == Situation(attack, off)
  <2>1. s.waiting
    BY <1>3 DEF Situation
  <2> HIDE DEF s
  <2> QED BY <2>1, HeadlineThere, BlockerAlerts DEF s
<1> QED BY <1>4, <1>6, <1>8, <1>9, <1>10, <1>11, <1>12, Zenon DEF SleepIsShown, b, v

\* An agent that sleeps is shown to sleep, by the card, the context and the
\* alerts, in every state of its task and of the world, however old the last
\* export is; and the player's line that goes on with its work is led to it
\* (build_task_triage, _coordinator_hints, _coordinator_alerts).
THEOREM SleepersAreShown == BoardSpec => []SleepIsShown
BY BoardHolds, SleeperShown, PTL

-----------------------------------------------------------------------------
(* What the operators promise of every snapshot, line, entry and view.     *)

\* A line that goes on with something never opens a task of its own when some
\* task is a candidate (_coordinator_hints).
THEOREM FollowUpsJoin == \A l, e, free : FollowUpJoins(l, e, free)
<1> SUFFICES ASSUME NEW l, NEW e, NEW free
             PROVE  FollowsUp(l) => Suggestion(l, e, free) # ""
  BY DEF FollowUpJoins
<1> DEFINE said   == TextDomain(l.text)
           field  == said \in {"combat", "recon"}
           joins  == FollowsUp(l) \/ Overlaps(l, e)
           supply == e.cap /\ (FollowsUp(l) \/ said = "economy")
           r1 == l.override
           r2 == supply /\ e.blocks \in {"missing_prerequisite", "request_inference_pending"}
           r3 == supply /\ e.phase \in {"dispatch", "bootstrapping", "fulfilling"}
           r4 == WorkflowGoesOn(l, e)
           r5 == field /\ e.group > 0 /\ free = 0 /\ joins
           r6 == field /\ e.group > 0 /\ free > 0 /\ ~FollowsUp(l)
           r7 == field /\ joins
           r8 == FollowsUp(l) \/ said = "economy"
           nothing == ""
           rules == << <<r1, "override">>, <<r2, "merge">>, <<r3, "merge">>, <<r4, "merge">>, <<r5, "merge">>,
                       <<r6, nothing>>, <<r7, "merge">>, <<r8, "merge">>, <<TRUE, nothing>> >>
<1>1. Suggestion(l, e, free) = FirstOf(rules)
  BY DEF Suggestion
<1>2. FollowsUp(l) => ~r6 /\ r8
  BY Zenon
<1>3. "override" # nothing /\ "merge" # nothing
  BY Zenon
<1> HIDE DEF r1, r2, r3, r4, r5, r6, r7, r8, nothing
<1>4. /\ rules[6][1] = r6 /\ rules[8][1] = r8 /\ rules[9][1]
      /\ rules[1][2] = "override" /\ rules[2][2] = "merge" /\ rules[3][2] = "merge" /\ rules[4][2] = "merge"
      /\ rules[5][2] = "merge" /\ rules[7][2] = "merge" /\ rules[8][2] = "merge"
  OBVIOUS
<1>5. DOMAIN rules = 1..9 /\ 9 \in Nat /\ 9 \in 1..9
  OBVIOUS
<1> HIDE DEF rules
<1>6. PICK i \in 1..9 : /\ rules[i][1] /\ FirstOf(rules) = rules[i][2]
                        /\ \A k \in 1..(i - 1) : ~rules[k][1]
  BY <1>4, <1>5, FirstHolds, Zenon
<1>7. i = 1 \/ i = 2 \/ i = 3 \/ i = 4 \/ i = 5 \/ i = 6 \/ i = 7 \/ i = 8 \/ (i = 9 /\ 8 \in 1..(i - 1))
  OBVIOUS
<1>8. FollowsUp(l) => FirstOf(rules) # nothing
  BY <1>2, <1>3, <1>4, <1>6, <1>7, Zenon
<1> QED BY <1>1, <1>8, Zenon DEF nothing

\* A fresh order to the field takes over a task that has units, while others
\* are free, only when its workflow's units are there (_coordinator_hints).
THEOREM FreshOrdersStayNew == \A l, e, free : FreshOrderStaysNew(l, e, free)
<1> SUFFICES ASSUME NEW l, NEW e, NEW free, ~FollowsUp(l), TextDomain(l.text) \in {"combat", "recon"},
                    e.group > 0, free > 0
             PROVE  Suggestion(l, e, free) = "merge" => e.wphase \in LatePhase
  BY DEF FreshOrderStaysNew
<1> DEFINE said   == TextDomain(l.text)
           field  == said \in {"combat", "recon"}
           joins  == FollowsUp(l) \/ Overlaps(l, e)
           supply == e.cap /\ (FollowsUp(l) \/ said = "economy")
           r1 == l.override
           r2 == supply /\ e.blocks \in {"missing_prerequisite", "request_inference_pending"}
           r3 == supply /\ e.phase \in {"dispatch", "bootstrapping", "fulfilling"}
           r4 == WorkflowGoesOn(l, e)
           r5 == field /\ e.group > 0 /\ free = 0 /\ joins
           r6 == field /\ e.group > 0 /\ free > 0 /\ ~FollowsUp(l)
           r7 == field /\ joins
           r8 == FollowsUp(l) \/ said = "economy"
           nothing == ""
           rules == << <<r1, "override">>, <<r2, "merge">>, <<r3, "merge">>, <<r4, "merge">>, <<r5, "merge">>,
                       <<r6, nothing>>, <<r7, "merge">>, <<r8, "merge">>, <<TRUE, nothing>> >>
<1>1. Suggestion(l, e, free) = FirstOf(rules)
  BY DEF Suggestion
<1>2. r4 => e.wphase \in LatePhase
  BY DEF WorkflowGoesOn
<1>3. ~r1 /\ ~r2 /\ ~r3 /\ ~r5 /\ r6
  <2>1. ~r1
    BY DEF FollowsUp
  <2>2. ~supply
    OBVIOUS
  <2>3. ~(free = 0)
    OBVIOUS
  <2> QED BY <2>1, <2>2, <2>3, Zenon
<1>4. "merge" # nothing
  BY Zenon
<1> HIDE DEF r1, r2, r3, r4, r5, r6, r7, r8, nothing
<1>5. /\ rules[1][1] = r1 /\ rules[2][1] = r2 /\ rules[3][1] = r3 /\ rules[4][1] = r4 /\ rules[5][1] = r5
      /\ rules[6][1] = r6 /\ rules[6][2] = nothing
  OBVIOUS
<1>6. DOMAIN rules = 1..9 /\ 9 \in Nat /\ 6 \in 1..9
  OBVIOUS
<1> HIDE DEF rules
<1>7. CASE r4
  BY <1>2, <1>7
<1>8. CASE ~r4
  <2>1. \A k \in 1..(6 - 1) : k = 1 \/ k = 2 \/ k = 3 \/ k = 4 \/ k = 5
    OBVIOUS
  <2>2. FirstOf(rules) = nothing
    BY <1>3, <1>5, <1>6, <1>8, <2>1, FirstIs, Zenon
  <2> QED BY <1>1, <1>4, <2>2, Zenon
<1> QED BY <1>7, <1>8

\* The Adjutant's own count of free fighters is no more than the world model's
\* as long as the groups it adds up cover the units taken
\* (_battlefield_snapshot, battlefield_snapshot).
THEOREM OwnOffersAreLess ==
  ASSUME NEW v, IsView(v)
  PROVE  OwnOffersLess(v)
<1> DEFINE a == Cardinality(v.fighters)
           t == Cardinality(v.taken)
           both == Cardinality(v.fighters \cap v.taken)
           rest == Cardinality(v.fighters \ v.taken)
           left == a - v.grouped
           own == IF left > 0 THEN left ELSE 0
<1>1. IsFiniteSet(v.fighters) /\ IsFiniteSet(v.taken) /\ v.grouped \in Nat
  BY DEF IsView
<1>2. rest = a - both /\ a \in Nat /\ t \in Nat /\ rest \in Nat
  <2>1. IsFiniteSet(v.fighters \ v.taken) /\ rest = a - both
    BY <1>1, FS_Difference, Zenon
  <2> QED BY <1>1, <2>1, FS_CardinalityType, Zenon
<1>3. both \in Nat /\ both <= t
  <2>1. v.fighters \cap v.taken \in SUBSET v.taken
    OBVIOUS
  <2>2. IsFiniteSet(v.fighters \cap v.taken) /\ both <= t
    BY <1>1, <2>1, FS_Subset, Zenon
  <2> QED BY <2>2, FS_CardinalityType, Zenon
<1>4. Battlefield(v).free = rest
  BY DEF Battlefield
<1>5. OwnBattlefield(v).free = own
  BY DEF OwnBattlefield
<1> HIDE DEF a, t, both, rest
<1>6. v.grouped >= t => own <= rest
  BY <1>1, <1>2, <1>3
<1> QED BY <1>4, <1>5, <1>6 DEF OwnOffersLess, t

\* What a type in the roster needs is of the kinds that are counted.
CountedKind == {"fact", "powr", "barr", "proc", "weap", "dome", "stek", "fix", "afld"}

LEMMA NeedsAreCounted ==
  ASSUME NEW u
  PROVE  Prereq(u) \subseteq CountedKind
BY DEF Prereq, CountedKind

\* What stands is counted, if its kind is.
LEMMA StandsCounted ==
  ASSUME NEW w, NEW S, S \subseteq CountedKind, S \subseteq w.own
  PROVE  S \subseteq Counted(w)
<1> SUFFICES ASSUME NEW s \in S PROVE s \in Counted(w)
  OBVIOUS
<1>1. s \in CountedKind /\ s \in w.own
  OBVIOUS
<1>2. CounterOf(s) = s
  BY <1>1 DEF CounterOf, CountedKind
<1>3. s \in {CounterOf(x) : x \in w.own}
  BY <1>1, <1>2
<1> QED BY <1>1, <1>3 DEF Counted, CountedKind

\* No reason against an order: every check passes.
LEMMA NoReasonPasses ==
  ASSUME NEW w, NEW u, NEW q
  PROVE  ReadinessReason(w, u, q) = "" =>
           /\ ~w.stale /\ QueueBlock(w, q) = ""
           /\ ~(~(Prereq(u) \subseteq w.on) /\ OffPrereq(w, u) # {})
<1> DEFINE checks == Checks(w, u, q)
           failing == {i \in 1..9 : checks[i][2]}
           Least(i) == \A k \in failing : i <= k
           first == CHOOSE i \in failing : Least(i)
           nothing == ""
           clear == QueueBlock(w, q) = ""
           off == ~(Prereq(u) \subseteq w.on) /\ OffPrereq(w, u) # {}
           stale == w.stale
<1>1. ReadinessReason(w, u, q) = IF failing = {} THEN nothing ELSE checks[first][1]
  BY DEF ReadinessReason
<1>2. (checks[1][2] <=> stale) /\ (checks[4][2] <=> ~clear) /\ (checks[7][2] <=> off)
  BY DEF Checks
<1>3. /\ checks[1][1] # nothing /\ checks[2][1] # nothing /\ checks[3][1] # nothing /\ checks[4][1] # nothing
      /\ checks[5][1] # nothing /\ checks[6][1] # nothing /\ checks[7][1] # nothing /\ checks[8][1] # nothing
      /\ checks[9][1] # nothing
  BY DEF Checks
<1> HIDE DEF checks, nothing, clear, off, stale
<1>4. failing = {} => ~stale /\ clear /\ ~off
  BY <1>2
<1>5. failing # {} => checks[first][1] # nothing
  <2> SUFFICES ASSUME failing # {} PROVE checks[first][1] # nothing
    OBVIOUS
  <2>1. failing \in SUBSET Nat /\ failing \subseteq 1..9
    OBVIOUS
  <2> HIDE DEF failing
  <2>2. \E m \in failing : Least(m)
    BY <2>1, LeastNumber
  <2>3. first \in failing
    BY <2>2
  <2> HIDE DEF first
  <2>4. \/ first = 1 \/ first = 2 \/ first = 3 \/ first = 4 \/ first = 5
        \/ first = 6 \/ first = 7 \/ first = 8 \/ first = 9
    BY <2>1, <2>3
  <2> QED BY <1>3, <2>4, Zenon
<1> HIDE DEF failing, first
<1>6. ReadinessReason(w, u, q) = nothing => ~stale /\ clear /\ ~off
  BY <1>1, <1>4, <1>5, Zenon
<1> QED BY <1>6, Zenon DEF nothing, stale, clear, off

\* What passes can be built: its needs stand, are counted and work.
LEMMA PassesIsBuildable ==
  ASSUME NEW w, NEW q, NEW u \in BuildableNow(w, q)
  PROVE  u \in Buildable(w, Faction(w), q)
<1>1. u \in Roster(Faction(w), q) /\ PrereqOwned(w, u) /\ ReadinessReason(w, u, q) = ""
  BY Zenon DEF BuildableNow, CanIssueNow
<1>2. Prereq(u) \subseteq w.own
  BY <1>1, Zenon DEF PrereqOwned
<1>3. Prereq(u) \subseteq w.on
  <2>1. ~(~(Prereq(u) \subseteq w.on) /\ OffPrereq(w, u) # {})
    BY <1>1, NoReasonPasses, Zenon
  <2> DEFINE needs == Prereq(u)
  <2> HIDE DEF needs
  <2>2. needs \subseteq w.own /\ ~(~(needs \subseteq w.on) /\ (needs \cap w.own) \ w.on # {})
    BY <1>2, <2>1, Zenon DEF OffPrereq, needs
  <2>3. needs \subseteq w.on
    BY <2>2
  <2> QED BY <2>3 DEF needs
<1>4. Prereq(u) \subseteq Counted(w)
  BY <1>2, NeedsAreCounted, StandsCounted, Zenon
<1> QED BY <1>1, <1>3, <1>4, Zenon DEF Buildable, ByCounters

\* The three lists that prompts are made of never contradict each other: what
\* is offered for an order can be built, all that can be built is offered or
\* listed as held up, and what is held up has a reason (compute_runtime_facts,
\* _demo_capability_issue_now_snapshot).
THEOREM OffersAlwaysAgree ==
  ASSUME NEW w, IsWorld(w)
  PROVE  OffersAgree(w)
<1> SUFFICES ASSUME NEW q \in QueueType
             PROVE  /\ BuildableNow(w, q) \subseteq Buildable(w, Faction(w), q)
                    /\ Buildable(w, Faction(w), q) \subseteq BuildableNow(w, q) \cup BuildableBlocked(w, q)
                    /\ \A u \in BuildableBlocked(w, q) : ReadinessReason(w, u, q) # ""
  BY Zenon DEF OffersAgree
<1>1. BuildableNow(w, q) \subseteq Buildable(w, Faction(w), q)
  BY PassesIsBuildable, Zenon
<1>2. ASSUME NEW u \in Buildable(w, Faction(w), q)
      PROVE  u \in BuildableNow(w, q) \cup BuildableBlocked(w, q)
  <2>1. u \in Roster(Faction(w), q) /\ Prereq(u) \subseteq w.on
    BY <1>2, Zenon DEF Buildable, ByCounters
  <2>2. w.on \subseteq w.own
    BY DEF IsWorld
  <2>3. PrereqOwned(w, u)
    BY <2>1, <2>2, Zenon DEF PrereqOwned
  <2> QED BY <2>1, <2>3, Zenon DEF BuildableNow, BuildableBlocked
<1>3. \A u \in BuildableBlocked(w, q) : ReadinessReason(w, u, q) # ""
  BY Zenon DEF BuildableBlocked, CanIssueNow
<1> QED BY <1>1, <1>2, <1>3

\* A step that is shown as possible passes every check of an order, and none
\* is shown on a stale world, without a yard, or on a jammed queue
\* (normalize_base_progression).
THEOREM StepsAreSafe ==
  ASSUME NEW w, IsWorld(w)
  PROVE  StepIsSafe(w)
<1> DEFINE p == Progression(w)
           now == BuildableNow(w, "Building")
           held == BuildableBlocked(w, "Building")
           step == ShownStep(w)
           nothing == ""
<1> SUFFICES ASSUME step.now
             PROVE  /\ CanIssueNow(w, step.next, "Building")
                    /\ ~w.stale /\ HasYard(w) /\ QueueBlock(w, "Building") = ""
  BY DEF StepIsSafe
<1>1. "Building" \in QueueType
  BY DEF QueueType
<1>2. ~Unsupported(w) /\ step.next = p.next /\ (p.next \in now \/ (p.now /\ p.next \notin held))
  BY DEF ShownStep
<1>3. p.now => p.next \in Buildable(w, Faction(w), "Building")
  BY DEF Progression
<1>4. p.next \in now
  BY <1>1, <1>2, <1>3, OffersAlwaysAgree, Zenon DEF OffersAgree
<1>5. CanIssueNow(w, step.next, "Building")
  BY <1>2, <1>4, Zenon DEF BuildableNow
<1>6. ~w.stale /\ QueueBlock(w, "Building") = ""
  BY <1>5, NoReasonPasses, Zenon DEF CanIssueNow
<1>7. p.next \in Roster(Faction(w), "Building")
  BY <1>4, Zenon DEF BuildableNow
<1>8. "fact" \in Prereq(p.next)
  <2> DEFINE u == p.next
  <2> HIDE DEF u
  <2>1. u \in {"powr", "proc", "barr", "weap", "dome", "fix", "afld", "stek"}
    BY <1>7 DEF Roster, SharedRoster, AlliedRoster, SovietRoster, u
  <2>2. "fact" \in Prereq(u)
    BY <2>1 DEF Prereq
  <2> QED BY <2>2 DEF u
<1>9. HasYard(w)
  <2>1. Prereq(p.next) \subseteq Counted(w)
    BY <1>4, PassesIsBuildable, Zenon DEF Buildable, ByCounters
  <2> QED BY <1>8, <2>1, Zenon DEF HasYard
<1> QED BY <1>5, <1>6, <1>9
=============================================================================
