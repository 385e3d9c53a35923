-------------------------- MODULE UnitRequestsProofs --------------------------
(***************************************************************************)
(* Proofs about the unit requests: the invariants and the action property  *)
(* that the run UnitRequests checks, for every set of tasks, requests and  *)
(* units, all shapes of requests and all ranks.                            *)
(***************************************************************************)
EXTENDS UnitRequests, FiniteSetTheorems, TLAPS

Live == {"pending", "partial", "fulfilled"}

(***************************************************************************)
(* The inductive invariant.  A wake-up that ends a wait must have a unit   *)
(* to hand over, or the agent is not resumed: so a promised unit must be   *)
(* counted by its request (RequestsAddUp), a request that is still to be   *)
(* made must have nothing, and a scan must serve pending requests only.    *)
(* For UrgentStartsFirst, a request that has not started keeps its units   *)
(* bound, so that the scan's spare units are new to it, and a request the  *)
(* scan has served has all it wants or nothing that fits is left.          *)
(***************************************************************************)
NewIsFresh == \A t \in Task : taskState[t] = "new" =>
  ~suspended[t] /\ \A r \in Request : owner[r] # t

KnownOnceMade == \A r \in Request :
  IF state[r] = "none" THEN assigned[r] = {} ELSE owner[r] \in Task

QueueIsPending == queue \subseteq Pending

KeepsUntilStart == \A r \in Request, a \in Actor :
  state[r] \in Live /\ ~released[r] /\ a \in assigned[r] => bindings[a] = Promise(r)

SpareIsUnbound == \A a \in spare : queue # {} /\ bindings[a] = Unbound

ServedIsContent == queue # {} => \A r \in Pending \ queue :
  \/ released[r]
  \/ Cardinality(assigned[r]) >= shape[r].count
  \/ shape[r].fits \cap spare = {}

RequestInv ==
  /\ TypeOK /\ NewIsFresh /\ KnownOnceMade /\ QueueIsPending
  /\ SuspendedIffWaiting /\ RequestsAddUp /\ ReadyHoldsNothing /\ ProductionFits

ScanInv == KeepsUntilStart /\ SpareIsUnbound /\ ServedIsContent

-----------------------------------------------------------------------------
(* What the operators of the model give.                                   *)

\* Sets of units are finite: their sizes are numbers, grow with the set, and
\* a union is no larger than the sizes together.
LEMMA Sizes ==
  ASSUME NEW A \in SUBSET Actor, NEW B \in SUBSET Actor
  PROVE  /\ IsFiniteSet(A) /\ Cardinality(A) \in Nat
         /\ Cardinality(A) <= Cardinality(A \cup B)
         /\ Cardinality(A \cup B) <= Cardinality(A) + Cardinality(B)
<1>1. IsFiniteSet(A) /\ IsFiniteSet(B) /\ IsFiniteSet(A \cup B)
  BY RequestsOK, FS_Subset, FS_Union
<1>2. /\ Cardinality(A) \in Nat /\ Cardinality(B) \in Nat
      /\ Cardinality(A \cup B) \in Nat /\ Cardinality(A \cap B) \in Nat
  BY <1>1, FS_CardinalityType, FS_Intersection
<1>3. Cardinality(A \cup B) = Cardinality(A) + Cardinality(B) - Cardinality(A \cap B)
  BY <1>1, FS_Union
<1>4. Cardinality(A) <= Cardinality(A \cup B)
  BY <1>1, FS_Subset, A \subseteq A \cup B
<1> QED
  BY <1>1, <1>2, <1>3, <1>4

\* A shape asks for at least one unit and starts with no more than it asks for.
LEMMA Shapes ==
  ASSUME NEW s \in Shape
  PROVE  /\ s.count \in Nat \ {0} /\ s.start \in Nat \ {0} /\ s.start <= s.count
         /\ s.fits \in SUBSET Actor /\ s.urgency \in Nat
  BY RequestsOK

\* The units taken are of those that fit and no more than are missing.
LEMMA Takes ==
  ASSUME NEW fit \in SUBSET Actor, NEW missing \in Nat, NEW S \in Taken(fit, missing)
  PROVE  /\ S \in SUBSET Actor /\ S \subseteq fit /\ Cardinality(S) <= missing
         /\ Cardinality(S) = missing \/ S = fit
  BY Sizes DEF Taken

\* The status a request gets.
LEMMA Progresses ==
  ASSUME NEW s, NEW A
  PROVE  /\ Progress(s, A) \in Live
         /\ Progress(s, A) = "fulfilled" <=> Cardinality(A) >= s.count
  BY DEF Progress, Live

\* The target of a bootstrap job is a number, and is not lowered below what is
\* missing, ordered or there.
LEMMA Goals ==
  ASSUME TypeOK, NEW r \in Request, NEW made \in Nat, assigned'[r] \in SUBSET Actor
  PROVE  /\ Goal(r, made) \in Nat
         /\ \/ Goal(r, made) <= shape[r].count - Cardinality(assigned'[r])
            \/ Goal(r, made) <= issued[r] \/ Goal(r, made) <= made
<1> DEFINE missing == shape[r].count - Cardinality(assigned'[r])
           floor == {missing, issued[r], made}
<1>1. missing \in Int /\ issued[r] \in Nat /\ target[r] \in Nat
  <2>1. Cardinality(assigned'[r]) \in Nat
    BY Sizes
  <2>2. shape[r] \in Shape /\ issued[r] \in Nat /\ target[r] \in Nat
    BY DEF TypeOK
  <2>3. shape[r].count \in Nat
    BY <2>2, Shapes
  <2> QED
    BY <2>1, <2>2, <2>3
<1>2. PICK m \in floor : \A k \in floor : k <= m
  <2>1. \/ \A k \in floor : k <= missing
        \/ \A k \in floor : k <= issued[r]
        \/ \A k \in floor : k <= made
    BY <1>1
  <2> QED
    BY <2>1
<1> DEFINE top == CHOOSE n \in floor : \A k \in floor : k <= n
<1>3. top \in floor /\ \A k \in floor : k <= top
  BY <1>2
<1>4. top \in Nat
  BY <1>1, <1>3
<1>5. Goal(r, made) = IF \E n \in floor : n >= target[r] THEN target[r] ELSE top
  BY DEF Goal
<1> HIDE DEF top
<1> QED
  BY <1>1, <1>3, <1>4, <1>5

-----------------------------------------------------------------------------
(* Types.                                                                  *)

Holder == {Unbound} \cup {Promise(r) : r \in Request} \cup {Held(t) : t \in Task}

\* What a group becomes is a set of units.
LEMMA GroupTypes ==
  ASSUME TypeOK, NEW t, NEW units \in SUBSET Actor
  PROVE  Grouped(t, units) \in [Task -> SUBSET Actor]
  BY DEF TypeOK, Grouped

\* Filling a request and waking its task keeps the types of what they change.
LEMMA FillTypes ==
  ASSUME TypeOK, NEW r \in Request, NEW S \in SUBSET Actor,
         Credit(r, S), Wake(r, Promised(r, S))
  PROVE  /\ assigned' \in [Request -> SUBSET Actor]
         /\ state' \in [Request -> {"none", "pending", "partial", "fulfilled", "cancelled", "gone"}]
         /\ released' \in [Request -> BOOLEAN] /\ suspended' \in [Task -> BOOLEAN]
         /\ bindings' \in [Actor -> Holder] /\ groups' \in [Task -> SUBSET Actor]
<1>1. assigned' \in [Request -> SUBSET Actor]
  BY DEF TypeOK, Credit
<1>2. state' \in [Request -> {"none", "pending", "partial", "fulfilled", "cancelled", "gone"}]
  <2>1. Progress(shape[r], assigned[r] \cup S) \in {"pending", "partial", "fulfilled"}
    BY Progresses DEF Live
  <2> QED
    BY <2>1 DEF TypeOK, Credit
<1> DEFINE t == owner[r]
           bound == Promised(r, S)
           handed == {a \in Actor : \E q \in Ready(t) : a \in assigned'[q] /\ bound[a] = Promise(q)}
<1>3. bound \in [Actor -> Holder]
  BY DEF TypeOK, Holder, Promised
<1> HIDE DEF bound
<1>4. CASE StillWaits(t, state', assigned')
  BY <1>1, <1>2, <1>3, <1>4 DEF Wake, TypeOK, bound
<1>5. CASE ~StillWaits(t, state', assigned')
  <2>1. /\ released' = [q \in Request |-> released[q] \/ q \in Ready(t)]
        /\ bindings' = [a \in Actor |-> IF a \in handed THEN Unbound ELSE bound[a]]
        /\ groups' = Grouped(t, handed)
        /\ suspended' = [suspended EXCEPT ![t] = @ /\ handed = {}]
    BY <1>5 DEF Wake, bound
  <2>2. handed \in SUBSET Actor
    OBVIOUS
  <2> HIDE DEF handed
  <2>3. released' \in [Request -> BOOLEAN] /\ suspended' \in [Task -> BOOLEAN]
    BY <2>1 DEF TypeOK
  <2>4. bindings' \in [Actor -> Holder]
    BY <2>1, <1>3 DEF Holder
  <2>5. groups' \in [Task -> SUBSET Actor]
    BY <2>1, <2>2, GroupTypes
  <2> QED
    BY <1>1, <1>2, <2>3, <2>4, <2>5
<1> QED
  BY <1>4, <1>5

\* The initial state has its types.
LEMMA InitTypes == Init => TypeOK
<1> SUFFICES ASSUME Init PROVE TypeOK
  OBVIOUS
<1>1. AnyShape \in Shape
  BY RequestsOK DEF AnyShape
<1> QED
  BY <1>1 DEF Init, TypeOK, Unbound

\* Every step keeps the types.
LEMMA StepTypes == TypeOK /\ [Next]_vars => TypeOK'
<1> SUFFICES ASSUME TypeOK, [Next]_vars PROVE TypeOK'
  OBVIOUS
<1>1. ASSUME NEW t \in Task, OpenTask(t) PROVE TypeOK'
  BY <1>1 DEF OpenTask, TypeOK, unitVars, askVars, fillVars, jobVars, scanVars
<1>2. ASSUME NEW t \in Task, NEW result \in {"ended"}, EndsTask(t, result)
      PROVE  /\ taskState' \in [Task -> {"new", "open", "ended", "gone"}]
             /\ bindings' \in [Actor -> Holder] /\ groups' \in [Task -> SUBSET Actor]
  BY <1>2 DEF EndsTask, TypeOK, Dropped, Holder
<1>3. ASSUME NEW t \in Task, CompleteTask(t) PROVE TypeOK'
  BY <1>2, <1>3 DEF CompleteTask, EndsTask, TypeOK, Holder, askVars, scanVars
<1>4. ASSUME NEW t \in Task, CancelTask(t) PROVE TypeOK'
  <2>1. EndsTask(t, "ended")
    BY <1>4 DEF CancelTask
  <2> QED
    BY <1>2, <1>4, <2>1 DEF CancelTask, EndsTask, TypeOK, Holder, askVars, scanVars
<1>5. ASSUME NEW t \in Task, NEW r \in Request, NEW s \in Shape, Register(t, r, s)
      PROVE  TypeOK'
  <2>1. PICK S \in Taken(s.fits \cap Idle, s.count), start \in BOOLEAN :
          /\ owner' = [owner EXCEPT ![r] = t]
          /\ shape' = [shape EXCEPT ![r] = s]
          /\ assigned' = [assigned EXCEPT ![r] = S]
          /\ state' = [state EXCEPT ![r] = Progress(s, S)]
          /\ released' = [released EXCEPT ![r] = CanStart(s, S)]
          /\ IF CanStart(s, S)
             THEN groups' = Grouped(t, S) /\ UNCHANGED bindings
             ELSE /\ bindings' = [a \in Actor |-> IF a \in S THEN Promise(r) ELSE bindings[a]]
                  /\ UNCHANGED groups
          /\ job' = [job EXCEPT ![r] = IF start THEN "live" ELSE "none"]
          /\ target' = [target EXCEPT ![r] = IF start THEN s.count - Cardinality(S) ELSE 0]
          /\ suspended' = [suspended EXCEPT ![t] =
                             @ \/ (Cardinality(S) < s.count /\ BlockingWait(t)')]
    BY <1>5 DEF Register
  <2>2. UNCHANGED <<taskState, issued, produced, unseen, world, queue, spare, startable>>
    BY <1>5 DEF Register, scanVars
  <2>3. /\ S \in SUBSET Actor /\ Cardinality(S) \in Nat /\ s.count \in Nat
        /\ Cardinality(S) <= s.count
    <3>1. s.count \in Nat /\ s.fits \cap Idle \in SUBSET Actor
      BY Shapes DEF Idle
    <3>2. S \in SUBSET Actor /\ Cardinality(S) <= s.count
      BY <3>1, Takes
    <3> QED
      BY <3>1, <3>2, Sizes
  <2>4. target' \in [Request -> Nat]
    BY <2>1, <2>3 DEF TypeOK
  <2>5. state' \in [Request -> {"none", "pending", "partial", "fulfilled", "cancelled", "gone"}]
    BY <2>1, Progresses DEF TypeOK, Live
  <2>6. bindings' \in [Actor -> Holder] /\ groups' \in [Task -> SUBSET Actor]
    BY <2>1, <2>3, GroupTypes DEF TypeOK, Holder
  <2>7. suspended' \in [Task -> BOOLEAN] /\ released' \in [Request -> BOOLEAN]
    BY <2>1 DEF TypeOK, CanStart, BlockingWait, StillWaits
  <2>8. /\ owner' \in [Request -> Task \cup {None}] /\ shape' \in [Request -> Shape]
        /\ assigned' \in [Request -> SUBSET Actor] /\ job' \in [Request -> {"none", "live", "ended"}]
    BY <2>1, <2>3 DEF TypeOK
  <2> QED
    BY <2>2, <2>4, <2>5, <2>6, <2>7, <2>8 DEF TypeOK, Holder
<1>6. ASSUME Forget, bindings' \in [Actor -> Holder] PROVE TypeOK'
  BY <1>6 DEF Forget, TypeOK, Holder, askVars, scanVars
<1>7. CASE ResetSession
  BY <1>6, <1>7 DEF ResetSession, Dropped, TypeOK, Holder
<1>8. CASE ResetGame
  BY <1>6, <1>8 DEF ResetGame, Holder
<1>9. CASE ScanBegins
  BY <1>9 DEF ScanBegins, TypeOK, Pending, Idle, taskVars, unitVars, askVars, fillVars, jobVars
<1>10. ASSUME NEW r \in Request, Serve(r) PROVE TypeOK'
  <2>1. PICK S \in Taken(shape[r].fits \cap spare, shape[r].count - Cardinality(assigned[r])) :
          /\ Credit(r, S) /\ Wake(r, Promised(r, S))
          /\ queue' = IF spare \ S = {} THEN {} ELSE queue \ {r}
          /\ spare' = IF queue' = {} THEN {} ELSE spare \ S
    BY <1>10 DEF Serve
  <2>2. /\ startable' = IF queue' = {} THEN {} ELSE startable
        /\ Reconcile(r, produced[r])
        /\ UNCHANGED <<taskState, owner, shape, issued, produced, unseen, world>>
    BY <1>10 DEF Serve, askVars
  <2>3. S \in SUBSET Actor
    BY DEF Taken, TypeOK
  <2>4. /\ assigned' \in [Request -> SUBSET Actor]
        /\ state' \in [Request -> {"none", "pending", "partial", "fulfilled", "cancelled", "gone"}]
        /\ released' \in [Request -> BOOLEAN] /\ suspended' \in [Task -> BOOLEAN]
        /\ bindings' \in [Actor -> Holder] /\ groups' \in [Task -> SUBSET Actor]
    BY <2>1, <2>3, FillTypes
  <2>5. target' \in [Request -> Nat] /\ job' \in [Request -> {"none", "live", "ended"}]
    <3>1. Goal(r, produced[r]) \in Nat
      BY <2>4, Goals DEF TypeOK
    <3> QED
      BY <2>2, <3>1 DEF Reconcile, TypeOK
  <2>6. queue' \subseteq Request /\ spare' \subseteq Actor /\ startable' \subseteq Request
    BY <2>1, <2>2 DEF TypeOK
  <2> QED
    BY <2>2, <2>4, <2>5, <2>6 DEF TypeOK, Holder
<1>11. ASSUME NEW r \in Request, Issue(r) PROVE TypeOK'
  BY <1>11 DEF Issue, TypeOK, taskVars, unitVars, askVars, fillVars, scanVars
<1>12. ASSUME NEW r \in Request, Counts(r) PROVE TypeOK'
  BY <1>12 DEF Counts, TypeOK, taskVars, unitVars, askVars, fillVars, scanVars
<1>13. ASSUME NEW r \in Request, NEW a \in Actor, Arrives(r, a) PROVE TypeOK'
  <2>1. /\ produced' = [produced EXCEPT ![r] = @ + 1]
        /\ unseen' = [unseen EXCEPT ![r] = @ \ {a}]
        /\ UNCHANGED <<taskState, owner, shape, issued, world, queue, spare, startable>>
    BY <1>13 DEF Arrives, askVars, scanVars
  <2>2. /\ assigned' \in [Request -> SUBSET Actor]
        /\ state' \in [Request -> {"none", "pending", "partial", "fulfilled", "cancelled", "gone"}]
        /\ released' \in [Request -> BOOLEAN] /\ suspended' \in [Task -> BOOLEAN]
        /\ bindings' \in [Actor -> Holder] /\ groups' \in [Task -> SUBSET Actor]
    <3>1. CASE Credited(r, a)
      <4>1. Credit(r, {a}) /\ Wake(r, Promised(r, {a}))
        BY <1>13, <3>1 DEF Arrives
      <4> QED
        BY <4>1, FillTypes
    <3>2. CASE ~Credited(r, a)
      BY <1>13, <3>2 DEF Arrives, fillVars, TypeOK, Holder
    <3> QED
      BY <3>1, <3>2
  <2>3. target' \in [Request -> Nat] /\ job' \in [Request -> {"none", "live", "ended"}]
    <3> DEFINE goal == IF Credited(r, a) THEN Goal(r, produced[r] + 1) ELSE target[r]
    <3>1. produced[r] \in Nat
      BY DEF TypeOK
    <3>2. goal \in Nat
      BY <2>2, <3>1, Goals DEF TypeOK
    <3> HIDE DEF goal
    <3>3. /\ target' = [target EXCEPT ![r] = goal]
          /\ job' = [job EXCEPT ![r] = IF produced[r] + 1 = goal THEN "ended" ELSE "live"]
      BY <1>13 DEF Arrives, goal
    <3> QED
      BY <3>2, <3>3 DEF TypeOK
  <2>4. produced' \in [Request -> Nat] /\ unseen' \in [Request -> SUBSET Actor]
    BY <2>1 DEF TypeOK
  <2> QED
    BY <2>1, <2>2, <2>3, <2>4 DEF TypeOK, Holder
<1>14. ASSUME NEW r \in Request, Ignores(r) \/ Stops(r) PROVE TypeOK'
  BY <1>14 DEF Ignores, Stops, TypeOK, taskVars, unitVars, askVars, fillVars, scanVars
<1>15. ASSUME NEW t \in Task, NEW a \in Actor, JobTakes(t, a) PROVE TypeOK'
  <2>1. Grouped(t, {a}) \in [Task -> SUBSET Actor]
    BY GroupTypes
  <2> QED
    BY <1>15, <2>1 DEF JobTakes, TypeOK, taskVars, askVars, fillVars, jobVars, scanVars
<1>16. ASSUME NEW a \in Actor, JobDrops(a) \/ Appears(a) \/ Turns(a) PROVE TypeOK'
  BY <1>16 DEF JobDrops, Appears, Turns, TypeOK, Unbound, taskVars, unitVars, askVars, fillVars,
    jobVars, scanVars
<1>17. ASSUME NEW a \in Actor, Dies(a) PROVE TypeOK'
  BY <1>17 DEF Dies, TypeOK, taskVars, askVars, fillVars, jobVars, scanVars
<1>18. CASE UNCHANGED vars
  BY <1>18 DEF TypeOK, vars, taskVars, unitVars, askVars, fillVars, jobVars, scanVars
<1> QED
  BY <1>1, <1>3, <1>4, <1>5, <1>7, <1>8, <1>9, <1>10, <1>11, <1>12, <1>13, <1>14, <1>15,
     <1>16, <1>17, <1>18 DEF Next, TaskCall, Scan, Production, Field

-----------------------------------------------------------------------------
(* The requests and the agents.                                            *)

\* Bindings to different holders differ.
LEMMA Holders ==
  /\ \A q, r : Promise(q) = Promise(r) => q = r
  /\ \A r, t : Promise(r) # Unbound /\ Promise(r) # Held(t)
  BY DEF Promise, Unbound, Held

\* What only some requests have seen change leaves the wait of a task alone.
LEMMA SameWait ==
  ASSUME NEW t,
         \A r \in Request : owner[r] = t \/ owner'[r] = t =>
           /\ owner'[r] = owner[r] /\ shape'[r] = shape[r] /\ state'[r] = state[r]
           /\ released'[r] = released[r] /\ assigned'[r] = assigned[r]
  PROVE  BlockingWait(t)' <=> BlockingWait(t)
  BY DEF BlockingWait, StillWaits

\* Filling a pending request and waking its task keeps the books and the sleep
\* of the agents in order.
LEMMA FillKeeps ==
  ASSUME RequestInv, NEW r \in Pending, NEW S \in SUBSET Actor,
         Cardinality(assigned[r] \cup S) <= shape[r].count,
         Credit(r, S), Wake(r, Promised(r, S)), UNCHANGED <<taskState, owner, shape>>
  PROVE  /\ NewIsFresh' /\ KnownOnceMade' /\ SuspendedIffWaiting' /\ RequestsAddUp'
         /\ ReadyHoldsNothing'
         /\ state'[r] \in Live /\ \A q \in Request \ {r} : state'[q] = state[q]
<1> DEFINE t == owner[r]
           bound == Promised(r, S)
           handed == {a \in Actor : \E q \in Ready(t) : a \in assigned'[q] /\ bound[a] = Promise(q)}
<1>1. TypeOK /\ r \in Request /\ state[r] \in {"pending", "partial"}
  BY DEF RequestInv, Pending
<1>2. /\ \A q \in Request \ {r} : assigned'[q] = assigned[q] /\ state'[q] = state[q]
      /\ assigned'[r] = assigned[r] \cup S
      /\ state'[r] = Progress(shape[r], assigned[r] \cup S)
  BY <1>1 DEF Credit, TypeOK
<1>3. state'[r] \in Live
  BY <1>2, Progresses
<1>4. \A a \in Actor : bound[a] = IF a \in S THEN Promise(r) ELSE bindings[a]
  BY DEF Promised
<1>5. \A a \in Actor, q \in Request : bound[a] = Promise(q) => a \in assigned'[q]
  BY <1>1, <1>2, <1>4, Holders DEF RequestInv, RequestsAddUp
<1> HIDE DEF bound
<1>6. \A u \in Task \ {t} : \A q \in Request : owner[q] = u => q # r /\ q \notin Ready(t)
  BY DEF Ready
<1>7. /\ \A q \in Request : released[q] => released'[q]
      /\ \A q \in Request : q \notin Ready(t) => released'[q] = released[q]
      /\ \A u \in Task \ {t} : suspended'[u] = suspended[u]
      /\ \A a \in Actor, q \in Request : bindings'[a] = Promise(q) => bound[a] = Promise(q)
  <2>1. CASE StillWaits(t, state', assigned')
    BY <2>1 DEF Wake, bound
  <2>2. CASE ~StillWaits(t, state', assigned')
    <3>1. /\ released' = [q \in Request |-> released[q] \/ q \in Ready(t)]
          /\ bindings' = [a \in Actor |-> IF a \in handed THEN Unbound ELSE bound[a]]
          /\ suspended' = [suspended EXCEPT ![t] = @ /\ handed = {}]
      BY <2>2 DEF Wake, bound
    <3> HIDE DEF handed
    <3> QED
      BY <1>1, <3>1, Holders DEF TypeOK
  <2> QED
    BY <2>1, <2>2
<1>8. NewIsFresh'
  BY <1>1, <1>7 DEF RequestInv, NewIsFresh
<1>9. KnownOnceMade'
  BY <1>1, <1>2, <1>3 DEF RequestInv, KnownOnceMade, Live
<1>10. RequestsAddUp'
  <2>1. \A q \in Request, a \in Actor : bindings'[a] = Promise(q) => a \in assigned'[q]
    BY <1>5, <1>7
  <2>2. ASSUME NEW q \in Request, state'[q] \in {"pending", "partial", "fulfilled"}
        PROVE  Cardinality(assigned'[q]) <= shape'[q].count /\ state'[q] = Progress(shape'[q], assigned'[q])
    BY <1>2, <2>2 DEF RequestInv, RequestsAddUp
  <2>3. \A q \in Request, a \in Actor : (bindings[a] = Promise(q))' => a \in assigned'[q]
    BY <2>1 DEF Promise
  <2> QED
    BY <2>2, <2>3 DEF RequestsAddUp, Progress
<1>11. \A u \in Task \ {t} : BlockingWait(u)' <=> BlockingWait(u)
  BY <1>2, <1>6, <1>7, SameWait
<1>12. CASE StillWaits(t, state', assigned')
  <2>1. /\ bindings' = bound /\ UNCHANGED <<suspended, released>>
    BY <1>12 DEF Wake, bound
  <2>2. BlockingWait(t)'
    BY <1>12, <2>1 DEF BlockingWait, StillWaits
  <2>3. BlockingWait(t)
    <3>1. Cardinality(assigned[r]) <= Cardinality(assigned'[r])
      BY <1>1, <1>2, Sizes DEF TypeOK
    <3>2. Cardinality(assigned[r]) \in Nat /\ Cardinality(assigned'[r]) \in Nat /\ shape[r].start \in Nat
      <4>1. assigned[r] \in SUBSET Actor /\ assigned'[r] \in SUBSET Actor /\ shape[r] \in Shape
        BY <1>1, <1>2 DEF TypeOK
      <4> QED
        BY <4>1, Sizes, Shapes
    <3>3. CanStart(shape[r], assigned[r]) => CanStart(shape[r], assigned'[r])
      BY <3>1, <3>2 DEF CanStart
    <3> QED
      BY <1>1, <1>2, <1>12, <3>3 DEF BlockingWait, StillWaits
  <2>4. SuspendedIffWaiting'
    BY <1>11, <2>1, <2>2, <2>3 DEF RequestInv, SuspendedIffWaiting, Open
  <2>5. ReadyHoldsNothing'
    <3> SUFFICES ASSUME NEW q \in Request, NEW a \in Actor, bindings'[a] = Promise(q),
                        state'[q] \in {"pending", "partial", "fulfilled"},
                        Open(owner[q])', ~BlockingWait(owner[q])'
                 PROVE  ~CanStart(shape[q], assigned'[q])
      BY DEF ReadyHoldsNothing, Promise, CanStart
    <3>1. owner[q] \in Task \ {t}
      BY <1>9, <2>2 DEF KnownOnceMade
    <3>2. q # r /\ bound[a] = Promise(q)
      BY <2>1, <3>1
    <3>3. bindings[a] = Promise(q)
      BY <1>4, <3>2, Holders
    <3>4. Open(owner[q]) /\ ~BlockingWait(owner[q])
      BY <1>11, <3>1 DEF Open
    <3> QED
      BY <1>2, <3>2, <3>3, <3>4 DEF RequestInv, ReadyHoldsNothing
  <2> QED
    BY <1>2, <1>3, <1>8, <1>9, <1>10, <2>4, <2>5
<1>13. CASE ~StillWaits(t, state', assigned')
  <2>1. /\ released' = [q \in Request |-> released[q] \/ q \in Ready(t)]
        /\ bindings' = [a \in Actor |-> IF a \in handed THEN Unbound ELSE bound[a]]
        /\ suspended' = [suspended EXCEPT ![t] = @ /\ handed = {}]
    BY <1>13 DEF Wake, bound
  <2>2. ~BlockingWait(t)'
    BY <1>7, <1>13 DEF BlockingWait, StillWaits
  <2>3. t \in Task /\ BlockingWait(t) => handed # {}
    <3> SUFFICES ASSUME t \in Task, BlockingWait(t) PROVE handed # {}
      OBVIOUS
    <3>1. PICK q \in Request : /\ owner[q] = t /\ state[q] \in {"pending", "partial"}
                               /\ shape[q].blocking /\ ~released[q]
                               /\ ~CanStart(shape[q], assigned[q])
      BY DEF BlockingWait, StillWaits
    <3>2. q = r
      BY <1>2, <1>13, <3>1 DEF StillWaits
    <3>3. CanStart(shape[r], assigned'[r])
      <4>1. CASE state'[r] = "fulfilled"
        <5>1. Cardinality(assigned'[r]) >= shape[r].count
          BY <1>2, <4>1, Progresses
        <5>2. Cardinality(assigned'[r]) \in Nat /\ shape[r] \in Shape
          BY <1>1, <1>2, Sizes DEF TypeOK
        <5> QED
          BY <5>1, <5>2, Shapes DEF CanStart
      <4>2. CASE state'[r] # "fulfilled"
        BY <1>3, <1>13, <3>1, <3>2, <4>2 DEF StillWaits, Live
      <4> QED
        BY <4>1, <4>2
    <3>4. PICK a \in S : a \notin assigned[r]
      <4>1. assigned'[r] # assigned[r]
        BY <3>1, <3>2, <3>3
      <4> QED
        BY <1>2, <4>1
    <3>5. r \in Ready(t)
      BY <1>1, <1>3, <3>3 DEF Ready, Live
    <3>6. a \in handed
      BY <1>2, <1>4, <3>4, <3>5
    <3> QED
      BY <3>6
  <2>4. SuspendedIffWaiting'
    <3> HIDE DEF handed
    <3> SUFFICES ASSUME NEW u \in Task, Open(u)' PROVE suspended'[u] <=> BlockingWait(u)'
      BY DEF SuspendedIffWaiting
    <3>1. Open(u) /\ (suspended[u] <=> BlockingWait(u))
      BY DEF RequestInv, SuspendedIffWaiting, Open
    <3>2. CASE u # t
      BY <1>7, <1>11, <3>1, <3>2
    <3>3. CASE u = t
      <4>1. suspended'[t] = (suspended[t] /\ handed = {})
        BY <1>1, <2>1, <3>3 DEF TypeOK
      <4> QED
        BY <2>2, <2>3, <3>1, <3>3, <4>1
    <3> QED
      BY <3>2, <3>3
  <2>5. ReadyHoldsNothing'
    <3> SUFFICES ASSUME NEW q \in Request, NEW a \in Actor, bindings'[a] = Promise(q),
                        state'[q] \in {"pending", "partial", "fulfilled"},
                        Open(owner[q])', ~BlockingWait(owner[q])'
                 PROVE  ~CanStart(shape[q], assigned'[q])
      BY DEF ReadyHoldsNothing, Promise, CanStart
    <3>1. bound[a] = Promise(q) /\ a \in assigned'[q]
      BY <1>5, <1>7
    <3>2. CASE owner[q] = t
      <4>1. a \notin handed
        BY <2>1, Holders
      <4>2. q \notin Ready(t)
        BY <3>1, <4>1
      <4> QED
        BY <3>2, <4>2 DEF Ready
    <3>3. CASE owner[q] # t
      <4>1. owner[q] \in Task
        BY <1>9 DEF KnownOnceMade
      <4>2. q # r /\ bindings[a] = Promise(q)
        BY <1>4, <3>1, <3>3, Holders
      <4>3. Open(owner[q]) /\ ~BlockingWait(owner[q])
        BY <1>11, <3>3, <4>1 DEF Open
      <4> QED
        BY <1>2, <4>2, <4>3 DEF RequestInv, ReadyHoldsNothing
    <3> QED
      BY <3>2, <3>3
  <2> QED
    BY <1>2, <1>3, <1>8, <1>9, <1>10, <2>4, <2>5
<1> QED
  BY <1>12, <1>13

\* A step keeps the books and the sleep of the agents in order when it changes
\* no request of a task that stays open, opens no task and promises no unit.
LEMMA ClosingKeeps ==
  ASSUME RequestInv, UNCHANGED <<suspended, owner, shape, released, assigned>>,
         \A t \in Task : taskState'[t] = taskState[t] \/ taskState'[t] \in {"ended", "gone"},
         \A r \in Request : \/ state'[r] = state[r]
                            \/ /\ state[r] # "none" /\ state'[r] \in {"cancelled", "gone"}
                               /\ ~Open(owner[r])',
         \A a \in Actor, r \in Request : bindings'[a] = Promise(r) => bindings[a] = Promise(r)
  PROVE  NewIsFresh' /\ KnownOnceMade' /\ SuspendedIffWaiting' /\ RequestsAddUp' /\ ReadyHoldsNothing'
<1>1. NewIsFresh' /\ KnownOnceMade'
  BY DEF RequestInv, NewIsFresh, KnownOnceMade
<1>2. \A t \in Task : Open(t)' => Open(t)
  BY DEF Open
<1>3. \A t \in Task : Open(t)' => (BlockingWait(t)' <=> BlockingWait(t))
  BY SameWait DEF Open
<1>4. SuspendedIffWaiting'
  BY <1>2, <1>3 DEF RequestInv, SuspendedIffWaiting
<1>5. RequestsAddUp'
  <2>1. \A r \in Request : state'[r] \in {"pending", "partial", "fulfilled"} => state'[r] = state[r]
    OBVIOUS
  <2>2. \A r \in Request, a \in Actor : bindings'[a] = Promise(r) => a \in assigned'[r]
    BY DEF RequestInv, RequestsAddUp
  <2> QED
    BY <2>1, <2>2 DEF RequestInv, RequestsAddUp, Progress, Promise
<1>6. ReadyHoldsNothing'
  <2> SUFFICES ASSUME NEW r \in Request, NEW a \in Actor, bindings'[a] = Promise(r),
                      state'[r] \in {"pending", "partial", "fulfilled"},
                      Open(owner[r])', ~BlockingWait(owner[r])'
               PROVE  ~CanStart(shape[r], assigned[r])
    BY DEF ReadyHoldsNothing, Promise, CanStart
  <2>1. state[r] = state'[r] /\ owner[r] \in Task
    BY DEF RequestInv, KnownOnceMade
  <2> QED
    BY <1>2, <1>3, <2>1 DEF RequestInv, ReadyHoldsNothing
<1> QED
  BY <1>1, <1>4, <1>5, <1>6

\* Production keeps fitting while no target, no book and no start changes.
LEMMA FitsStill ==
  ASSUME ProductionFits, UNCHANGED <<shape, target, issued, produced, assigned>>,
         \A r \in Request : job'[r] = "live" => job[r] = "live"
  PROVE  ProductionFits'
  BY DEF ProductionFits

\* Registration keeps the books and the sleep of the agents in order.
LEMMA RegisterKeeps ==
  ASSUME RequestInv, TypeOK', NEW t \in Task, NEW r \in Request, NEW s \in Shape, Register(t, r, s)
  PROVE  RequestInv'
<1>1. PICK S \in Taken(s.fits \cap Idle, s.count), start \in BOOLEAN :
        /\ owner' = [owner EXCEPT ![r] = t]
        /\ shape' = [shape EXCEPT ![r] = s]
        /\ assigned' = [assigned EXCEPT ![r] = S]
        /\ state' = [state EXCEPT ![r] = Progress(s, S)]
        /\ released' = [released EXCEPT ![r] = CanStart(s, S)]
        /\ IF CanStart(s, S)
           THEN groups' = Grouped(t, S) /\ UNCHANGED bindings
           ELSE /\ bindings' = [a \in Actor |-> IF a \in S THEN Promise(r) ELSE bindings[a]]
                /\ UNCHANGED groups
        /\ job' = [job EXCEPT ![r] = IF start THEN "live" ELSE "none"]
        /\ target' = [target EXCEPT ![r] = IF start THEN s.count - Cardinality(S) ELSE 0]
        /\ suspended' = [suspended EXCEPT ![t] =
                           @ \/ (Cardinality(S) < s.count /\ BlockingWait(t)')]
  BY DEF Register
<1>2. /\ queue = {} /\ Open(t) /\ state[r] = "none"
      /\ UNCHANGED <<taskState, issued, produced, queue>>
  BY DEF Register, Free, scanVars
<1>3. TypeOK /\ S \in SUBSET Actor /\ Cardinality(S) \in Nat /\ Cardinality(S) <= s.count
  <2>1. s.count \in Nat /\ s.fits \cap Idle \in SUBSET Actor
    BY Shapes DEF Idle
  <2>2. S \in SUBSET Actor /\ Cardinality(S) <= s.count
    BY <2>1, Takes
  <2> QED
    BY <2>2, Sizes DEF RequestInv
<1>4. /\ owner'[r] = t /\ shape'[r] = s /\ assigned'[r] = S /\ released'[r] = CanStart(s, S)
      /\ state'[r] = Progress(s, S) /\ state'[r] \in Live
      /\ \A q \in Request \ {r} : /\ owner'[q] = owner[q] /\ shape'[q] = shape[q]
                                  /\ assigned'[q] = assigned[q] /\ state'[q] = state[q]
                                  /\ released'[q] = released[q]
  BY <1>1, <1>3, Progresses DEF TypeOK
<1>5. NewIsFresh' /\ KnownOnceMade' /\ QueueIsPending'
  <2>1. \A u \in Task : taskState[u] = "new" => u # t
    BY <1>2 DEF Open
  <2>2. \A u \in Task : suspended'[u] # suspended[u] => u = t
    BY <1>1, <1>3 DEF TypeOK
  <2>3. NewIsFresh'
    BY <1>2, <1>4, <2>1, <2>2 DEF RequestInv, NewIsFresh
  <2>4. KnownOnceMade'
    BY <1>4 DEF RequestInv, KnownOnceMade, Live
  <2>5. QueueIsPending'
    BY <1>2 DEF QueueIsPending
  <2> QED
    BY <2>3, <2>4, <2>5
<1>6. \A u \in Task \ {t} : BlockingWait(u)' <=> BlockingWait(u)
  <2> SUFFICES ASSUME NEW u \in Task \ {t} PROVE BlockingWait(u)' <=> BlockingWait(u)
    OBVIOUS
  <2>1. \A q \in Request \ {r} : owner[q] = u => q # r
    OBVIOUS
  <2> QED
    BY <1>2, <1>4 DEF BlockingWait, StillWaits
<1>7. BlockingWait(t) => BlockingWait(t)'
  BY <1>2, <1>4 DEF BlockingWait, StillWaits, CanStart
<1>8. BlockingWait(t)' => BlockingWait(t) \/ Cardinality(S) < s.count
  <2> SUFFICES ASSUME BlockingWait(t)', Cardinality(S) >= s.count PROVE BlockingWait(t)
    BY <1>3, Shapes
  <2>1. state'[r] = "fulfilled"
    BY <1>4, Progresses
  <2> QED
    BY <1>4, <2>1 DEF BlockingWait, StillWaits, CanStart
<1>9. SuspendedIffWaiting'
  <2> SUFFICES ASSUME NEW u \in Task, Open(u)' PROVE suspended'[u] <=> BlockingWait(u)'
    BY DEF SuspendedIffWaiting
  <2>1. suspended[u] <=> BlockingWait(u)
    BY <1>2 DEF RequestInv, SuspendedIffWaiting, Open
  <2>2. CASE u # t
    BY <1>1, <1>3, <1>6, <2>1, <2>2 DEF TypeOK
  <2>3. CASE u = t
    <3>1. suspended'[t] <=> suspended[t] \/ (Cardinality(S) < s.count /\ BlockingWait(t)')
      BY <1>1, <1>3 DEF TypeOK
    <3> QED
      BY <1>7, <1>8, <2>1, <2>3, <3>1
  <2> QED
    BY <2>2, <2>3
<1>10. \A q \in Request, a \in Actor : bindings'[a] = Promise(q) =>
         \/ q = r /\ a \in S /\ ~CanStart(s, S)
         \/ q # r /\ bindings[a] = Promise(q)
  <2>1. \A a \in Actor : bindings[a] # Promise(r)
    BY <1>2 DEF RequestInv, RequestsAddUp, KnownOnceMade
  <2>2. CASE CanStart(s, S)
    BY <1>1, <2>1, <2>2
  <2>3. CASE ~CanStart(s, S)
    BY <1>1, <1>3, <2>1, <2>3, Holders DEF TypeOK
  <2> QED
    BY <2>2, <2>3
<1>11. RequestsAddUp'
  <2>1. \A q \in Request, a \in Actor : bindings'[a] = Promise(q) => a \in assigned'[q]
    BY <1>4, <1>10 DEF RequestInv, RequestsAddUp
  <2>2. ASSUME NEW q \in Request, state'[q] \in {"pending", "partial", "fulfilled"}
        PROVE  Cardinality(assigned'[q]) <= shape'[q].count /\ state'[q] = Progress(shape'[q], assigned'[q])
    BY <1>3, <1>4, <2>2 DEF RequestInv, RequestsAddUp
  <2> QED
    BY <2>1, <2>2 DEF RequestsAddUp, Progress, Promise
<1>12. ReadyHoldsNothing'
  <2> SUFFICES ASSUME NEW q \in Request, NEW a \in Actor, bindings'[a] = Promise(q),
                      state'[q] \in {"pending", "partial", "fulfilled"},
                      NEW u, u = owner'[q], Open(u)', ~BlockingWait(u)'
               PROVE  ~CanStart(shape'[q], assigned'[q])
    BY DEF ReadyHoldsNothing, Promise, CanStart, Open, BlockingWait, StillWaits
  <2>1. CASE q = r
    BY <1>4, <1>10, <2>1
  <2>2. CASE q # r
    <3>1. u \in Task /\ u = owner[q]
      BY <1>4, <1>5, <2>2 DEF KnownOnceMade
    <3>2. Open(u) /\ ~BlockingWait(u)
      BY <1>2, <1>6, <1>7, <3>1 DEF Open
    <3> QED
      BY <1>4, <1>10, <2>2, <3>1, <3>2 DEF RequestInv, ReadyHoldsNothing
  <2> QED
    BY <2>1, <2>2
<1>13. ProductionFits'
  <2> SUFFICES ASSUME NEW q \in Request, job'[q] = "live"
               PROVE  \/ target'[q] <= shape'[q].count - Cardinality(assigned'[q])
                      \/ target'[q] <= issued'[q] \/ target'[q] <= produced'[q]
    BY DEF ProductionFits
  <2>1. CASE q = r
    <3>1. target'[r] = s.count - Cardinality(S)
      BY <1>1, <1>3, <2>1 DEF TypeOK
    <3> QED
      BY <1>3, <1>4, <2>1, <3>1, Shapes
  <2>2. CASE q # r
    BY <1>1, <1>2, <1>4, <2>2 DEF RequestInv, ProductionFits
  <2> QED
    BY <2>1, <2>2
<1> QED
  BY <1>5, <1>9, <1>11, <1>12, <1>13 DEF RequestInv

\* In the initial state there is no request.
LEMMA InitRequests == Init => RequestInv
<1> SUFFICES ASSUME Init PROVE RequestInv
  OBVIOUS
<1>1. \A r \in Request : state[r] = "none" /\ assigned[r] = {} /\ owner[r] = None /\ job[r] = "none"
  BY DEF Init
<1>2. \A t \in Task : taskState[t] = "new" /\ ~suspended[t] /\ t # None
  BY RequestsOK DEF Init
<1>3. queue = {} /\ \A a \in Actor : bindings[a] = Unbound
  BY DEF Init
<1>4. TypeOK
  BY InitTypes
<1>5. NewIsFresh /\ KnownOnceMade /\ QueueIsPending /\ SuspendedIffWaiting /\ ProductionFits
  BY <1>1, <1>2, <1>3 DEF NewIsFresh, KnownOnceMade, QueueIsPending, SuspendedIffWaiting,
    ProductionFits, Open
<1>6. RequestsAddUp /\ ReadyHoldsNothing
  BY <1>1, <1>3, Holders DEF RequestsAddUp, ReadyHoldsNothing
<1> QED
  BY <1>4, <1>5, <1>6 DEF RequestInv

\* The sizes of what a pending request has and misses.
LEMMA Missing ==
  ASSUME RequestInv, NEW r \in Pending
  PROVE  /\ Cardinality(assigned[r]) \in Nat /\ shape[r].count \in Nat
         /\ Cardinality(assigned[r]) < shape[r].count
<1>1. /\ r \in Request /\ state[r] \in {"pending", "partial"}
      /\ assigned[r] \in SUBSET Actor /\ shape[r] \in Shape
  BY DEF Pending, RequestInv, TypeOK
<1>2. Cardinality(assigned[r]) \in Nat /\ shape[r].count \in Nat
  BY <1>1, Sizes, Shapes
<1>3. state[r] = Progress(shape[r], assigned[r])
  BY <1>1 DEF RequestInv, RequestsAddUp
<1>4. ~(Cardinality(assigned[r]) >= shape[r].count)
  BY <1>1, <1>3, Progresses
<1> QED
  BY <1>2, <1>4

\* Serving a request keeps the invariant.
LEMMA ServeKeeps ==
  ASSUME RequestInv, TypeOK', NEW r \in Request, Serve(r)
  PROVE  RequestInv'
<1>1. PICK S \in Taken(shape[r].fits \cap spare, shape[r].count - Cardinality(assigned[r])) :
        /\ Credit(r, S) /\ Wake(r, Promised(r, S))
        /\ queue' = IF spare \ S = {} THEN {} ELSE queue \ {r}
  BY DEF Serve
<1>2. /\ r \in queue /\ Reconcile(r, produced[r])
      /\ UNCHANGED <<taskState, owner, shape, issued, produced>>
  BY DEF Serve, askVars
<1>3. TypeOK /\ r \in Pending
  BY <1>2 DEF RequestInv, QueueIsPending
<1>4. /\ Cardinality(assigned[r]) \in Nat /\ shape[r].count \in Nat
      /\ Cardinality(assigned[r]) < shape[r].count
  BY <1>3, Missing
<1>5. S \in SUBSET Actor /\ Cardinality(S) <= shape[r].count - Cardinality(assigned[r])
  <2>1. shape[r].fits \cap spare \in SUBSET Actor
    BY <1>3 DEF TypeOK
  <2>2. shape[r].count - Cardinality(assigned[r]) \in Nat
    BY <1>4
  <2> QED
    BY <2>1, <2>2, Takes
<1>6. Cardinality(assigned[r] \cup S) <= shape[r].count
  <2>1. assigned[r] \in SUBSET Actor
    BY <1>3 DEF TypeOK
  <2>2. Cardinality(S) \in Nat /\ Cardinality(assigned[r] \cup S) \in Nat
    BY <1>5, <2>1, Sizes
  <2>3. Cardinality(assigned[r] \cup S) <= Cardinality(assigned[r]) + Cardinality(S)
    BY <1>5, <2>1, Sizes
  <2> QED
    BY <1>4, <1>5, <2>2, <2>3
<1>7. /\ NewIsFresh' /\ KnownOnceMade' /\ SuspendedIffWaiting' /\ RequestsAddUp'
      /\ ReadyHoldsNothing'
      /\ \A q \in Request \ {r} : state'[q] = state[q]
  BY <1>1, <1>2, <1>3, <1>5, <1>6, FillKeeps
<1>8. QueueIsPending'
  BY <1>1, <1>7 DEF RequestInv, QueueIsPending, Pending
<1>9. ProductionFits'
  <2> SUFFICES ASSUME NEW q \in Request, job'[q] = "live"
               PROVE  \/ target'[q] <= shape[q].count - Cardinality(assigned'[q])
                      \/ target'[q] <= issued[q] \/ target'[q] <= produced[q]
    BY <1>2 DEF ProductionFits
  <2>1. CASE q # r
    <3>1. target'[q] = target[q] /\ job[q] = "live"
      BY <1>2, <1>3, <2>1 DEF Reconcile, TypeOK
    <3>2. assigned'[q] = assigned[q]
      BY <1>1, <1>3, <2>1 DEF Credit, TypeOK
    <3> QED
      BY <3>1, <3>2 DEF RequestInv, ProductionFits
  <2>2. CASE q = r
    <3>1. job[r] = "live" /\ target' = [target EXCEPT ![r] = Goal(r, produced[r])]
      BY <1>2, <2>2 DEF Reconcile
    <3>2. target'[r] = Goal(r, produced[r])
      BY <1>3, <3>1 DEF TypeOK
    <3>3. produced[r] \in Nat /\ assigned'[r] \in SUBSET Actor
      BY <1>3 DEF TypeOK
    <3> QED
      BY <1>3, <2>2, <3>2, <3>3, Goals
  <2> QED
    BY <2>1, <2>2
<1> QED
  BY <1>7, <1>8, <1>9 DEF RequestInv

\* The signal of a new unit keeps the invariant.
LEMMA ArrivesKeeps ==
  ASSUME RequestInv, TypeOK', NEW r \in Request, NEW a \in Actor, Arrives(r, a)
  PROVE  RequestInv'
<1>1. /\ produced' = [produced EXCEPT ![r] = @ + 1]
      /\ queue = {} /\ queue' = {} /\ job[r] = "live"
      /\ UNCHANGED <<taskState, owner, shape, issued>>
  BY DEF Arrives, askVars, scanVars, Free
<1>2. TypeOK /\ QueueIsPending'
  BY <1>1 DEF RequestInv, QueueIsPending
<1>3. \A q \in Request \ {r} : job'[q] = job[q] /\ target'[q] = target[q] /\ produced'[q] = produced[q]
  BY <1>1, <1>2 DEF Arrives, TypeOK
<1>4. produced[r] \in Nat /\ produced'[r] = produced[r] + 1
  BY <1>1, <1>2 DEF TypeOK
<1>5. CASE Credited(r, a)
  <2>1. /\ r \in Pending /\ Credit(r, {a}) /\ Wake(r, Promised(r, {a}))
        /\ target' = [target EXCEPT ![r] = Goal(r, produced[r] + 1)]
    BY <1>5 DEF Arrives, Credited
  <2>2. Cardinality(assigned[r] \cup {a}) <= shape[r].count
    <3>1. assigned[r] \in SUBSET Actor
      BY <1>2 DEF TypeOK
    <3>2. /\ Cardinality({a}) = 1
          /\ Cardinality(assigned[r] \cup {a}) \in Nat
          /\ Cardinality(assigned[r] \cup {a}) <= Cardinality(assigned[r]) + Cardinality({a})
      BY <3>1, Sizes, FS_Singleton
    <3> QED
      BY <2>1, <3>2, Missing
  <2>3. /\ NewIsFresh' /\ KnownOnceMade' /\ SuspendedIffWaiting' /\ RequestsAddUp'
        /\ ReadyHoldsNothing'
    BY <1>1, <2>1, <2>2, FillKeeps
  <2>4. ProductionFits'
    <3> SUFFICES ASSUME NEW q \in Request, job'[q] = "live"
                 PROVE  \/ target'[q] <= shape[q].count - Cardinality(assigned'[q])
                        \/ target'[q] <= issued[q] \/ target'[q] <= produced'[q]
      BY <1>1 DEF ProductionFits
    <3>1. CASE q # r
      <4>1. assigned'[q] = assigned[q]
        BY <1>2, <2>1, <3>1 DEF Credit, TypeOK
      <4> QED
        BY <1>3, <3>1, <4>1 DEF RequestInv, ProductionFits
    <3>2. CASE q = r
      <4>1. target'[r] = Goal(r, produced[r] + 1)
        BY <1>2, <2>1 DEF TypeOK
      <4>2. produced[r] + 1 \in Nat /\ assigned'[r] \in SUBSET Actor
        BY <1>4 DEF TypeOK
      <4> QED
        BY <1>2, <1>4, <3>2, <4>1, <4>2, Goals
    <3> QED
      BY <3>1, <3>2
  <2> QED
    BY <1>2, <2>3, <2>4 DEF RequestInv
<1>6. CASE ~Credited(r, a)
  <2>1. UNCHANGED <<state, released, assigned, bindings, suspended>>
    BY <1>6 DEF Arrives, fillVars
  <2>2. target'[r] = target[r]
    BY <1>2, <1>6 DEF Arrives, TypeOK
  <2>3. /\ NewIsFresh' /\ KnownOnceMade' /\ SuspendedIffWaiting' /\ RequestsAddUp'
        /\ ReadyHoldsNothing'
    BY <1>1, <2>1, ClosingKeeps
  <2>4. ProductionFits'
    <3>1. target[r] \in Nat
      BY <1>2 DEF TypeOK
    <3>2. \A q \in Request : /\ job'[q] = "live" => job[q] = "live"
                             /\ target'[q] = target[q]
                             /\ produced[q] \in Nat /\ produced'[q] \in Nat /\ produced[q] <= produced'[q]
      BY <1>1, <1>2, <1>3, <1>4, <2>2 DEF TypeOK
    <3> QED
      BY <1>1, <1>2, <2>1, <3>2 DEF RequestInv, ProductionFits, TypeOK
  <2> QED
    BY <1>2, <2>3, <2>4 DEF RequestInv
<1> QED
  BY <1>5, <1>6

\* Every step keeps the invariant.
LEMMA StepRequests == RequestInv /\ [Next]_vars => RequestInv'
<1> SUFFICES ASSUME RequestInv, [Next]_vars PROVE RequestInv'
  OBVIOUS
<1> DEFINE Kept == NewIsFresh' /\ KnownOnceMade' /\ SuspendedIffWaiting' /\ RequestsAddUp' /\ ReadyHoldsNothing'
<1>1. TypeOK /\ TypeOK'
  BY StepTypes DEF RequestInv
<1>2. ASSUME queue' = {} PROVE QueueIsPending'
  BY <1>2 DEF QueueIsPending
<1>3. ASSUME NEW t \in Task, OpenTask(t) PROVE RequestInv'
  <2>1. /\ queue' = {} /\ taskState[t] = "new" /\ taskState' = [taskState EXCEPT ![t] = "open"]
        /\ UNCHANGED <<suspended, bindings, owner, shape, state, released, assigned, job, target, issued, produced>>
    BY <1>3 DEF OpenTask, Free, unitVars, askVars, fillVars, jobVars, scanVars
  <2>2. \A u \in Task : BlockingWait(u)' <=> BlockingWait(u)
    BY <2>1 DEF BlockingWait, StillWaits, CanStart
  <2>3. ~suspended[t] /\ ~BlockingWait(t) /\ \A r \in Request : owner[r] # t
    BY <2>1 DEF RequestInv, NewIsFresh, BlockingWait, StillWaits
  <2>4. \A u \in Task \ {t} : Open(u)' <=> Open(u)
    BY <1>1, <2>1 DEF Open, TypeOK
  <2>5. NewIsFresh' /\ KnownOnceMade' /\ RequestsAddUp' /\ ProductionFits'
    BY <1>1, <2>1 DEF RequestInv, TypeOK, NewIsFresh, KnownOnceMade, RequestsAddUp, ProductionFits,
      Progress, Promise
  <2>6. SuspendedIffWaiting'
    BY <2>1, <2>2, <2>3, <2>4 DEF RequestInv, SuspendedIffWaiting
  <2>7. ReadyHoldsNothing'
    <3> SUFFICES ASSUME NEW q \in Request, NEW a \in Actor, bindings[a] = Promise(q),
                        state[q] \in {"pending", "partial", "fulfilled"},
                        NEW u, u = owner[q], Open(u)', ~BlockingWait(u)'
                 PROVE  ~CanStart(shape[q], assigned[q])
      BY <2>1 DEF ReadyHoldsNothing, Promise, CanStart, Open, BlockingWait, StillWaits
    <3>1. u \in Task \ {t}
      BY <2>3 DEF RequestInv, KnownOnceMade
    <3> QED
      BY <2>2, <2>4, <3>1 DEF RequestInv, ReadyHoldsNothing
  <2> QED
    BY <1>1, <1>2, <2>1, <2>5, <2>6, <2>7 DEF RequestInv
<1>4. ASSUME NEW t \in Task, CompleteTask(t) \/ CancelTask(t) PROVE RequestInv'
  <2>1. EndsTask(t, "ended")
    BY <1>4 DEF CompleteTask, CancelTask
  <2>2. /\ queue' = {} /\ taskState' = [taskState EXCEPT ![t] = "ended"]
        /\ bindings' = Dropped({t})
        /\ UNCHANGED <<suspended, owner, shape, released, assigned, target, issued, produced>>
    BY <2>1 DEF EndsTask, Free, askVars, scanVars
  <2>3. ~Open(t)' /\ \A u \in Task : taskState'[u] = taskState[u] \/ taskState'[u] \in {"ended", "gone"}
    BY <1>1, <2>2 DEF TypeOK, Open
  <2>4. \A r \in Request : \/ state'[r] = state[r]
                           \/ /\ state[r] # "none" /\ state'[r] \in {"cancelled", "gone"}
                              /\ ~Open(owner[r])'
    BY <1>4, <2>2, <2>3 DEF CompleteTask, CancelTask, Pending, Open
  <2>5. \A a \in Actor, r \in Request : bindings'[a] = Promise(r) => bindings[a] = Promise(r)
    BY <2>2, Holders DEF Dropped
  <2>6. Kept
    BY <2>2, <2>3, <2>4, <2>5, ClosingKeeps
  <2>7. \A r \in Request : job'[r] = "live" => job[r] = "live"
    BY <1>4 DEF CompleteTask, CancelTask
  <2>8. ProductionFits'
    BY <2>2, <2>7, FitsStill DEF RequestInv
  <2> QED
    BY <1>1, <1>2, <2>2, <2>6, <2>8 DEF RequestInv
<1>5. ASSUME NEW t \in Task, NEW r \in Request, NEW s \in Shape, Register(t, r, s) PROVE RequestInv'
  BY <1>1, <1>5, RegisterKeeps
<1>6. CASE ResetSession \/ ResetGame
  <2>1. /\ queue' = {}
        /\ taskState' = [t \in Task |-> IF taskState[t] = "new" THEN "new" ELSE "gone"]
        /\ state' = [r \in Request |-> IF state[r] = "none" THEN "none" ELSE "gone"]
        /\ job' = [r \in Request |-> IF job[r] = "live" THEN "ended" ELSE job[r]]
        /\ UNCHANGED <<suspended, owner, shape, released, assigned, target, issued, produced>>
    BY <1>6 DEF ResetSession, ResetGame, Forget, Free, askVars, scanVars
  <2>2. \A a \in Actor, r \in Request : bindings'[a] = Promise(r) => bindings[a] = Promise(r)
    BY <1>6, Holders DEF ResetSession, ResetGame, Dropped
  <2>3. \A r \in Request : \/ state'[r] = state[r]
                           \/ /\ state[r] # "none" /\ state'[r] \in {"cancelled", "gone"}
                              /\ ~Open(owner[r])'
    BY <2>1 DEF RequestInv, KnownOnceMade, Open
  <2>4. \A u \in Task : taskState'[u] = taskState[u] \/ taskState'[u] \in {"ended", "gone"}
    BY <2>1
  <2>5. Kept
    BY <2>1, <2>2, <2>3, <2>4, ClosingKeeps
  <2>6. ProductionFits'
    BY <2>1, FitsStill DEF RequestInv
  <2> QED
    BY <1>1, <1>2, <2>1, <2>5, <2>6 DEF RequestInv
<1>7. ASSUME UNCHANGED <<taskVars, askVars, fillVars>>,
             \A a \in Actor, r \in Request : bindings'[a] = Promise(r) => bindings[a] = Promise(r)
      PROVE  Kept
  <2>1. UNCHANGED <<taskState, suspended, owner, shape, state, released, assigned>>
    BY <1>7 DEF taskVars, askVars, fillVars
  <2> QED
    BY <1>7, <2>1, ClosingKeeps
<1>8. CASE ScanBegins
  <2>1. /\ UNCHANGED <<taskVars, unitVars, askVars, fillVars, jobVars>> /\ queue' = Pending
    BY <1>8 DEF ScanBegins
  <2>2. Kept
    BY <1>7, <2>1 DEF unitVars
  <2>3. QueueIsPending' /\ ProductionFits'
    BY <2>1, FitsStill DEF RequestInv, QueueIsPending, Pending, askVars, fillVars, jobVars
  <2> QED
    BY <1>1, <2>2, <2>3 DEF RequestInv
<1>9. ASSUME NEW r \in Request, Serve(r) PROVE RequestInv'
  BY <1>1, <1>9, ServeKeeps
<1>10. ASSUME NEW r \in Request, Issue(r) \/ Counts(r) PROVE RequestInv'
  <2>1. /\ UNCHANGED <<taskVars, unitVars, askVars, fillVars, target>> /\ queue' = {} /\ job[r] = "live"
    BY <1>10 DEF Issue, Counts, Free, scanVars
  <2>2. Kept
    BY <1>7, <2>1 DEF unitVars
  <2>3. \A q \in Request : /\ job'[q] = "live" => job[q] = "live"
                           /\ issued'[q] = issued[q] \/ issued'[q] = target[q]
                           /\ produced'[q] >= produced[q]
    BY <1>1, <1>10 DEF Issue, Counts, TypeOK
  <2>4. ProductionFits'
    <3> SUFFICES ASSUME NEW q \in Request, job'[q] = "live"
                 PROVE  \/ target[q] <= shape[q].count - Cardinality(assigned[q])
                        \/ target[q] <= issued'[q] \/ target[q] <= produced'[q]
      BY <2>1 DEF ProductionFits, askVars, fillVars
    <3>1. /\ target[q] \in Nat /\ issued[q] \in Nat /\ issued'[q] \in Nat
          /\ produced[q] \in Nat /\ produced'[q] \in Nat
      BY <1>1 DEF TypeOK
    <3>2. \/ target[q] <= shape[q].count - Cardinality(assigned[q])
          \/ target[q] <= issued[q] \/ target[q] <= produced[q]
      BY <2>3 DEF RequestInv, ProductionFits
    <3>3. /\ issued'[q] = issued[q] \/ issued'[q] = target[q]
          /\ produced'[q] >= produced[q]
      BY <2>3
    <3> QED
      BY <3>1, <3>2, <3>3
  <2> QED
    BY <1>1, <1>2, <2>1, <2>2, <2>4 DEF RequestInv
<1>11. ASSUME NEW r \in Request, NEW a \in Actor, Arrives(r, a) PROVE RequestInv'
  BY <1>1, <1>11, ArrivesKeeps
<1>12. ASSUME NEW r \in Request, Ignores(r) \/ Stops(r) PROVE RequestInv'
  <2>1. /\ UNCHANGED <<taskVars, unitVars, askVars, fillVars, target, issued, produced>> /\ queue' = {}
        /\ \A q \in Request : job'[q] = "live" => job[q] = "live"
    BY <1>1, <1>12 DEF Ignores, Stops, Free, TypeOK, scanVars
  <2>2. Kept
    BY <1>7, <2>1 DEF unitVars
  <2>3. ProductionFits'
    BY <2>1, FitsStill DEF RequestInv, askVars, fillVars
  <2> QED
    BY <1>1, <1>2, <2>1, <2>2, <2>3 DEF RequestInv
<1>13. ASSUME NEW a \in Actor,
              JobDrops(a) \/ Appears(a) \/ Turns(a) \/ Dies(a) \/ \E t \in Task : JobTakes(t, a)
       PROVE  RequestInv'
  <2>1. /\ UNCHANGED <<taskVars, askVars, fillVars, job, target, issued, produced>> /\ queue' = {}
    BY <1>13 DEF JobDrops, Appears, Turns, Dies, JobTakes, Free, jobVars, scanVars
  <2>2. \A b \in Actor, r \in Request : bindings'[b] = Promise(r) => bindings[b] = Promise(r)
    BY <1>1, <1>13, Holders DEF JobDrops, Appears, Turns, Dies, JobTakes, unitVars, TypeOK
  <2>3. Kept
    BY <1>7, <2>1, <2>2
  <2>4. ProductionFits'
    BY <2>1, FitsStill DEF RequestInv, askVars, fillVars
  <2> QED
    BY <1>1, <1>2, <2>1, <2>3, <2>4 DEF RequestInv
<1>14. CASE UNCHANGED vars
  <2>1. Kept
    BY <1>7, <1>14 DEF vars, unitVars
  <2>2. QueueIsPending' /\ ProductionFits'
    BY <1>14, FitsStill DEF vars, RequestInv, QueueIsPending, Pending, askVars, fillVars, jobVars, scanVars
  <2> QED
    BY <1>1, <2>1, <2>2 DEF RequestInv
<1> QED
  BY <1>3, <1>4, <1>5, <1>6, <1>8, <1>9, <1>10, <1>11, <1>12, <1>13, <1>14
     DEF Next, TaskCall, Scan, Production, Field

-----------------------------------------------------------------------------
(* Scans.                                                                  *)

\* Filling a request that is not promised to another keeps what a request
\* that has not started relies on, and promises no unit that was not filled in.
LEMMA FillScan ==
  ASSUME RequestInv, ScanInv, NEW r \in Pending, NEW S \in SUBSET Actor,
         \A a \in S, q \in Request : bindings[a] = Promise(q) => q = r,
         Credit(r, S), Wake(r, Promised(r, S)), UNCHANGED <<owner, shape>>
  PROVE  /\ KeepsUntilStart'
         /\ \A a \in Actor \ S : bindings[a] = Unbound => bindings'[a] = Unbound
         /\ \A q \in Request : released[q] => released'[q]
<1> DEFINE t == owner[r]
           bound == Promised(r, S)
           handed == {a \in Actor : \E q \in Ready(t) : a \in assigned'[q] /\ bound[a] = Promise(q)}
<1>1. TypeOK /\ r \in Request /\ state[r] \in Live
  BY DEF RequestInv, Pending, Live
<1>2. /\ \A q \in Request \ {r} : assigned'[q] = assigned[q] /\ state'[q] = state[q]
      /\ assigned'[r] = assigned[r] \cup S
  BY <1>1 DEF Credit, TypeOK
<1>3. \A a \in Actor : bound[a] = IF a \in S THEN Promise(r) ELSE bindings[a]
  BY DEF Promised
<1> HIDE DEF bound
<1>4. ASSUME NEW q \in Request, NEW a \in Actor, state'[q] \in Live, ~released[q], a \in assigned'[q]
      PROVE  bound[a] = Promise(q)
  BY <1>1, <1>2, <1>3, <1>4 DEF ScanInv, KeepsUntilStart
<1>5. CASE StillWaits(t, state', assigned')
  <2>1. bindings' = bound /\ released' = released
    BY <1>5 DEF Wake, bound
  <2> QED
    BY <1>3, <1>4, <2>1 DEF KeepsUntilStart, Promise
<1>6. CASE ~StillWaits(t, state', assigned')
  <2>1. /\ released' = [q \in Request |-> released[q] \/ q \in Ready(t)]
        /\ bindings' = [a \in Actor |-> IF a \in handed THEN Unbound ELSE bound[a]]
    BY <1>6 DEF Wake, bound
  <2>2. ASSUME NEW q \in Request, NEW a \in Actor, state'[q] \in Live, ~released'[q], a \in assigned'[q]
        PROVE  bindings'[a] = Promise(q)
    <3>1. ~released[q] /\ q \notin Ready(t)
      BY <2>1, <2>2
    <3>2. bound[a] = Promise(q)
      BY <1>4, <2>2, <3>1
    <3>3. a \notin handed
      BY <3>1, <3>2, Holders
    <3> QED
      BY <2>1, <3>2, <3>3
  <2>3. KeepsUntilStart'
    BY <2>2 DEF KeepsUntilStart, Promise
  <2>4. \A a \in Actor \ S : bindings[a] = Unbound => bindings'[a] = Unbound
    BY <1>3, <2>1
  <2>5. \A q \in Request : released[q] => released'[q]
    BY <2>1
  <2> QED
    BY <2>3, <2>4, <2>5
<1> QED
  BY <1>5, <1>6

\* Serving a request keeps the invariant of scans: a request that has not
\* started gets new units only, so it is full or nothing that fits is left.
LEMMA ServeScan ==
  ASSUME RequestInv, ScanInv, NEW r \in Request, Serve(r)
  PROVE  ScanInv'
<1>1. PICK S \in Taken(shape[r].fits \cap spare, shape[r].count - Cardinality(assigned[r])) :
        /\ Credit(r, S) /\ Wake(r, Promised(r, S))
        /\ queue' = IF spare \ S = {} THEN {} ELSE queue \ {r}
        /\ spare' = IF queue' = {} THEN {} ELSE spare \ S
  BY DEF Serve
<1>2. r \in queue /\ r \in Pending /\ TypeOK /\ UNCHANGED <<taskState, owner, shape>>
  BY DEF Serve, RequestInv, QueueIsPending, askVars
<1>3. S \subseteq shape[r].fits \cap spare /\ S \in SUBSET Actor
  BY <1>2 DEF Taken, TypeOK
<1>4. \A a \in S, q \in Request : bindings[a] = Promise(q) => q = r
  BY <1>3, Holders DEF ScanInv, SpareIsUnbound
<1>5. /\ KeepsUntilStart'
      /\ \A a \in Actor \ S : bindings[a] = Unbound => bindings'[a] = Unbound
      /\ \A q \in Request : released[q] => released'[q]
  BY <1>1, <1>2, <1>3, <1>4, FillScan
<1>6. SpareIsUnbound'
  <2>1. \A a \in spare' : queue' # {} /\ a \in spare \ S
    BY <1>1
  <2>2. \A a \in spare : a \in Actor /\ bindings[a] = Unbound
    BY <1>2 DEF ScanInv, SpareIsUnbound, TypeOK
  <2> QED
    BY <1>5, <2>1, <2>2 DEF SpareIsUnbound, Unbound
<1>7. ServedIsContent'
  <2> SUFFICES ASSUME queue' # {}, NEW q \in Pending' \ queue'
               PROVE  \/ released'[q]
                      \/ Cardinality(assigned'[q]) >= shape[q].count
                      \/ shape[q].fits \cap spare' = {}
    BY <1>2 DEF ServedIsContent
  <2>1. queue' = queue \ {r} /\ spare' = spare \ S
    BY <1>1
  <2>2. CASE q # r
    <3>1. q \in Pending \ queue /\ assigned'[q] = assigned[q]
      BY <1>1, <1>2, <2>1, <2>2 DEF Credit, Pending, TypeOK
    <3> QED
      BY <1>2, <1>5, <2>1, <3>1 DEF ScanInv, ServedIsContent, Pending
  <2>3. CASE q = r /\ S = shape[r].fits \cap spare
    BY <2>1, <2>3
  <2>4. CASE q = r /\ Cardinality(S) = shape[r].count - Cardinality(assigned[r]) /\ ~released[r]
    <3>1. assigned[r] \cap S = {}
      BY <1>2, <1>3, <2>4, Holders DEF ScanInv, KeepsUntilStart, SpareIsUnbound, Pending, Live
    <3>2. assigned'[r] = assigned[r] \cup S /\ assigned[r] \in SUBSET Actor
      BY <1>1, <1>2 DEF Credit, TypeOK
    <3>3. IsFiniteSet(assigned[r]) /\ IsFiniteSet(S)
      BY <1>3, <3>2, Sizes
    <3>4. Cardinality(assigned[r] \cup S)
            = Cardinality(assigned[r]) + Cardinality(S) - Cardinality(assigned[r] \cap S)
      BY <3>3, FS_Union
    <3>5. Cardinality(assigned'[r]) = Cardinality(assigned[r]) + Cardinality(S)
      <4>1. Cardinality({}) = 0
        BY FS_EmptySet
      <4>2. Cardinality(assigned[r]) \in Nat /\ Cardinality(S) \in Nat
        BY <3>3, FS_CardinalityType
      <4>3. Cardinality(assigned[r] \cap S) = 0
        BY <3>1, <4>1
      <4>4. Cardinality(assigned'[r]) = Cardinality(assigned[r] \cup S)
        BY <3>2
      <4> QED
        BY <3>4, <4>2, <4>3, <4>4
    <3> QED
      BY <1>2, <2>4, <3>3, <3>5, Missing, FS_CardinalityType
  <2> QED
    BY <1>1, <1>2, <1>5, <2>2, <2>3, <2>4 DEF Taken
<1> QED
  BY <1>5, <1>6, <1>7 DEF ScanInv

\* In the initial state no request has a unit and no scan is under way.
LEMMA InitScan == Init => ScanInv
  BY DEF Init, ScanInv, KeepsUntilStart, SpareIsUnbound, ServedIsContent

\* A step between scans that takes no promised unit from a request.
LEMMA BetweenScans ==
  ASSUME ScanInv, queue = {}, UNCHANGED <<queue, spare, released, assigned>>,
         \A r \in Request : state'[r] \in Live /\ ~released[r] =>
           /\ state'[r] = state[r]
           /\ \A a \in Actor : bindings[a] = Promise(r) => bindings'[a] = Promise(r)
  PROVE  ScanInv'
<1>1. spare = {}
  BY DEF ScanInv, SpareIsUnbound
<1>2. SpareIsUnbound' /\ ServedIsContent'
  BY <1>1 DEF SpareIsUnbound, ServedIsContent
<1>3. KeepsUntilStart'
  BY DEF ScanInv, KeepsUntilStart, Promise
<1> QED
  BY <1>2, <1>3 DEF ScanInv

\* Every step keeps the invariant of scans.
LEMMA StepScan == RequestInv /\ ScanInv /\ [Next]_vars => ScanInv'
<1> SUFFICES ASSUME RequestInv, ScanInv, [Next]_vars PROVE ScanInv'
  OBVIOUS
<1>1. TypeOK
  BY DEF RequestInv
<1>2. ASSUME NEW t \in Task, CompleteTask(t) \/ CancelTask(t) PROVE ScanInv'
  <2>1. /\ queue = {} /\ UNCHANGED <<queue, spare, released, assigned>> /\ bindings' = Dropped({t})
    BY <1>2 DEF CompleteTask, CancelTask, EndsTask, Free, scanVars
  <2>2. \A r \in Request : state'[r] \in Live => state'[r] = state[r]
    BY <1>2 DEF CompleteTask, CancelTask, Live
  <2> QED
    BY <2>1, <2>2, Holders, BetweenScans DEF Dropped
<1>3. ASSUME NEW t \in Task, NEW r \in Request, NEW s \in Shape, Register(t, r, s) PROVE ScanInv'
  <2>1. PICK S \in Taken(s.fits \cap Idle, s.count) :
          /\ assigned' = [assigned EXCEPT ![r] = S]
          /\ state' = [state EXCEPT ![r] = Progress(s, S)]
          /\ released' = [released EXCEPT ![r] = CanStart(s, S)]
          /\ IF CanStart(s, S)
             THEN UNCHANGED bindings
             ELSE bindings' = [a \in Actor |-> IF a \in S THEN Promise(r) ELSE bindings[a]]
    BY <1>3 DEF Register
  <2>2. queue = {} /\ spare = {} /\ queue' = {} /\ spare' = {}
    BY <1>3 DEF Register, Free, scanVars, ScanInv, SpareIsUnbound
  <2>3. \A a \in S : bindings[a] = Unbound
    BY DEF Taken, Idle
  <2>4. ASSUME NEW q \in Request, NEW a \in Actor, state'[q] \in Live, ~released'[q], a \in assigned'[q]
        PROVE  bindings'[a] = Promise(q)
    <3>1. CASE q = r
      BY <1>1, <2>1, <2>4, <3>1 DEF TypeOK
    <3>2. CASE q # r
      <4>1. bindings[a] = Promise(q)
        BY <1>1, <2>1, <2>4, <3>2 DEF TypeOK, ScanInv, KeepsUntilStart
      <4> QED
        BY <2>1, <2>3, <4>1, Holders
    <3> QED
      BY <3>1, <3>2
  <2>5. KeepsUntilStart'
    BY <2>4 DEF KeepsUntilStart, Promise
  <2> QED
    BY <2>2, <2>5 DEF ScanInv, SpareIsUnbound, ServedIsContent
<1>4. CASE ResetSession \/ ResetGame
  <2>1. /\ queue = {} /\ UNCHANGED <<queue, spare, released, assigned>>
        /\ \A r \in Request : state'[r] \notin Live
    BY <1>4 DEF ResetSession, ResetGame, Forget, Free, scanVars, Live
  <2> QED
    BY <2>1, BetweenScans
<1>5. CASE ScanBegins
  <2>1. /\ queue' = Pending /\ spare' = Idle /\ Pending # {}
        /\ UNCHANGED <<bindings, state, released, assigned>>
    BY <1>5 DEF ScanBegins, unitVars, fillVars
  <2>2. KeepsUntilStart' /\ SpareIsUnbound'
    BY <2>1 DEF ScanInv, KeepsUntilStart, SpareIsUnbound, Idle, Promise, Unbound
  <2>3. ServedIsContent'
    BY <2>1 DEF ServedIsContent, Pending
  <2> QED
    BY <2>2, <2>3 DEF ScanInv
<1>6. ASSUME NEW r \in Request, Serve(r) PROVE ScanInv'
  BY <1>6, ServeScan
<1>7. ASSUME NEW r \in Request, NEW a \in Actor, Arrives(r, a), Credited(r, a) PROVE ScanInv'
  <2>1. /\ r \in Pending /\ Credit(r, {a}) /\ Wake(r, Promised(r, {a}))
        /\ bindings[a] \in {Unbound, Promise(r)} \cup {Held(t) : t \in Task}
        /\ UNCHANGED <<owner, shape>> /\ queue = {} /\ queue' = {} /\ spare' = spare
    BY <1>7 DEF Arrives, Credited, Free, askVars, scanVars
  <2>2. \A q \in Request : bindings[a] = Promise(q) => q = r
    BY <2>1, Holders
  <2>3. KeepsUntilStart'
    BY <2>1, <2>2, FillScan
  <2> QED
    BY <2>1, <2>3 DEF ScanInv, SpareIsUnbound, ServedIsContent
<1>8. ASSUME NEW a \in Actor, JobDrops(a) \/ Dies(a) \/ \E t \in Task : JobTakes(t, a) PROVE ScanInv'
  <2>1. /\ queue = {} /\ UNCHANGED <<queue, spare, state, released, assigned>>
    BY <1>8 DEF JobDrops, Dies, JobTakes, Free, fillVars, scanVars
  <2>2. \A b \in Actor, r \in Request : bindings[b] = Promise(r) => bindings'[b] = Promise(r)
    BY <1>1, <1>8, Holders DEF JobDrops, Dies, JobTakes, TypeOK
  <2> QED
    BY <2>1, <2>2, BetweenScans
<1>9. ASSUME queue = {}, UNCHANGED <<bindings, fillVars, scanVars>> PROVE ScanInv'
  <2>1. UNCHANGED <<queue, spare, state, released, assigned>>
    BY <1>9 DEF fillVars, scanVars
  <2> QED
    BY <1>9, <2>1, BetweenScans
<1>10. ASSUME NEW t \in Task, OpenTask(t) PROVE ScanInv'
  BY <1>9, <1>10 DEF OpenTask, Free, unitVars
<1>11. ASSUME NEW r \in Request,
              \/ Issue(r) \/ Counts(r) \/ Ignores(r) \/ Stops(r)
              \/ \E a \in Actor : Arrives(r, a) /\ ~Credited(r, a)
       PROVE  ScanInv'
  BY <1>9, <1>11 DEF Issue, Counts, Ignores, Stops, Arrives, Free, unitVars
<1>12. ASSUME NEW a \in Actor, Appears(a) \/ Turns(a) PROVE ScanInv'
  BY <1>9, <1>12 DEF Appears, Turns, Free, unitVars
<1>13. CASE UNCHANGED vars
  BY <1>13 DEF vars, unitVars, fillVars, scanVars, ScanInv, KeepsUntilStart, SpareIsUnbound,
    ServedIsContent, Pending, askVars, Promise, Unbound
<1> QED
  BY <1>2, <1>3, <1>4, <1>5, <1>6, <1>7, <1>8, <1>10, <1>11, <1>12, <1>13
     DEF Next, TaskCall, Scan, Production, Field

\* A scan serves the more urgent request first, so when a unit that fits goes
\* to another, it has been served, is not full, and so has started.
LEMMA UrgentStep == RequestInv /\ ScanInv /\ [Next]_vars =>
                      \A r, q \in Request : Overtakes(r, q) => released[q]
<1> SUFFICES ASSUME RequestInv, ScanInv, [Next]_vars, NEW r \in Request, NEW q \in Request,
                    Overtakes(r, q)
             PROVE  released[q]
  OBVIOUS
<1>1. /\ TypeOK /\ r \in queue /\ q \in Pending /\ shape[q].urgency > shape[r].urgency
      /\ Cardinality(assigned[q]) < shape[q].count
  BY DEF Overtakes, RequestInv
<1>2. PICK a \in assigned'[r] \ assigned[r] : a \in shape[q].fits
  BY DEF Overtakes
<1>3. Serve(r)
  <2>1. queue # {} /\ ~Free
    BY <1>1 DEF Free
  <2>2. \E x \in Request : Serve(x)
    <3>1. ~UNCHANGED vars
      BY <1>2 DEF vars, fillVars
    <3> QED
      BY <2>1, <3>1 DEF Next, TaskCall, Scan, Production, Field, OpenTask, CompleteTask, CancelTask,
        EndsTask, Register, ResetSession, ResetGame, Forget, ScanBegins, Issue, Counts, Ignores, Stops,
        Arrives, Appears, Turns, Dies, JobDrops, JobTakes
  <2>3. PICK x \in Request : Serve(x)
    BY <2>2
  <2>4. \E S : Credit(x, S)
    BY <2>3 DEF Serve
  <2>5. x = r
    BY <1>1, <1>2, <2>4 DEF Credit, TypeOK
  <2> QED
    BY <2>3, <2>5
<1>4. a \in spare
  <2>1. PICK S \in Taken(shape[r].fits \cap spare, shape[r].count - Cardinality(assigned[r])) : Credit(r, S)
    BY <1>3 DEF Serve
  <2>2. assigned'[r] = assigned[r] \cup S
    BY <1>1, <2>1 DEF Credit, TypeOK
  <2> QED
    BY <1>2, <2>1, <2>2 DEF Taken
<1>5. q \notin queue
  <2>1. \A x \in queue : ~Before(x, r)
    BY <1>3 DEF Serve
  <2>2. Before(q, r)
    <3> DEFINE key(x) == <<shape[x].urgency, IF shape[x].blocking THEN 1 ELSE 0,
                           IF x \in startable THEN 1 ELSE 0, Rank[owner[x]], -x>>
    <3>1. key(q)[1] > key(r)[1]
      BY <1>1
    <3>2. \A k \in 1..(1 - 1) : key(q)[k] = key(r)[k]
      OBVIOUS
    <3> HIDE DEF key
    <3>3. \E i \in 1..5 : key(q)[i] > key(r)[i] /\ \A k \in 1..(i - 1) : key(q)[k] = key(r)[k]
      BY <3>1, <3>2
    <3> QED
      BY <3>3 DEF Before, key
  <2> QED
    BY <2>1, <2>2
<1>6. ~(Cardinality(assigned[q]) >= shape[q].count)
  BY <1>1, Missing
<1> QED
  BY <1>1, <1>2, <1>4, <1>5, <1>6 DEF ScanInv, ServedIsContent

-----------------------------------------------------------------------------
(* The theorems.                                                           *)

\* Every reachable state satisfies both invariants.
LEMMA Invariance == Spec => [](RequestInv /\ ScanInv)
<1>1. Init => RequestInv /\ ScanInv
  BY InitRequests, InitScan
<1>2. (RequestInv /\ ScanInv) /\ [Next]_vars => (RequestInv /\ ScanInv)'
  BY StepRequests, StepScan
<1> QED
  BY <1>1, <1>2, PTL DEF Spec

\* Every operation of the kernel on unit requests keeps every variable to its
\* type.
THEOREM TypeCorrect == Spec => []TypeOK
<1>1. RequestInv => TypeOK
  BY DEF RequestInv
<1> QED
  BY <1>1, Invariance, PTL

\* The suspension of an agent (suspend_agent_for_requests, wake_waiting_agent)
\* follows the blocking requests of its task.
THEOREM AgentsSleepWhileWaiting == Spec => []SuspendedIffWaiting
<1>1. RequestInv => SuspendedIffWaiting
  BY DEF RequestInv
<1> QED
  BY <1>1, Invariance, PTL

\* Every path that hands units over (release_ready_task_requests) leaves no
\* ready request with a unit bound to it.
THEOREM NothingHeldBack == Spec => []ReadyHoldsNothing
<1>1. RequestInv => ReadyHoldsNothing
  BY DEF RequestInv
<1> QED
  BY <1>1, Invariance, PTL

\* The bindings, the assigned units, the counts and the status of the requests
\* agree (bind_actor_to_request_state, update_request_status_from_progress).
THEOREM BooksAgree == Spec => []RequestsAddUp
<1>1. RequestInv => RequestsAddUp
  BY DEF RequestInv
<1> QED
  BY <1>1, Invariance, PTL

\* Bootstrap production shrinks with what is filled otherwise
\* (compute_bootstrap_reconcile_target).
THEOREM ProductionShrinks == Spec => []ProductionFits
<1>1. RequestInv => ProductionFits
  BY DEF RequestInv
<1> QED
  BY <1>1, Invariance, PTL

\* No unit passes a more urgent request that has not started
\* (sort_pending_requests, fulfill_unit_requests).
THEOREM UrgentFirstUntilStarted == Spec => UrgentStartsFirst
<1>1. RequestInv /\ ScanInv /\ [Next]_vars =>
        [\A r, q \in Request : Overtakes(r, q) => released[q]]_vars
  BY UrgentStep
<1> QED
  BY <1>1, Invariance, PTL DEF Spec, UrgentStartsFirst

===============================================================================
