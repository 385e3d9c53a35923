---------------------------- MODULE ExpertsProofs ----------------------------
(***************************************************************************)
(* The jobs of the execution experts, for any units, scouts, buildings and *)
(* configurations: what a job in the field reports as done was done, no    *)
(* goal of a search outlives its job otherwise than by a failure or an     *)
(* abort in the middle of a tick, and a production job that waits has said *)
(* what for.  The three specifications share no variable, and every        *)
(* theorem is about one of them.                                           *)
(***************************************************************************)
EXTENDS FieldJobs, ReconSearch, BuildQueue, FiniteSetTheorems, WellFoundedInduction, TLAPS

-----------------------------------------------------------------------------
(* Sums over finite sets.                                                  *)

\* Induction as a fact about a set of numbers.
LEMMA AllNumbers ==
  ASSUME NEW T, 0 \in T, \A n \in Nat : n \in T => n + 1 \in T
  PROVE  Nat \subseteq T
<1> SUFFICES ASSUME Nat \ T # {} PROVE FALSE
  OBVIOUS
<1>0. Nat \ T \subseteq Nat
  OBVIOUS
<1>1. PICK m \in Nat \ T : \A k \in Nat \ T : <<k, m>> \notin OpToRel(<, Nat)
  BY <1>0, WFMin, NatLessThanWellFounded, Zenon
<1>2. \A k \in Nat \ T : ~(k < m)
  BY <1>1, Zenon DEF OpToRel
<1>3. m # 0 /\ m - 1 \in Nat /\ m - 1 < m /\ (m - 1) + 1 = m
  OBVIOUS
<1>4. m - 1 \in T
  BY <1>2, <1>3
<1> QED BY <1>3, <1>4

\* The sum of f over s, one step of its recursion, and the sets it goes over.
Total(f, s) == MapThenSumSet(LAMBDA u : f[u], s)
Pick(s) == CHOOSE x \in s : TRUE
SumStep(f, g, s) == IF s = {} THEN 0 ELSE f[Pick(s)] + g[s \ {Pick(s)}]
Upto(U, n) == {s \in SUBSET U : Cardinality(s) <= n}

\* A set the sum goes over is finite, and without the picked element smaller.
LEMMA Smaller ==
  ASSUME NEW U, IsFiniteSet(U), NEW s \in SUBSET U
  PROVE  /\ IsFiniteSet(s) /\ Cardinality(s) \in Nat
         /\ s # {} => /\ Pick(s) \in s /\ s \ {Pick(s)} \in SUBSET U
                      /\ Cardinality(s \ {Pick(s)}) = Cardinality(s) - 1 /\ Cardinality(s) > 0
<1>1. IsFiniteSet(s) /\ Cardinality(s) \in Nat
  BY FS_Subset, FS_CardinalityType
<1>2. ASSUME s # {}
      PROVE  /\ Pick(s) \in s /\ s \ {Pick(s)} \in SUBSET U
             /\ Cardinality(s \ {Pick(s)}) = Cardinality(s) - 1 /\ Cardinality(s) > 0
  <2>1. Pick(s) \in s
    BY <1>2 DEF Pick
  <2>2. Cardinality(s \ {Pick(s)}) = Cardinality(s) - 1
    BY <1>1, <2>1, FS_RemoveElement
  <2>3. Cardinality(s) # 0
    BY <1>1, <1>2, FS_EmptySet
  <2> QED BY <1>1, <2>1, <2>2, <2>3
<1> QED BY <1>1, <1>2

\* There is a function that does what the recursion says.
LEMMA SumExists ==
  ASSUME NEW U, IsFiniteSet(U), NEW f
  PROVE  \E g : g = [s \in SUBSET U |-> SumStep(f, g, s)]
<1> DEFINE Part(n) == \E g : g = [s \in Upto(U, n) |-> SumStep(f, g, s)]
           T == {n \in Nat : Part(n)}
<1>1. 0 \in T
  <2> DEFINE g == [s \in Upto(U, 0) |-> 0]
  <2>1. \A s \in Upto(U, 0) : s = {}
    <3> SUFFICES ASSUME NEW s \in Upto(U, 0), s # {} PROVE FALSE
      OBVIOUS
    <3>1. s \in SUBSET U /\ Cardinality(s) <= 0
      BY DEF Upto
    <3>2. Cardinality(s) \in Nat /\ Cardinality(s) > 0
      BY <3>1, Smaller, Zenon
    <3> QED BY <3>1, <3>2
  <2>2. g = [s \in Upto(U, 0) |-> SumStep(f, g, s)]
    BY <2>1 DEF SumStep
  <2> QED BY <2>2
<1>2. ASSUME NEW n \in Nat, n \in T PROVE n + 1 \in T
  <2>1. PICK g : g = [s \in Upto(U, n) |-> SumStep(f, g, s)]
    BY <1>2
  <2> DEFINE h == [s \in Upto(U, n + 1) |-> SumStep(f, g, s)]
  <2>2. \A s \in Upto(U, n) : s \in Upto(U, n + 1)
    <3> SUFFICES ASSUME NEW s \in SUBSET U, Cardinality(s) <= n PROVE Cardinality(s) <= n + 1
      BY DEF Upto
    <3>1. Cardinality(s) \in Nat
      BY Smaller, Zenon
    <3> QED BY <3>1
  <2>3. \A s \in Upto(U, n) : h[s] = g[s]
    <3> SUFFICES ASSUME NEW s \in Upto(U, n) PROVE h[s] = g[s]
      OBVIOUS
    <3>1. h[s] = SumStep(f, g, s)
      BY <2>2
    <3>2. g[s] = SumStep(f, g, s)
      BY <2>1
    <3> QED BY <3>1, <3>2
  <2>4. \A s \in Upto(U, n + 1) : s # {} => s \ {Pick(s)} \in Upto(U, n)
    <3> SUFFICES ASSUME NEW s \in SUBSET U, Cardinality(s) <= n + 1, s # {}
                 PROVE  s \ {Pick(s)} \in Upto(U, n)
      BY DEF Upto
    <3>1. /\ Cardinality(s) \in Nat /\ s \ {Pick(s)} \in SUBSET U
          /\ Cardinality(s \ {Pick(s)}) = Cardinality(s) - 1
      BY Smaller, Zenon
    <3> QED BY <3>1 DEF Upto
  <2>5. \A s \in Upto(U, n + 1) : SumStep(f, h, s) = SumStep(f, g, s)
    <3> HIDE DEF h
    <3> QED BY <2>3, <2>4 DEF SumStep
  <2>6. h = [s \in Upto(U, n + 1) |-> SumStep(f, h, s)]
    <3>1. h = [s \in Upto(U, n + 1) |-> SumStep(f, g, s)]
      OBVIOUS
    <3> HIDE DEF h
    <3> QED BY <2>5, <3>1
  <2>7. Part(n + 1)
    BY <2>6
  <2> QED BY <2>7
<1>3. Nat \subseteq T
  <2> HIDE DEF T
  <2> QED BY <1>1, <1>2, AllNumbers
<1>4. Cardinality(U) \in Nat /\ Upto(U, Cardinality(U)) = SUBSET U
  BY FS_CardinalityType, FS_Subset DEF Upto
<1>5. Part(Cardinality(U))
  BY <1>3, <1>4
<1> QED BY <1>4, <1>5

\* A sum of positive numbers is not less than their number.
LEMMA SumAtLeast ==
  ASSUME NEW U, IsFiniteSet(U), NEW f, \A u \in U : f[u] \in Nat /\ f[u] >= 1
  PROVE  Total(f, U) \in Nat /\ Total(f, U) >= Cardinality(U)
<1> DEFINE h == CHOOSE g : g = [s \in SUBSET U |-> SumStep(f, g, s)]
<1>1. Total(f, U) = h[U]
  BY DEF Total, MapThenSumSet, MapThenFoldSet, SumStep, Pick
<1>2. h = [s \in SUBSET U |-> SumStep(f, h, s)]
  BY SumExists
<1> HIDE DEF h
<1> DEFINE T == {n \in Nat : \A s \in Upto(U, n) : h[s] \in Nat /\ h[s] >= Cardinality(s)}
<1>3. 0 \in T
  <2> SUFFICES ASSUME NEW s \in Upto(U, 0) PROVE h[s] \in Nat /\ h[s] >= Cardinality(s)
    OBVIOUS
  <2>1. s \in SUBSET U /\ Cardinality(s) <= 0
    BY DEF Upto
  <2>2. Cardinality(s) \in Nat /\ (s # {} => Cardinality(s) > 0)
    BY <2>1, Smaller, Zenon
  <2>3. s = {}
    BY <2>1, <2>2
  <2> QED BY <1>2, <2>3, FS_EmptySet DEF SumStep
<1>4. ASSUME NEW n \in Nat, n \in T PROVE n + 1 \in T
  <2> SUFFICES ASSUME NEW s \in Upto(U, n + 1) PROVE h[s] \in Nat /\ h[s] >= Cardinality(s)
    OBVIOUS
  <2>1. CASE s = {}
    BY <1>2, <2>1, FS_EmptySet DEF SumStep
  <2>2. CASE s # {}
    <3> DEFINE r == s \ {Pick(s)}
    <3>1. /\ s \in SUBSET U /\ Pick(s) \in U /\ r \in Upto(U, n) /\ Cardinality(s) \in Nat
          /\ Cardinality(r) = Cardinality(s) - 1
      BY <2>2, Smaller DEF Upto
    <3>2. h[s] = f[Pick(s)] + h[r]
      BY <1>2, <2>2, <3>1 DEF SumStep
    <3>3. h[r] \in Nat /\ h[r] >= Cardinality(r)
      BY <1>4, <3>1
    <3>4. f[Pick(s)] \in Nat /\ f[Pick(s)] >= 1
      BY <3>1
    <3> HIDE DEF r
    <3> QED BY <3>1, <3>2, <3>3, <3>4
  <2> QED BY <2>1, <2>2
<1>5. Nat \subseteq T
  <2> HIDE DEF T
  <2> QED BY <1>3, <1>4, AllNumbers
<1>6. Cardinality(U) \in Nat /\ U \in Upto(U, Cardinality(U))
  BY FS_CardinalityType DEF Upto
<1> QED BY <1>1, <1>5, <1>6
-----------------------------------------------------------------------------
(* The jobs in the field: see FieldJobs.                                   *)

FieldTyped ==
  /\ config \in Config /\ bound \subseteq Unit
  /\ at \in [Unit -> 0 .. Gone] /\ seen \in [Unit -> 0 .. Gone]

\* Who is or is seen at the target has been there; who is seen dead is dead.
Known ==
  /\ \A u \in Unit : at[u] = 0 \/ seen[u] = 0 => u \in been
  /\ \A u \in Unit : seen[u] = Gone => at[u] = Gone
  /\ seenPrize = "ours" => prize = "ours"

\* What a phase of a job says of the way there.
PhaseTrue ==
  /\ phase = "verifying" /\ ~blind => yards \subseteq before \cup {"new"}
  /\ phase = "engaging" => been # {}

Judged == ~Ended => result = "none"

FieldInv == FieldTyped /\ Known /\ PhaseTrue /\ Judged /\ SuccessIsTrue

\* Gone lies beyond every place.
LEMMA Bounds == Gone \in Nat /\ Gone > 1 /\ Far \in Nat /\ Far > 0 /\ Far # Gone
BY FieldOK DEF Gone

\* Units whose middle is at the target: one of them is.
LEMMA MiddleThere ==
  ASSUME FieldTyped, Centroid = 0
  PROVE  \E u \in Unit : seen[u] = 0
<1> SUFFICES ASSUME \A u \in Unit : seen[u] # 0 PROVE FALSE
  OBVIOUS
<1> DEFINE us == Living(bound)
           sum == Total(seen, us)
<1>1. us # {} /\ us \subseteq Unit /\ sum \div Cardinality(us) = 0
  BY Bounds DEF Centroid, Living, FieldTyped, Total
<1>2. IsFiniteSet(us) /\ Cardinality(us) \in Nat /\ Cardinality(us) # 0
  BY <1>1, FieldOK, FS_Subset, FS_CardinalityType, FS_EmptySet
<1>3. \A u \in us : seen[u] \in Nat /\ seen[u] >= 1
  BY <1>1, Bounds DEF FieldTyped
<1> HIDE DEF us
<1>4. sum \in Nat /\ sum >= Cardinality(us)
  BY <1>2, <1>3, SumAtLeast
<1> HIDE DEF sum
<1> QED BY <1>1, <1>2, <1>4

\* The lesser of two numbers.
LEMMA MinOfTwo ==
  ASSUME NEW a \in Int, NEW b \in Int
  PROVE  Min({a, b}) = IF a <= b THEN a ELSE b
<1>1. \E x \in {a, b} : \A y \in {a, b} : x <= y
  OBVIOUS
<1>2. Min({a, b}) \in {a, b} /\ \A y \in {a, b} : Min({a, b}) <= y
  BY <1>1 DEF Min
<1> QED BY <1>2

\* Whom an arrival that is complete counts has been there or is dead.
LEMMA ArrivalIsTrue ==
  ASSUME FieldTyped, Known, ArrivalComplete
  PROVE  /\ config.full => \A u \in Members : u \in been \/ ~Alive(u)
         /\ ~config.full =>
              Cardinality(been \cap Members) >= Min({config.need, Cardinality({u \in Members : Alive(u)})})
<1>1. Counted = Members /\ Members \subseteq Unit /\ config.need \in Nat
  BY DEF Counted, Members, FieldTyped, Config
<1>2. Arrived \subseteq been \cap Members /\ {u \in Members : Alive(u)} \subseteq Living(Members)
  BY <1>1 DEF Arrived, Known, Living, Alive
<1>3. CASE config.full
  BY <1>1, <1>3 DEF ArrivalComplete, Arrived, Living, Known, Alive
<1>4. CASE ~config.full
  <2> DEFINE alive == {u \in Members : Alive(u)}
             living == Living(Members)
  <2>1. Cardinality(Arrived) >= Min({Cardinality(living), config.need})
    BY <1>1, <1>4 DEF ArrivalComplete
  <2>2. living \subseteq Unit
    BY <1>1 DEF Living
  <2>3. IsFiniteSet(living) /\ IsFiniteSet(been \cap Members)
    BY <1>1, <2>2, FieldOK, FS_Subset, FS_Intersection
  <2>4. /\ Cardinality(alive) \in Nat /\ Cardinality(living) \in Nat /\ Cardinality(Arrived) \in Nat
        /\ Cardinality(alive) <= Cardinality(living)
        /\ Cardinality(been \cap Members) \in Nat /\ Cardinality(Arrived) <= Cardinality(been \cap Members)
    <3> HIDE DEF alive, living
    <3>1. alive \subseteq living /\ Arrived \subseteq been \cap Members
      BY <1>2 DEF alive, living
    <3> QED BY <2>3, <3>1, FS_Subset, FS_CardinalityType
  <2> HIDE DEF alive, living
  <2>5. Cardinality(been \cap Members) >= Min({config.need, Cardinality(alive)})
    BY <1>1, <2>1, <2>4, MinOfTwo
  <2> QED BY <1>4, <2>5 DEF alive
<1> QED BY <1>3, <1>4

\* Outside a tick a job that goes on has reported nothing.
LEMMA GoesOnKeeps ==
  ASSUME FieldInv, result' = result, ~Ended, FieldTyped', Known', PhaseTrue'
  PROVE  FieldInv'
BY DEF FieldInv, Judged, SuccessIsTrue

LEMMA GameKeeps ==
  ASSUME FieldInv,
         PrizeChanges \/ YardAppears \/ ConditionsChange \/ Refresh \/ TimePasses \/ Rebalanced
           \/ \E u \in Unit : Travels(u) \/ Dies(u) \/ Granted(u) \/ Lost(u) \/ Taken(u)
  PROVE  FieldInv'
<1> USE Bounds DEF FieldInv, FieldTyped, Known, PhaseTrue, game, conditions, view, job, tickVars
<1>1. CASE PrizeChanges
  BY <1>1, GoesOnKeeps DEF PrizeChanges
<1>2. CASE YardAppears
  <2>1. PICK us \in SUBSET Unit : at' = [u \in Unit |-> IF u \in us THEN Gone ELSE at[u]]
    <3>1. config.group \subseteq Unit
      BY DEF Config
    <3>2. CASE at' = at
      <4>1. at' = [u \in Unit |-> IF u \in {} THEN Gone ELSE at[u]]
        BY <3>2
      <4> QED BY <4>1, {} \in SUBSET Unit
    <3>3. ASSUME NEW v \in Unit, at' = [at EXCEPT ![v] = Gone]
          PROVE  \E us \in SUBSET Unit : at' = [u \in Unit |-> IF u \in us THEN Gone ELSE at[u]]
      <4>1. at' = [u \in Unit |-> IF u \in {v} THEN Gone ELSE at[u]]
        BY <3>3
      <4> QED BY <4>1, {v} \in SUBSET Unit
    <3> QED BY <1>2, <3>1, <3>2, <3>3 DEF YardAppears
  <2>2. at' \in [Unit -> 0 .. Gone] /\ \A u \in Unit : at'[u] = at[u] \/ at'[u] = Gone
    BY <2>1
  <2> QED BY <1>2, <2>2, GoesOnKeeps DEF YardAppears
<1>3. CASE ConditionsChange \/ TimePasses \/ Rebalanced
  BY <1>3, GoesOnKeeps DEF ConditionsChange, TimePasses, Rebalanced, Ended, Over
<1>4. CASE Refresh
  BY <1>4, GoesOnKeeps DEF Refresh
<1>5. ASSUME NEW u \in Unit, Travels(u) PROVE FieldInv'
  <2>1. /\ at[u] > 0 /\ at[u] # Gone /\ at' = [at EXCEPT ![u] = at[u] - 1]
        /\ been' = IF at[u] = 1 THEN been \cup {u} ELSE been
    BY <1>5 DEF Travels, Alive
  <2>2. at' \in [Unit -> 0 .. Gone] /\ been \subseteq been' /\ (at'[u] = 0 => u \in been')
    BY <2>1
  <2> QED BY <1>5, <2>1, <2>2, GoesOnKeeps DEF Travels
<1>6. ASSUME NEW u \in Unit, Dies(u) PROVE FieldInv'
  BY <1>6, GoesOnKeeps DEF Dies
<1>7. ASSUME NEW u \in Unit, Granted(u) \/ Lost(u) PROVE FieldInv'
  <2>1. Wanted \subseteq Unit
    BY DEF Wanted, Config
  <2> QED BY <1>7, <2>1, GoesOnKeeps DEF Granted, Lost
<1>8. ASSUME NEW u \in Unit, Taken(u) PROVE FieldInv'
  <2>1. FieldTyped' /\ Known' /\ PhaseTrue'
    BY <1>8 DEF Taken
  <2>2. CASE bound' = {}
    <3>1. status' = "aborted" /\ result' = "aborted"
      BY <1>8, <2>2 DEF Taken
    <3> QED BY <2>1, <3>1 DEF Judged, Ended, Over, SuccessIsTrue
  <2>3. CASE bound' # {}
    BY <1>8, <2>1, <2>3, GoesOnKeeps DEF Taken
  <2> QED BY <2>2, <2>3
<1> QED BY <1>1, <1>2, <1>3, <1>4, <1>5, <1>6, <1>7, <1>8

\* The last report of a tick is true.
LEMMA TickKeeps ==
  ASSUME FieldInv, Tick
  PROVE  FieldInv'
<1> USE Bounds DEF FieldInv, Judged, Ended, Over
<1>0. /\ UNCHANGED <<config, reach, at, been, prize, yards, seen, seenPrize, bound>>
      /\ result = "none"
  BY DEF Tick, view
<1>1. FieldTyped' /\ Known'
  BY <1>0 DEF FieldTyped, Known
<1>2. Judged'
  <2>1. GoesOn => status' = status /\ result' = result
    BY DEF GoesOn
  <2> QED BY <1>0, <2>1 DEF Tick, MoveTick, CombatTick, Retreat, Approach, Engage, OccupyTick,
        DeployTick, DeployOrder, DeployVerify, OrderOnce, RallyTick, RepairTick, StopTick,
        OrderedOnce, NothingToOrder, Raises, Sends, Ends
<1>3. CASE MoveTick
  <2>1. PhaseTrue' /\ config.kind = "move"
    BY <1>0, <1>3 DEF MoveTick, PhaseTrue
  <2>2. result' = "succeeded" => ArrivalComplete
    BY <1>0, <1>3 DEF MoveTick, Ends, GoesOn
  <2>3. SuccessIsTrue'
    <3>1. Members' = Members /\ \A u : Alive(u)' = Alive(u)
      BY <1>0 DEF Members, Alive
    <3> QED BY <1>0, <2>1, <2>2, <3>1, ArrivalIsTrue DEF SuccessIsTrue
  <2> QED BY <1>1, <1>2, <2>1, <2>3
<1>4. CASE CombatTick
  <2>1. PhaseTrue' /\ (result' = "succeeded" => met' /\ been' # {}) /\ config'.kind = "combat"
    <3>0. UNCHANGED <<blind, before>> /\ config'.kind = "combat"
      BY <1>0, <1>4 DEF CombatTick
    <3>1. CASE Retreat
      BY <1>0, <3>0, <3>1 DEF Retreat, Raises, Ends, PhaseTrue
    <3>2. CASE phase = "approaching" /\ Approach
      <4>1. Centroid = 0 => been # {}
        BY MiddleThere DEF Known
      <4> QED BY <1>0, <3>0, <3>2, <4>1 DEF Approach, Sends, Raises, Ends, GoesOn, PhaseTrue
    <3>3. CASE phase = "engaging" /\ Engage
      BY <1>0, <3>0, <3>3 DEF Engage, Contact, Sends, Raises, Ends, GoesOn, PhaseTrue
    <3> QED BY <1>4, <3>1, <3>2, <3>3 DEF CombatTick
  <2>2. SuccessIsTrue'
    BY <2>1 DEF SuccessIsTrue
  <2> QED BY <1>1, <1>2, <2>1, <2>2
<1>5. CASE OccupyTick
  <2>1. PhaseTrue' /\ config'.kind = "occupy" /\ (result' = "succeeded" => prize' = "ours")
    BY <1>0, <1>5 DEF OccupyTick, PhaseTrue, Captured, Known, Sends, Raises, Ends, GoesOn
  <2>2. SuccessIsTrue'
    BY <2>1 DEF SuccessIsTrue
  <2> QED BY <1>1, <1>2, <2>1, <2>2
<1>6. CASE DeployTick
  <2>1. PhaseTrue' /\ config'.kind = "deploy" /\ (result' = "succeeded" => blind' \/ "new" \in yards')
    <3>1. CASE DeployOrder
      BY <1>0, <1>6, <3>1 DEF DeployTick, DeployOrder, PhaseTrue, Ends, GoesOn
    <3>2. CASE DeployVerify
      BY <1>0, <1>6, <3>2 DEF DeployTick, DeployVerify, NewYard, PhaseTrue, Ends, GoesOn
    <3> QED BY <1>6, <3>1, <3>2 DEF DeployTick
  <2>2. SuccessIsTrue'
    BY <2>1 DEF SuccessIsTrue
  <2> QED BY <1>1, <1>2, <2>1, <2>2
<1>7. CASE OrderOnce
  <2>1. PhaseTrue' /\ config'.kind \in {"rally", "repair", "stop"} /\ (result' = "succeeded" => issued')
    BY <1>0, <1>7 DEF OrderOnce, RallyTick, RepairTick, StopTick, OrderedOnce, NothingToOrder,
                      GivesOrders, Raises, Ends, PhaseTrue
  <2>2. SuccessIsTrue'
    BY <2>1 DEF SuccessIsTrue
  <2> QED BY <1>1, <1>2, <2>1, <2>2
<1> QED BY <1>3, <1>4, <1>5, <1>6, <1>7 DEF Tick

\* A job in the field reports success only when what it was to do was done, judged
\* by the game itself and not by the copy of it the job saw.
THEOREM SuccessesAreTrue == Spec => []SuccessIsTrue
<1>1. Init => FieldInv
  <2> SUFFICES ASSUME Init PROVE FieldInv
    OBVIOUS
  <2>1. /\ config \in Config /\ at = [u \in Unit |-> Far] /\ seen = at /\ seenPrize = prize
        /\ bound = {} /\ phase = "approaching" /\ result = "none" /\ status = "waiting"
    BY FieldOK DEF Init
  <2>2. FieldTyped /\ Known
    BY <2>1, Bounds, FieldOK DEF FieldTyped, Known, Gone
  <2> QED BY <2>1, <2>2 DEF FieldInv, PhaseTrue, Judged, SuccessIsTrue
<1>2. FieldInv /\ [Next]_vars => FieldInv'
  <2> SUFFICES ASSUME FieldInv, [Next]_vars PROVE FieldInv'
    OBVIOUS
  <2>1. CASE UNCHANGED vars
    BY <2>1 DEF vars, game, conditions, view, job, FieldInv, FieldTyped, Known, PhaseTrue, Judged,
                SuccessIsTrue, Ended, Members, Alive
  <2> QED BY <2>1, GameKeeps, TickKeeps DEF Next
<1>3. FieldInv => SuccessIsTrue
  BY DEF FieldInv
<1> QED BY <1>1, <1>2, <1>3, PTL DEF Spec
-----------------------------------------------------------------------------
(* Reconnaissance: see ReconSearch.                                        *)

AllActive == Active \cup {"failed"}

LEMMA BlockTypes ==
  /\ None \notin Block /\ Base \in Block
  /\ \A a, b \in Block : a # b => Step(a, b) \in Block
<1>1. Width \in Nat /\ Width >= 2
  BY ReconOK
<1> QED BY <1>1 DEF Block, None, Base, Step

LEMMA SearchBegins ==
  ASSUME SearchInit
  PROVE  SearchTypeOK
<1>1. /\ 0 \in 0 .. MaxStuckTicks /\ changes \in 0 .. Mishaps
      /\ place \in [Scout -> Block \cup {None}] /\ explored \subseteq Block
      /\ land \in Land /\ turn \in [ReconJob -> [Scout -> Block \cup {None}]]
  BY BlockTypes, ReconOK DEF SearchInit, NoTurn
<1>2. /\ jobState \in [ReconJob -> Active \cup {"succeeded", "failed", "aborted"}]
      /\ stuck \in [ReconJob -> [Scout -> 0 .. MaxStuckTicks]]
  BY <1>1 DEF SearchInit, Active
<1> QED BY <1>1, <1>2 DEF SearchInit, SearchTypeOK

LEMMA MishapTyped ==
  ASSUME SearchTypeOK, Mishap
  PROVE  SearchTypeOK'
<1> USE DEF SearchTypeOK, ground, scouting, jobs
<1>1. changes' \in 0 .. Mishaps
  BY ReconOK DEF Mishap
<1>2. ASSUME NEW s \in Scout, ScoutDies(s) PROVE SearchTypeOK'
  BY <1>1, <1>2 DEF ScoutDies
<1>3. CASE /\ Sighting \/ Trail \/ Link \/ \E s \in Scout : HeldUp(s) \/ Hit(s)
           /\ UNCHANGED <<land, place, sent, explored, grid, jobs>>
  <2>1. jammed' \subseteq Scout /\ hurt' \subseteq Scout /\ {foe', reachable'} \subseteq BOOLEAN
        /\ clue' \in Block \cup {None}
    <3>1. CASE Sighting \/ Trail \/ Link
      <4>1. Width \in Block
        BY ReconOK DEF Block
      <4> QED BY <3>1, <4>1 DEF Sighting, Trail, Link
    <3>2. ASSUME NEW s \in Scout, HeldUp(s) \/ Hit(s)
          PROVE  /\ jammed' \subseteq Scout /\ hurt' \subseteq Scout /\ {foe', reachable'} \subseteq BOOLEAN
                 /\ clue' \in Block \cup {None}
      BY <3>2 DEF HeldUp, Hit
    <3> QED BY <1>3, <3>1, <3>2
  <2> QED BY <1>1, <1>3, <2>1
<1> QED BY <1>2, <1>3 DEF Mishap

\* What a tick of a job does to its scout.
LEMMA TickTyped ==
  ASSUME SearchTypeOK, NEW j \in ReconJob, NEW s \in Scout, ScoutTick(j, s)
  PROVE  SearchTypeOK'
<1> USE DEF SearchTypeOK, ground, scouting
<1>0. UNCHANGED <<land, place, jammed, hurt, explored, foe, clue, reachable, changes, grid, cut>>
  BY DEF ScoutTick
<1>8. SameJob(j, s) => turn' \in [ReconJob -> [Scout -> Block \cup {None}]]
  <2> SUFFICES ASSUME SameJob(j, s) PROVE turn' \in [ReconJob -> [Scout -> Block \cup {None}]]
    OBVIOUS
  <2>1. turn[j] \in [Scout -> Block \cup {None}]
    OBVIOUS
  <2>2. [turn[j] EXCEPT ![s] = None] \in [Scout -> Block \cup {None}]
    BY <2>1
  <2>3. turn' = [turn EXCEPT ![j] = [turn[j] EXCEPT ![s] = None]]
    BY DEF SameJob, NextScout
  <2> QED BY <2>2, <2>3
<1>1. ASSUME NEW b \in Block \cup {None}, SendsScout(j, s, b)
      PROVE  /\ sent' \in [Scout -> Block \cup {None}]
             /\ jobState' \in [ReconJob -> Active \cup {"succeeded", "failed", "aborted"}]
             /\ scouts' \in [ReconJob -> SUBSET Scout]
             /\ turn' \in [ReconJob -> [Scout -> Block \cup {None}]]
  <2>1. NoTurn \in [Scout -> Block \cup {None}]
    BY DEF NoTurn
  <2>2. turn' \in [ReconJob -> [Scout -> Block \cup {None}]]
    BY <1>1, <1>8, <2>1 DEF SendsScout
  <2>3. /\ sent' \in [Scout -> Block \cup {None}]
        /\ jobState' \in [ReconJob -> Active \cup {"succeeded", "failed", "aborted"}]
        /\ scouts' \in [ReconJob -> SUBSET Scout]
    BY <1>1 DEF SendsScout, SameJob
  <2> QED BY <2>2, <2>3
<1>2. CASE Retreats(j, s) \/ Tracks(j, s)
  <2>1. PICK b \in Block \cup {None} : SendsScout(j, s, b)
    BY <1>2, BlockTypes DEF Retreats, Tracks
  <2>2. UNCHANGED <<led, headed, visited, stuck, lastAt, registry>>
    BY <1>2 DEF Retreats, Tracks
  <2> QED BY <1>0, <1>1, <2>1, <2>2
<1>3. CASE Searches(j, s)
  <2>1. PICK b \in Goal(j, s) :
          /\ headed' = [headed EXCEPT ![j][s] = b]
          /\ registry' = IF NeedsGoal(j, s) THEN [registry EXCEPT ![s] = b] ELSE registry
          /\ \/ b # None /\ SendsScout(j, s, b)
             \/ b = None /\ UNCHANGED sent /\ SameJob(j, s)
    BY <1>3 DEF Searches
  <2>2. b \in Block \cup {None}
    BY DEF Goal, Goals, Frontier, Unexplored
  <2>3. StuckTicks(j, s) \in 0 .. MaxStuckTicks
    <3>1. stuck[j][s] \in 0 .. MaxStuckTicks /\ MaxStuckTicks \in Nat \ {0}
      BY ReconOK
    <3>2. Min({stuck[j][s] + 1, MaxStuckTicks}) \in 0 .. MaxStuckTicks
      <4> DEFINE n == stuck[j][s] + 1
      <4>1. n \in Nat /\ MaxStuckTicks \in Nat
        BY <3>1
      <4>2. \E x \in {n, MaxStuckTicks} : \A y \in {n, MaxStuckTicks} : x <= y
        BY <4>1
      <4>3. /\ Min({n, MaxStuckTicks}) \in {n, MaxStuckTicks}
            /\ \A y \in {n, MaxStuckTicks} : Min({n, MaxStuckTicks}) <= y
        BY <4>2 DEF Min
      <4> QED BY <4>1, <4>3
    <3> QED BY <3>1, <3>2 DEF StuckTicks
  <2>4. Reached(j, s) \subseteq Block
    <3>1. turn[j][s] \in Block
      BY DEF ScoutTick
    <3> QED BY <3>1 DEF Reached, AtGoal
  <2>5. /\ led' \in [ReconJob -> SUBSET Scout] /\ headed' \in [ReconJob -> [Scout -> Block \cup {None}]]
        /\ visited' \in [ReconJob -> [Scout -> SUBSET Block]]
        /\ stuck' \in [ReconJob -> [Scout -> 0 .. MaxStuckTicks]]
        /\ lastAt' \in [ReconJob -> [Scout -> Block \cup {None}]]
        /\ registry' \in [Scout -> Block \cup {None}]
    BY <1>3, <2>1, <2>2, <2>3, <2>4 DEF Searches
  <2>6. /\ sent' \in [Scout -> Block \cup {None}]
        /\ jobState' \in [ReconJob -> Active \cup {"succeeded", "failed", "aborted"}]
        /\ scouts' \in [ReconJob -> SUBSET Scout]
        /\ turn' \in [ReconJob -> [Scout -> Block \cup {None}]]
    BY <1>1, <1>8, <2>1, <2>2 DEF SameJob
  <2> QED BY <1>0, <2>5, <2>6
<1> QED BY <1>2, <1>3 DEF ScoutTick

LEMMA SearchTyped ==
  ASSUME SearchTypeOK, [SearchNext]_searchVars
  PROVE  SearchTypeOK'
<1> USE DEF SearchTypeOK, ground, scouting, jobs
<1>1. CASE UNCHANGED searchVars
  BY <1>1 DEF searchVars
<1>2. ASSUME NEW s \in Scout, ScoutTravels(s) PROVE SearchTypeOK'
  <2>1. place[s] \in Block /\ sent[s] \in Block /\ place[s] # sent[s]
    BY <1>2 DEF ScoutTravels, CanTravel
  <2>2. place' \in [Scout -> Block \cup {None}] /\ place'[s] \in Block
    BY <1>2, <2>1, BlockTypes DEF ScoutTravels
  <2> QED BY <1>2, <2>2 DEF ScoutTravels
<1>3. CASE SeeGround
  BY <1>3 DEF SeeGround
<1>4. ASSUME NEW j \in ReconJob, AbortSearch(j) \/ Finds(j) PROVE SearchTypeOK'
  BY <1>4 DEF AbortSearch, Finds, Cleaned
<1>5. ASSUME NEW j \in ReconJob, NEW s \in Scout, ScoutGranted(j, s) \/ ScoutRevoked(j, s) PROVE SearchTypeOK'
  <2>1. scouts' \in [ReconJob -> SUBSET Scout]
    <3>1. CASE ScoutGranted(j, s)
      BY <3>1 DEF ScoutGranted
    <3>2. CASE ScoutRevoked(j, s)
      BY <3>2 DEF ScoutRevoked
    <3> QED BY <1>5, <3>1, <3>2
  <2>2. jobState' \in [ReconJob -> Active \cup {"succeeded", "failed", "aborted"}]
    <3>1. \E x \in {"running", "waiting"} : jobState' = [jobState EXCEPT ![j] = x]
      BY <1>5 DEF ScoutGranted, ScoutRevoked
    <3> QED BY <3>1 DEF Active
  <2> QED BY <1>5, <2>1, <2>2 DEF ScoutGranted, ScoutRevoked
<1>6. ASSUME NEW j \in ReconJob, TickStarts(j) PROVE SearchTypeOK'
  <2>1. [s \in Scout |-> IF s \in LivingScouts(j) THEN place[s] ELSE None] \in [Scout -> Block \cup {None}]
    OBVIOUS
  <2>2. turn' \in [ReconJob -> [Scout -> Block \cup {None}]]
    BY <1>6, <2>1 DEF TickStarts
  <2> QED BY <1>6, <2>2 DEF TickStarts
<1> QED BY <1>1, <1>2, <1>3, <1>4, <1>5, <1>6, MishapTyped, TickTyped DEF SearchNext

\* Every step of the game, the kernel and the jobs keeps every variable to its type.
THEOREM ScoutTypesCorrect == SearchSpec => []SearchTypeOK
<1>1. SearchInit => SearchTypeOK
  BY SearchBegins
<1>2. SearchTypeOK /\ [SearchNext]_searchVars => SearchTypeOK'
  BY SearchTyped
<1> QED BY <1>1, <1>2, PTL DEF SearchSpec

-----------------------------------------------------------------------------
(* The goals.  A tick goes on after its job was aborted, so whose tick it   *)
(* is matters.                                                             *)

\* Whose goals may be in the table.
Owner(i) == jobState[i] \in AllActive \/ i \in cut

\* A job in the middle of a tick goes on, has failed, or was aborted under it.
TicksOwn == \A i \in ReconJob : turn[i] # NoTurn => Owner(i)

OwnedInv == GoalsAreOwned /\ TicksOwn

LEMMA OwnedStep ==
  ASSUME SearchTypeOK, OwnedInv, [SearchNext]_searchVars
  PROVE  OwnedInv'
<1> USE DEF SearchTypeOK, ground, scouting, jobs
<1>0. /\ GoalsAreOwned = \A s \in Scout : registry[s] # None => \E i \in ReconJob : s \in led[i] /\ Owner(i)
      /\ GoalsAreOwned' = \A s \in Scout : registry'[s] # None => \E i \in ReconJob : s \in led'[i] /\ Owner(i)'
  BY DEF GoalsAreOwned, Owner, AllActive
\* What keeps the table, the led scouts and the ticks, and ends jobs by failures only.
<1>1. ASSUME registry' = registry, \A i \in ReconJob : led[i] \subseteq led'[i],
             \A i \in ReconJob : Owner(i) => Owner(i)',
             \A i \in ReconJob : turn'[i] # NoTurn => turn[i] # NoTurn \/ Owner(i)'
      PROVE  OwnedInv'
  BY <1>0, <1>1 DEF OwnedInv, TicksOwn
<1>8. ASSUME UNCHANGED <<jobState, cut>> PROVE \A i \in ReconJob : Owner(i) => Owner(i)'
  BY <1>8 DEF Owner
<1>2. CASE UNCHANGED searchVars
  BY <1>1, <1>2, <1>8 DEF searchVars
<1>3. ASSUME NEW s \in Scout, ScoutTravels(s) PROVE OwnedInv'
  BY <1>1, <1>3, <1>8 DEF ScoutTravels
<1>4. CASE Mishap \/ SeeGround
  BY <1>1, <1>4, <1>8 DEF Mishap, ScoutDies, SeeGround
<1>5. ASSUME NEW j \in ReconJob, NEW s \in Scout, ScoutGranted(j, s) \/ ScoutRevoked(j, s) PROVE OwnedInv'
  <2>1. \E x \in {"running", "waiting"} : jobState' = [jobState EXCEPT ![j] = x]
    BY <1>5 DEF ScoutGranted, ScoutRevoked
  <2>2. UNCHANGED <<registry, led, turn, cut>>
    BY <1>5 DEF ScoutGranted, ScoutRevoked
  <2>3. \A i \in ReconJob : Owner(i) => Owner(i)'
    BY <2>1, <2>2 DEF Owner, AllActive, Active
  <2> QED BY <1>1, <2>2, <2>3
<1>6. ASSUME NEW j \in ReconJob, AbortSearch(j) \/ Finds(j) PROVE OwnedInv'
  <2>1. /\ registry' = Cleaned(j) /\ UNCHANGED <<led, turn>>
        /\ \A i \in ReconJob \ {j} : jobState'[i] = jobState[i]
        /\ cut \subseteq cut' /\ (turn[j] # NoTurn => j \in cut')
    BY <1>6 DEF AbortSearch, Finds, TickDue
  <2>2. \A i \in ReconJob \ {j} : Owner(i) => Owner(i)'
    BY <2>1 DEF Owner
  <2>3. TicksOwn'
    BY <2>1, <2>2 DEF OwnedInv, TicksOwn, Owner
  <2>4. ASSUME NEW s \in Scout, registry'[s] # None
        PROVE  \E i \in ReconJob : s \in led'[i] /\ Owner(i)'
    <3>1. s \notin led[j] /\ registry[s] # None
      BY <2>1, <2>4 DEF Cleaned
    <3>2. PICK i \in ReconJob : s \in led[i] /\ Owner(i)
      BY <1>0, <3>1 DEF OwnedInv
    <3> QED BY <2>1, <2>2, <3>1, <3>2
  <2> QED BY <1>0, <2>3, <2>4 DEF OwnedInv
<1>7. ASSUME NEW j \in ReconJob, NEW s \in Scout, ScoutTick(j, s) PROVE OwnedInv'
  <2>0. Owner(j) /\ cut' = cut
    <3>1. turn[j] # NoTurn
      BY <1>7 DEF ScoutTick, NoTurn
    <3> QED BY <1>7, <3>1 DEF OwnedInv, TicksOwn, ScoutTick
  <2>1. ASSUME (\E b : SendsScout(j, s, b)) \/ SameJob(j, s)
        PROVE  /\ \A i \in ReconJob : Owner(i) => Owner(i)'
               /\ \A i \in ReconJob : turn'[i] # NoTurn => turn[i] # NoTurn \/ Owner(i)'
    <3>1. /\ jobState' = jobState \/ jobState' = [jobState EXCEPT ![j] = "failed"]
          /\ \A i \in ReconJob \ {j} : turn'[i] = turn[i]
      BY <2>1 DEF SendsScout, SameJob, NextScout
    <3>2. \A i \in ReconJob : Owner(i) => Owner(i)'
      BY <2>0, <3>1 DEF Owner, AllActive
    <3> QED BY <2>0, <3>1, <3>2
  <2>2. CASE Retreats(j, s) \/ Tracks(j, s)
    BY <1>1, <2>1, <2>2 DEF Retreats, Tracks
  <2>3. CASE Searches(j, s)
    <3>1. \A i \in ReconJob : led[i] \subseteq led'[i] /\ s \in led'[j]
      BY <2>3 DEF Searches
    <3>2. /\ \A i \in ReconJob : Owner(i) => Owner(i)'
          /\ \A i \in ReconJob : turn'[i] # NoTurn => turn[i] # NoTurn \/ Owner(i)'
      BY <2>1, <2>3 DEF Searches
    <3>3. \A r \in Scout \ {s} : registry'[r] = registry[r]
      BY <2>3 DEF Searches
    <3>4. TicksOwn'
      BY <3>2 DEF OwnedInv, TicksOwn
    <3>5. GoalsAreOwned'
      BY <1>0, <2>0, <3>1, <3>2, <3>3 DEF OwnedInv
    <3> QED BY <3>4, <3>5 DEF OwnedInv
  <2> QED BY <1>7, <2>2, <2>3 DEF ScoutTick
<1>9. ASSUME NEW j \in ReconJob, TickStarts(j) PROVE OwnedInv'
  <2>1. UNCHANGED <<registry, led, jobState, cut>> /\ \A i \in ReconJob \ {j} : turn'[i] = turn[i]
    BY <1>9 DEF TickStarts
  <2>2. Owner(j)'
    BY <1>9, <2>1 DEF TickStarts, TickDue, Owner, AllActive, Active
  <2> QED BY <1>1, <1>8, <2>1, <2>2
<1> QED BY <1>2, <1>3, <1>4, <1>5, <1>6, <1>7, <1>9 DEF SearchNext

\* Nobody is kept away by the goal of a scout whose job has ended, except by a
\* failure or by an abort in the middle of its tick: scouts that die, are taken
\* away and come to another job included.
THEOREM GoalsHaveOwners == SearchSpec => []GoalsAreOwned
<1>1. SearchInit => OwnedInv
  BY DEF SearchInit, OwnedInv, GoalsAreOwned, TicksOwn
<1>2. SearchTypeOK /\ OwnedInv /\ [SearchNext]_searchVars => OwnedInv'
  BY OwnedStep
<1>3. OwnedInv => GoalsAreOwned
  BY DEF OwnedInv
<1> QED BY <1>1, <1>2, <1>3, ScoutTypesCorrect, PTL DEF SearchSpec

-----------------------------------------------------------------------------
(* The production jobs: see BuildQueue.                                    *)

JobRecord == [status : {"none", "running", "waiting"} \cup Concluded,
              reason : Reasons \cup {"none"},
              issued : Nat, produced : Nat, counted : Nat, known : SUBSET Nat,
              robbed : BOOLEAN]

\* The record of a job: it never has more on its books than it was asked for,
\* and what it counts of completions is part of what it counts.
Booked(j, s) ==
  /\ s \in JobRecord
  /\ s.issued <= Count[j] /\ s.produced <= Count[j] /\ s.counted <= s.produced

Landing ==
  /\ born \in [Type -> Nat]
  /\ landed \in [Type -> SUBSET Nat] /\ standing \in [Type -> SUBSET Nat]
  /\ \A t \in Type : IsFiniteSet(landed[t]) /\ IsFiniteSet(standing[t])

BooksInOrder ==
  /\ books \in [Job -> JobRecord] /\ told \in [Job -> Reasons \cup {"none"}]
  /\ \A j \in Job : Booked(j, books[j]) /\ unread[j] \in 0 .. Count[j]
  /\ unread = [j \in Job |-> unread[j]]

\* A reason on the record was told last, also while the job does not wait.
Heard(s, last_told) ==
  /\ s.status = "waiting" => s.reason # "none"
  /\ s.reason # "none" => last_told = s.reason

QueueInv == Landing /\ BooksInOrder /\ \A j \in Job : Heard(books[j], told[j])

LEMMA QueueTypes ==
  ASSUME NEW j \in Job
  PROVE  TypeOf[j] \in Type /\ Count[j] \in Nat /\ Count[j] > 0
BY QueueOK

\* What a job reads at the beginning of a tick keeps its books in order.
LEMMA ReadBooked ==
  ASSUME QueueInv, NEW j \in Job
  PROVE  /\ Booked(j, Read(j)) /\ Heard(Read(j), told[j])
         /\ Booked(j, AfterPlacing(Read(j), j))
         /\ Heard(AfterPlacing(Read(j), j), told[j])
<1> DEFINE s == books[j]
           e == AfterEvents(s, j)
           a == AfterArrivals(e, j)
           p == AfterPlacing(a, j)
<1>1. Booked(j, s) /\ Heard(s, told[j])
  BY DEF QueueInv, BooksInOrder
<1>2. Count[j] \in Nat /\ unread[j] \in Nat /\ standing[TypeOf[j]] \in SUBSET Nat
  BY QueueTypes DEF QueueInv, BooksInOrder, Landing
<1>3. Booked(j, e) /\ Heard(e, told[j])
  <2> DEFINE n == Min({unread[j], Count[j] - s.produced})
  <2>1. n \in Nat /\ n <= Count[j] - s.produced
    BY <1>1, <1>2, MinOfTwo DEF Booked, JobRecord
  <2> HIDE DEF n, s
  <2>2. e = IF n = 0 THEN s ELSE [s EXCEPT !.produced = @ + n, !.counted = @ + n, !.status = "running"]
    BY DEF AfterEvents, n
  <2>3. CASE n = 0
    BY <1>1, <2>2, <2>3
  <2>4. CASE n # 0
    <3>1. /\ s \in JobRecord /\ s.produced + n \in Nat /\ s.counted + n \in Nat
          /\ s.counted + n <= s.produced + n /\ s.produced + n <= Count[j]
      BY <1>1, <1>2, <2>1 DEF Booked, JobRecord
    <3>2. e = [s EXCEPT !.produced = s.produced + n, !.counted = s.counted + n, !.status = "running"]
      BY <2>2, <2>4
    <3>3. /\ e \in JobRecord /\ e.produced = s.produced + n /\ e.counted = s.counted + n
          /\ e.issued = s.issued /\ e.known = s.known /\ e.reason = s.reason /\ e.status = "running"
      BY <3>1, <3>2 DEF JobRecord
    <3> QED BY <1>1, <3>1, <3>3 DEF Booked, Heard
  <2> QED BY <2>3, <2>4
<1> HIDE DEF e, s
<1>4. Booked(j, a) /\ Heard(a, told[j])
  <2> DEFINE new == Cardinality(standing[TypeOf[j]] \ e.known)
             most == Min({e.issued, Count[j]})
             m == Min({new, most - e.produced})
             n == IF e.produced < most THEN m ELSE 0
             t == [e EXCEPT !.known = standing[TypeOf[j]]]
  <2>1. most \in Nat /\ most <= Count[j]
    BY <1>2, <1>3, MinOfTwo DEF Booked, JobRecord
  <2>0. new \in Nat
    BY QueueTypes, FS_Difference, FS_CardinalityType DEF QueueInv, Landing
  <2> HIDE DEF new
  <2>2. n \in Nat /\ e.produced + n <= Count[j]
    BY <1>2, <1>3, <2>0, <2>1, MinOfTwo DEF Booked, JobRecord
  <2> HIDE DEF n, m, most
  <2>3. a = IF n = 0 THEN t ELSE [t EXCEPT !.produced = @ + n, !.status = "running"]
    BY DEF AfterArrivals, n, m, most, new
  <2>4. /\ t \in JobRecord /\ t.known = standing[TypeOf[j]]
        /\ \A f \in {"status", "reason", "issued", "produced", "counted"} : t[f] = e[f]
    BY <1>2, <1>3 DEF Booked, JobRecord
  <2>5. CASE n = 0
    BY <1>2, <1>3, <2>3, <2>4, <2>5 DEF Booked, Heard
  <2>6. CASE n # 0
    <3> HIDE DEF t
    <3>1. t.produced + n \in Nat /\ a = [t EXCEPT !.produced = t.produced + n, !.status = "running"]
      BY <2>2, <2>3, <2>4, <2>6 DEF JobRecord
    <3>2. /\ a \in JobRecord /\ a.produced = t.produced + n /\ a.counted = t.counted
          /\ a.issued = t.issued /\ a.known = t.known /\ a.reason = t.reason /\ a.status = "running"
      BY <2>4, <3>1 DEF JobRecord
    <3>3. e.counted \in Nat /\ e.produced \in Nat /\ e.counted <= e.produced + n
      BY <1>3, <2>2 DEF Booked, JobRecord
    <3> QED BY <1>2, <1>3, <2>2, <2>4, <3>2, <3>3 DEF Booked, Heard
  <2> QED BY <2>5, <2>6
<1> HIDE DEF a
<1>5. Booked(j, p) /\ Heard(p, told[j])
  <2>1. a \in JobRecord /\ a.counted \in Nat /\ a.produced \in Nat
    BY <1>4 DEF Booked, JobRecord
  <2>2. CASE a.counted > 0
    <3> DEFINE n == a.counted - 1
    <3>1. p = [a EXCEPT !.counted = n, !.status = "running"] /\ n \in Nat /\ n < a.counted
      BY <2>1, <2>2 DEF AfterPlacing
    <3> HIDE DEF n, p
    <3>2. p \in JobRecord
      BY <2>1, <3>1 DEF JobRecord
    <3>3. p.counted = n /\ p.status = "running"
      BY <2>1, <3>1 DEF JobRecord
    <3>4. /\ p.reason = a.reason /\ p.issued = a.issued /\ p.produced = a.produced
          /\ p.known = a.known
      BY <2>1, <3>1 DEF JobRecord
    <3> QED BY <1>4, <2>1, <3>1, <3>2, <3>3, <3>4 DEF Booked, Heard
  <2>3. CASE a.counted = 0 /\ a.produced < Count[j]
    <3> DEFINE n == a.produced + 1
    <3>1. p = [a EXCEPT !.produced = n, !.status = "running"] /\ n \in Nat /\ n <= Count[j]
      BY <1>2, <2>1, <2>3 DEF AfterPlacing
    <3>2. a.counted <= n
      BY <2>1, <2>3
    <3> HIDE DEF n, p
    <3>3. p \in JobRecord
      BY <2>1, <3>1 DEF JobRecord
    <3>4. p.produced = n /\ p.status = "running"
      BY <2>1, <3>1 DEF JobRecord
    <3>5. /\ p.reason = a.reason /\ p.issued = a.issued /\ p.counted = a.counted
          /\ p.known = a.known
      BY <2>1, <3>1 DEF JobRecord
    <3> QED BY <1>4, <3>1, <3>2, <3>3, <3>4, <3>5 DEF Booked, Heard
  <2>4. CASE a.counted = 0 /\ ~(a.produced < Count[j])
    <3>1. p = [a EXCEPT !.status = "running"]
      BY <2>1, <2>4 DEF AfterPlacing
    <3>2. /\ p \in JobRecord /\ p.status = "running"
          /\ \A f \in {"reason", "issued", "produced", "counted", "known"} : p[f] = a[f]
      BY <2>1, <3>1 DEF JobRecord
    <3> HIDE DEF p
    <3> QED BY <1>4, <3>2 DEF Booked, Heard
  <2> QED BY <2>1, <2>2, <2>3, <2>4
<1> QED BY <1>4, <1>5 DEF a, e, s, p, Read

\* However a tick goes on, the job's books stay in order and what it waits for
\* is told.
Keeps(j) ==
  \E s, r : /\ Booked(j, s) /\ Heard(s, r) /\ r \in Reasons \cup {"none"}
            /\ books' = [books EXCEPT ![j] = s] /\ told' = [told EXCEPT ![j] = r]

LEMMA WaitsKeeps ==
  ASSUME QueueInv, NEW j \in Job, NEW s, Booked(j, s), Heard(s, told[j]),
         NEW r \in Reasons,
         books' = [books EXCEPT ![j] = [s EXCEPT !.status = "waiting", !.reason = r]],
         told' = [told EXCEPT ![j] = IF Reports(s, r) THEN r ELSE @]
  PROVE  Keeps(j)
<1>1. PICK w : w = [s EXCEPT !.status = "waiting", !.reason = r]
  OBVIOUS
<1>2. Booked(j, w) /\ w.reason = r
  BY <1>1 DEF Booked, JobRecord, Concluded
<1>3. told' = [told EXCEPT ![j] = r]
  BY DEF Reports, Heard, QueueInv, BooksInOrder, Reasons
<1>4. r # "none"
  BY DEF Reasons
<1> QED BY <1>1, <1>2, <1>3, <1>4 DEF Keeps, Heard

LEMMA BecomesKeeps ==
  ASSUME QueueInv, NEW j \in Job, NEW s, Booked(j, s), Heard(s, told[j]), Becomes(s, j)
  PROVE  Keeps(j)
<1> DEFINE r == IF s.reason = "none" THEN "none" ELSE told[j]
<1>1. told' = [told EXCEPT ![j] = r] /\ r \in Reasons \cup {"none"} /\ Heard(s, r)
  BY DEF Becomes, QueueInv, BooksInOrder, Heard
<1> QED BY <1>1 DEF Becomes, Keeps

\* The record of a job that has ended.
LEMMA DroppedBooked ==
  ASSUME NEW j \in Job, NEW st \in Concluded
  PROVE  /\ Dropped(st) \in JobRecord /\ Booked(j, Dropped(st))
         /\ Heard(Dropped(st), "none")
<1>1. Count[j] \in Nat
  BY QueueTypes
<1>2. /\ Dropped(st) \in JobRecord /\ Dropped(st).status # "waiting"
      /\ Dropped(st).reason = "none"
      /\ \A f \in {"issued", "produced", "counted"} : Dropped(st)[f] = 0
  <2>1. /\ NewJob \in JobRecord /\ NewJob.reason = "none"
        /\ \A f \in {"issued", "produced", "counted"} : NewJob[f] = 0
    BY DEF NewJob, JobRecord
  <2>2. st # "waiting" /\ st \in {"none", "running", "waiting"} \cup Concluded
    BY DEF Concluded
  <2> QED BY <2>1, <2>2 DEF Dropped, JobRecord
<1> QED BY <1>1, <1>2 DEF Booked, Heard

LEMMA EndsKeeps ==
  ASSUME NEW j \in Job, NEW st \in Concluded, EndsAs(j, st)
  PROVE  Keeps(j)
BY DroppedBooked DEF EndsAs, Keeps

LEMMA ReasonTypes ==
  ASSUME NEW j \in Job
  PROVE  WaitingReason(j) \in Reasons \cup {"none", "raises"}
BY Zenon DEF WaitingReason, Reasons

LEMMA DecideKeeps ==
  ASSUME QueueInv, NEW j \in Job, NEW s, Booked(j, s), Heard(s, told[j]),
         NEW q, Decide(s, j, q)
  PROVE  Keeps(j)
<1> DEFINE r == WaitingReason(j)
           t == Resumed(s)
           idle == ActiveOf(queueCopy, TypeOf[j]) \/ t.issued >= Count[j]
<1>1. Count[j] \in Nat /\ Count[j] > 0
  BY QueueTypes
<1>2. Booked(j, t) /\ Heard(t, told[j])
  BY DEF Resumed, Booked, JobRecord, Heard
<1>4. ASSUME t.issued < Count[j]
      PROVE  LET u == [t EXCEPT !.issued = @ + 1, !.status = "running"]
             IN  Booked(j, u) /\ Heard(u, told[j])
  <2> DEFINE u == [t EXCEPT !.issued = @ + 1, !.status = "running"]
  <2> HIDE DEF t
  <2>1. t \in JobRecord /\ t.issued + 1 \in Nat /\ t.issued + 1 <= Count[j]
    BY <1>1, <1>2, <1>4 DEF Booked, JobRecord
  <2>2. /\ u \in JobRecord /\ u.issued = t.issued + 1 /\ u.status = "running"
        /\ \A f \in {"reason", "produced", "counted", "known"} : u[f] = t[f]
    BY <2>1 DEF JobRecord
  <2> HIDE DEF u
  <2>3. Booked(j, u) /\ Heard(u, told[j])
    BY <1>2, <2>1, <2>2 DEF Booked, Heard
  <2> QED BY <2>3 DEF u
<1>5. ASSUME NEW x, NEW y \in Reasons, Booked(j, x), Heard(x, told[j]), Waits(x, j, y)
      PROVE  Keeps(j)
  BY <1>5, WaitsKeeps DEF Waits, Waiting
<1>6. CASE s.produced >= Count[j] \/ r = "raises"
  BY <1>6, EndsKeeps DEF Decide, Concluded
<1>7. CASE ~(s.produced >= Count[j]) /\ r \notin {"raises", "none"}
  <2>1. r \in Reasons /\ WaitsOrFails(s, j, r)
    BY <1>7, ReasonTypes DEF Decide
  <2> HIDE DEF r
  <2>2. CASE r = "cannot_produce" /\ TypeOf[j] \in Foreign
    BY <2>1, <2>2, EndsKeeps DEF WaitsOrFails, Concluded
  <2>3. CASE ~(r = "cannot_produce" /\ TypeOf[j] \in Foreign)
    BY <1>5, <2>1, <2>3 DEF WaitsOrFails
  <2> QED BY <2>2, <2>3
<1>8. CASE ~(s.produced >= Count[j]) /\ r = "none"
  <2>1. CASE idle
    BY <1>2, <1>8, <2>1, BecomesKeeps DEF Decide
  <2>2. CASE ~idle /\ Waits(t, j, "economy_first_constraint")
    BY <1>2, <1>5, <2>2 DEF Reasons
  <2>3. CASE ~idle /\ Produce(t, j, q)
    <3>1. t.issued < Count[j]
      BY <1>1, <1>2, <2>3 DEF Booked, JobRecord
    <3>2. CASE trouble = "declines"
      BY <1>2, <1>5, <2>3, <3>2 DEF Produce, Reasons
    <3>3. CASE trouble # "declines"
      BY <1>4, <2>3, <3>1, <3>3, BecomesKeeps DEF Produce
    <3> QED BY <3>2, <3>3
  <2> QED BY <1>8, <2>1, <2>2, <2>3 DEF Decide
<1> QED BY <1>6, <1>7, <1>8

\* A job's step, which leaves the map's copy and the other jobs alone.
LEMMA JobStepKeeps ==
  ASSUME QueueInv, NEW j \in Job, Keeps(j), standing' = standing, Landing',
         unread' = [unread EXCEPT ![j] = 0] \/ unread' = unread
  PROVE  QueueInv'
<1>1. PICK s, r : /\ Booked(j, s) /\ Heard(s, r) /\ r \in Reasons \cup {"none"}
                  /\ books' = [books EXCEPT ![j] = s] /\ told' = [told EXCEPT ![j] = r]
  BY DEF Keeps
<1>2. \A i \in Job : Count[i] \in Nat
  BY QueueTypes
<1>3. \A i \in Job : Booked(i, books'[i]) /\ Heard(books'[i], told'[i])
  BY <1>1 DEF QueueInv, BooksInOrder, Booked
<1>4. /\ books' \in [Job -> JobRecord] /\ told' \in [Job -> Reasons \cup {"none"}]
      /\ unread' = [i \in Job |-> unread'[i]] /\ \A i \in Job : unread'[i] \in 0 .. Count[i]
  BY <1>1, <1>2 DEF QueueInv, BooksInOrder, Booked
<1> QED BY <1>3, <1>4 DEF QueueInv, BooksInOrder, Booked

\* What stands on the map stays a finite set of ids.
LandingStep ==
  \/ landed' = landed /\ born' = born
  \/ \E t : Lands(t)
  \/ /\ born' = born
     /\ \E t \in Type : \E b : landed' = [landed EXCEPT ![t] = @ \ {b}]

LEMMA LandingKept ==
  ASSUME Landing, LandingStep, standing' = standing \/ standing' = landed
  PROVE  Landing'
<1>1. CASE landed' = landed /\ born' = born
  BY <1>1 DEF Landing
<1>2. ASSUME NEW t, Lands(t) PROVE Landing'
  <2>1. /\ born' = [born EXCEPT ![t] = @ + 1]
        /\ landed' = [landed EXCEPT ![t] = @ \cup {born[t] + 1}]
    BY <1>2 DEF Lands
  <2>2. CASE t \in Type
    <3>1. born[t] + 1 \in Nat
      BY <2>2 DEF Landing
    <3>2. IsFiniteSet(landed[t] \cup {born[t] + 1})
      BY <2>2, FS_AddElement, Zenon DEF Landing
    <3> QED BY <2>1, <2>2, <3>1, <3>2 DEF Landing
  <2>3. CASE t \notin Type
    BY <2>1, <2>3 DEF Landing
  <2> QED BY <2>2, <2>3
<1>3. ASSUME NEW t \in Type, NEW b, landed' = [landed EXCEPT ![t] = @ \ {b}], born' = born
      PROVE  Landing'
  <2>1. IsFiniteSet(landed[t] \ {b})
    BY FS_Difference DEF Landing
  <2> QED BY <1>3, <2>1 DEF Landing
<1> QED BY <1>1, <1>2, <1>3 DEF LandingStep

\* To rob a job of what it ordered changes nothing it has on its books.
LEMMA RobbedTypes ==
  ASSUME QueueInv, NEW S, NEW j \in Job
  PROVE  /\ Robbed(S)[j] \in JobRecord
         /\ \A f \in {"status", "reason", "issued", "produced", "counted"} :
              Robbed(S)[j][f] = books[j][f]
<1>1. ASSUME NEW s \in JobRecord, NEW b \in BOOLEAN
      PROVE  /\ [s EXCEPT !.robbed = b] \in JobRecord
             /\ \A f \in {"status", "reason", "issued", "produced", "counted"} :
                  [s EXCEPT !.robbed = b][f] = s[f]
  BY <1>1 DEF JobRecord
<1>2. PICK b \in BOOLEAN : b = (books[j].robbed \/ j \in S)
  OBVIOUS
<1>3. Robbed(S)[j] = [books[j] EXCEPT !.robbed = b]
  BY <1>2, Zenon DEF Robbed
<1>4. books[j] \in JobRecord
  BY DEF QueueInv, BooksInOrder
<1> QED BY <1>1, <1>3, <1>4

\* A step of the game or the manager touches no job but to rob it.
LEMMA GameKeepsBooks ==
  ASSUME QueueInv, Landing', UNCHANGED <<told, unread>>,
         books' = books \/ \E S : books' = Robbed(S)
  PROVE  QueueInv'
<1>1. CASE books' = books
  BY <1>1 DEF QueueInv, BooksInOrder, Booked
<1>2. ASSUME NEW S, books' = Robbed(S) PROVE QueueInv'
  <2>1. \A j \in Job : /\ books'[j] \in JobRecord
                        /\ \A f \in {"status", "reason", "issued", "produced", "counted"} :
                             books'[j][f] = books[j][f]
    BY <1>2, RobbedTypes
  <2>2. books' \in [Job -> JobRecord]
    BY <1>2, <2>1 DEF Robbed
  <2>3. \A j \in Job : Booked(j, books'[j]) /\ Heard(books'[j], told[j])
    BY <2>1 DEF QueueInv, BooksInOrder, Booked, Heard
  <2> QED BY <2>2, <2>3 DEF QueueInv, BooksInOrder, Booked
<1> QED BY <1>1, <1>2

LEMMA QueueStep ==
  ASSUME QueueInv, [QueueNext]_queueVars
  PROVE  QueueInv'
<1> USE DEF gameVars, viewVars, jobVars, managerVars
<1>1. CASE GameStep \/ ManagerTick \/ UNCHANGED queueVars \/ ReadyTimePasses
  <2>1. UNCHANGED <<standing, told, unread>> /\ (books' = books \/ \E S : books' = Robbed(S))
    BY <1>1 DEF GameStep, Complete, AutoPlace, PlayerOrders, PlayerCancels, Falls,
                TroubleChanges, ManagerTick, ReadyTimePasses, ReadyAges, queueVars
  <2>2. LandingStep
    <3>1. CASE Falls
      BY <3>1 DEF Falls, LandingStep
    <3>2. CASE Complete \/ PlayerOrders \/ PlayerCancels \/ TroubleChanges
      BY <3>2 DEF Complete, PlayerOrders, PlayerCancels, TroubleChanges, LandingStep
    <3>3. CASE AutoPlace
      BY <3>3 DEF AutoPlace, Landed, LandingStep
    <3>4. CASE ManagerTick
      BY <3>4 DEF ManagerTick, ManagerLooks, ManagerWarns, ManagerPlaces,
                  Landed, NotLanded, LandingStep
    <3>5. CASE UNCHANGED queueVars \/ ReadyTimePasses
      BY <3>5 DEF ReadyTimePasses, ReadyAges, queueVars, LandingStep
    <3> QED BY <1>1, <3>1, <3>2, <3>3, <3>4, <3>5 DEF GameStep
  <2> QED BY <2>1, <2>2, LandingKept, GameKeepsBooks DEF QueueInv
<1>2. CASE SeeActors
  <2>1. standing' = landed /\ UNCHANGED <<landed, born, books, told, unread>>
    BY <1>2 DEF SeeActors
  <2> QED BY <2>1, LandingKept, GameKeepsBooks DEF QueueInv, LandingStep
<1>3. CASE SeeQueue
  <2>1. UNCHANGED <<landed, born, standing, books, told>>
    BY <1>3 DEF SeeQueue
  <2>2. unread' = [j \in Job |-> unread'[j]] /\ \A j \in Job : unread'[j] \in 0 .. Count[j]
    BY <1>3, QueueTypes DEF SeeQueue, QueueInv, BooksInOrder
  <2> QED BY <2>1, <2>2 DEF QueueInv, Landing, BooksInOrder, Booked
<1>4. ASSUME NEW j \in Job, Start(j) PROVE QueueInv'
  <2> DEFINE s == [books[j] EXCEPT !.status = "running", !.known = standing[TypeOf[j]]]
  <2>1. Booked(j, s) /\ Heard(s, told[j])
    <3>1. /\ books[j] \in JobRecord /\ Booked(j, books[j]) /\ Heard(books[j], told[j])
          /\ standing[TypeOf[j]] \in SUBSET Nat
      BY QueueTypes DEF QueueInv, Landing, BooksInOrder
    <3>2. /\ s \in JobRecord /\ s.status = "running"
          /\ \A f \in {"reason", "issued", "produced", "counted"} : s[f] = books[j][f]
      BY <3>1 DEF JobRecord
    <3> HIDE DEF s
    <3> QED BY <3>1, <3>2 DEF Booked, Heard
  <2>2. books' = [books EXCEPT ![j] = s] /\ UNCHANGED <<landed, born, standing, unread, told>>
    BY <1>4 DEF Start, QueueInv, BooksInOrder
  <2>3. told' = [told EXCEPT ![j] = told[j]] /\ told[j] \in Reasons \cup {"none"}
    BY <2>2 DEF QueueInv, BooksInOrder
  <2> HIDE DEF s
  <2>4. Keeps(j)
    BY <2>1, <2>2, <2>3 DEF Keeps
  <2> QED BY <2>2, <2>4, JobStepKeeps DEF QueueInv, Landing
<1>5. ASSUME NEW j \in Job, Abort(j) PROVE QueueInv'
  <2>1. PICK S : books' = [Robbed(S) EXCEPT ![j] = Dropped("aborted")]
    <3>1. CASE books' = [books EXCEPT ![j] = Dropped("aborted")]
      <4>1. Robbed({}) = books
        <5>1. \A i \in Job : books[i].robbed \in BOOLEAN /\ [books[i] EXCEPT !.robbed = @ \/ i \in {}] = books[i]
          BY DEF QueueInv, BooksInOrder, JobRecord
        <5> QED BY <5>1 DEF Robbed, QueueInv, BooksInOrder
      <4> QED BY <3>1, <4>1
    <3> QED BY <1>5, <3>1 DEF Abort
  <2>2. /\ UNCHANGED <<landed, born, standing>> /\ unread' = [unread EXCEPT ![j] = 0]
        /\ told' = [told EXCEPT ![j] = "none"]
    BY <1>5 DEF Abort
  <2>3. \A i \in Job \ {j} :
          /\ books'[i] \in JobRecord
          /\ \A f \in {"status", "reason", "issued", "produced", "counted"} :
               books'[i][f] = books[i][f]
    <3>1. \A i \in Job \ {j} : books'[i] = Robbed(S)[i]
      BY <2>1 DEF Robbed
    <3> QED BY <3>1, RobbedTypes
  <2>4. books'[j] = Dropped("aborted")
    BY <2>1 DEF Robbed
  <2>5. books' \in [Job -> JobRecord]
    BY <2>1, <2>3, <2>4, DroppedBooked DEF Robbed, Concluded
  <2>6. \A i \in Job : Booked(i, books'[i]) /\ Heard(books'[i], told'[i])
    <3>1. \A i \in Job \ {j} : Booked(i, books'[i]) /\ Heard(books'[i], told'[i])
      BY <2>2, <2>3 DEF QueueInv, BooksInOrder, Booked, Heard
    <3>2. told'[j] = "none"
      BY <2>2 DEF QueueInv, BooksInOrder
    <3> QED BY <2>4, <3>1, <3>2, DroppedBooked DEF Concluded
  <2>7. \A i \in Job : Count[i] \in Nat
    BY QueueTypes
  <2> QED BY <2>2, <2>5, <2>6, <2>7 DEF QueueInv, Landing, BooksInOrder, Booked
<1>6. ASSUME NEW j \in Job, ProductionTick(j) PROVE QueueInv'
  <2>1. standing' = standing /\ unread' = [unread EXCEPT ![j] = 0]
    BY <1>6 DEF ProductionTick
  <2>2. Landing'
    <3>1. LandingStep
      BY <1>6 DEF ProductionTick, TickPlain, TickPlaces, TickCannotPlace,
                  Landed, NotLanded, LandingStep
    <3> QED BY <2>1, <3>1, LandingKept DEF QueueInv
  <2>3. Keeps(j)
    <3>1. CASE TickPlain(j)
      BY <3>1, ReadBooked, DecideKeeps DEF TickPlain
    <3>2. CASE TickPlaces(j)
      BY <3>2, ReadBooked, DecideKeeps DEF TickPlaces
    <3>3. CASE TickCannotPlace(j)
      BY <3>3, ReadBooked, WaitsKeeps
      DEF TickCannotPlace, Waits, Waiting, Reasons
    <3> QED BY <1>6, <3>1, <3>2, <3>3 DEF ProductionTick
  <2> QED BY <2>1, <2>2, <2>3, JobStepKeeps
<1> QED BY <1>1, <1>2, <1>3, <1>4, <1>5, <1>6 DEF QueueNext, LoopWorks

LEMMA QueueBegins ==
  ASSUME QueueInit
  PROVE  QueueInv
BY QueueTypes, FS_EmptySet
DEF QueueInit, NoBuildings, NewJob, QueueInv, Landing, BooksInOrder, Booked, JobRecord, Heard

\* A production job that waits has told its agent the reason it waits for,
\* since it last went on for want of any: however often the reason changed and
\* events made it run in between.
THEOREM WaitingJobsSayWhy == QueueSpec => []WaitIsTold
<1>1. QueueInit => QueueInv
  BY QueueBegins
<1>2. QueueInv /\ [QueueNext]_queueVars => QueueInv'
  BY QueueStep
<1>3. QueueInv => WaitIsTold
  BY DEF QueueInv, Heard, WaitIsTold
<1> QED BY <1>1, <1>2, <1>3, PTL DEF QueueSpec

=============================================================================
