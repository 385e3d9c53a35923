------------------------ MODULE KernelResourcesProofs ------------------------
(* Type correctness of the kernel's resource tables, with ticks and world  *)
(* refreshes interleaved with the kernel's calls in any way; and, when      *)
(* signals are routed on the event loop, the agreement of the two tables,  *)
(* the groups, the silence of ended tasks, what a pass leaves behind, and  *)
(* that the kernel implements UnitHolding.                                 *)
EXTENDS KernelResources, FiniteSetTheorems, TLAPS

\* What a need still misses is an integer: the units are finitely many.
LEMMA MissingInt ==
  ASSUME NEW j \in Job, NEW n \in UNION Config
  PROVE  Missing(j, n) \in Int
<1>1. Serving(j, n) \subseteq Actor
  BY ConstantsOK DEF Serving, Need
<1>2. Cardinality(Serving(j, n)) \in Nat
  BY <1>1, ConstantsOK, FS_Subset, FS_CardinalityType
<1>3. n.count \in Nat
  BY ConstantsOK DEF Need
<1> QED BY <1>2, <1>3 DEF Missing

LEMMA TypeInit == Init => TypeOK
<1> SUFFICES ASSUME Init PROVE TypeOK
  OBVIOUS
<1>1. /\ status \in [Task -> TaskStatus] /\ jobStatus \in [Job -> JobStatus]
      /\ priority \in [Task -> Priority \cup {0}] /\ direct \in [Task -> BOOLEAN]
      /\ jobTask \in [Job -> Task \cup {None}] /\ paused \in [Job -> BOOLEAN]
  BY DEF Init, TaskStatus, JobStatus
<1>2. /\ needs \in [Job -> Config \cup {{}}] /\ resources \in [Job -> SUBSET Actor]
      /\ bindings \in [Actor -> Job \cup {None}] /\ groups \in [Task -> SUBSET Actor]
      /\ world \in [Actor -> {"unborn", "idle", "busy", "dead"}]
  BY DEF Init, NoBindings
<1> QED
  BY <1>1, <1>2 DEF Init, TypeOK, NoBindings

\* The steps of a rebalance keep to the types.
LEMMA TypeRebalance == TypeOK /\ Rebalance => TypeOK'
<1> SUFFICES ASSUME TypeOK, Rebalance PROVE TypeOK'
  OBVIOUS
<1> USE ConstantsOK DEF TypeOK, taskVars, jobVars, holdVars, worldVars, callVars, inCall, tickVars
<1>1. CASE Collect
  <2>1. ASSUME NEW x \in requests' PROVE x \in Request
    <3>1. PICK w \in Job \X UNION Config :
            x = [job |-> w[1], need |-> w[2], missing |-> Missing(w[1], w[2])]
      BY <1>1 DEF Collect
    <3>2. w[1] \in Job /\ w[2] \in UNION Config
      OBVIOUS
    <3> QED BY <3>1, <3>2, MissingInt DEF Request
  <2> QED BY <1>1, <2>1 DEF Collect
<1>2. ASSUME NEW r \in requests, NEW a \in Actor, ClaimUnbound(r, a) PROVE TypeOK'
  <2>1. r.job \in Job
    BY DEF Request
  <2>2. groups' \in [Task -> SUBSET Actor]
    BY <1>2 DEF ClaimUnbound, Regrouped
  <2>3. resources' \in [Job -> SUBSET Actor] /\ bindings' \in [Actor -> Job \cup {None}]
    BY <1>2, <2>1 DEF ClaimUnbound
  <2>4. jobStatus' \in [Job -> JobStatus]
    BY <1>2, <2>1 DEF ClaimUnbound, Woken, JobStatus
  <2>5. requests' \subseteq Request
    BY <1>2 DEF ClaimUnbound, OneLess, Request
  <2> QED BY <1>2, <2>2, <2>3, <2>4, <2>5 DEF ClaimUnbound
<1>3. ASSUME NEW r \in requests, NEW a \in Actor, ClaimByDegrading(r, a) PROVE TypeOK'
  <2>1. r.job \in Job
    BY DEF Request
  <2>2. groups' \in [Task -> SUBSET Actor]
    BY <1>3 DEF ClaimByDegrading, Regrouped
  <2>5. resources' \in [Job -> SUBSET Actor] /\ bindings' \in [Actor -> Job \cup {None}]
    BY <1>3, <2>1 DEF ClaimByDegrading
  <2>3. jobStatus' \in [Job -> JobStatus]
    BY <1>3, <2>1 DEF ClaimByDegrading, Woken, JobStatus
  <2>4. requests' \subseteq Request
    BY <1>3 DEF ClaimByDegrading, OneLess, Request
  <2> QED BY <1>3, <2>2, <2>3, <2>4, <2>5 DEF ClaimByDegrading
<1>4. ASSUME NEW r \in requests, NEW a \in Actor, ClaimByAborting(r, a) PROVE TypeOK'
  <2>0. r.job \in Job
    BY DEF Request
  <2>1. /\ resources' \in [Job -> SUBSET Actor] /\ bindings' \in [Actor -> Job \cup {None}]
        /\ notified' \subseteq Job
    BY <1>4, <2>0 DEF ClaimByAborting
  <2>5. groups' \in [Task -> SUBSET Actor]
    BY <1>4 DEF ClaimByAborting, Regrouped
  <2>2. /\ status' \in [Task -> TaskStatus] /\ jobStatus' \in [Job -> JobStatus]
    BY <1>4 DEF ClaimByAborting, Woken, JobStatus, JobEnded, TaskStatus, TaskEnded
  <2>3. requests' \subseteq Request
    BY <1>4 DEF ClaimByAborting, OneLess, Request
  <2> QED BY <1>4, <2>1, <2>2, <2>3, <2>5 DEF ClaimByAborting
<1>5. ASSUME NEW r \in requests, FinishRequest(r) PROVE TypeOK'
  <2>1. jobStatus' \in [Job -> JobStatus] /\ notified' \subseteq Job
    BY <1>5 DEF FinishRequest, Request, JobStatus
  <2> QED BY <1>5, <2>1 DEF FinishRequest
<1>6. CASE ReadBindings
  BY <1>6 DEF ReadBindings
<1>7. CASE WriteBindings
  BY <1>7 DEF WriteBindings, NoBindings, Pruned
<1> QED BY <1>1, <1>2, <1>3, <1>4, <1>5, <1>6, <1>7 DEF Rebalance

\* So do the calls on tasks and jobs, and what closing a task still does.
LEMMA TypeCalls == TypeOK /\ (KernelCall \/ (\E j \in Job : AbortNext(j)) \/ EndClosing) => TypeOK'
<1> SUFFICES ASSUME TypeOK, KernelCall \/ (\E j \in Job : AbortNext(j)) \/ EndClosing PROVE TypeOK'
  OBVIOUS
<1> USE ConstantsOK DEF TypeOK, taskVars, jobVars, holdVars, worldVars, callVars, inCall, tickVars
<1>1. ASSUME NEW t \in Task, NEW p \in Priority, CreateTask(t, p) PROVE TypeOK'
  BY <1>1 DEF CreateTask, TaskStatus
<1>2. ASSUME NEW t \in Task, NEW p \in Priority, NEW j \in Job, NEW ns \in Config,
             StartDirect(t, p, j, ns) PROVE TypeOK'
  BY <1>2 DEF StartDirect, NewJob, TaskStatus, JobStatus
<1>3. ASSUME NEW t \in Task, NEW j \in Job, NEW ns \in Config, StartJob(t, j, ns) PROVE TypeOK'
  BY <1>3 DEF StartJob, NewJob, TaskStatus, JobStatus
<1>4. ASSUME NEW t \in Task, CancelTask(t) PROVE TypeOK'
  BY <1>4 DEF CancelTask, TaskStatus, TaskEnded
<1>5. ASSUME NEW t \in Task, NEW result \in Outcome, CompleteTask(t, result) PROVE TypeOK'
  BY <1>5 DEF CompleteTask, TaskStatus, TaskEnded
<1>7. ASSUME NEW j \in Job, NEW ns \in Config, PatchJob(j, ns) PROVE TypeOK'
  BY <1>7 DEF PatchJob
<1>8. ASSUME NEW j \in Job, PauseJob(j) \/ ResumeJob(j) PROVE TypeOK'
  <2>1. jobStatus' \in [Job -> JobStatus]
    BY <1>8 DEF PauseJob, ResumeJob, JobStatus
  <2> QED BY <1>8, <2>1 DEF PauseJob, ResumeJob
<1>9. ASSUME NEW j \in Job, AbortJob(j) PROVE TypeOK'
  <2>1. /\ status' \in [Task -> TaskStatus] /\ jobStatus' \in [Job -> JobStatus]
    BY <1>9 DEF AbortJob, TaskStatus, TaskEnded, JobStatus, JobEnded
  <2>2. /\ resources' \in [Job -> SUBSET Actor] /\ bindings' \in [Actor -> Job \cup {None}]
    BY <1>9 DEF AbortJob, Release
  <2>3. groups' \in [Task -> SUBSET Actor] /\ notified' \subseteq Job
    BY <1>9 DEF AbortJob
  <2> QED BY <1>9, <2>1, <2>2, <2>3 DEF AbortJob
<1>10. ASSUME NEW a \in Actor, RouteUnitDied(a) PROVE TypeOK'
  <2>1. jobStatus' \in [Job -> JobStatus]
    BY <1>10 DEF RouteUnitDied, JobStatus
  <2>2. /\ resources' \in [Job -> SUBSET Actor] /\ bindings' \in [Actor -> Job \cup {None}]
    BY <1>10 DEF RouteUnitDied
  <2> QED BY <1>10, <2>1, <2>2 DEF RouteUnitDied
<1>11. CASE RouteUnitIdle
  BY <1>11 DEF RouteUnitIdle
<1>12. CASE GameReset
  BY <1>12 DEF GameReset, Cleared, NoBindings, TaskStatus, JobStatus
<1>13. ASSUME NEW j \in Job, AbortNext(j) PROVE TypeOK'
  <2>1. /\ jobStatus' \in [Job -> JobStatus]
        /\ resources' \in [Job -> SUBSET Actor] /\ bindings' \in [Actor -> Job \cup {None}]
    BY <1>13 DEF AbortNext, Release, JobStatus, JobEnded
  <2> QED BY <1>13, <2>1 DEF AbortNext
<1>14. CASE EndClosing
  <2>1. /\ resources' \in [Job -> SUBSET Actor] /\ bindings' \in [Actor -> Job \cup {None}]
    BY <1>14 DEF EndClosing, Release
  <2> QED BY <1>14, <2>1 DEF EndClosing
<1> QED
  BY <1>1, <1>2, <1>3, <1>4, <1>5, <1>7, <1>8, <1>9, <1>10, <1>11, <1>12, <1>13, <1>14
  DEF KernelCall

\* So do ticks and refreshes.
LEMMA TypeBeside == TypeOK /\ (TickStep \/ WorldStep) => TypeOK'
<1> SUFFICES ASSUME TypeOK, TickStep \/ WorldStep PROVE TypeOK'
  OBVIOUS
<1> USE ConstantsOK DEF TypeOK, taskVars, jobVars, holdVars, worldVars, callVars, tickVars
<1>1. ASSUME NEW j \in Job, TickDue(j) PROVE TypeOK'
  BY <1>1 DEF TickDue
<1>2. CASE TickBegin \/ TickEnd
  BY <1>2 DEF TickBegin, TickEnd
<1>3. ASSUME NEW result \in JobOutcome, TickFinish(result) PROVE TypeOK'
  <2>1. /\ jobStatus' \in [Job -> JobStatus] /\ status' \in [Task -> TaskStatus]
    BY <1>3 DEF TickFinish, InTick, JobOutcome, JobStatus, JobEnded, TaskStatus, TaskEnded
  <2>2. /\ resources' \in [Job -> SUBSET Actor] /\ bindings' \in [Actor -> Job \cup {None}]
        /\ tickCopy' \in [Actor -> Job \cup {None}]
    BY <1>3 DEF TickFinish, Release
  <2>3. groups' \in [Task -> SUBSET Actor] /\ notified' \subseteq Job
    BY <1>3 DEF TickFinish
  <2>4. ticking' \in Job \cup {None} /\ phase' \in {"off", "sync"}
        /\ (phase' # "off" => ticking' \in Job)
    BY <1>3 DEF TickFinish, InTick
  <2> QED BY <1>3, <2>1, <2>2, <2>3, <2>4 DEF TickFinish
<1>4. CASE TickStuck
  BY <1>4 DEF TickStuck, InTick, JobStatus, JobEnded
<1>5. CASE TickArrive
  <2>1. ticking \in Job
    BY <1>5 DEF TickArrive, InTick
  <2>2. jobTask[ticking] \in Task \cup {None}
    BY <2>1
  <2> QED BY <1>5, <2>2 DEF TickArrive, TaskStatus, TaskEnded
<1>6. CASE TickSync
  BY <1>6 DEF TickSync, NoBindings, Pruned
<1>7. ASSUME NEW a \in Actor, Appear(a) \/ BecomeBusy(a) \/ BecomeIdle(a) \/ Vanish(a) PROVE TypeOK'
  BY <1>7 DEF Appear, BecomeBusy, BecomeIdle, Vanish
<1> QED
  BY <1>1, <1>2, <1>3, <1>4, <1>5, <1>6, <1>7 DEF TickStep, WorldStep

LEMMA TypeStep == TypeOK /\ [Next]_vars => TypeOK'
<1> SUFFICES ASSUME TypeOK, [Next]_vars PROVE TypeOK'
  OBVIOUS
<1>1. CASE UNCHANGED vars
  BY <1>1 DEF vars, TypeOK, taskVars, jobVars, holdVars, worldVars, callVars, tickVars, Request
<1>2. CASE Next
  BY <1>2, TypeRebalance, TypeCalls, TypeBeside DEF Next, KernelStep
<1> QED BY <1>1, <1>2

\* In every behaviour of the program each variable keeps to its type.
THEOREM TypeCorrect == Spec => []TypeOK
BY TypeInit, TypeStep, PTL DEF Spec

-----------------------------------------------------------------------------
(* Agreement of the bindings with what the controllers hold.               *)

\* A job that was started has a task, and only such a job ticks.
JobsHaveTasks ==
  /\ \A j \in Job : jobStatus[j] # "none" => jobTask[j] \in Task
  /\ phase # "off" => jobStatus[ticking] # "none"

\* The invariant: what a sync has read is still what it will overwrite.
AgreeInv ==
  /\ TypeOK
  /\ JobsHaveTasks
  /\ BindingsAgree
  /\ pass = "write" => copy = bindings
  /\ phase = "sync" => tickCopy = bindings

\* No step starts a job without a task: a claim aborts only a known job.
LEMMA TasksKept == TypeOK /\ JobsHaveTasks /\ [LoopNext]_vars => JobsHaveTasks'
<1> SUFFICES ASSUME TypeOK, JobsHaveTasks, [LoopNext]_vars PROVE JobsHaveTasks'
  OBVIOUS
<1> USE ConstantsOK DEF JobsHaveTasks, taskVars, jobVars, holdVars, worldVars, callVars, inCall, tickVars
<1>1. CASE UNCHANGED vars
  BY <1>1 DEF vars
<1>2. CASE Rebalance
  <2> USE DEF TypeOK, Request, Woken
  <2>1. CASE Collect \/ ReadBindings \/ WriteBindings
    BY <2>1 DEF Collect, ReadBindings, WriteBindings
  <2>2. ASSUME NEW r \in requests, NEW a \in Actor, ClaimUnbound(r, a) PROVE JobsHaveTasks'
    BY <2>2 DEF ClaimUnbound
  <2>3. ASSUME NEW r \in requests, NEW a \in Actor, ClaimByDegrading(r, a) PROVE JobsHaveTasks'
    BY <2>3 DEF ClaimByDegrading
  <2>4. ASSUME NEW r \in requests, NEW a \in Actor, ClaimByAborting(r, a) PROVE JobsHaveTasks'
    <3>1. bindings[a] \in Job /\ jobStatus[bindings[a]] # "none"
      BY <2>4 DEF ClaimByAborting, Victim, Preemptable
    <3> QED BY <2>4, <3>1 DEF ClaimByAborting
  <2>5. ASSUME NEW r \in requests, FinishRequest(r) PROVE JobsHaveTasks'
    BY <2>5 DEF FinishRequest, Live
  <2> QED BY <1>2, <2>1, <2>2, <2>3, <2>4, <2>5 DEF Rebalance
<1>3. CASE KernelCall
  <2> USE DEF TypeOK
  <2>1. ASSUME NEW t \in Task, NEW p \in Priority, CreateTask(t, p) PROVE JobsHaveTasks'
    BY <2>1 DEF CreateTask
  <2>2. ASSUME NEW t \in Task, NEW j \in Job, NEW ns \in Config, NewJob(j, t, ns) PROVE JobsHaveTasks'
    BY <2>2 DEF NewJob
  <2>3. ASSUME NEW t \in Task, CancelTask(t) \/ (\E result \in Outcome : CompleteTask(t, result))
        PROVE JobsHaveTasks'
    BY <2>3 DEF CancelTask, CompleteTask
  <2>4. CASE RouteUnitIdle
    BY <2>4 DEF RouteUnitIdle
  <2>5. ASSUME NEW j \in Job, PauseJob(j) \/ ResumeJob(j) \/ AbortJob(j) PROVE JobsHaveTasks'
    BY <2>5 DEF PauseJob, ResumeJob, AbortJob, Live
  <2>6. ASSUME NEW j \in Job, NEW ns \in Config, PatchJob(j, ns) PROVE JobsHaveTasks'
    BY <2>6 DEF PatchJob
  <2>7. ASSUME NEW a \in Actor, RouteUnitDied(a) PROVE JobsHaveTasks'
    BY <2>7 DEF RouteUnitDied, Live
  <2>8. CASE GameReset
    BY <2>8 DEF GameReset, Cleared
  <2> QED BY <1>3, <2>1, <2>2, <2>3, <2>4, <2>5, <2>6, <2>7, <2>8 DEF KernelCall, StartDirect, StartJob
<1>4. ASSUME NEW j \in Job, AbortNext(j) PROVE JobsHaveTasks'
  BY <1>4 DEF AbortNext, JobsOf, TypeOK
<1>5. CASE EndClosing
  BY <1>5 DEF EndClosing
<1>6. CASE TickStep
  BY <1>6 DEF TickStep, TickDue, Live, TickBegin, TickEnd, JobOutcome, TickFinish, TickStuck, TickArrive, TickSync,
              InTick, TypeOK
<1>7. CASE WorldStep
  BY <1>7 DEF WorldStep, Appear, BecomeBusy, BecomeIdle, Vanish
<1> QED BY <1>1, <1>2, <1>3, <1>4, <1>5, <1>6, <1>7 DEF LoopNext, KernelStep

\* Releasing whole jobs keeps the tables in agreement.
LEMMA ReleaseAgrees ==
  ASSUME TypeOK, BindingsAgree, NEW js \in SUBSET Job, Release(js)
  PROVE  BindingsAgree'
BY ConstantsOK DEF TypeOK, BindingsAgree, Release, None

\* A claim moves a unit from nobody, from a holder of more, or from a holder
\* that is released with it.
LEMMA ClaimAgrees ==
  ASSUME TypeOK, JobsHaveTasks, BindingsAgree, NEW r \in requests, NEW a \in Actor,
         ClaimUnbound(r, a) \/ ClaimByDegrading(r, a) \/ ClaimByAborting(r, a)
  PROVE  BindingsAgree'
<1> DEFINE h == bindings[a]
<1>0. r.job \in Job /\ None \notin Job
  BY ConstantsOK DEF TypeOK, Request
<1>1. CASE ClaimUnbound(r, a)
  BY <1>0, <1>1 DEF ClaimUnbound, Unbound, TypeOK, BindingsAgree
<1>2. ASSUME Victim(r, a) PROVE h \in Job /\ h # r.job /\ Rank(h) < Rank(r.job)
  BY <1>0, <1>2 DEF Victim, Preemptable, TypeOK
<1>3. CASE ClaimByDegrading(r, a)
  <2>1. h \in Job /\ h # r.job
    BY <1>2, <1>3 DEF ClaimByDegrading
  <2> QED BY <1>0, <1>3, <2>1 DEF ClaimByDegrading, TypeOK, BindingsAgree
<1>4. CASE ClaimByAborting(r, a)
  <2>1. h \in Job /\ h # r.job /\ Rank(h) < Rank(r.job)
    BY <1>2, <1>4 DEF ClaimByAborting
  <2>2. Rank(h) \in Int
    <3>1. jobTask[h] \in Task
      BY <2>1, <1>4 DEF ClaimByAborting, Victim, Preemptable, JobsHaveTasks
    <3>2. priority[jobTask[h]] \in Priority \cup {0}
      BY <3>1 DEF TypeOK
    <3>3. Priority \cup {0} \subseteq Int
      BY ConstantsOK
    <3> HIDE DEF h
    <3> QED BY <3>2, <3>3 DEF Rank
  <2>3. r.job \notin AbortSet(h)
    BY <2>1, <2>2 DEF AbortSet, JobsOf, Rank
  <2>4. h \in AbortSet(h) /\ AbortSet(h) \subseteq Job
    BY <2>1 DEF AbortSet, JobsOf
  <2> QED BY <1>0, <1>4, <2>1, <2>3, <2>4 DEF ClaimByAborting, TypeOK, BindingsAgree
<1> QED BY <1>1, <1>3, <1>4

LEMMA AgreeInit == Init => AgreeInv
<1> SUFFICES ASSUME Init PROVE AgreeInv
  OBVIOUS
<1>1. JobsHaveTasks
  BY DEF Init, JobsHaveTasks
<1>2. BindingsAgree
  BY ConstantsOK DEF Init, BindingsAgree, NoBindings, None
<1> QED BY <1>1, <1>2, TypeInit DEF AgreeInv, Init

\* Whatever the event loop does next, the tables still agree: a sync never
\* finds the bindings changed since it has read them, because ticks wait for
\* the call under way and calls for the tick that is in its sync.
LEMMA AgreeStep == AgreeInv /\ [LoopNext]_vars => AgreeInv'
<1> SUFFICES ASSUME AgreeInv, [LoopNext]_vars PROVE AgreeInv'
  OBVIOUS
<1> USE DEF taskVars, jobVars, holdVars, worldVars, callVars, inCall, tickVars
<1>1. TypeOK' /\ JobsHaveTasks'
  BY TypeStep, TasksKept DEF AgreeInv, LoopNext, Next
<1> DEFINE Copied == (pass = "write" => copy = bindings) /\ (phase = "sync" => tickCopy = bindings)
<1>2. TypeOK /\ JobsHaveTasks /\ BindingsAgree /\ Copied
  BY DEF AgreeInv
<1> SUFFICES BindingsAgree' /\ Copied'
  BY <1>1 DEF AgreeInv
<1>3. ASSUME UNCHANGED <<resources, bindings>> PROVE BindingsAgree'
  BY <1>2, <1>3 DEF BindingsAgree
<1>4. CASE UNCHANGED vars
  BY <1>2, <1>3, <1>4 DEF vars
<1>5. CASE KernelStep /\ phase # "sync"
  <2>1. CASE Collect \/ (\E r \in requests : FinishRequest(r)) \/ ReadBindings
    BY <1>2, <1>3, <1>5, <2>1 DEF Collect, FinishRequest, ReadBindings
  <2>2. ASSUME NEW r \in requests, NEW a \in Actor,
               ClaimUnbound(r, a) \/ ClaimByDegrading(r, a) \/ ClaimByAborting(r, a)
        PROVE  BindingsAgree' /\ Copied'
    <3>1. pass = "claim" /\ UNCHANGED <<pass, phase>>
      BY <2>2 DEF ClaimUnbound, ClaimByDegrading, ClaimByAborting
    <3> QED BY <1>2, <1>5, <2>2, <3>1, ClaimAgrees
  <2>3. CASE WriteBindings
    <3>1. UNCHANGED <<resources, bindings, phase>> /\ pass' = "idle"
      BY <1>2, <2>3 DEF WriteBindings
    <3> QED BY <1>3, <1>5, <3>1
  <2>4. ASSUME NEW j \in Job, AbortNext(j) PROVE BindingsAgree' /\ Copied'
    BY <1>2, <1>5, <2>4, ReleaseAgrees DEF AbortNext
  <2>5. CASE EndClosing
    <3>1. JobsOf(closing) \subseteq Job
      BY DEF JobsOf
    <3> QED BY <1>2, <1>5, <2>5, <3>1, ReleaseAgrees DEF EndClosing
  <2> QED BY <1>5, <2>1, <2>2, <2>3, <2>4, <2>5 DEF KernelStep, Rebalance
<1>6. CASE KernelCall /\ phase # "sync"
  <2>1. ASSUME NEW t \in Task, NEW p \in Priority, CreateTask(t, p) PROVE BindingsAgree' /\ Copied'
    BY <1>3, <1>6, <2>1 DEF CreateTask
  <2>2. ASSUME NEW t \in Task, NEW j \in Job, NEW ns \in Config, NewJob(j, t, ns)
        PROVE  BindingsAgree' /\ Copied'
    BY <1>3, <1>6, <2>2 DEF NewJob
  <2>3. ASSUME NEW t \in Task, CancelTask(t) \/ (\E result \in Outcome : CompleteTask(t, result))
        PROVE  BindingsAgree' /\ Copied'
    BY <1>2, <1>3, <1>6, <2>3 DEF CancelTask, CompleteTask
  <2>4. CASE RouteUnitIdle
    BY <1>2, <1>3, <1>6, <2>4 DEF RouteUnitIdle
  <2>5. ASSUME NEW j \in Job, PauseJob(j) \/ ResumeJob(j) \/ (\E ns \in Config : PatchJob(j, ns))
        PROVE  BindingsAgree' /\ Copied'
    BY <1>3, <1>6, <2>5 DEF PauseJob, ResumeJob, PatchJob
  <2>6. ASSUME NEW j \in Job, AbortJob(j) PROVE BindingsAgree' /\ Copied'
    <3>1. AbortSet(j) \subseteq Job
      BY DEF AbortSet, JobsOf
    <3> QED BY <1>2, <1>6, <2>6, <3>1, ReleaseAgrees DEF AbortJob
  <2>7. ASSUME NEW a \in Actor, RouteUnitDied(a) PROVE BindingsAgree' /\ Copied'
    <3>1. Copied'
      BY <1>6, <2>7 DEF RouteUnitDied
    <3>2. BindingsAgree'
      <4> DEFINE holders == {j \in Job : Live(j) /\ a \in resources[j]}
      <4>1. /\ resources' = [j \in Job |-> IF j \in holders THEN resources[j] \ {a} ELSE resources[j]]
            /\ bindings' = IF holders = {} THEN bindings ELSE [bindings EXCEPT ![a] = None]
        BY <2>7 DEF RouteUnitDied
      <4>2. CASE holders = {}
        BY <1>2, <4>1, <4>2 DEF BindingsAgree, TypeOK
      <4>3. CASE holders # {}
        <5>1. PICK i \in Job : a \in resources[i] /\ i \in holders
          BY <4>3
        <5>2. holders = {i}
          BY <1>2, <5>1 DEF BindingsAgree
        <5>3. \A j \in Job \ {i} : a \notin resources[j]
          BY <1>2, <5>1 DEF BindingsAgree
        <5> HIDE DEF holders
        <5> QED BY <1>2, <4>1, <4>3, <5>2, <5>3, ConstantsOK DEF BindingsAgree, TypeOK, None
      <4> QED BY <4>2, <4>3
    <3> QED BY <3>1, <3>2
  <2>8. CASE GameReset
    <3>1. BindingsAgree'
      BY <2>8, ConstantsOK DEF GameReset, BindingsAgree, NoBindings, None
    <3> QED BY <1>6, <2>8, <3>1 DEF GameReset, Idle
  <2> QED
    BY <1>6, <2>1, <2>2, <2>3, <2>4, <2>5, <2>6, <2>7, <2>8 DEF KernelCall, StartDirect, StartJob
<1>7. CASE TickStep /\ Idle
  <2>1. CASE (\E j \in Job : TickDue(j)) \/ TickBegin \/ TickEnd \/ TickStuck \/ TickArrive
    BY <1>2, <1>3, <1>7, <2>1 DEF TickDue, TickBegin, TickEnd, TickStuck, TickArrive, InTick
  <2>2. ASSUME NEW result \in JobOutcome, TickFinish(result) PROVE BindingsAgree' /\ Copied'
    <3>1. Copied'
      BY <1>7, <2>2 DEF TickFinish, Idle
    <3>2. JobsOf(jobTask[ticking]) \in SUBSET Job
      BY DEF JobsOf
    <3>3. Release(JobsOf(jobTask[ticking])) \/ UNCHANGED <<resources, bindings>>
      BY <2>2 DEF TickFinish
    <3> QED BY <1>2, <1>3, <3>1, <3>2, <3>3, ReleaseAgrees
  <2>3. CASE TickSync
    <3>1. UNCHANGED <<resources, bindings, pass>> /\ phase' = "off"
      BY <1>2, <2>3 DEF TickSync
    <3> QED BY <1>3, <1>7, <3>1 DEF Idle
  <2> QED BY <1>7, <2>1, <2>2, <2>3 DEF TickStep
<1>8. CASE WorldStep
  BY <1>2, <1>3, <1>8 DEF WorldStep, Appear, BecomeBusy, BecomeIdle, Vanish
<1> QED BY <1>4, <1>5, <1>6, <1>7, <1>8 DEF LoopNext

\* With the signals of ticks routed on the event loop, the bindings of the
\* world model and the resources of the controllers agree, for any number of
\* tasks, jobs and units: no unit is ever ordered about by two jobs.
THEOREM Agreement == LoopSpec => []BindingsAgree
<1>1. AgreeInv => BindingsAgree
  BY DEF AgreeInv
<1> QED BY <1>1, AgreeInit, AgreeStep, PTL DEF LoopSpec

-----------------------------------------------------------------------------
(* The groups and the tasks that have ended.                               *)

Known(j) == jobStatus[j] \notin {"none", "cleared"}

\* A unit is bound to a job the kernel knows, and has been on the map.
BoundKnown == \A a \in Actor : bindings[a] # None => Known(bindings[a]) /\ world[a] # "unborn"

\* Only a pass has requests, and only for tasks that were open when it began:
\* in it a task without an agent may end, one with an agent may not.
Asked ==
  /\ pass # "claim" => requests = {}
  /\ \A r \in requests : /\ Known(r.job)
                         /\ Open(jobTask[r.job]) \/ direct[jobTask[r.job]]

HoldInv == AgreeInv /\ BoundKnown /\ Asked /\ GroupsFollowBindings /\ EndedTaskHoldsNothing

\* What a claim does to whom.
Moves(r, a) ==
  /\ UNCHANGED <<priority, direct, jobTask, needs, world, pass, closing>>
  /\ Present(a) /\ bindings'[a] = r.job
  /\ \A b \in Actor \ {a} : bindings'[b] \in {bindings[b], None}
  /\ \A j \in Job : /\ Known(j)' <=> Known(j)
                    /\ Live(j)' => Live(j)
                    /\ j # r.job => resources'[j] \subseteq resources[j]
  /\ \A q \in requests' : \E p \in requests : q.job = p.job
  /\ \/ status' = status /\ groups' = Regrouped(groups, jobTask[r.job], a)
     \/ \E t \in Task : /\ direct[t] /\ status' = [status EXCEPT ![t] = "failed"]
                        /\ groups' = Regrouped([groups EXCEPT ![t] = {}], jobTask[r.job], a)
                        /\ \A b \in Actor \ {a} : bindings[b] \in JobsOf(t) => bindings'[b] = None

LEMMA ClaimMoves ==
  ASSUME AgreeInv, NEW r \in requests, Known(r.job), NEW a \in Actor,
         ClaimUnbound(r, a) \/ ClaimByDegrading(r, a) \/ ClaimByAborting(r, a)
  PROVE  Moves(r, a)
<1> DEFINE h == bindings[a]
<1> USE DEF AgreeInv, TypeOK, inCall, taskVars, worldVars, tickVars
<1>0. r.job \in Job /\ None \notin Job
  BY ConstantsOK DEF Request
<1>1. \A q \in OneLess(r) : \E p \in requests : q.job = p.job
  BY DEF OneLess, Request
<1>2. CASE ClaimUnbound(r, a)
  <2>1. Present(a)
    BY <1>2 DEF ClaimUnbound, Unbound, Present
  <2>2. jobStatus' = Woken(jobStatus, r.job) /\ resources' = [resources EXCEPT ![r.job] = @ \cup {a}]
    BY <1>2 DEF ClaimUnbound
  <2>3. \A j \in Job : /\ Known(j)' <=> Known(j)
                       /\ Live(j)' => Live(j)
                       /\ j # r.job => resources'[j] \subseteq resources[j]
    BY <1>0, <2>2 DEF Known, Live, Woken
  <2> QED
    BY <1>0, <1>1, <1>2, <2>1, <2>3 DEF ClaimUnbound, Moves
<1>3. ASSUME Victim(r, a) PROVE h \in Job /\ Present(a) /\ Known(h) /\ h # r.job
  BY <1>0, <1>3 DEF Victim, Preemptable, Known
<1>4. CASE ClaimByDegrading(r, a)
  <2>1. h \in Job /\ Present(a)
    BY <1>3, <1>4 DEF ClaimByDegrading
  <2>2. /\ jobStatus' = Woken(jobStatus, r.job)
        /\ resources' = [resources EXCEPT ![h] = @ \ {a}, ![r.job] = @ \cup {a}]
    BY <1>4 DEF ClaimByDegrading
  <2>3. \A j \in Job : /\ Known(j)' <=> Known(j)
                       /\ Live(j)' => Live(j)
                       /\ j # r.job => resources'[j] \subseteq resources[j]
    BY <1>0, <2>1, <2>2 DEF Known, Live, Woken
  <2> QED
    BY <1>0, <1>1, <1>4, <2>1, <2>3 DEF ClaimByDegrading, Moves
<1>5. CASE ClaimByAborting(r, a)
  <2> DEFINE t == jobTask[h]
  <2>1. h \in Job /\ Present(a) /\ Known(h) /\ t \in Task
    BY <1>3, <1>5 DEF ClaimByAborting, JobsHaveTasks, Known
  <2>2. /\ jobStatus' = Woken([jobStatus EXCEPT ![h] = "aborted"], r.job)
        /\ resources' = [j \in Job |-> IF j = r.job THEN resources[j] \cup {a}
                                       ELSE IF j \in AbortSet(h) THEN {} ELSE resources[j]]
        /\ bindings' = [b \in Actor |-> IF b = a THEN r.job
                                  ELSE IF \E j \in AbortSet(h) : b \in resources[j] THEN None
                                  ELSE bindings[b]]
        /\ groups' = Regrouped(IF EndsDirect(h) THEN [groups EXCEPT ![t] = {}] ELSE groups,
                               jobTask[r.job], a)
        /\ status' = IF EndsDirect(h) THEN [status EXCEPT ![t] = "failed"] ELSE status
        /\ requests' = OneLess(r)
        /\ UNCHANGED <<priority, direct, jobTask, needs, world, pass, closing>>
    BY <1>5 DEF ClaimByAborting
  <2>3. \A j \in Job : /\ Known(j)' <=> Known(j)
                       /\ Live(j)' => Live(j)
                       /\ j # r.job => resources'[j] \subseteq resources[j]
    BY <1>0, <2>1, <2>2 DEF Known, Live, Woken
  <2>4. bindings'[a] = r.job /\ \A b \in Actor \ {a} : bindings'[b] \in {bindings[b], None}
    BY <2>2
  <2>5. CASE ~EndsDirect(h)
    BY <1>1, <2>1, <2>2, <2>3, <2>4, <2>5 DEF Moves
  <2>6. CASE EndsDirect(h)
    <3>1. ASSUME NEW b \in Actor \ {a}, bindings[b] \in JobsOf(t) PROVE bindings'[b] = None
      <4>1. bindings[b] \in AbortSet(h) /\ bindings[b] \in Job
        BY <2>6, <3>1 DEF AbortSet, JobsOf
      <4>2. b \in resources[bindings[b]]
        BY <4>1 DEF BindingsAgree
      <4> QED BY <2>2, <4>1, <4>2
    <3>2. direct[t]
      BY <2>6 DEF EndsDirect
    <3> HIDE DEF t, h
    <3> QED BY <1>1, <2>1, <2>2, <2>3, <2>4, <2>6, <3>1, <3>2 DEF Moves
  <2> QED BY <2>5, <2>6
<1> QED BY <1>2, <1>4, <1>5

\* What is released is unbound, and only that.
LEMMA Unbinds ==
  ASSUME TypeOK, BindingsAgree, NEW js \in SUBSET Job, Release(js)
  PROVE  /\ \A a \in Actor : bindings'[a] = IF bindings[a] \in js THEN None ELSE bindings[a]
         /\ \A j \in Job : resources'[j] = IF j \in js THEN {} ELSE resources[j]
<1>1. \A a \in Actor : (\E j \in js : a \in resources[j]) <=> bindings[a] \in js
  BY DEF BindingsAgree
<1> QED BY <1>1 DEF Release
\* Three frames: what a step may do to the tables without disturbing a part of
\* the invariant.
Unbinding == \A a \in Actor : bindings'[a] \in {bindings[a], None}

LEMMA BoundFrame ==
  ASSUME BoundKnown, Unbinding, \A j \in Job : Known(j) => Known(j)', TypeOK,
         \A a \in Actor : world[a] # "unborn" => world'[a] # "unborn"
  PROVE  BoundKnown'
BY DEF BoundKnown, Unbinding, TypeOK

LEMMA GroupsFrame ==
  ASSUME HoldInv, Unbinding,
         \A a \in Actor : world[a] # "unborn" /\ Present(a)' => Present(a),
         \A j \in Job : Known(j) => jobTask'[j] = jobTask[j],
         \A t \in Task : groups'[t] \subseteq groups[t],
         \A a \in Actor : bindings'[a] # None /\ Present(a)' /\ a \in groups[jobTask[bindings[a]]]
                            => a \in groups'[jobTask[bindings[a]]]
  PROVE  GroupsFollowBindings'
<1>1. \A t, u \in Task : t # u => groups'[t] \cap groups'[u] = {}
  BY DEF HoldInv, GroupsFollowBindings
<1>2. ASSUME NEW a \in Actor, bindings'[a] # None, Present(a)'
      PROVE  a \in groups'[jobTask'[bindings'[a]]]
  <2>1. bindings'[a] = bindings[a] /\ bindings[a] \in Job
    BY <1>2 DEF Unbinding, HoldInv, AgreeInv, TypeOK
  <2>2. Known(bindings[a]) /\ world[a] # "unborn"
    BY <1>2, <2>1 DEF HoldInv, BoundKnown
  <2>3. Present(a) /\ jobTask'[bindings[a]] = jobTask[bindings[a]]
    BY <1>2, <2>1, <2>2
  <2>4. a \in groups[jobTask[bindings[a]]]
    BY <1>2, <2>1, <2>3 DEF HoldInv, GroupsFollowBindings
  <2> QED BY <1>2, <2>1, <2>3, <2>4
<1> QED BY <1>1, <1>2 DEF GroupsFollowBindings

LEMMA EndedFrame ==
  ASSUME EndedTaskHoldsNothing,
         \A t \in Task : status'[t] \in TaskEnded /\ ~direct'[t] /\ closing' # t =>
            /\ status[t] \in TaskEnded /\ ~direct[t] /\ closing # t
            /\ groups'[t] \subseteq groups[t] /\ JobsOf(t)' \subseteq JobsOf(t),
         \A j \in Job : Known(j) => (Live(j)' => Live(j)) /\ resources'[j] \subseteq resources[j]
  PROVE  EndedTaskHoldsNothing'
<1> SUFFICES ASSUME NEW t \in Task, status'[t] \in TaskEnded, ~direct'[t], closing' # t
             PROVE  /\ \A j \in JobsOf(t)' : ~Live(j)' /\ resources'[j] = {}
                    /\ groups'[t] = {}
  BY DEF EndedTaskHoldsNothing
<1>1. \A j \in JobsOf(t) : Known(j) /\ j \in Job
  BY DEF JobsOf, Known
<1> QED BY <1>1 DEF EndedTaskHoldsNothing

\* The four parts of the invariant a step has to keep.
Parts == BoundKnown /\ Asked /\ GroupsFollowBindings /\ EndedTaskHoldsNothing

\* A step that leaves holders, groups, tasks and the map alone, and wakes no job.
LEMMA PlainFrame ==
  ASSUME HoldInv, UNCHANGED <<status, direct, jobTask, resources, bindings, groups, world>>,
         closing' = closing, \A j \in Job : (Known(j) => Known(j)') /\ (Known(j)' => Known(j))
                                             /\ (Live(j)' => Live(j))
  PROVE  BoundKnown' /\ GroupsFollowBindings' /\ EndedTaskHoldsNothing'
<1>1. Unbinding
  BY DEF Unbinding
<1>2. BoundKnown' /\ GroupsFollowBindings'
  BY <1>1, BoundFrame, GroupsFrame DEF HoldInv, AgreeInv, Present
<1>3. \A t \in Task : JobsOf(t)' \subseteq JobsOf(t)
  BY DEF JobsOf, Known
<1> QED BY <1>2, <1>3, EndedFrame DEF HoldInv

\* The pass.
LEMMA ClaimKeeps ==
  ASSUME HoldInv, NEW r \in requests, NEW a \in Actor,
         ClaimUnbound(r, a) \/ ClaimByDegrading(r, a) \/ ClaimByAborting(r, a)
  PROVE  Parts'
<1>0. /\ Known(r.job) /\ r.job \in Job /\ jobTask[r.job] \in Task
      /\ Open(jobTask[r.job]) \/ direct[jobTask[r.job]]
  BY DEF HoldInv, Asked, AgreeInv, TypeOK, Request, JobsHaveTasks, Known
<1>1. Moves(r, a)
  BY <1>0, ClaimMoves DEF HoldInv
<1>2. pass = "claim"
  BY DEF ClaimUnbound, ClaimByDegrading, ClaimByAborting
<1> DEFINE u == jobTask[r.job]
<1>3. BoundKnown'
  BY <1>0, <1>1 DEF HoldInv, BoundKnown, AgreeInv, TypeOK, Moves, Present
<1>4. Asked'
  <2>1. pass' = "claim" /\ jobTask' = jobTask /\ direct' = direct
    BY <1>1, <1>2 DEF Moves
  <2>2. ASSUME NEW q \in requests'
        PROVE  Known(q.job)' /\ (Open(jobTask[q.job])' \/ direct[jobTask[q.job]])
    <3>1. PICK p \in requests : q.job = p.job
      BY <1>1, <2>2 DEF Moves
    <3>2. /\ p.job \in Job /\ Known(p.job) /\ jobTask[p.job] \in Task
          /\ Open(jobTask[p.job]) \/ direct[jobTask[p.job]]
      BY DEF HoldInv, Asked, AgreeInv, TypeOK, Request, JobsHaveTasks, Known
    <3>3. Known(p.job)'
      BY <1>1, <3>2 DEF Moves
    <3>4. \A t \in Task : ~direct[t] => status'[t] = status[t]
      BY <1>1 DEF Moves, HoldInv, AgreeInv, TypeOK
    <3> QED BY <2>1, <3>1, <3>2, <3>3, <3>4 DEF Open
  <2> QED BY <2>1, <2>2 DEF Asked
<1>5. PICK g \in [Task -> SUBSET Actor] :
        /\ groups' = Regrouped(g, u, a) /\ \A t \in Task : g[t] \subseteq groups[t]
        /\ \A b \in Actor \ {a} : bindings'[b] # None => g[jobTask[bindings[b]]] = groups[jobTask[bindings[b]]]
  <2>1. CASE groups' = Regrouped(groups, u, a)
    BY <2>1 DEF HoldInv, AgreeInv, TypeOK
  <2>2. ASSUME NEW t \in Task, groups' = Regrouped([groups EXCEPT ![t] = {}], u, a),
               \A b \in Actor \ {a} : bindings[b] \in JobsOf(t) => bindings'[b] = None
        PROVE  \E g \in [Task -> SUBSET Actor] :
                 /\ groups' = Regrouped(g, u, a) /\ \A s \in Task : g[s] \subseteq groups[s]
                 /\ \A b \in Actor \ {a} : bindings'[b] # None =>
                      g[jobTask[bindings[b]]] = groups[jobTask[bindings[b]]]
    <3> DEFINE g == [groups EXCEPT ![t] = {}]
    <3>1. g \in [Task -> SUBSET Actor] /\ \A s \in Task : g[s] \subseteq groups[s]
      BY DEF HoldInv, AgreeInv, TypeOK
    <3>2. ASSUME NEW b \in Actor \ {a}, bindings'[b] # None
          PROVE  g[jobTask[bindings[b]]] = groups[jobTask[bindings[b]]]
      <4>1. bindings[b] # None /\ bindings[b] \notin JobsOf(t)
        BY <1>1, <2>2, <3>2 DEF Moves
      <4>2. bindings[b] \in Job /\ Known(bindings[b]) /\ jobTask[bindings[b]] \in Task
        BY <4>1 DEF HoldInv, AgreeInv, TypeOK, BoundKnown, Known, JobsHaveTasks
      <4>3. jobTask[bindings[b]] # t
        BY <4>1, <4>2 DEF JobsOf, Known
      <4> QED BY <4>2, <4>3 DEF HoldInv, AgreeInv, TypeOK
    <3> HIDE DEF g
    <3>3. groups' = Regrouped(g, u, a)
      BY <2>2 DEF g
    <3> QED BY <3>1, <3>2, <3>3
  <2> QED BY <1>1, <2>1, <2>2 DEF Moves
<1>6. \A t \in Task : groups'[t] = IF t = u THEN {b \in g[t] \cup {a} : Present(b)} ELSE g[t] \ {a}
  BY <1>0, <1>5 DEF Regrouped
<1>7. GroupsFollowBindings'
  <2>1. \A t, s \in Task : t # s => g[t] \cap g[s] = {}
    BY <1>5 DEF HoldInv, GroupsFollowBindings
  <2>2. \A t, s \in Task : t # s => groups'[t] \cap groups'[s] = {}
    BY <1>6, <2>1
  <2>3. ASSUME NEW b \in Actor, bindings'[b] # None, Present(b)'
        PROVE  b \in groups'[jobTask'[bindings'[b]]]
    <3>1. CASE b = a
      <4>1. bindings'[a] = r.job /\ jobTask' = jobTask /\ Present(a)
        BY <1>1 DEF Moves
      <4>2. a \in groups'[u]
        <5>1. u \in Task
          BY <1>0
        <5> HIDE DEF u
        <5>2. groups'[u] = {c \in g[u] \cup {a} : Present(c)}
          BY <1>6, <5>1
        <5> QED BY <4>1, <5>2
      <4> QED BY <3>1, <4>1, <4>2
    <3>2. CASE b # a
      <4>1. bindings'[b] = bindings[b] /\ Present(b) /\ jobTask' = jobTask
        BY <1>1, <2>3, <3>2 DEF Moves, Present
      <4>2. bindings[b] \in Job /\ jobTask[bindings[b]] \in Task
        BY <2>3, <4>1 DEF HoldInv, AgreeInv, TypeOK, BoundKnown, Known, JobsHaveTasks
      <4>3. b \in g[jobTask[bindings[b]]]
        BY <1>5, <2>3, <3>2, <4>1 DEF HoldInv, GroupsFollowBindings
      <4> QED BY <1>6, <3>2, <4>1, <4>2, <4>3
    <3> QED BY <3>1, <3>2
  <2> QED BY <2>2, <2>3 DEF GroupsFollowBindings
<1>8. EndedTaskHoldsNothing'
  <2> SUFFICES ASSUME NEW t \in Task, status'[t] \in TaskEnded, ~direct'[t], closing' # t
               PROVE  /\ \A j \in JobsOf(t)' : ~Live(j)' /\ resources'[j] = {}
                      /\ groups'[t] = {}
    BY DEF EndedTaskHoldsNothing
  <2>1. status[t] = status'[t] /\ ~direct[t] /\ closing # t /\ jobTask' = jobTask
    BY <1>1 DEF Moves, HoldInv, AgreeInv, TypeOK
  <2>2. t # u
    BY <1>0, <2>1 DEF Open, TaskEnded
  <2>3. \A j \in JobsOf(t)' : j \in JobsOf(t) /\ j \in Job /\ j # r.job
    BY <1>1, <2>1, <2>2 DEF JobsOf, Moves, Known
  <2>4. groups[t] = {} /\ \A j \in JobsOf(t) : ~Live(j) /\ resources[j] = {}
    BY <2>1 DEF HoldInv, EndedTaskHoldsNothing
  <2>5. groups'[t] = {}
    BY <1>5, <1>6, <2>2, <2>4
  <2> QED BY <1>1, <2>3, <2>4, <2>5 DEF Moves
<1> QED BY <1>3, <1>4, <1>7, <1>8 DEF Parts

LEMMA PassKeeps ==
  ASSUME HoldInv, Rebalance
  PROVE  Parts'
<1> USE DEF taskVars, jobVars, holdVars, worldVars, callVars, inCall, tickVars
<1>1. CASE Collect
  <2>1. Asked'
    <3>1. ASSUME NEW q \in requests'
          PROVE  q.job \in Job /\ Live(q.job) /\ Open(jobTask[q.job])
      BY <1>1, <3>1 DEF Collect, Wanted
    <3> QED BY <1>1, <3>1 DEF Asked, Collect, Known, Live, Open
  <2> QED BY <1>1, <2>1, PlainFrame DEF Collect, Parts, Known, Live
<1>2. ASSUME NEW r \in requests, FinishRequest(r) PROVE Parts'
  <2>1. r.job \in Job /\ Known(r.job) /\ jobStatus \in [Job -> JobStatus]
    BY DEF HoldInv, Asked, AgreeInv, TypeOK, Request
  <2>2. \A j \in Job : (Known(j) <=> Known(j)') /\ (Live(j)' => Live(j))
    BY <1>2, <2>1 DEF FinishRequest, Known, Live
  <2>3. Asked'
    BY <1>2, <2>2 DEF FinishRequest, HoldInv, Asked, AgreeInv, TypeOK, Request, Open
  <2> QED BY <1>2, <2>2, <2>3, PlainFrame DEF FinishRequest, Parts
<1>3. CASE ReadBindings
  <2>1. Asked'
    BY <1>3 DEF ReadBindings, HoldInv, Asked
  <2> QED BY <1>3, <2>1, PlainFrame DEF ReadBindings, Parts, Known, Live
<1>4. CASE WriteBindings
  <2>1. /\ bindings' = bindings /\ groups' = Pruned(groups)
        /\ UNCHANGED <<status, direct, jobTask, jobStatus, resources, world, closing, requests>>
        /\ pass = "write" /\ pass' = "idle"
    BY <1>4 DEF WriteBindings, HoldInv, AgreeInv
  <2>2. Asked'
    BY <2>1 DEF HoldInv, Asked
  <2>3. Unbinding /\ BoundKnown'
    BY <2>1 DEF Unbinding, HoldInv, BoundKnown, Known
  <2>4. \A t \in Task : groups'[t] \subseteq groups[t] /\ \A b \in groups[t] : Present(b) => b \in groups'[t]
    BY <2>1 DEF Pruned
  <2>5. \A b \in Actor : bindings[b] # None => jobTask[bindings[b]] \in Task
    BY DEF HoldInv, AgreeInv, TypeOK, BoundKnown, Known, JobsHaveTasks
  <2>6. GroupsFollowBindings'
    BY <2>1, <2>3, <2>4, <2>5, GroupsFrame DEF Present
  <2>7. EndedTaskHoldsNothing'
    BY <2>1, <2>4, EndedFrame DEF HoldInv, JobsOf, Live
  <2> QED BY <2>2, <2>3, <2>6, <2>7 DEF Parts
<1> QED BY <1>1, <1>2, <1>3, <1>4, ClaimKeeps DEF Rebalance
\* Jobs that are released, with the group of a task all of whose jobs are.
Emptied(js) ==
  \/ groups' = groups
  \/ \E t \in Task : groups' = [groups EXCEPT ![t] = {}] /\ JobsOf(t) \subseteq js

LEMMA ReleaseKeeps ==
  ASSUME HoldInv, NEW js \in SUBSET Job, Release(js), Emptied(js),
         UNCHANGED <<jobTask, world>>, \A j \in Job : Known(j) => Known(j)'
  PROVE  /\ BoundKnown' /\ GroupsFollowBindings'
         /\ \A t \in Task : groups'[t] \subseteq groups[t]
         /\ \A j \in Job : resources'[j] = IF j \in js THEN {} ELSE resources[j]
<1>1. /\ \A a \in Actor : bindings'[a] = IF bindings[a] \in js THEN None ELSE bindings[a]
      /\ \A j \in Job : resources'[j] = IF j \in js THEN {} ELSE resources[j]
  BY Unbinds DEF HoldInv, AgreeInv
<1>2. Unbinding
  BY <1>1 DEF Unbinding
<1>3. BoundKnown'
  BY <1>2, BoundFrame DEF HoldInv, AgreeInv
<1>4. \A t \in Task : groups'[t] \subseteq groups[t]
  BY DEF Emptied, HoldInv, AgreeInv, TypeOK
<1>5. ASSUME NEW a \in Actor, bindings'[a] # None, a \in groups[jobTask[bindings[a]]]
      PROVE  a \in groups'[jobTask[bindings[a]]]
  <2>1. bindings[a] \in Job /\ Known(bindings[a]) /\ bindings[a] \notin js
    BY <1>1, <1>5 DEF HoldInv, BoundKnown, AgreeInv, TypeOK
  <2>2. ASSUME NEW t \in Task, JobsOf(t) \subseteq js PROVE jobTask[bindings[a]] # t
    BY <2>1, <2>2 DEF JobsOf, Known
  <2>3. jobTask[bindings[a]] \in Task
    BY <2>1 DEF HoldInv, AgreeInv, JobsHaveTasks, Known
  <2> QED BY <1>5, <2>2, <2>3 DEF Emptied, HoldInv, AgreeInv, TypeOK
<1>6. GroupsFollowBindings'
  BY <1>2, <1>4, <1>5, GroupsFrame DEF Present
<1> QED BY <1>1, <1>3, <1>4, <1>6

\* A call begins when no pass is under way, and asks for nothing yet.
LEMMA NothingAsked ==
  ASSUME HoldInv, pass # "claim", UNCHANGED requests
  PROVE  Asked'
BY DEF HoldInv, Asked

\* The calls on tasks and jobs.
LEMMA NewJobKeeps ==
  ASSUME HoldInv, Idle, NEW t \in Task, NEW j \in Job, NEW ns \in Config, NextJob(j), NewJob(j, t, ns),
         status' = [status EXCEPT ![t] = "running"],
         direct' = direct \/ direct' = [direct EXCEPT ![t] = TRUE],
         NextTask(t) \/ Open(t)
  PROVE  Parts'
<1>1. /\ jobStatus[j] = "none" /\ jobTask' = [jobTask EXCEPT ![j] = t]
      /\ jobStatus' = [jobStatus EXCEPT ![j] = "running"]
      /\ UNCHANGED <<resources, bindings, groups, world, requests, closing>>
  BY DEF NextJob, NewJob, holdVars, worldVars
<1>2. /\ jobStatus \in [Job -> JobStatus] /\ jobTask \in [Job -> Task \cup {None}]
      /\ status \in [Task -> TaskStatus] /\ direct \in [Task -> BOOLEAN]
  BY DEF HoldInv, AgreeInv, TypeOK
<1>3. Unbinding /\ \A i \in Job : Known(i) => i # j /\ Known(i)' /\ jobTask'[i] = jobTask[i]
  BY <1>1, <1>2 DEF Unbinding, Known
<1>4. BoundKnown' /\ GroupsFollowBindings'
  BY <1>1, <1>3, BoundFrame, GroupsFrame DEF HoldInv, AgreeInv, Present
<1>5. ASSUME NEW s \in Task, status'[s] \in TaskEnded, ~direct'[s], closing' # s
      PROVE  /\ status[s] \in TaskEnded /\ ~direct[s] /\ closing # s
             /\ groups'[s] \subseteq groups[s] /\ JobsOf(s)' \subseteq JobsOf(s)
  <2>1. s # t
    BY <1>2, <1>5 DEF TaskEnded
  <2>2. JobsOf(s)' \subseteq JobsOf(s)
    BY <1>1, <1>2, <2>1 DEF JobsOf
  <2> QED BY <1>1, <1>2, <1>5, <2>1, <2>2
<1>6. EndedTaskHoldsNothing'
  BY <1>1, <1>2, <1>3, <1>5, EndedFrame DEF HoldInv, Live
<1>7. Asked'
  BY <1>1, NothingAsked DEF Idle
<1> QED BY <1>4, <1>6, <1>7 DEF Parts

\* A task is created, or begins to be ended: only its status moves.
LEMMA StatusKeeps ==
  ASSUME HoldInv, Idle, NEW t \in Task, NEW x, status' = [status EXCEPT ![t] = x],
         x = "running" \/ closing' = t, closing' \in {closing, t},
         UNCHANGED <<direct, jobTask, jobStatus, resources, bindings, groups, world, requests>>
  PROVE  Parts'
<1>1. Unbinding /\ BoundKnown' /\ GroupsFollowBindings'
  <2>1. Unbinding
    BY DEF Unbinding
  <2> QED BY <2>1, BoundFrame, GroupsFrame DEF HoldInv, AgreeInv, Known, Present
<1>2. status \in [Task -> TaskStatus] /\ None \notin Task /\ closing = None
  BY ConstantsOK DEF HoldInv, AgreeInv, TypeOK, Idle
<1>3. EndedTaskHoldsNothing'
  <2>1. \A s \in Task : status'[s] \in TaskEnded /\ closing' # s =>
          s # t /\ status[s] \in TaskEnded /\ closing # s
    BY <1>2 DEF TaskEnded
  <2> QED BY <2>1, EndedFrame DEF HoldInv, JobsOf, Live
<1> QED BY <1>1, <1>3, NothingAsked DEF Parts, Idle

\* A task without an agent ends with its jobs, or a single job ends.
LEMMA EndKeeps ==
  ASSUME HoldInv, pass # "claim", UNCHANGED <<direct, jobTask, world, requests, closing>>,
         NEW j \in Job, Known(j), NEW x \in JobEnded, jobStatus' = [jobStatus EXCEPT ![j] = x],
         \/ UNCHANGED <<status, resources, bindings, groups>>
         \/ status' = status /\ groups' = groups /\ Release({j})
         \/ /\ EndsDirect(j) /\ groups' = [groups EXCEPT ![jobTask[j]] = {}]
            /\ status' = [status EXCEPT ![jobTask[j]] = "failed"] \/ (x \in Outcome /\ status' = [status EXCEPT ![jobTask[j]] = x])
            /\ Release(AbortSet(j)) \/ Release(JobsOf(jobTask[j]))
  PROVE  Parts'
<1> DEFINE t == jobTask[j]
<1>1. /\ jobStatus \in [Job -> JobStatus] /\ status \in [Task -> TaskStatus] /\ t \in Task
  BY DEF HoldInv, AgreeInv, TypeOK, JobsHaveTasks, Known
<1>2. \A i \in Job : (Known(i) <=> Known(i)') /\ (Live(i)' => Live(i))
  BY <1>1 DEF Known, Live, JobEnded
<1>3. Asked'
  BY NothingAsked
<1>4. CASE UNCHANGED <<status, resources, bindings, groups>>
  BY <1>2, <1>3, <1>4, PlainFrame DEF Parts
<1>5. ASSUME NEW js \in SUBSET Job, Release(js), Emptied(js),
             status' = status \/ (direct[t] /\ \E y : status' = [status EXCEPT ![t] = y])
      PROVE  Parts'
  <2>1. /\ BoundKnown' /\ GroupsFollowBindings'
        /\ \A s \in Task : groups'[s] \subseteq groups[s]
        /\ \A i \in Job : resources'[i] = IF i \in js THEN {} ELSE resources[i]
    BY <1>2, <1>5, ReleaseKeeps
  <2>2. \A s \in Task : JobsOf(s)' = JobsOf(s)
    BY <1>2 DEF JobsOf, Known
  <2>3. \A s \in Task : ~direct[s] => status'[s] = status[s]
    BY <1>1, <1>5
  <2>4. EndedTaskHoldsNothing'
    BY <1>2, <2>1, <2>2, <2>3, EndedFrame DEF HoldInv
  <2> QED BY <1>3, <2>1, <2>4 DEF Parts
<1>6. CASE status' = status /\ groups' = groups /\ Release({j})
  BY <1>5, <1>6 DEF Emptied
<1>7. CASE /\ EndsDirect(j) /\ groups' = [groups EXCEPT ![t] = {}]
           /\ \E y : status' = [status EXCEPT ![t] = y]
           /\ Release(AbortSet(j)) \/ Release(JobsOf(t))
  <2>1. direct[t]
    BY <1>7 DEF EndsDirect
  <2>2. /\ JobsOf(t) \subseteq AbortSet(j) /\ AbortSet(j) \in SUBSET Job /\ JobsOf(t) \in SUBSET Job
    BY <1>7 DEF AbortSet, JobsOf
  <2>3. ASSUME NEW js \in SUBSET Job, JobsOf(t) \subseteq js PROVE Emptied(js)
    BY <1>1, <1>7, <2>3 DEF Emptied
  <2> HIDE DEF t
  <2>4. ASSUME NEW js \in SUBSET Job, JobsOf(t) \subseteq js, Release(js) PROVE Parts'
    BY <1>5, <1>7, <2>1, <2>3, <2>4
  <2> QED BY <1>7, <2>2, <2>4
<1> QED BY <1>4, <1>6, <1>7

LEMMA CallKeeps ==
  ASSUME HoldInv, KernelCall
  PROVE  Parts'
<1> USE DEF taskVars, jobVars, holdVars, worldVars, callVars, inCall, tickVars
<1>1. ASSUME NEW t \in Task, NEW p \in Priority, CreateTask(t, p) PROVE Parts'
  BY <1>1, StatusKeeps DEF CreateTask
<1>2. ASSUME NEW t \in Task, NEW p \in Priority, NEW j \in Job, NEW ns \in Config,
             StartDirect(t, p, j, ns)
      PROVE  Parts'
  BY <1>2, NewJobKeeps DEF StartDirect
<1>10. ASSUME NEW t \in Task, NEW j \in Job, NEW ns \in Config, StartJob(t, j, ns) PROVE Parts'
  BY <1>10, NewJobKeeps DEF StartJob
<1>3. ASSUME NEW t \in Task, CancelTask(t) \/ (\E result \in Outcome : CompleteTask(t, result))
      PROVE  Parts'
  <2>1. Idle /\ closing' = t /\ \E x : status' = [status EXCEPT ![t] = x]
    BY <1>3 DEF CancelTask, CompleteTask
  <2>2. UNCHANGED <<direct, jobTask, jobStatus, resources, bindings, groups, world, requests>>
    BY <1>3 DEF CancelTask, CompleteTask
  <2> QED BY <2>1, <2>2, StatusKeeps
<1>4. ASSUME NEW j \in Job, NEW ns \in Config, PatchJob(j, ns) PROVE Parts'
  BY <1>4, PlainFrame, NothingAsked DEF PatchJob, Parts, Known, Live, Idle
<1>5. ASSUME NEW j \in Job, PauseJob(j) \/ ResumeJob(j) PROVE Parts'
  <2>1. jobStatus \in [Job -> JobStatus]
    BY DEF HoldInv, AgreeInv, TypeOK
  <2>2. \A i \in Job : (Known(i) <=> Known(i)') /\ (Live(i)' => Live(i))
    BY <1>5, <2>1 DEF PauseJob, ResumeJob, Known, Live
  <2> QED BY <1>5, <2>2, PlainFrame, NothingAsked DEF PauseJob, ResumeJob, Parts, Idle
<1>6. ASSUME NEW j \in Job, AbortJob(j) PROVE Parts'
  <2>1. /\ Idle /\ Known(j) /\ jobStatus' = [jobStatus EXCEPT ![j] = "aborted"] /\ Release(AbortSet(j))
        /\ UNCHANGED <<direct, jobTask, world, requests, closing>>
    BY <1>6 DEF AbortJob, Known
  <2>2. CASE EndsDirect(j)
    <3>1. status' = [status EXCEPT ![jobTask[j]] = "failed"] /\ groups' = [groups EXCEPT ![jobTask[j]] = {}]
      BY <1>6, <2>2 DEF AbortJob
    <3> QED BY <2>1, <2>2, <3>1, EndKeeps DEF Idle, JobEnded
  <2>3. CASE ~EndsDirect(j)
    <3>1. status' = status /\ groups' = groups /\ AbortSet(j) = {j}
      BY <1>6, <2>3 DEF AbortJob, AbortSet
    <3> QED BY <2>1, <3>1, EndKeeps DEF Idle, JobEnded
  <2> QED BY <2>2, <2>3
<1>7. ASSUME NEW a \in Actor, RouteUnitDied(a) PROVE Parts'
  <2> DEFINE holders == {j \in Job : Live(j) /\ a \in resources[j]}
  <2>1. /\ Idle /\ resources' = [j \in Job |-> IF j \in holders THEN resources[j] \ {a} ELSE resources[j]]
        /\ bindings' = IF holders = {} THEN bindings ELSE [bindings EXCEPT ![a] = None]
        /\ jobStatus' = [j \in Job |-> IF j \in holders /\ resources[j] = {a}
                                       THEN "waiting" ELSE jobStatus[j]]
        /\ UNCHANGED <<status, direct, jobTask, groups, world, requests, closing>>
    BY <1>7 DEF RouteUnitDied
  <2>2. \A j \in Job : (Known(j) <=> Known(j)') /\ (Live(j)' => Live(j)) /\ resources'[j] \subseteq resources[j]
    BY <2>1 DEF Known, Live
  <2>3. Unbinding
    BY <2>1 DEF Unbinding, HoldInv, AgreeInv, TypeOK
  <2> HIDE DEF holders
  <2>4. BoundKnown' /\ GroupsFollowBindings'
    BY <2>1, <2>2, <2>3, BoundFrame, GroupsFrame DEF HoldInv, AgreeInv, Present
  <2>5. \A t \in Task : JobsOf(t)' \subseteq JobsOf(t)
    BY <2>1, <2>2 DEF JobsOf, Known
  <2>6. EndedTaskHoldsNothing'
    BY <2>1, <2>2, <2>5, EndedFrame DEF HoldInv
  <2> QED BY <2>1, <2>4, <2>6, NothingAsked DEF Parts, Idle
<1>8. CASE RouteUnitIdle
  BY <1>8, PlainFrame, NothingAsked DEF RouteUnitIdle, Parts, Known, Live, Idle
<1>9. CASE GameReset
  <2>1. /\ \A t \in Task : status'[t] \notin TaskEnded /\ groups'[t] = {}
        /\ \A a \in Actor : bindings'[a] = None
    BY <1>9 DEF GameReset, Cleared, TaskEnded, NoBindings, HoldInv, AgreeInv, TypeOK
  <2>2. BoundKnown' /\ GroupsFollowBindings' /\ EndedTaskHoldsNothing'
    BY <2>1 DEF BoundKnown, GroupsFollowBindings, EndedTaskHoldsNothing
  <2> QED BY <1>9, <2>2, NothingAsked DEF GameReset, Parts, Idle
<1> QED BY <1>1, <1>2, <1>3, <1>4, <1>5, <1>6, <1>7, <1>8, <1>9, <1>10 DEF KernelCall

\* The end of a task, job by job.
LEMMA ClosingKeeps ==
  ASSUME HoldInv, (\E j \in Job : AbortNext(j)) \/ EndClosing
  PROVE  Parts'
<1> USE DEF taskVars, jobVars, holdVars, worldVars, callVars, inCall, tickVars
<1>1. ASSUME NEW j \in Job, AbortNext(j) PROVE Parts'
  BY <1>1, EndKeeps DEF AbortNext, Live, Known, JobEnded
<1>2. CASE EndClosing
  <2>1. /\ pass = "idle" /\ closing \in Task /\ closing' = None
        /\ \A j \in JobsOf(closing) : ~Live(j)
        /\ Release(JobsOf(closing)) /\ groups' = [groups EXCEPT ![closing] = {}]
        /\ UNCHANGED <<status, direct, jobTask, jobStatus, world, requests>>
    BY <1>2 DEF EndClosing, HoldInv, AgreeInv, TypeOK
  <2>2. JobsOf(closing) \in SUBSET Job
    BY DEF JobsOf
  <2>3. Emptied(JobsOf(closing))
    BY <2>1 DEF Emptied
  <2>4. /\ BoundKnown' /\ GroupsFollowBindings'
        /\ \A s \in Task : groups'[s] \subseteq groups[s]
        /\ \A i \in Job : resources'[i] = IF i \in JobsOf(closing) THEN {} ELSE resources[i]
    BY <2>1, <2>2, <2>3, ReleaseKeeps DEF Known
  <2>5. EndedTaskHoldsNothing'
    <3> SUFFICES ASSUME NEW t \in Task, status[t] \in TaskEnded, ~direct[t]
                 PROVE  (\A j \in JobsOf(t) : ~Live(j) /\ resources'[j] = {}) /\ groups'[t] = {}
      BY <2>1 DEF EndedTaskHoldsNothing, JobsOf, Live
    <3>1. CASE t = closing
      BY <2>1, <2>2, <2>4, <3>1 DEF HoldInv, AgreeInv, TypeOK
    <3>2. CASE t # closing
      BY <2>4, <3>2 DEF HoldInv, EndedTaskHoldsNothing, JobsOf
    <3> QED BY <3>1, <3>2
  <2> QED BY <2>1, <2>4, <2>5, NothingAsked DEF Parts
<1> QED BY <1>1, <1>2

\* Ticks and refreshes.
LEMMA TickKeeps ==
  ASSUME HoldInv, TickStep, Idle
  PROVE  Parts'
<1> USE DEF taskVars, jobVars, holdVars, worldVars, callVars, tickVars
<1>0. InTick => ticking \in Job /\ Known(ticking)
  BY DEF InTick, HoldInv, AgreeInv, TypeOK, JobsHaveTasks, Known
<1>1. CASE (\E j \in Job : TickDue(j)) \/ TickBegin \/ TickEnd
  BY <1>1, PlainFrame, NothingAsked DEF TickDue, TickBegin, TickEnd, Parts, Known, Live, Idle
<1>2. ASSUME NEW result \in JobOutcome, TickFinish(result) PROVE Parts'
  <2>1. InTick /\ result \in Outcome /\ result \in JobEnded
    BY <1>2, ConstantsOK DEF TickFinish, JobOutcome, JobEnded
  <2>2. /\ jobStatus' = [jobStatus EXCEPT ![ticking] = result]
        /\ UNCHANGED <<direct, jobTask, world, requests, closing>>
    BY <1>2 DEF TickFinish
  <2>3. CASE EndsDirect(ticking)
    <3>1. /\ status' = [status EXCEPT ![jobTask[ticking]] = result]
          /\ groups' = [groups EXCEPT ![jobTask[ticking]] = {}]
          /\ Release(JobsOf(jobTask[ticking]))
      BY <1>2, <2>3 DEF TickFinish
    <3> QED BY <1>0, <2>1, <2>2, <2>3, <3>1, EndKeeps DEF Idle
  <2>4. CASE ~EndsDirect(ticking)
    <3>1. UNCHANGED <<status, resources, bindings, groups>>
      BY <1>2, <2>4 DEF TickFinish
    <3> QED BY <1>0, <2>1, <2>2, <3>1, EndKeeps DEF Idle
  <2> QED BY <2>3, <2>4
<1>3. CASE TickStuck
  BY <1>0, <1>3, EndKeeps DEF TickStuck, Idle, JobEnded
<1>4. CASE TickArrive
  <2>1. jobTask[ticking] \in Task
    BY <1>0, <1>4 DEF TickArrive, HoldInv, AgreeInv, JobsHaveTasks, Known
  <2> QED BY <1>4, <2>1, StatusKeeps DEF TickArrive
<1>5. CASE TickSync
  <2>1. /\ bindings' = bindings /\ groups' = Pruned(groups)
        /\ UNCHANGED <<status, direct, jobTask, jobStatus, resources, world, closing, requests>>
    BY <1>5 DEF TickSync, HoldInv, AgreeInv
  <2>3. Unbinding /\ BoundKnown'
    BY <2>1 DEF Unbinding, HoldInv, BoundKnown, Known
  <2>4. \A t \in Task : groups'[t] \subseteq groups[t] /\ \A b \in groups[t] : Present(b) => b \in groups'[t]
    BY <2>1 DEF Pruned
  <2>5. \A b \in Actor : bindings[b] # None => jobTask[bindings[b]] \in Task
    BY DEF HoldInv, AgreeInv, TypeOK, BoundKnown, Known, JobsHaveTasks
  <2>6. GroupsFollowBindings'
    BY <2>1, <2>3, <2>4, <2>5, GroupsFrame DEF Present
  <2>7. EndedTaskHoldsNothing'
    BY <2>1, <2>4, EndedFrame DEF HoldInv, JobsOf, Live
  <2> QED BY <2>1, <2>3, <2>6, <2>7, NothingAsked DEF Parts, Idle
<1> QED BY <1>1, <1>2, <1>3, <1>4, <1>5 DEF TickStep

LEMMA WorldKeeps ==
  ASSUME HoldInv, WorldStep
  PROVE  Parts'
<1>1. UNCHANGED <<taskVars, jobVars, holdVars, callVars>>
  BY DEF WorldStep, Appear, BecomeBusy, BecomeIdle, Vanish
<1>2. \A a \in Actor : world[a] # "unborn" =>
        world'[a] # "unborn" /\ (Present(a)' => Present(a))
  BY DEF WorldStep, Appear, BecomeBusy, BecomeIdle, Vanish, Present, HoldInv, AgreeInv, TypeOK
<1>3. Unbinding /\ \A j \in Job : Known(j) => Known(j)'
  BY <1>1 DEF Unbinding, holdVars, jobVars, Known
<1>4. BoundKnown' /\ GroupsFollowBindings'
  BY <1>1, <1>2, <1>3, BoundFrame, GroupsFrame DEF HoldInv, AgreeInv, holdVars, jobVars
<1>5. EndedTaskHoldsNothing'
  BY <1>1 DEF HoldInv, EndedTaskHoldsNothing, taskVars, jobVars, holdVars, callVars, JobsOf, Live
<1>6. Asked'
  BY <1>1 DEF HoldInv, Asked, taskVars, jobVars, callVars, Known, Open
<1> QED BY <1>4, <1>5, <1>6 DEF Parts

LEMMA HoldInit == Init => HoldInv
<1> SUFFICES ASSUME Init PROVE HoldInv
  OBVIOUS
<1>1. BoundKnown /\ Asked /\ GroupsFollowBindings /\ EndedTaskHoldsNothing
  BY DEF Init, BoundKnown, Asked, GroupsFollowBindings, EndedTaskHoldsNothing, NoBindings, TaskEnded
<1> QED BY <1>1, AgreeInit DEF HoldInv

LEMMA HoldStep == HoldInv /\ [LoopNext]_vars => HoldInv'
<1> SUFFICES ASSUME HoldInv, [LoopNext]_vars PROVE HoldInv'
  OBVIOUS
<1>1. AgreeInv'
  BY AgreeStep DEF HoldInv
<1>2. CASE UNCHANGED vars
  <2>1. UNCHANGED <<status, direct, jobTask, jobStatus, resources, bindings, groups, world,
                    pass, requests, closing>>
    BY <1>2 DEF vars, taskVars, jobVars, holdVars, worldVars, callVars
  <2>2. Asked'
    BY <2>1 DEF HoldInv, Asked, Known, Open
  <2>3. BoundKnown' /\ GroupsFollowBindings' /\ EndedTaskHoldsNothing'
    BY <2>1, PlainFrame DEF Known, Live
  <2> QED BY <1>1, <2>2, <2>3 DEF HoldInv
<1>3. CASE LoopNext
  <2>1. Parts'
    BY <1>3, CallKeeps, PassKeeps, ClosingKeeps, TickKeeps, WorldKeeps DEF LoopNext, KernelStep
  <2> QED BY <1>1, <2>1 DEF HoldInv, Parts
<1> QED BY <1>2, <1>3

\* A unit is in one task's group at most, and a bound unit on the map is in the
\* group of its job's task, however the passes, closings, ticks and deaths fall.
THEOREM GroupsKeepUp == LoopSpec => []GroupsFollowBindings
<1>1. HoldInv => GroupsFollowBindings
  BY DEF HoldInv
<1> QED BY <1>1, HoldInit, HoldStep, PTL DEF LoopSpec

\* A task with an agent that cancel_task or complete_task has ended has no job
\* that runs, holds a unit or may be granted one, ever after.
THEOREM EndedHoldsNothing == LoopSpec => []EndedTaskHoldsNothing
<1>1. HoldInv => EndedTaskHoldsNothing
  BY DEF HoldInv
<1> QED BY <1>1, HoldInit, HoldStep, PTL DEF LoopSpec

-----------------------------------------------------------------------------
(* What a pass leaves to the jobs of the highest rank.                     *)

\* Out of a job's reach: in the group of another task that does not rank lower.
Shielded(j, a) == \E u \in Task \ {jobTask[j]} : a \in groups[u] /\ priority[u] >= Rank(j)

\* A bound unit that no request of the pass may take for the need any more.
HeldFast(j, n, a) ==
  \/ Rank(bindings[a]) >= Rank(j)
  \/ TakenBusy(n, a) /\ \A s \in requests : Rank(s.job) <= Rank(bindings[a])

\* The pass has done what it could for the need.
Settled(j, n) ==
  /\ \A a \in n.match : Present(a) /\ bindings[a] # None => HeldFast(j, n, a)
  /\ \A a \in n.match :
       Present(a) /\ bindings[a] = None /\ (world[a] = "idle" \/ n.busy) => Shielded(j, a)
  /\ n.gate /\ CountsAll(j, n) => jobStatus[j] = "waiting"

\* The need has a request that asks for all it misses.
Pending(j, n) == \E r \in requests : r.job = j /\ r.need = n /\ r.missing >= Missing(j, n)

\* Nobody asks for more than an open task's job may have.
AsksKnown ==
  \A r \in requests : /\ r.need \in needs[r.job]
                      /\ \E t \in Task : Open(t) /\ priority[t] >= Rank(r.job)

PassInv ==
  pass = "claim" /\ ~fresh /\ died = {} =>
    /\ AsksKnown
    /\ \A j \in TopJobs : \A n \in needs[j] : Missing(j, n) > 0 => Pending(j, n) \/ Settled(j, n)

LEMMA RankInt ==
  ASSUME TypeOK, JobsHaveTasks, NEW j \in Job, Known(j)
  PROVE  jobTask[j] \in Task /\ Rank(j) \in Int /\ \A t \in Task : priority[t] \in Int
<1>1. jobTask[j] \in Task
  BY DEF JobsHaveTasks, Known
<1>2. \A t \in Task : priority[t] \in Priority \cup {0}
  BY DEF TypeOK
<1>3. Priority \cup {0} \subseteq Int
  BY ConstantsOK
<1>4. \A t \in Task : priority[t] \in Int
  BY <1>2, <1>3
<1> QED BY <1>1, <1>4 DEF Rank

LEMMA RequestKnown ==
  ASSUME HoldInv, NEW r \in requests
  PROVE  /\ r \in Request /\ r.job \in Job /\ r.need \in Need /\ r.need \in UNION Config
         /\ r.missing \in Int /\ Known(r.job)
         /\ jobTask[r.job] \in Task /\ Rank(r.job) \in Int
<1>1. r \in Request /\ Known(r.job) /\ TypeOK /\ JobsHaveTasks
  BY DEF HoldInv, AgreeInv, TypeOK, Asked
<1>2. r.job \in Job /\ r.need \in UNION Config /\ r.missing \in Int
  BY <1>1 DEF Request
<1>3. r.need \in Need
  BY <1>2, ConstantsOK
<1> QED BY <1>1, <1>2, <1>3, RankInt

LEMMA HolderKnown ==
  ASSUME HoldInv, NEW a \in Actor, bindings[a] # None
  PROVE  /\ bindings[a] \in Job /\ Known(bindings[a])
         /\ jobTask[bindings[a]] \in Task /\ Rank(bindings[a]) \in Int
<1>1. bindings[a] \in Job /\ Known(bindings[a])
  BY DEF HoldInv, AgreeInv, TypeOK, BoundKnown
<1> QED BY <1>1, RankInt DEF HoldInv, AgreeInv

\* More units serve a need after a job was granted some, one more after one.
LEMMA MissingFalls ==
  ASSUME NEW j \in Job, NEW n \in UNION Config, UNCHANGED world,
         resources[j] \subseteq resources'[j]
  PROVE  /\ Missing(j, n)' <= Missing(j, n)
         /\ \A a \in n.match : Present(a) /\ a \notin resources[j] /\ resources'[j] = resources[j] \cup {a}
              => Missing(j, n)' = Missing(j, n) - 1
<1> DEFINE S == Serving(j, n)
           P == Serving(j, n)'
<1>1. S \subseteq Actor /\ P \subseteq Actor /\ n.count \in Int
  BY ConstantsOK DEF Serving, Need
<1>2. IsFiniteSet(S) /\ IsFiniteSet(P) /\ Cardinality(S) \in Nat /\ Cardinality(P) \in Nat
  BY <1>1, ConstantsOK, FS_Subset, FS_CardinalityType
<1>3. S \subseteq P
  BY DEF Serving, Present
<1>4. Cardinality(S) <= Cardinality(P)
  BY <1>2, <1>3, FS_Subset
<1>5. Missing(j, n) = n.count - Cardinality(S) /\ Missing(j, n)' = n.count - Cardinality(P)
  BY DEF Missing
<1>6. ASSUME NEW a \in n.match, Present(a), a \notin resources[j], resources'[j] = resources[j] \cup {a}
      PROVE  Missing(j, n)' = Missing(j, n) - 1
  <2>1. P = S \cup {a} /\ a \notin S
    BY <1>6 DEF Serving, Present
  <2> HIDE DEF S, P
  <2>2. Cardinality(P) = Cardinality(S) + 1
    BY <1>2, <2>1, FS_AddElement
  <2> QED BY <1>1, <1>2, <1>5, <2>2
<1> HIDE DEF S, P
<1>7. Missing(j, n)' <= Missing(j, n)
  BY <1>1, <1>2, <1>4, <1>5
<1> QED BY <1>6, <1>7

\* What a claim leaves to the others: it takes one unit that the request may
\* have, and from jobs and tasks only of those that rank lower.
Shifts(r, a) ==
  /\ UNCHANGED <<priority, jobTask, needs, world, died, fresh, pass>>
  /\ Current(r) /\ requests' = OneLess(r)
  /\ a \in r.need.match /\ Present(a) /\ Reachable(jobTask[r.job], a)
  /\ bindings'[a] = r.job /\ a \notin resources[r.job]
  /\ IF bindings[a] = None THEN world[a] = "idle" \/ r.need.busy
                           ELSE Rank(bindings[a]) < Rank(r.job)
  /\ \A b \in Actor \ {a} :
       \/ bindings'[b] = bindings[b]
       \/ bindings'[b] = None /\ bindings[b] # None /\ Rank(bindings[b]) < Rank(r.job)
  /\ \A t \in Task : \A b \in groups[t] \ {a} :
       Present(b) => b \in groups'[t] \/ priority[t] < Rank(r.job)
  /\ \A t \in Task : /\ Open(t)' => Open(t)
                     /\ Open(t) => Open(t)' \/ priority[t] < Rank(r.job)
  /\ resources'[r.job] = resources[r.job] \cup {a}
  /\ \A j \in Job : /\ Live(j)' => Live(j)
                    /\ j # r.job /\ Rank(j) >= Rank(r.job) =>
                         jobStatus'[j] = jobStatus[j] /\ resources'[j] = resources[j]

LEMMA ClaimShifts ==
  ASSUME HoldInv, NEW r \in requests, NEW a \in Actor,
         ClaimUnbound(r, a) \/ ClaimByDegrading(r, a) \/ ClaimByAborting(r, a)
  PROVE  Shifts(r, a)
<1> DEFINE h == bindings[a]
<1>0. /\ r.job \in Job /\ Known(r.job) /\ jobTask[r.job] \in Task /\ Rank(r.job) \in Int
      /\ None \notin Job /\ TypeOK /\ BindingsAgree /\ JobsHaveTasks
  BY RequestKnown, ConstantsOK DEF HoldInv, AgreeInv
<1> USE DEF inCall, taskVars, worldVars, tickVars
<1>1. ASSUME Victim(r, a)
      PROVE  /\ h \in Job /\ h # r.job /\ Known(h) /\ jobTask[h] \in Task
             /\ Rank(h) \in Int /\ Rank(h) < Rank(r.job) /\ h # None
             /\ a \in r.need.match /\ Present(a) /\ Reachable(jobTask[r.job], a)
  <2>1. h # None /\ h # r.job /\ Rank(h) < Rank(r.job)
    BY <1>1 DEF Victim, Preemptable
  <2>2. a \in r.need.match /\ Present(a) /\ Reachable(jobTask[r.job], a)
    BY <1>1 DEF Victim, Preemptable
  <2> QED BY <2>1, <2>2, HolderKnown
<1>2. a \in resources[r.job] => bindings[a] = r.job
  BY <1>0 DEF BindingsAgree
<1>3. CASE ClaimUnbound(r, a)
  <2>1. /\ Current(r) /\ requests' = OneLess(r) /\ bindings[a] = None
        /\ a \in r.need.match /\ Reachable(jobTask[r.job], a)
        /\ world[a] = "idle" \/ (r.need.busy /\ Present(a))
    BY <1>3 DEF ClaimUnbound, Unbound
  <2>2. /\ UNCHANGED <<status, priority, jobTask, needs, world, died, fresh, pass>>
        /\ resources' = [resources EXCEPT ![r.job] = @ \cup {a}]
        /\ bindings' = [bindings EXCEPT ![a] = r.job]
        /\ groups' = Regrouped(groups, jobTask[r.job], a)
        /\ jobStatus' = Woken(jobStatus, r.job)
    BY <1>3 DEF ClaimUnbound
  <2>3. Present(a)
    BY <2>1 DEF Present
  <2>4. bindings'[a] = r.job /\ \A b \in Actor \ {a} : bindings'[b] = bindings[b]
    BY <1>0, <2>2 DEF TypeOK
  <2>5. \A t \in Task : \A b \in groups[t] \ {a} : Present(b) => b \in groups'[t]
    BY <2>2 DEF Regrouped
  <2>6. resources'[r.job] = resources[r.job] \cup {a}
        /\ \A j \in Job : /\ Live(j)' => Live(j)
                          /\ j # r.job => jobStatus'[j] = jobStatus[j] /\ resources'[j] = resources[j]
    BY <1>0, <2>2 DEF TypeOK, Woken, Live
  <2>7. a \notin resources[r.job]
    BY <1>0, <1>2, <2>1
  <2>8. \A t \in Task : Open(t)' <=> Open(t)
    BY <2>2 DEF Open
  <2> QED BY <2>1, <2>2, <2>3, <2>4, <2>5, <2>6, <2>7, <2>8 DEF Shifts
<1>4. CASE ClaimByDegrading(r, a)
  <2>1. Current(r) /\ requests' = OneLess(r) /\ Victim(r, a)
    BY <1>4 DEF ClaimByDegrading
  <2>2. /\ UNCHANGED <<status, priority, jobTask, needs, world, died, fresh, pass>>
        /\ resources' = [resources EXCEPT ![h] = @ \ {a}, ![r.job] = @ \cup {a}]
        /\ bindings' = [bindings EXCEPT ![a] = r.job]
        /\ groups' = Regrouped(groups, jobTask[r.job], a)
        /\ jobStatus' = Woken(jobStatus, r.job)
    BY <1>4 DEF ClaimByDegrading
  <2>3. bindings'[a] = r.job /\ \A b \in Actor \ {a} : bindings'[b] = bindings[b]
    BY <1>0, <2>2 DEF TypeOK
  <2>4. \A t \in Task : \A b \in groups[t] \ {a} : Present(b) => b \in groups'[t]
    BY <2>2 DEF Regrouped
  <2>5. /\ resources'[r.job] = resources[r.job] \cup {a}
        /\ \A j \in Job : /\ Live(j)' => Live(j)
                          /\ j # r.job => jobStatus'[j] = jobStatus[j]
                          /\ j # r.job /\ j # h => resources'[j] = resources[j]
    BY <1>0, <1>1, <2>1, <2>2 DEF TypeOK, Woken, Live
  <2>6. \A j \in Job : Rank(j) >= Rank(r.job) => j # h
    BY <1>0, <1>1, <2>1
  <2>7. a \notin resources[r.job]
    BY <1>1, <1>2, <2>1
  <2>8. \A t \in Task : Open(t)' <=> Open(t)
    BY <2>2 DEF Open
  <2> HIDE DEF h
  <2>9. bindings[a] = h
    BY DEF h
  <2> QED BY <1>1, <2>1, <2>2, <2>3, <2>4, <2>5, <2>6, <2>7, <2>8, <2>9 DEF Shifts
<1>5. CASE ClaimByAborting(r, a)
  <2> DEFINE t == jobTask[h]
             g == IF EndsDirect(h) THEN [groups EXCEPT ![t] = {}] ELSE groups
  <2>1. Current(r) /\ requests' = OneLess(r) /\ Victim(r, a)
    BY <1>5 DEF ClaimByAborting
  <2>2. /\ UNCHANGED <<priority, jobTask, needs, world, died, fresh, pass>>
        /\ resources' = [j \in Job |-> IF j = r.job THEN resources[j] \cup {a}
                                       ELSE IF j \in AbortSet(h) THEN {} ELSE resources[j]]
        /\ bindings' = [b \in Actor |-> IF b = a THEN r.job
                                  ELSE IF \E j \in AbortSet(h) : b \in resources[j] THEN None
                                  ELSE bindings[b]]
        /\ groups' = Regrouped(g, jobTask[r.job], a)
        /\ jobStatus' = Woken([jobStatus EXCEPT ![h] = "aborted"], r.job)
        /\ status' = IF EndsDirect(h) THEN [status EXCEPT ![t] = "failed"] ELSE status
    BY <1>5 DEF ClaimByAborting
  <2>3. /\ h \in Job /\ h # r.job /\ t \in Task /\ h # None
        /\ Rank(h) \in Int /\ Rank(h) < Rank(r.job) /\ priority[t] = Rank(h)
    BY <1>1, <2>1 DEF Rank
  <2>4. AbortSet(h) \subseteq Job /\ \A j \in AbortSet(h) : Rank(j) = Rank(h)
    BY <2>3 DEF AbortSet, JobsOf, Rank
  <2>5. bindings'[a] = r.job
    BY <2>2
  <2>6. ASSUME NEW b \in Actor \ {a}
        PROVE  \/ bindings'[b] = bindings[b]
               \/ bindings'[b] = None /\ bindings[b] # None /\ Rank(bindings[b]) < Rank(r.job)
    <3>1. CASE \E j \in AbortSet(h) : b \in resources[j]
      <4>1. PICK j \in AbortSet(h) : b \in resources[j]
        BY <3>1
      <4>2. bindings[b] = j
        BY <1>0, <2>4, <4>1 DEF BindingsAgree
      <4>3. j # None
        BY <1>0, <2>4
      <4>4. bindings'[b] = None
        BY <2>2, <3>1
      <4> HIDE DEF h
      <4> QED BY <2>3, <2>4, <4>2, <4>3, <4>4
    <3>2. CASE ~\E j \in AbortSet(h) : b \in resources[j]
      BY <2>2, <3>2
    <3> QED BY <3>1, <3>2
  <2>7. ASSUME NEW s \in Task, NEW b \in groups[s] \ {a}, Present(b)
        PROVE  b \in groups'[s] \/ priority[s] < Rank(r.job)
    <3>1. CASE b \in g[s]
      BY <2>2, <2>7, <3>1 DEF Regrouped
    <3>2. CASE b \notin g[s]
      <4>1. s = t
        BY <3>2, <1>0 DEF TypeOK
      <4> QED BY <4>1, <2>3
    <3> QED BY <3>1, <3>2
  <2>8. ASSUME NEW s \in Task
        PROVE  (Open(s)' => Open(s)) /\ (Open(s) => Open(s)' \/ priority[s] < Rank(r.job))
    <3>1. status'[s] = status[s] \/ (s = t /\ status'[s] = "failed")
      BY <1>0, <2>2 DEF TypeOK
    <3> HIDE DEF t
    <3> QED BY <2>3, <3>1 DEF Open
  <2>9. resources'[r.job] = resources[r.job] \cup {a}
    BY <1>0, <2>2
  <2>10. ASSUME NEW j \in Job
         PROVE  /\ Live(j)' => Live(j)
                /\ j # r.job /\ Rank(j) >= Rank(r.job) =>
                     jobStatus'[j] = jobStatus[j] /\ resources'[j] = resources[j]
    <3>1. Live(j)' => Live(j)
      BY <1>0, <2>2, <2>3 DEF TypeOK, Woken, Live
    <3>2. ASSUME j # r.job, Rank(j) >= Rank(r.job) PROVE j # h /\ j \notin AbortSet(h)
      <4> HIDE DEF h
      <4> QED BY <1>0, <2>3, <2>4, <3>2
    <3>3. ASSUME j # r.job, j # h, j \notin AbortSet(h)
          PROVE  jobStatus'[j] = jobStatus[j] /\ resources'[j] = resources[j]
      BY <1>0, <2>2, <2>3, <3>3 DEF TypeOK, Woken
    <3> QED BY <3>1, <3>2, <3>3
  <2>11. a \notin resources[r.job]
    BY <1>2, <2>3
  <2>12. a \in r.need.match /\ Present(a) /\ Reachable(jobTask[r.job], a)
    BY <1>1, <2>1
  <2> HIDE DEF h, g, t
  <2>13. bindings[a] = h
    BY DEF h
  <2> QED BY <2>1, <2>2, <2>3, <2>5, <2>6, <2>7, <2>8, <2>9, <2>10, <2>11, <2>12, <2>13 DEF Shifts
<1> QED BY <1>3, <1>4, <1>5

\* A claim leaves every top ranking job with all it may still get.
LEMMA ClaimServes ==
  ASSUME HoldInv, PassInv, pass = "claim", ~fresh, died = {},
         NEW r \in requests, NEW a \in Actor, Shifts(r, a)
  PROVE  PassInv'
<1>0. /\ AsksKnown
      /\ \A j \in TopJobs : \A n \in needs[j] : Missing(j, n) > 0 => Pending(j, n) \/ Settled(j, n)
  BY DEF PassInv
<1>1. /\ r.job \in Job /\ r.need \in Need /\ r.missing \in Int /\ Known(r.job)
      /\ jobTask[r.job] \in Task /\ Rank(r.job) \in Int /\ r \in Request /\ None \notin Job
  BY RequestKnown, ConstantsOK
<1>2. /\ TypeOK /\ JobsHaveTasks /\ \A t \in Task : priority[t] \in Int
  BY <1>1, RankInt DEF HoldInv, AgreeInv
<1>3. UNCHANGED <<priority, jobTask, needs, world>> /\ requests' = OneLess(r) /\ Current(r)
  BY DEF Shifts
<1>4. /\ \A j : Rank(j)' = Rank(j)
      /\ \A b : Present(b)' <=> Present(b)
  BY <1>3 DEF Rank, Present
<1>5. \A q \in requests' : \E p \in requests : q.job = p.job /\ q.need = p.need
  BY <1>1, <1>3 DEF OneLess, Request
<1>6. PICK top \in Task : Open(top) /\ priority[top] >= Rank(r.job)
  BY <1>0 DEF AsksKnown
<1>7. Open(top)'
  BY <1>1, <1>2, <1>6 DEF Shifts
<1>8. AsksKnown'
  <2> SUFFICES ASSUME NEW q \in requests'
               PROVE  /\ q.need \in needs'[q.job]
                      /\ \E t \in Task : Open(t)' /\ priority'[t] >= Rank(q.job)'
    BY DEF AsksKnown
  <2>1. PICK p \in requests : q.job = p.job /\ q.need = p.need
    BY <1>5
  <2>2. PICK t \in Task : Open(t) /\ priority[t] >= Rank(p.job)
    BY <1>0 DEF AsksKnown
  <2>3. Rank(p.job) \in Int
    BY RequestKnown
  <2>4. CASE Open(t)'
    BY <1>0, <1>3, <1>4, <2>1, <2>2, <2>4 DEF AsksKnown
  <2>5. CASE ~Open(t)'
    <3>1. priority[t] < Rank(r.job)
      BY <2>2, <2>5 DEF Shifts
    <3>2. priority[top] >= Rank(p.job)
      BY <1>1, <1>2, <1>6, <2>2, <2>3, <3>1
    <3> QED BY <1>0, <1>3, <1>4, <1>7, <2>1, <3>2 DEF AsksKnown
  <2> QED BY <2>4, <2>5
<1>9. ASSUME NEW j \in TopJobs', NEW n \in needs'[j], Missing(j, n)' > 0
      PROVE  Pending(j, n)' \/ Settled(j, n)'
  <2>1. /\ j \in Job /\ Live(j)' /\ Open(jobTask[j])'
        /\ \A t \in Task : Open(t)' => priority[t] <= Rank(j)
    BY <1>3, <1>4, <1>9 DEF TopJobs
  <2>2. Live(j) /\ Known(j)
    BY <2>1 DEF Shifts, Live, Known
  <2>3. jobTask[j] \in Task /\ Rank(j) \in Int
    BY <1>2, <2>1, <2>2, RankInt
  <2>4. Rank(r.job) <= Rank(j)
    BY <1>1, <1>2, <1>6, <1>7, <2>1, <2>3
  <2>5. j \in TopJobs
    <3>1. ASSUME NEW t \in Task, Open(t) PROVE priority[t] <= Rank(j)
      <4>1. Open(t)' \/ priority[t] < Rank(r.job)
        BY <3>1 DEF Shifts
      <4> QED BY <1>1, <1>2, <2>1, <2>3, <2>4, <4>1
    <3>2. Open(jobTask[j])
      BY <1>3, <2>1, <2>3 DEF Shifts, Open
    <3> QED BY <2>1, <2>2, <3>1, <3>2 DEF TopJobs
  <2>6. n \in UNION Config /\ n \in Need /\ n \in needs[j]
    <3>1. n \in needs[j] /\ needs[j] \in Config \cup {{}}
      BY <1>2, <1>3, <1>9, <2>1 DEF TypeOK
    <3> QED BY <3>1, ConstantsOK
  <2>7. resources[j] \subseteq resources'[j]
    BY <2>1, <2>3, <2>4, <1>1 DEF Shifts
  <2>8. Missing(j, n) \in Int /\ Missing(j, n)' \in Int
    <3>1. Missing(j, n) \in Int
      BY <2>1, <2>6, MissingInt
    <3>2. Serving(j, n)' \subseteq Actor
      BY <2>6 DEF Serving, Need
    <3>3. Cardinality(Serving(j, n)') \in Nat
      BY <3>2, ConstantsOK, FS_Subset, FS_CardinalityType
    <3> QED BY <3>1, <3>3, <2>6 DEF Missing, Need
  <2>9. /\ Missing(j, n)' <= Missing(j, n)
        /\ \A b \in n.match : Present(b) /\ b \notin resources[j] /\ resources'[j] = resources[j] \cup {b}
              => Missing(j, n)' = Missing(j, n) - 1
    BY <1>3, <2>1, <2>6, <2>7, MissingFalls
  <2>10. Pending(j, n) \/ Settled(j, n)
    BY <1>0, <1>9, <2>5, <2>6, <2>8, <2>9
  <2>11. CASE Pending(j, n)
    <3>1. PICK p \in requests : p.job = j /\ p.need = n /\ p.missing >= Missing(j, n)
      BY <2>11 DEF Pending
    <3>2. CASE p # r
      <4>1. p \in requests' /\ p.missing \in Int
        BY <1>3, <3>2, RequestKnown DEF OneLess
      <4> QED BY <2>8, <2>9, <3>1, <4>1 DEF Pending
    <3>3. CASE p = r
      <4> DEFINE q == [r EXCEPT !.missing = @ - 1]
      <4>1. q \in requests' /\ q.job = j /\ q.need = n /\ q.missing = r.missing - 1
        BY <1>1, <1>3, <3>1, <3>3 DEF OneLess, Request
      <4>2. Missing(j, n)' = Missing(j, n) - 1
        BY <2>9, <3>1, <3>3 DEF Shifts
      <4> HIDE DEF q
      <4>3. q.missing >= Missing(j, n)'
        BY <1>1, <2>8, <3>1, <3>3, <4>1, <4>2
      <4> QED BY <4>1, <4>3 DEF Pending
    <3> QED BY <3>2, <3>3
  <2>12. CASE Settled(j, n)
    <3>0. n.match \subseteq Actor
      BY <2>6 DEF Need
    \* Who is held fast for the need is not the victim of a claim.
    <3>1. ASSUME NEW b \in n.match, Present(b), bindings[b] # None
          PROVE  Rank(bindings[b]) >= Rank(r.job) /\ Rank(bindings[b]) \in Int
      <4>1. Rank(bindings[b]) \in Int
        BY <3>0, <3>1, HolderKnown
      <4>2. HeldFast(j, n, b)
        BY <2>12, <3>1 DEF Settled
      <4> QED BY <1>1, <2>3, <2>4, <4>1, <4>2 DEF HeldFast
    <3>2. a \in n.match => bindings[a] = None
      BY <1>1, <3>1 DEF Shifts
    <3>3. ASSUME NEW b \in n.match, Present(b), b # a PROVE bindings'[b] = bindings[b]
      BY <1>1, <3>0, <3>1, <3>3 DEF Shifts
    <3>4. ASSUME a \in n.match, world[a] = "idle" \/ n.busy
          PROVE  \E u \in Task \ {jobTask[j]} : priority[u] >= Rank(j) /\ u = jobTask[r.job]
      <4>1. PICK u \in Task \ {jobTask[j]} : a \in groups[u] /\ priority[u] >= Rank(j)
        BY <2>12, <3>2, <3>4 DEF Settled, Shifts, Shielded
      <4>2. CASE u # jobTask[r.job]
        <5>1. priority[u] < Rank(r.job)
          BY <4>1, <4>2 DEF Shifts, Reachable, Rank
        <5> QED BY <1>1, <1>2, <2>3, <2>4, <4>1, <5>1
      <4> QED BY <4>1, <4>2
    <3>5. ASSUME NEW b \in n.match, Present(b)', bindings'[b] # None
          PROVE  HeldFast(j, n, b)'
      <4>1. CASE b # a
        <5>1. bindings'[b] = bindings[b] /\ HeldFast(j, n, b)
          BY <1>4, <2>12, <3>3, <3>5, <4>1 DEF Settled
        <5>2. CASE Rank(bindings[b]) >= Rank(j)
          BY <1>4, <5>1, <5>2 DEF HeldFast
        <5>3. CASE TakenBusy(n, b) /\ \A s \in requests : Rank(s.job) <= Rank(bindings[b])
          <6>1. TakenBusy(n, b)'
            BY <1>3, <5>1, <5>3 DEF TakenBusy
          <6>2. \A s \in requests' : Rank(s.job)' <= Rank(bindings[b])'
            BY <1>4, <1>5, <5>1, <5>3
          <6> QED BY <5>1, <6>1, <6>2 DEF HeldFast
        <5> QED BY <5>1, <5>2, <5>3 DEF HeldFast
      <4>2. CASE b = a
        <5>1. bindings'[a] = r.job /\ bindings[a] = None /\ (world[a] = "idle" \/ r.need.busy)
          BY <3>2, <4>2 DEF Shifts
        <5>2. CASE world[a] = "idle" \/ n.busy
          <6>1. Rank(r.job) >= Rank(j)
            BY <3>4, <4>2, <5>2 DEF Rank
          <6> QED BY <1>4, <4>2, <5>1, <6>1 DEF HeldFast
        <5>3. CASE ~(world[a] = "idle" \/ n.busy)
          <6>1. world[a] = "busy" /\ ~n.busy /\ r.need.busy
            BY <5>1, <5>3 DEF Shifts, Present
          <6>2. r.need \in needs[r.job] /\ a \in r.need.match
            BY <1>0 DEF AsksKnown, Shifts
          <6>3. TakenBusy(n, a)'
            BY <1>3, <5>1, <6>1, <6>2 DEF TakenBusy
          <6>4. ASSUME NEW s \in requests' PROVE Rank(s.job)' <= Rank(bindings[a])'
            <7>1. PICK p \in requests : s.job = p.job
              BY <1>5
            <7>2. ~Before(p, r)
              BY <1>3 DEF Current
            <7>3. Rank(p.job) \in Int
              BY RequestKnown
            <7>4. Rank(p.job) <= Rank(r.job)
              BY <1>1, <7>2, <7>3 DEF Before, Rank
            <7> QED BY <1>4, <5>1, <7>1, <7>4
          <6> QED BY <4>2, <6>3, <6>4 DEF HeldFast
        <5> QED BY <5>2, <5>3
      <4> QED BY <4>1, <4>2
    <3>6. ASSUME NEW b \in n.match, Present(b)', bindings'[b] = None, world'[b] = "idle" \/ n.busy
          PROVE  Shielded(j, b)'
      <4>1. b # a
        BY <1>1, <3>6 DEF Shifts
      <4>2. Shielded(j, b)
        BY <1>3, <1>4, <2>12, <3>3, <3>6, <4>1 DEF Settled
      <4>3. PICK u \in Task \ {jobTask[j]} : b \in groups[u] /\ priority[u] >= Rank(j)
        BY <4>2 DEF Shielded
      <4>4. b \in groups'[u] \/ priority[u] < Rank(r.job)
        BY <1>4, <3>6, <4>1, <4>3 DEF Shifts
      <4>5. b \in groups'[u]
        BY <1>1, <1>2, <2>3, <2>4, <4>3, <4>4
      <4> QED BY <1>3, <1>4, <4>3, <4>5 DEF Shielded
    <3>7. ASSUME n.gate, CountsAll(j, n)' PROVE jobStatus'[j] = "waiting"
      <4>1. jobStatus[j] = "waiting" /\ CountsAll(j, n)
        BY <1>3, <2>12, <3>7 DEF Settled, CountsAll
      <4>2. CASE j # r.job
        BY <2>1, <2>4, <2>3, <1>1, <4>1, <4>2 DEF Shifts
      <4>3. CASE j = r.job
        <5>1. r.need \in needs[j] /\ a \in n.match /\ (r.need.busy => n.busy)
          BY <1>0, <4>1, <4>3 DEF AsksKnown, CountsAll, Shifts
        <5>2. world[a] = "idle" \/ n.busy
          BY <3>2, <5>1 DEF Shifts
        <5> QED BY <3>4, <4>3, <5>1, <5>2
      <4> QED BY <4>2, <4>3
    <3> QED BY <3>5, <3>6, <3>7 DEF Settled
  <2> QED BY <2>10, <2>11, <2>12
<1> QED BY <1>8, <1>9 DEF PassInv

\* A request is done when nothing is left that it may claim: what it still
\* misses is bound to jobs that rank as high, or shielded by such a task.
LEMMA FinishServes ==
  ASSUME HoldInv, PassInv, pass = "claim", ~fresh, died = {},
         NEW r \in requests, FinishRequest(r)
  PROVE  PassInv'
<1>0. /\ AsksKnown
      /\ \A j \in TopJobs : \A n \in needs[j] : Missing(j, n) > 0 => Pending(j, n) \/ Settled(j, n)
  BY DEF PassInv
<1>1. /\ UNCHANGED <<status, priority, jobTask, needs, resources, bindings, groups, world>>
      /\ requests' = requests \ {r} /\ Served(r)
  BY DEF FinishRequest, taskVars, worldVars
<1>2. r.job \in Job /\ r.need \in Need /\ r.missing \in Int /\ jobTask[r.job] \in Task
  BY RequestKnown
<1>3. TypeOK /\ JobsHaveTasks /\ \A t \in Task : priority[t] \in Int
  BY <1>2, RequestKnown, RankInt DEF HoldInv, AgreeInv
<1>4. \A j \in Job : /\ Live(j)' => Live(j)
                     /\ jobStatus[j] = "waiting" => jobStatus'[j] = "waiting"
  BY <1>2, <1>3 DEF FinishRequest, TypeOK, Live
<1>5. /\ \A j : Rank(j)' = Rank(j)
      /\ \A j, n : Missing(j, n)' = Missing(j, n)
      /\ \A t : Open(t)' <=> Open(t)
      /\ \A b : Present(b)' <=> Present(b)
  BY <1>1 DEF Rank, Missing, Serving, Present, Open
<1>6. AsksKnown'
  BY <1>0, <1>1, <1>5 DEF AsksKnown
<1>7. ASSUME NEW j \in TopJobs', NEW n \in needs'[j], Missing(j, n)' > 0
      PROVE  Pending(j, n)' \/ Settled(j, n)'
  <2>1. j \in TopJobs /\ j \in Job /\ Live(j)
    BY <1>1, <1>4, <1>5, <1>7 DEF TopJobs
  <2>2. n \in needs[j] /\ n \in UNION Config /\ n.match \subseteq Actor
    <3>1. n \in needs[j] /\ needs[j] \in Config \cup {{}}
      BY <1>1, <1>3, <1>7, <2>1 DEF TypeOK
    <3> QED BY <3>1, ConstantsOK DEF Need
  <2>3. Missing(j, n) > 0 /\ Missing(j, n) \in Int
    BY <1>5, <1>7, <2>1, <2>2, MissingInt
  <2>4. jobTask[j] \in Task /\ Rank(j) \in Int
    BY <1>3, <2>1, RankInt DEF Live, Known
  <2>5. CASE Settled(j, n)
    <3>1. ASSUME NEW b \in n.match, Present(b), bindings[b] # None PROVE HeldFast(j, n, b)'
      <4>1. HeldFast(j, n, b)
        BY <2>5, <3>1 DEF Settled
      <4>2. TakenBusy(n, b)' <=> TakenBusy(n, b)
        BY <1>1 DEF TakenBusy
      <4> QED BY <1>1, <1>5, <4>1, <4>2 DEF HeldFast
    <3>2. \A b : Shielded(j, b)' <=> Shielded(j, b)
      BY <1>1, <1>5 DEF Shielded
    <3>3. CountsAll(j, n)' <=> CountsAll(j, n)
      BY <1>1 DEF CountsAll
    <3> QED BY <1>1, <1>4, <1>5, <2>1, <2>5, <3>1, <3>2, <3>3 DEF Settled
  <2>6. ASSUME NEW p \in requests, p.job = j, p.need = n, p.missing >= Missing(j, n)
        PROVE  Pending(j, n)' \/ Settled(j, n)'
    <3>1. CASE p # r
      BY <1>1, <1>5, <2>6, <3>1 DEF Pending
    <3>2. CASE p = r
      <4>1. Unbound(r) = {} /\ Preemptable(r) = {}
        BY <1>1, <1>2, <2>3, <2>6, <3>2 DEF Served
      <4>2. ASSUME NEW b \in n.match, Present(b), bindings[b] # None PROVE HeldFast(j, n, b)'
        <5> DEFINE h == bindings[b]
        <5>1. h \in Job /\ Known(h) /\ jobTask[h] \in Task /\ Rank(h) \in Int
          BY <2>2, <4>2, HolderKnown
        <5>2. Rank(h) >= Rank(j)
          <6>1. CASE h = j
            BY <2>4, <6>1
          <6>2. CASE h # j /\ ~Reachable(jobTask[j], b)
            <7>1. PICK u \in Task \ {jobTask[j]} : b \in groups[u] /\ ~(priority[u] < Rank(j))
              BY <6>2 DEF Reachable, Rank
            <7>2. b \in groups[jobTask[h]]
              BY <2>2, <4>2 DEF HoldInv, GroupsFollowBindings
            <7>3. u = jobTask[h]
              BY <5>1, <7>1, <7>2 DEF HoldInv, GroupsFollowBindings
            <7>4. Rank(h) = priority[u]
              BY <7>3 DEF Rank
            <7> HIDE DEF h
            <7> QED BY <1>3, <2>4, <7>1, <7>4
          <6>3. CASE h # j /\ Reachable(jobTask[j], b)
            <7>1. ~(Rank(h) < Rank(j))
              BY <2>6, <3>2, <4>1, <4>2, <5>1, <6>3 DEF Preemptable, Known
            <7> HIDE DEF h
            <7> QED BY <2>4, <5>1, <7>1
          <6> QED BY <6>1, <6>2, <6>3
        <5> QED BY <1>1, <1>5, <5>2 DEF HeldFast
      <4>3. ASSUME NEW b \in n.match, Present(b), bindings[b] = None, world[b] = "idle" \/ n.busy
            PROVE  Shielded(j, b)'
        <5>1. ~Reachable(jobTask[j], b)
          BY <2>6, <3>2, <4>1, <4>3 DEF Unbound
        <5>2. PICK u \in Task \ {jobTask[j]} : b \in groups[u] /\ ~(priority[u] < Rank(j))
          BY <5>1 DEF Reachable, Rank
        <5>3. priority[u] >= Rank(j)
          BY <1>3, <2>4, <5>2
        <5> QED BY <1>1, <1>5, <5>2, <5>3 DEF Shielded
      <4>4. n.gate => jobStatus'[j] = "waiting"
        BY <1>3, <2>1, <2>3, <2>6, <3>2 DEF FinishRequest, MustWait, TypeOK
      <4> QED BY <1>1, <1>5, <4>2, <4>3, <4>4 DEF Settled
    <3> QED BY <3>1, <3>2
  <2> QED BY <1>0, <2>1, <2>2, <2>3, <2>5, <2>6 DEF Pending
<1> QED BY <1>6, <1>7 DEF PassInv

\* The pass begins with a request for every need that an open task misses.
LEMMA CollectServes ==
  ASSUME HoldInv, Collect
  PROVE  PassInv'
<1>1. /\ UNCHANGED <<status, priority, jobTask, jobStatus, needs, resources, world>>
      /\ requests' = {[job |-> w[1], need |-> w[2], missing |-> Missing(w[1], w[2])] :
                        w \in {v \in Job \X UNION Config : Wanted(v[1], v[2])}}
  BY DEF Collect, taskVars, jobVars, holdVars, worldVars
<1>2. TypeOK /\ JobsHaveTasks
  BY DEF HoldInv, AgreeInv
<1>3. /\ \A j : Rank(j)' = Rank(j)
      /\ \A j, n : Missing(j, n)' = Missing(j, n)
      /\ \A t : Open(t)' <=> Open(t)
      /\ TopJobs' = TopJobs
  BY <1>1 DEF Rank, Missing, Serving, Present, Open, TopJobs, Live
<1>4. AsksKnown'
  <2> SUFFICES ASSUME NEW q \in requests'
               PROVE  /\ q.need \in needs[q.job]
                      /\ \E t \in Task : Open(t) /\ priority[t] >= Rank(q.job)
    BY <1>1, <1>3 DEF AsksKnown
  <2>1. q.job \in Job /\ Wanted(q.job, q.need)
    BY <1>1
  <2>2. jobTask[q.job] \in Task /\ Rank(q.job) \in Int
    BY <1>2, <2>1, RankInt DEF Wanted, Live, Known
  <2> QED BY <2>1, <2>2 DEF Wanted, Rank
<1>5. ASSUME NEW j \in TopJobs, NEW n \in needs[j], Missing(j, n) > 0 PROVE Pending(j, n)'
  <2>1. j \in Job /\ n \in UNION Config
    BY <1>2, <1>5 DEF TopJobs, TypeOK
  <2>2. Wanted(j, n) /\ Missing(j, n) \in Int
    BY <1>5, <2>1, MissingInt DEF TopJobs, Wanted
  <2> DEFINE q == [job |-> j, need |-> n, missing |-> Missing(j, n)]
  <2>3. q \in requests'
    <3>1. <<j, n>> \in {v \in Job \X UNION Config : Wanted(v[1], v[2])}
      BY <2>1, <2>2
    <3> QED BY <1>1, <3>1
  <2> QED BY <1>3, <2>2, <2>3 DEF Pending
<1> QED BY <1>1, <1>3, <1>4, <1>5 DEF PassInv

\* While it runs, units may start to move; all else would be an event.
LEMMA WorldServes ==
  ASSUME HoldInv, PassInv, WorldStep
  PROVE  PassInv'
<1> USE DEF taskVars, jobVars, holdVars, callVars
<1>1. ASSUME NEW a \in Actor, Appear(a) \/ BecomeIdle(a) PROVE PassInv'
  BY <1>1 DEF Appear, BecomeIdle, PassInv
<1>2. ASSUME NEW a \in Actor, Vanish(a) PROVE PassInv'
  BY <1>2 DEF Vanish, PassInv
<1>3. ASSUME NEW a \in Actor, BecomeBusy(a) PROVE PassInv'
  <2>1. /\ UNCHANGED <<status, priority, jobTask, jobStatus, needs, resources, bindings, groups,
                       died, fresh, pass, requests>>
        /\ world[a] = "idle" /\ world' = [world EXCEPT ![a] = "busy"]
    BY <1>3 DEF BecomeBusy
  <2>2. /\ \A b \in Actor : /\ world[b] = "busy" => world'[b] = "busy"
                            /\ world'[b] = "idle" => world[b] = "idle"
                            /\ Present(b)' <=> Present(b)
    BY <2>1 DEF HoldInv, AgreeInv, TypeOK, Present
  <2>3. /\ \A j : Rank(j)' = Rank(j)
        /\ \A t : Open(t)' <=> Open(t)
        /\ TopJobs' = TopJobs /\ (AsksKnown' <=> AsksKnown)
        /\ \A j, b : Shielded(j, b)' <=> Shielded(j, b)
        /\ \A j, n : CountsAll(j, n)' <=> CountsAll(j, n)
    BY <2>1 DEF Rank, Open, TopJobs, Live, AsksKnown, Shielded, CountsAll
  <2> SUFFICES ASSUME pass = "claim", ~fresh, died = {},
                      NEW j \in TopJobs, NEW n \in needs[j], Missing(j, n)' > 0
               PROVE  AsksKnown /\ (Pending(j, n)' \/ Settled(j, n)')
    BY <2>1, <2>3 DEF PassInv
  <2>4. n.match \subseteq Actor /\ n \in UNION Config
    <3>1. j \in Job /\ needs[j] \in Config \cup {{}}
      BY DEF HoldInv, AgreeInv, TypeOK, TopJobs
    <3> QED BY <3>1, ConstantsOK DEF Need
  <2>5. Missing(j, n)' = Missing(j, n)
    <3>1. Serving(j, n)' = Serving(j, n)
      BY <2>1, <2>2, <2>4 DEF Serving
    <3> QED BY <3>1 DEF Missing
  <2>6. AsksKnown /\ (Pending(j, n) \/ Settled(j, n))
    BY <2>5 DEF PassInv
  <2>7. Pending(j, n) => Pending(j, n)'
    BY <2>1, <2>5 DEF Pending
  <2>8. ASSUME Settled(j, n) PROVE Settled(j, n)'
    <3>1. ASSUME NEW b \in n.match, Present(b), bindings[b] # None PROVE HeldFast(j, n, b)'
      <4>1. HeldFast(j, n, b)
        BY <2>8, <3>1 DEF Settled
      <4>2. TakenBusy(n, b) => TakenBusy(n, b)'
        BY <2>1, <2>2, <2>4, <3>1 DEF TakenBusy
      <4> QED BY <2>1, <2>3, <4>1, <4>2 DEF HeldFast
    <3> QED BY <2>1, <2>2, <2>3, <2>4, <2>8, <3>1 DEF Settled
  <2> QED BY <2>6, <2>7, <2>8
<1> QED BY <1>1, <1>2, <1>3 DEF WorldStep

LEMMA PassStep == HoldInv /\ PassInv /\ [LoopNext]_vars => PassInv'
<1> SUFFICES ASSUME HoldInv, PassInv, [LoopNext]_vars PROVE PassInv'
  OBVIOUS
<1>1. CASE UNCHANGED vars
  BY <1>1 DEF vars, taskVars, jobVars, holdVars, worldVars, callVars, tickVars, PassInv, TopJobs,
       Pending, Settled, AsksKnown, HeldFast, Shielded, TakenBusy, CountsAll, Missing, Serving,
       Present, Open, Live, Rank
<1>2. CASE KernelCall
  <2>1. pass' # "claim"
    BY <1>2 DEF KernelCall, CreateTask, StartDirect, StartJob, NewJob, CancelTask, CompleteTask,
         PatchJob, PauseJob, ResumeJob, AbortJob, RouteUnitDied, RouteUnitIdle, GameReset, Idle,
         callVars
  <2> QED BY <2>1 DEF PassInv
<1>3. CASE (\E j \in Job : AbortNext(j)) \/ EndClosing \/ ReadBindings \/ WriteBindings
  <2>1. pass' # "claim"
    BY <1>3 DEF AbortNext, EndClosing, ReadBindings, WriteBindings
  <2> QED BY <2>1 DEF PassInv
<1>4. CASE TickStep /\ Idle
  <2>1. pass' = pass
    BY <1>4 DEF TickStep, TickDue, TickBegin, TickEnd, TickFinish, TickStuck, TickArrive, TickSync,
         callVars
  <2> QED BY <1>4, <2>1 DEF PassInv, Idle
<1>5. CASE WorldStep
  BY <1>5, WorldServes
<1>6. CASE Collect
  BY <1>6, CollectServes
<1>7. ASSUME NEW r \in requests, FinishRequest(r) PROVE PassInv'
  <2>1. pass = "claim" /\ fresh' = fresh /\ died' = died
    BY <1>7 DEF FinishRequest, worldVars
  <2> QED BY <1>7, <2>1, FinishServes DEF PassInv
<1>8. ASSUME NEW r \in requests, NEW a \in Actor,
             ClaimUnbound(r, a) \/ ClaimByDegrading(r, a) \/ ClaimByAborting(r, a)
      PROVE  PassInv'
  <2>1. Shifts(r, a) /\ pass = "claim"
    BY <1>8, ClaimShifts DEF ClaimUnbound, ClaimByDegrading, ClaimByAborting
  <2>2. fresh' = fresh /\ died' = died
    BY <2>1 DEF Shifts
  <2> QED BY <2>1, <2>2, ClaimServes DEF PassInv
<1> QED BY <1>1, <1>2, <1>3, <1>4, <1>5, <1>6, <1>7, <1>8 DEF LoopNext, KernelStep, Rebalance

LEMMA PassesServe == LoopSpec => [](HoldInv /\ PassInv)
<1>1. Init => HoldInv /\ PassInv
  BY HoldInit DEF Init, PassInv
<1>2. HoldInv /\ PassInv /\ [LoopNext]_vars => (HoldInv /\ PassInv)'
  BY HoldStep, PassStep
<1> QED BY <1>1, <1>2, PTL DEF LoopSpec

\* A pass is over once no request is left, so each need it leaves short is one
\* for which it has done what it could.
LEMMA PassEnd ==
  ASSUME HoldInv, PassInv, [LoopNext]_vars, PassReturns,
         NEW j \in TopJobs, NEW n \in needs[j], Missing(j, n) > 0
  PROVE  Settled(j, n) /\ requests = {}
<1>1. requests = {}
  <2>1. ~UNCHANGED vars /\ pass = "claim" /\ pass' = "write"
    BY DEF PassReturns, vars, callVars
  <2>2. Rebalance
    BY <2>1 DEF LoopNext, KernelStep, KernelCall, CreateTask, StartDirect, StartJob, NewJob,
         CancelTask, CompleteTask, PatchJob, PauseJob, ResumeJob, AbortJob, RouteUnitDied,
         RouteUnitIdle, GameReset, Idle, callVars, AbortNext, EndClosing, TickStep, WorldStep,
         Appear, BecomeBusy, BecomeIdle, Vanish
  <2> QED BY <2>1, <2>2 DEF Rebalance, Collect, ClaimUnbound, ClaimByDegrading, ClaimByAborting,
            FinishRequest, ReadBindings, WriteBindings, inCall
<1>2. Pending(j, n) \/ Settled(j, n)
  BY DEF PassReturns, PassInv
<1> QED BY <1>1, <1>2 DEF Pending

\* What the pass has done what it could for is out of the job's reach.
LEMMA SettledServed ==
  ASSUME HoldInv, NEW j \in TopJobs, NEW n \in needs[j], Settled(j, n), requests = {},
         NEW a \in n.match, Present(a)
  PROVE  /\ Free(n, a) => ~Reachable(jobTask[j], a)
         /\ bindings[a] # None => Rank(bindings[a]) >= Rank(j) \/ TakenBusy(n, a)
<1>1. bindings[a] # None => Rank(bindings[a]) >= Rank(j) \/ TakenBusy(n, a)
  BY DEF Settled, HeldFast
<1>2. ASSUME Free(n, a) PROVE ~Reachable(jobTask[j], a)
  <2>1. PICK u \in Task \ {jobTask[j]} : a \in groups[u] /\ priority[u] >= Rank(j)
    BY <1>2 DEF Settled, Free, Shielded
  <2>2. j \in Job /\ Known(j)
    BY DEF TopJobs, Live, Known, HoldInv, TypeOK
  <2>3. Rank(j) \in Int /\ priority[u] \in Int
    BY <2>1, <2>2, RankInt DEF HoldInv, AgreeInv
  <2>4. ~(priority[u] < priority[jobTask[j]])
    BY <2>1, <2>3 DEF Rank
  <2> QED BY <2>1, <2>4 DEF Reachable
<1> QED BY <1>1, <1>2

\* A pass leaves no job of the highest rank short of a unit that is free and in
\* its reach, or that a lower ranking task holds (rebalance_resources,
\* find_unbound_resource, find_preemptable_resource).
THEOREM TopIsServed == LoopSpec => PassServesTop
<1>1. HoldInv /\ PassInv /\ [LoopNext]_vars =>
        [PassReturns =>
           \A j \in TopJobs : \A n \in needs[j] : Missing(j, n) > 0 =>
             \A a \in n.match : Present(a) =>
               /\ Free(n, a) => ~Reachable(jobTask[j], a)
               /\ bindings[a] # None => Rank(bindings[a]) >= Rank(j) \/ TakenBusy(n, a)]_vars
  BY PassEnd, SettledServed
<1> QED BY <1>1, PassesServe, PTL DEF LoopSpec, PassServesTop

\* It leaves none running while its start package is short, when every unit of
\* the group counts for the package (needs_startup_gate, on_resource_granted).
THEOREM PackageHolds == LoopSpec => PackageHoldsStart
<1>1. HoldInv /\ PassInv /\ [LoopNext]_vars =>
        [PassReturns =>
           \A j \in TopJobs : \A n \in needs[j] :
             n.gate /\ CountsAll(j, n) /\ Missing(j, n) > 0 => jobStatus[j] = "waiting"]_vars
  BY PassEnd DEF Settled
<1> QED BY <1>1, PassesServe, PTL DEF LoopSpec, PackageHoldsStart

-----------------------------------------------------------------------------
(* The kernel keeps what UnitHolding promises.                             *)

TaskView(s, unmanned, closes) ==
  IF s = "none" THEN "new" ELSE IF s = "cleared" THEN "gone" ELSE IF s = "running" THEN "open"
  ELSE IF unmanned THEN "loose" ELSE IF closes THEN "ended" ELSE "over"

JobView(s) == IF s = "none" THEN "new" ELSE IF s \in {"running", "waiting"} THEN "live" ELSE "done"

TaskState == [t \in Task |-> TaskView(status[t], direct[t], closing = t)]
JobState  == [j \in Job |-> JobView(jobStatus[j])]
Serves    == [j \in Job |-> IF jobStatus[j] = "none" THEN None ELSE jobTask[j]]
Dead      == {a \in Actor : world[a] = "dead"}

Holding == INSTANCE UnitHolding
             WITH task <- TaskState, rank <- priority, job <- JobState,
                  serves <- Serves, holder <- bindings, lost <- Dead

\* Who is reported dead is, and the task of a known job is known.
MapInv ==
  /\ died \subseteq Dead
  /\ \A j \in Job : Known(j) => status[jobTask[j]] \notin {"none", "cleared"}

LEMMA MapInit == Init => MapInv
BY DEF Init, MapInv, Known

LEMMA MapStep == HoldInv /\ MapInv /\ [LoopNext]_vars => MapInv'
<1> SUFFICES ASSUME HoldInv, MapInv, [LoopNext]_vars PROVE MapInv'
  OBVIOUS
<1> USE DEF taskVars, jobVars, holdVars, worldVars, callVars, inCall, tickVars
<1>0. TypeOK /\ TypeOK' /\ JobsHaveTasks /\ JobsHaveTasks'
  BY HoldStep DEF HoldInv, AgreeInv
<1>1. died' \subseteq Dead'
  <2>1. CASE WorldStep
    BY <2>1, <1>0 DEF WorldStep, Appear, BecomeBusy, BecomeIdle, Vanish, MapInv, Dead, TypeOK
  <2>2. CASE ~WorldStep
    <3>1. world' = world /\ died' \subseteq died
      <4>1. CASE UNCHANGED vars
        BY <4>1 DEF vars
      <4>2. CASE KernelCall
        BY <4>2 DEF KernelCall, CreateTask, StartDirect, StartJob, NewJob, CancelTask, CompleteTask, PatchJob,
             PauseJob, ResumeJob, AbortJob, RouteUnitDied, RouteUnitIdle, GameReset
      <4>3. CASE KernelStep
        BY <4>3 DEF KernelStep, Rebalance, Collect, ClaimUnbound, ClaimByDegrading, ClaimByAborting,
             FinishRequest, ReadBindings, WriteBindings, AbortNext, EndClosing
      <4>4. CASE TickStep
        BY <4>4 DEF TickStep, TickDue, TickBegin, TickEnd, TickFinish, TickStuck, TickArrive, TickSync
      <4> QED BY <2>2, <4>1, <4>2, <4>3, <4>4 DEF LoopNext
    <3> QED BY <3>1 DEF MapInv, Dead
  <2> QED BY <2>1, <2>2
<1>2. ASSUME NEW j \in Job, Known(j)' PROVE status'[jobTask'[j]] \notin {"none", "cleared"}
  <2>1. CASE GameReset
    BY <2>1, <1>2, <1>0 DEF GameReset, Cleared, Known, TypeOK
  <2>2. ASSUME NEW t \in Task, NEW p \in Priority, NEW i \in Job, NEW ns \in Config, StartDirect(t, p, i, ns)
        PROVE  status'[jobTask'[j]] \notin {"none", "cleared"}
    BY <2>2, <1>0, <1>2 DEF StartDirect, NewJob, MapInv, Known, TypeOK, JobsHaveTasks
  <2>3. ASSUME NEW t \in Task, NEW i \in Job, NEW ns \in Config, StartJob(t, i, ns)
        PROVE  status'[jobTask'[j]] \notin {"none", "cleared"}
    BY <2>3, <1>0, <1>2 DEF StartJob, NewJob, MapInv, Known, TypeOK, JobsHaveTasks, Open
  <2>4. CASE ~GameReset /\ ~(\E t \in Task, p \in Priority, i \in Job, ns \in Config : StartDirect(t, p, i, ns))
              /\ ~(\E t \in Task, i \in Job, ns \in Config : StartJob(t, i, ns))
    <3>1. /\ jobTask' = jobTask /\ (Known(j)' => Known(j))
          /\ \A t \in Task : status[t] \notin {"none", "cleared"} => status'[t] \notin {"none", "cleared"}
      <4>0. Outcome \subseteq TaskEnded /\ JobOutcome \subseteq JobEnded
        BY ConstantsOK DEF JobOutcome, TaskEnded, JobEnded
      <4>1. CASE UNCHANGED vars
        BY <4>1 DEF vars, Known
      <4>2. CASE KernelCall
        <5> DEFINE Same == /\ jobTask' = jobTask /\ (Known(j)' => Known(j))
                           /\ \A t \in Task : status[t] \notin {"none", "cleared"} =>
                                status'[t] \notin {"none", "cleared"}
        <5>1. ASSUME NEW t \in Task, NEW p \in Priority, CreateTask(t, p) PROVE Same
          BY <5>1, <1>0 DEF CreateTask, Known, TypeOK
        <5>2. ASSUME NEW t \in Task, CancelTask(t) \/ \E result \in Outcome : CompleteTask(t, result) PROVE Same
          BY <5>2, <4>0, <1>0 DEF CancelTask, CompleteTask, Known, TypeOK, TaskEnded
        <5>3. ASSUME NEW i \in Job, (\E ns \in Config : PatchJob(i, ns)) \/ PauseJob(i) \/ ResumeJob(i) PROVE Same
          BY <5>3, <1>0 DEF PatchJob, PauseJob, ResumeJob, Known, Live, TypeOK
        <5>4. ASSUME NEW i \in Job, AbortJob(i) PROVE Same
          BY <5>4, <1>0 DEF AbortJob, Known, TypeOK
        <5>5. ASSUME NEW a \in Actor, RouteUnitDied(a) PROVE Same
          BY <5>5, <1>0 DEF RouteUnitDied, Known, Live, TypeOK
        <5>6. ASSUME RouteUnitIdle PROVE Same
          BY <5>6 DEF RouteUnitIdle, Known
        <5> HIDE DEF Same
        <5>7. Same
          BY <2>4, <4>2, <5>1, <5>2, <5>3, <5>4, <5>5, <5>6 DEF KernelCall
        <5> QED BY <5>7 DEF Same
      <4>3. CASE KernelStep
        <5>1. ASSUME NEW r \in requests, NEW a \in Actor,
                     ClaimUnbound(r, a) \/ ClaimByDegrading(r, a) \/ ClaimByAborting(r, a)
              PROVE  jobTask' = jobTask /\ (Known(j)' => Known(j)) /\
                     \A t \in Task : status[t] \notin {"none", "cleared"} => status'[t] \notin {"none", "cleared"}
          <6>1. Known(r.job)
            BY RequestKnown DEF HoldInv
          <6>2. Moves(r, a)
            BY <5>1, <6>1, ClaimMoves DEF HoldInv
          <6> QED BY <6>2, <1>0 DEF Moves, TypeOK
        <5>2. CASE Collect \/ ReadBindings \/ WriteBindings \/ \E r \in requests : FinishRequest(r)
          BY <5>2, <1>0 DEF Collect, ReadBindings, WriteBindings, FinishRequest, Known, Live, TypeOK
        <5>3. CASE EndClosing \/ \E i \in Job : AbortNext(i)
          BY <5>3, <1>0 DEF EndClosing, AbortNext, Known, Live, TypeOK
        <5> QED BY <4>3, <5>1, <5>2, <5>3 DEF KernelStep, Rebalance
      <4>4. CASE TickStep
        <5>1. ASSUME NEW result \in JobOutcome, TickFinish(result)
              PROVE  jobTask' = jobTask /\ (Known(j)' => Known(j)) /\
                     \A t \in Task : status[t] \notin {"none", "cleared"} => status'[t] \notin {"none", "cleared"}
          BY <5>1, <4>0, <1>0 DEF TickFinish, InTick, JobsHaveTasks, Known, TypeOK, JobEnded
        <5>2. CASE TickStuck \/ TickArrive
          BY <5>2, <1>0 DEF TickStuck, TickArrive, InTick, JobsHaveTasks, Known, TypeOK
        <5>3. CASE TickBegin \/ TickEnd \/ TickSync \/ \E i \in Job : TickDue(i)
          BY <5>3 DEF TickBegin, TickEnd, TickSync, TickDue, Known
        <5> QED BY <4>4, <5>1, <5>2, <5>3 DEF TickStep
      <4>5. CASE WorldStep
        BY <4>5 DEF WorldStep, Appear, BecomeBusy, BecomeIdle, Vanish, Known
      <4> QED BY <4>1, <4>2, <4>3, <4>4, <4>5 DEF LoopNext
    <3> QED BY <3>1, <1>0, <1>2 DEF MapInv, JobsHaveTasks, Known
  <2> QED BY <2>1, <2>2, <2>3, <2>4
<1> QED BY <1>1, <1>2 DEF MapInv

\* What a step may do to the tasks and jobs that stop in it, seen as a whole:
\* the jobs of K give up their units, and are jobs that stop or have stopped, or
\* whose task has.
Lets(K) ==
  /\ UNCHANGED <<priority, jobTask>>
  /\ \A j \in Job : \/ JobState'[j] = JobState[j]
                    \/ JobState[j] = "live" /\ JobState'[j] = "done"
  /\ \A t \in Task : \/ TaskState'[t] = TaskState[t]
                     \/ TaskState[t] = "open" /\ TaskState'[t] \in {"ended", "loose"}
  /\ \A k \in K : jobStatus[k] # "none" /\ (JobState'[k] = "done" \/ TaskState'[jobTask[k]] # "open")

StoppedJobs == {j \in Job : JobState[j] = "live" /\ JobState'[j] = "done"}
EndedTasks == {t \in Task : TaskState[t] = "open" /\ TaskState'[t] # "open"}

LEMMA ViewTypes ==
  /\ TaskState = [t \in Task |-> TaskState[t]]
  /\ JobState = [j \in Job |-> JobState[j]]
  /\ Serves = [j \in Job |-> Serves[j]]
BY DEF TaskState, JobState, Serves

LEMMA StopsMaps ==
  ASSUME HoldInv, NEW K \in SUBSET Job, Lets(K)
  PROVE  /\ Holding!Stops(StoppedJobs, EndedTasks)
         /\ \A k \in K : Holding!Ended(k)
         /\ \A k \in Job : jobStatus[k] # "none" => Serves[k] = jobTask[k]
         /\ UNCHANGED Serves
<1> DEFINE J == StoppedJobs
           T == EndedTasks
           how == [t \in Task |-> IF t \in T THEN TaskState'[t] ELSE "ended"]
<1>1. JobState' = [j \in Job |-> JobState'[j]] /\ TaskState' = [t \in Task |-> TaskState'[t]]
  BY DEF JobState, TaskState
<1>2. /\ \A j \in J : JobState[j] = "live"
      /\ \A t \in T : TaskState[t] = "open"
  BY DEF StoppedJobs, EndedTasks
<1>3. JobState' = [j \in Job |-> IF j \in J THEN "done" ELSE JobState[j]]
  <2>1. \A j \in Job : JobState'[j] = IF j \in J THEN "done" ELSE JobState[j]
    BY DEF Lets, StoppedJobs
  <2> HIDE DEF J
  <2> QED BY <1>1, <2>1
<1>4. how \in [Task -> {"ended", "loose"}]
  BY DEF Lets, EndedTasks
<1>5. TaskState' = [t \in Task |-> IF t \in T THEN how[t] ELSE TaskState[t]]
  <2>1. \A t \in Task : TaskState'[t] = IF t \in T THEN how[t] ELSE TaskState[t]
    BY DEF Lets, EndedTasks
  <2> HIDE DEF T, how
  <2> QED BY <1>1, <2>1
<1>6. \A j \in Job : jobStatus'[j] = "none" <=> jobStatus[j] = "none"
  <2>1. \A j \in Job : /\ JobState[j] = "new" <=> jobStatus[j] = "none"
                       /\ JobState'[j] = "new" <=> jobStatus'[j] = "none"
    BY DEF JobState, JobView
  <2> QED BY <2>1 DEF Lets
<1>7. Serves' = Serves
  BY <1>6 DEF Serves, Lets
<1>8. \A k \in Job : jobStatus[k] # "none" => Serves[k] = jobTask[k] /\ JobState[k] # "new"
  BY DEF Serves, JobState, JobView
<1>9. \A k \in K : Holding!Ended(k)
  BY <1>8 DEF Lets, Holding!Ended
<1> HIDE DEF how, J, T
<1>10. Holding!Stops(J, T)
  BY <1>2, <1>3, <1>4, <1>5, <1>7 DEF Holding!Stops, Lets
<1> QED BY <1>7, <1>8, <1>9, <1>10 DEF J, T

\* A step that takes no unit.
LEMMA EndMaps ==
  ASSUME HoldInv, TypeOK', NEW K \in SUBSET Job, Lets(K), Dead' = Dead,
         \A a \in Actor : bindings'[a] = IF bindings[a] \in K THEN None ELSE bindings[a]
  PROVE  Holding!Next
<1>1. Holding!Stops(StoppedJobs, EndedTasks) /\ \A k \in K : Holding!Ended(k)
  BY StopsMaps
<1>2. bindings' = Holding!Freed(K)
  BY DEF Holding!Freed, TypeOK
<1>3. StoppedJobs \in SUBSET Job /\ EndedTasks \in SUBSET Task
  BY DEF StoppedJobs, EndedTasks
<1>4. Holding!End(StoppedJobs, EndedTasks, K)
  BY <1>1, <1>2 DEF Holding!End
<1> QED BY <1>3, <1>4 DEF Holding!Next

\* A claim.
LEMMA TakeMaps ==
  ASSUME HoldInv, TypeOK', MapInv, NEW r \in requests, NEW a \in Actor, Shifts(r, a),
         NEW K \in SUBSET Job, Lets(K),
         \A k \in K \cup StoppedJobs : jobStatus[k] # "none" /\ Rank(k) < Rank(r.job),
         \A t \in EndedTasks : priority[t] < Rank(r.job),
         \A b \in Actor \ {a} : bindings'[b] = IF bindings[b] \in K THEN None ELSE bindings[b]
  PROVE  Holding!Next
<1>1. /\ Holding!Stops(StoppedJobs, EndedTasks) /\ \A k \in K : Holding!Ended(k)
      /\ \A k \in Job : jobStatus[k] # "none" => Serves[k] = jobTask[k]
  BY StopsMaps
<1>2. r.job \in Job /\ Known(r.job) /\ (Open(jobTask[r.job]) \/ direct[jobTask[r.job]]) /\ jobTask[r.job] \in Task
  BY RequestKnown DEF HoldInv, Asked
<1>3. JobState[r.job] # "new" /\ Serves[r.job] = jobTask[r.job]
  BY <1>1, <1>2 DEF Known, JobState, JobView
<1>4. TaskState[Serves[r.job]] \in {"open", "loose"}
  BY <1>2, <1>3 DEF MapInv, TaskState, TaskView, Open
<1>5. a \notin Dead /\ Dead' = Dead
  BY DEF Shifts, Present, Dead
<1>6. \A k \in Job : jobStatus[k] # "none" /\ Rank(k) < Rank(r.job) => Holding!Outranks(r.job, k)
  BY <1>1, <1>3 DEF Holding!Outranks, Holding!Ranks, Rank
<1>7. bindings[a] # None => Holding!Outranks(r.job, bindings[a])
  <2> SUFFICES ASSUME bindings[a] # None PROVE Holding!Outranks(r.job, bindings[a])
    OBVIOUS
  <2>1. bindings[a] \in Job /\ Rank(bindings[a]) < Rank(r.job)
    BY DEF Shifts, HoldInv, AgreeInv, TypeOK
  <2>2. jobStatus[bindings[a]] # "none"
    BY DEF HoldInv, BoundKnown, Known
  <2> QED BY <1>6, <2>1, <2>2
<1>8. StoppedJobs \in SUBSET Job /\ EndedTasks \in SUBSET Task
  BY DEF StoppedJobs, EndedTasks
<1>9. \A k \in StoppedJobs \cup K : Holding!Outranks(r.job, k)
  BY <1>6, <1>8
<1>10. \A t \in EndedTasks : priority[t] < Holding!Ranks(r.job)
  BY <1>3 DEF Holding!Ranks, Rank
<1>11. bindings' = [Holding!Freed(K) EXCEPT ![a] = r.job]
  BY DEF Holding!Freed, TypeOK, Shifts
<1>12. Holding!Take(r.job, a, StoppedJobs, EndedTasks, K)
  BY <1>1, <1>3, <1>4, <1>5, <1>7, <1>9, <1>10, <1>11 DEF Holding!Take
<1> QED BY <1>2, <1>8, <1>12 DEF Holding!Next

\* A step that leaves the units with their jobs and stops whom it likes.
LEMMA QuietMaps ==
  ASSUME HoldInv, TypeOK', bindings' = bindings, Dead' = Dead, Lets({})
  PROVE  Holding!Next
<1>1. \A a \in Actor : bindings'[a] = IF bindings[a] \in {} THEN None ELSE bindings[a]
  OBVIOUS
<1> QED BY <1>1, EndMaps

LEMMA ClaimMaps ==
  ASSUME HoldInv, HoldInv', MapInv, NEW r \in requests, NEW a \in Actor,
         ClaimUnbound(r, a) \/ ClaimByDegrading(r, a) \/ ClaimByAborting(r, a)
  PROVE  Holding!Next
<1> DEFINE h == bindings[a]
<1>0. /\ TypeOK /\ TypeOK' /\ BindingsAgree /\ r.job \in Job /\ Known(r.job) /\ Shifts(r, a)
      /\ Rank(r.job) \in Int /\ None \notin Job
  BY RequestKnown, ClaimShifts, ConstantsOK DEF HoldInv, AgreeInv
<1>1. CASE ClaimUnbound(r, a) \/ ClaimByDegrading(r, a)
  <2>1. /\ UNCHANGED <<status, priority, direct, jobTask, closing>>
        /\ bindings' = [bindings EXCEPT ![a] = r.job]
        /\ jobStatus' = Woken(jobStatus, r.job)
    BY <1>1 DEF ClaimUnbound, ClaimByDegrading, taskVars, inCall
  <2>2. TaskState' = TaskState /\ EndedTasks = {}
    BY <2>1 DEF TaskState, EndedTasks
  <2>3. \A j \in Job : JobState'[j] = JobState[j]
    BY <2>1, <1>0 DEF JobState, JobView, Woken, TypeOK
  <2>4. StoppedJobs = {}
    BY <2>3 DEF StoppedJobs
  <2>5. Lets({})
    BY <2>1, <2>2, <2>3 DEF Lets
  <2>6. \A b \in Actor \ {a} : bindings'[b] = IF bindings[b] \in {} THEN None ELSE bindings[b]
    BY <2>1, <1>0 DEF TypeOK
  <2>7. {} \in SUBSET Job
    OBVIOUS
  <2> QED BY <1>0, <2>2, <2>4, <2>5, <2>6, <2>7, TakeMaps
<1>2. CASE ClaimByAborting(r, a)
  <2> DEFINE t == jobTask[h]
             K == AbortSet(h)
  <2>1. Victim(r, a)
    BY <1>2 DEF ClaimByAborting
  <2>2. /\ h \in Job /\ h # r.job /\ Known(h) /\ t \in Task /\ Rank(h) \in Int /\ Rank(h) < Rank(r.job)
        /\ priority[t] = Rank(h)
    <3>1. h # None /\ h # r.job /\ Rank(h) < Rank(r.job)
      BY <2>1 DEF Victim, Preemptable
    <3> QED BY <3>1, HolderKnown DEF Rank
  <2>3. /\ UNCHANGED <<priority, direct, jobTask, closing>>
        /\ bindings' = [b \in Actor |-> IF b = a THEN r.job
                                  ELSE IF \E j \in AbortSet(h) : b \in resources[j] THEN None
                                  ELSE bindings[b]]
        /\ jobStatus' = Woken([jobStatus EXCEPT ![h] = "aborted"], r.job)
        /\ status' = IF EndsDirect(h) THEN [status EXCEPT ![t] = "failed"] ELSE status
    BY <1>2 DEF ClaimByAborting, inCall
  <2>4. K \in SUBSET Job /\ \A k \in K : Known(k) /\ Rank(k) = Rank(h)
    BY <2>2 DEF AbortSet, JobsOf, Known, Rank
  <2>5. \A b \in Actor \ {a} : bindings'[b] = IF bindings[b] \in K THEN None ELSE bindings[b]
    BY <1>0, <2>3, <2>4 DEF BindingsAgree
  <2>6. /\ \A j \in Job \ {h} : JobState'[j] = JobState[j]
        /\ JobState'[h] = "done" /\ JobState[h] # "new"
    BY <1>0, <2>2, <2>3 DEF JobState, JobView, Woken, TypeOK, Known
  <2>7. /\ \A s \in Task \ {t} : TaskState'[s] = TaskState[s]
        /\ EndsDirect(h) => TaskState[t] = "open" /\ TaskState'[t] = "loose"
        /\ ~EndsDirect(h) => TaskState'[t] = TaskState[t]
    BY <1>0, <2>2, <2>3 DEF TaskState, TaskView, EndsDirect, Open, TypeOK
  <2>8. StoppedJobs \subseteq {h} /\ EndedTasks \subseteq {t}
    BY <2>6, <2>7 DEF StoppedJobs, EndedTasks
  <2>9. \A j \in Job : JobState[j] \in {"new", "live", "done"}
    BY DEF JobState, JobView
  <2>10. \A k \in K : jobStatus[k] # "none" /\ (JobState'[k] = "done" \/ TaskState'[jobTask[k]] # "open")
    <3>1. \A k \in K : k = h \/ (EndsDirect(h) /\ jobTask[k] = t)
      BY DEF AbortSet, JobsOf
    <3> HIDE DEF K, h, t
    <3> QED BY <2>4, <2>6, <2>7, <3>1 DEF Known
  <2>11. Lets(K)
    <3> HIDE DEF K, h, t
    <3> QED BY <2>2, <2>3, <2>6, <2>7, <2>9, <2>10 DEF Lets
  <2>12. /\ \A k \in K \cup StoppedJobs : jobStatus[k] # "none" /\ Rank(k) < Rank(r.job)
         /\ \A s \in EndedTasks : priority[s] < Rank(r.job)
    <3> HIDE DEF K, h, t
    <3> QED BY <1>0, <2>2, <2>4, <2>8 DEF Known
  <2> HIDE DEF K, h, t
  <2> QED BY <1>0, <2>4, <2>5, <2>11, <2>12, TakeMaps
<1> QED BY <1>1, <1>2

LEMMA PassMaps ==
  ASSUME HoldInv, HoldInv', MapInv, Rebalance
  PROVE  Holding!Next
<1> USE DEF taskVars, jobVars, holdVars, worldVars, callVars, inCall, tickVars
<1>0. TypeOK /\ TypeOK' /\ (pass = "write" => copy = bindings)
  BY DEF HoldInv, AgreeInv
<1>1. CASE Collect \/ ReadBindings \/ WriteBindings
  <2>1. UNCHANGED <<status, priority, direct, jobTask, jobStatus, bindings, world, closing>>
    BY <1>0, <1>1 DEF Collect, ReadBindings, WriteBindings
  <2>2. Lets({}) /\ Dead' = Dead
    BY <2>1 DEF Lets, TaskState, JobState, Dead
  <2> QED BY <1>0, <2>1, <2>2, QuietMaps
<1>2. ASSUME NEW r \in requests, FinishRequest(r) PROVE Holding!Next
  <2>1. /\ UNCHANGED <<status, priority, direct, jobTask, bindings, world, closing>>
        /\ jobStatus' = jobStatus \/ (Live(r.job) /\ jobStatus' = [jobStatus EXCEPT ![r.job] = "waiting"])
    BY <1>2 DEF FinishRequest
  <2>2. TaskState' = TaskState /\ Dead' = Dead
    BY <2>1 DEF TaskState, Dead
  <2>3. \A j \in Job : JobState'[j] = JobState[j]
    BY <1>0, <2>1 DEF JobState, JobView, Live, TypeOK
  <2>4. Lets({})
    BY <2>1, <2>2, <2>3 DEF Lets
  <2> QED BY <1>0, <2>1, <2>2, <2>4, QuietMaps
<1> QED BY <1>1, <1>2, ClaimMaps DEF Rebalance

LEMMA NewMaps ==
  ASSUME HoldInv, HoldInv', NEW t \in Task,
         \/ \E p \in Priority : CreateTask(t, p)
         \/ \E p \in Priority, j \in Job, ns \in Config : StartDirect(t, p, j, ns)
         \/ \E j \in Job, ns \in Config : StartJob(t, j, ns)
  PROVE  Holding!Next
<1> USE DEF taskVars, jobVars, holdVars, worldVars, callVars, inCall, tickVars
<1>0. TypeOK /\ TypeOK' /\ Priority \subseteq Int
  BY ConstantsOK DEF HoldInv, AgreeInv
<1>1. ASSUME NEW p \in Priority, status[t] = "none", status' = [status EXCEPT ![t] = "running"],
             priority' = [priority EXCEPT ![t] = p], closing' = closing, \A s \in Task \ {t} : direct'[s] = direct[s]
      PROVE  Holding!Opens(t)
  <2>1. TaskState[t] = "new" /\ TaskState'[t] = "open" /\ \A s \in Task \ {t} : TaskState'[s] = TaskState[s]
    BY <1>0, <1>1 DEF TaskState, TaskView, TypeOK
  <2>2. TaskState = [s \in Task |-> TaskState[s]] /\ TaskState' = [s \in Task |-> TaskState'[s]]
    BY DEF TaskState
  <2>3. TaskState' = [TaskState EXCEPT ![t] = "open"]
    BY <2>1, <2>2
  <2>4. p \in Int
    BY <1>0
  <2> QED BY <1>1, <2>1, <2>3, <2>4 DEF Holding!Opens
<1>2. ASSUME NEW j \in Job, NEW ns \in Config, jobStatus[j] = "none", NewJob(j, t, ns)
      PROVE  Holding!Starts(j, t) /\ Dead' = Dead /\ bindings' = bindings /\ closing' = closing
  <2>1. /\ jobTask' = [jobTask EXCEPT ![j] = t] /\ jobStatus' = [jobStatus EXCEPT ![j] = "running"]
        /\ UNCHANGED <<bindings, world, closing>>
    BY <1>2 DEF NewJob
  <2>2. /\ JobState[j] = "new" /\ JobState'[j] = "live" /\ \A i \in Job \ {j} : JobState'[i] = JobState[i]
        /\ Serves'[j] = t /\ \A i \in Job \ {j} : Serves'[i] = Serves[i]
    BY <1>0, <1>2, <2>1 DEF JobState, JobView, Serves, TypeOK
  <2>3. /\ JobState = [i \in Job |-> JobState[i]] /\ JobState' = [i \in Job |-> JobState'[i]]
        /\ Serves = [i \in Job |-> Serves[i]] /\ Serves' = [i \in Job |-> Serves'[i]]
    BY DEF JobState, Serves
  <2>4. JobState' = [JobState EXCEPT ![j] = "live"] /\ Serves' = [Serves EXCEPT ![j] = t]
    BY <2>2, <2>3
  <2> QED BY <2>1, <2>2, <2>4 DEF Holding!Starts, Dead
<1>3. ASSUME NEW p \in Priority, CreateTask(t, p) PROVE Holding!Next
  <2>1. Holding!Opens(t)
    BY <1>1, <1>3 DEF CreateTask, NextTask
  <2>2. UNCHANGED <<JobState, Serves, bindings, Dead>>
    BY <1>3 DEF CreateTask, JobState, Serves, Dead
  <2>3. Holding!NewTask(t)
    BY <2>1, <2>2 DEF Holding!NewTask, Holding!jobState
  <2> QED BY <2>3 DEF Holding!Next
<1>4. ASSUME NEW p \in Priority, NEW j \in Job, NEW ns \in Config, StartDirect(t, p, j, ns) PROVE Holding!Next
  <2>1. Holding!Starts(j, t) /\ Dead' = Dead /\ bindings' = bindings /\ closing' = closing
    BY <1>2, <1>4 DEF StartDirect, NextJob
  <2>2. \A s \in Task \ {t} : direct'[s] = direct[s]
    BY <1>0, <1>4 DEF StartDirect, TypeOK
  <2>3. Holding!Opens(t)
    BY <1>1, <1>4, <2>1, <2>2 DEF StartDirect, NextTask
  <2>4. Holding!NewTaskWithJob(t, j)
    BY <2>1, <2>3 DEF Holding!NewTaskWithJob
  <2> QED BY <2>4 DEF Holding!Next
<1>5. ASSUME NEW j \in Job, NEW ns \in Config, StartJob(t, j, ns) PROVE Holding!Next
  <2>1. Holding!Starts(j, t) /\ Dead' = Dead /\ bindings' = bindings /\ closing' = closing
    BY <1>2, <1>5 DEF StartJob, NextJob
  <2>2. status' = status /\ direct' = direct /\ priority' = priority /\ Open(t)
    BY <1>0, <1>5 DEF StartJob, Open, TypeOK
  <2>3. TaskState' = TaskState /\ TaskState[t] = "open"
    BY <2>1, <2>2 DEF TaskState, TaskView, Open
  <2>4. Holding!NewJob(j, t)
    BY <2>1, <2>2, <2>3 DEF Holding!NewJob, Holding!taskState
  <2> QED BY <2>4 DEF Holding!Next
<1> QED BY <1>3, <1>4, <1>5

\* A task that ends while nothing is given up.
LEMMA ClosesMaps ==
  ASSUME HoldInv, HoldInv', NEW t \in Task, Open(t), closing = None, closing' = t,
         NEW s \in TaskEnded, status' = [status EXCEPT ![t] = s],
         UNCHANGED <<priority, direct, jobTask, jobStatus, bindings, world>>
  PROVE  Holding!Next
<1>0. TypeOK /\ TypeOK' /\ None \notin Task
  BY ConstantsOK DEF HoldInv, AgreeInv
<1>1. TaskState[t] = "open" /\ TaskState'[t] \in {"ended", "loose"}
  BY <1>0 DEF TaskState, TaskView, Open, TypeOK, TaskEnded
<1>2. \A u \in Task \ {t} : TaskState'[u] = TaskState[u]
  BY <1>0 DEF TaskState, TaskView, TypeOK
<1>3. Lets({}) /\ Dead' = Dead
  BY <1>1, <1>2 DEF Lets, JobState, Dead
<1> QED BY <1>0, <1>3, QuietMaps

\* The end of jobs that give up their units, and of their task when it has no agent.
LEMMA ReleaseMaps ==
  ASSUME HoldInv, HoldInv', NEW i \in Job, Known(i), NEW s \in JobEnded, NEW K \in SUBSET Job,
         jobStatus' = [jobStatus EXCEPT ![i] = s], UNCHANGED <<priority, direct, jobTask, world, closing>>,
         \A a \in Actor : bindings'[a] = IF bindings[a] \in K THEN None ELSE bindings[a],
         \/ status' = status /\ K \subseteq {i}
         \/ /\ EndsDirect(i) /\ \E e \in TaskEnded : status' = [status EXCEPT ![jobTask[i]] = e]
            /\ K \subseteq JobsOf(jobTask[i]) \cup {i}
  PROVE  Holding!Next
<1> DEFINE t == jobTask[i]
<1>0. TypeOK /\ TypeOK' /\ t \in Task
  BY DEF HoldInv, AgreeInv, JobsHaveTasks, Known
<1>1. /\ \A j \in Job \ {i} : JobState'[j] = JobState[j]
      /\ JobState'[i] = "done" /\ JobState[i] \in {"live", "done"}
  BY <1>0 DEF JobState, JobView, TypeOK, Known, JobEnded
<1>2. Dead' = Dead
  BY DEF Dead
<1>3. CASE status' = status /\ K \subseteq {i}
  <2>1. TaskState' = TaskState
    BY <1>3 DEF TaskState
  <2>2. Lets(K)
    BY <1>1, <1>3, <2>1 DEF Lets, Known
  <2> QED BY <1>0, <1>2, <2>2, EndMaps
<1>4. ASSUME NEW e \in TaskEnded, EndsDirect(i), status' = [status EXCEPT ![t] = e], K \subseteq JobsOf(t) \cup {i}
      PROVE  Holding!Next
  <2>1. /\ \A u \in Task \ {t} : TaskState'[u] = TaskState[u]
        /\ TaskState[t] = "open" /\ TaskState'[t] = "loose"
    BY <1>0, <1>4 DEF TaskState, TaskView, EndsDirect, Open, TypeOK, TaskEnded
  <2>2. \A k \in K : jobStatus[k] # "none" /\ jobTask[k] = t
    BY <1>4 DEF JobsOf, Known
  <2> HIDE DEF t
  <2>3. Lets(K)
    BY <1>1, <2>1, <2>2 DEF Lets
  <2> QED BY <1>0, <1>2, <2>3, EndMaps
<1> QED BY <1>3, <1>4

LEMMA CallMaps ==
  ASSUME HoldInv, HoldInv', MapInv, KernelCall
  PROVE  Holding!Next
<1> USE DEF taskVars, jobVars, holdVars, worldVars, callVars, inCall, tickVars
<1>0. TypeOK /\ TypeOK' /\ BindingsAgree /\ JobsHaveTasks /\ Outcome \subseteq TaskEnded /\ None \notin Task
  BY ConstantsOK DEF HoldInv, AgreeInv, TaskEnded
<1>1. ASSUME NEW t \in Task, CancelTask(t) \/ \E result \in Outcome : CompleteTask(t, result)
      PROVE  Holding!Next
  <2>1. PICK s \in TaskEnded : status' = [status EXCEPT ![t] = s]
    BY <1>0, <1>1 DEF CancelTask, CompleteTask, TaskEnded
  <2>2. /\ Open(t) /\ closing = None /\ closing' = t
        /\ UNCHANGED <<priority, direct, jobTask, jobStatus, bindings, world>>
    BY <1>1 DEF CancelTask, CompleteTask, Idle
  <2> QED BY <2>1, <2>2, ClosesMaps
<1>2. ASSUME NEW j \in Job, (\E ns \in Config : PatchJob(j, ns)) \/ PauseJob(j) \/ ResumeJob(j)
      PROVE  Holding!Next
  <2>1. /\ UNCHANGED <<status, priority, direct, jobTask, bindings, world, closing>>
        /\ \/ jobStatus' = jobStatus
           \/ Live(j) /\ \E s \in {"running", "waiting"} : jobStatus' = [jobStatus EXCEPT ![j] = s]
    BY <1>2 DEF PatchJob, PauseJob, ResumeJob
  <2>2. \A i \in Job : JobState'[i] = JobState[i]
    BY <1>0, <2>1 DEF JobState, JobView, Live, TypeOK
  <2>3. Lets({}) /\ Dead' = Dead
    BY <2>1, <2>2 DEF Lets, TaskState, Dead
  <2> QED BY <1>0, <2>1, <2>3, QuietMaps
<1>3. ASSUME NEW j \in Job, AbortJob(j) PROVE Holding!Next
  <2>1. AbortSet(j) \in SUBSET Job
    BY DEF AbortSet, JobsOf
  <2>2. \A a \in Actor : bindings'[a] = IF bindings[a] \in AbortSet(j) THEN None ELSE bindings[a]
    BY <1>0, <1>3, <2>1, Unbinds DEF AbortJob
  <2>3. /\ Known(j) /\ jobStatus' = [jobStatus EXCEPT ![j] = "aborted"]
        /\ UNCHANGED <<priority, direct, jobTask, world, closing>>
        /\ status' = IF EndsDirect(j) THEN [status EXCEPT ![jobTask[j]] = "failed"] ELSE status
    BY <1>3 DEF AbortJob, Known
  <2>4. \/ status' = status /\ AbortSet(j) \subseteq {j}
        \/ /\ EndsDirect(j) /\ \E e \in TaskEnded : status' = [status EXCEPT ![jobTask[j]] = e]
           /\ AbortSet(j) \subseteq JobsOf(jobTask[j]) \cup {j}
    BY <2>3 DEF AbortSet, TaskEnded
  <2>5. "aborted" \in JobEnded
    BY DEF JobEnded
  <2> QED BY <2>1, <2>2, <2>3, <2>4, <2>5, ReleaseMaps
<1>4. ASSUME NEW a \in Actor, RouteUnitDied(a) PROVE Holding!Next
  <2> DEFINE holders == {j \in Job : Live(j) /\ a \in resources[j]}
  <2>1. /\ a \in Dead
        /\ UNCHANGED <<status, priority, direct, jobTask, world, closing>>
        /\ bindings' = IF holders = {} THEN bindings ELSE [bindings EXCEPT ![a] = None]
        /\ jobStatus' = [j \in Job |-> IF j \in holders /\ resources[j] = {a} THEN "waiting" ELSE jobStatus[j]]
    BY <1>4 DEF RouteUnitDied, MapInv
  <2>2. \A j \in holders : Live(j)
    OBVIOUS
  <2> HIDE DEF holders
  <2>3. \A i \in Job : JobState'[i] = JobState[i]
    BY <1>0, <2>1, <2>2 DEF JobState, JobView, Live, TypeOK
  <2>4. TaskState' = TaskState /\ Dead' = Dead
    BY <2>1 DEF TaskState, Dead
  <2>5. CASE holders = {}
    <3>1. Lets({}) /\ bindings' = bindings
      BY <2>1, <2>3, <2>4, <2>5 DEF Lets
    <3> QED BY <1>0, <2>4, <3>1, QuietMaps
  <2>6. CASE holders # {}
    <3>1. JobState' = JobState
      <4>1. JobState = [i \in Job |-> JobState[i]] /\ JobState' = [i \in Job |-> JobState'[i]]
        BY DEF JobState
      <4> QED BY <2>3, <4>1
    <3>2. Serves' = Serves
      BY <1>0, <2>1, <2>2 DEF Serves, Live, TypeOK
    <3>3. Holding!Bury(a)
      BY <2>1, <2>4, <2>6, <3>1, <3>2 DEF Holding!Bury, Holding!taskState, Holding!jobState
    <3> QED BY <3>3 DEF Holding!Next
  <2> QED BY <2>5, <2>6
<1>5. ASSUME RouteUnitIdle PROVE Holding!Next
  <2>1. UNCHANGED <<status, priority, direct, jobTask, jobStatus, bindings, world, closing>>
    BY <1>5 DEF RouteUnitIdle
  <2>2. Lets({}) /\ Dead' = Dead
    BY <2>1 DEF Lets, TaskState, JobState, Dead
  <2> QED BY <1>0, <2>1, <2>2, QuietMaps
<1>6. ASSUME GameReset PROVE Holding!Next
  <2>1. /\ status' = [t \in Task |-> IF status[t] = "none" THEN "none" ELSE "cleared"]
        /\ jobStatus' = [j \in Job |-> IF jobStatus[j] = "none" THEN "none" ELSE "cleared"]
        /\ bindings' = [a \in Actor |-> None]
        /\ UNCHANGED <<priority, direct, jobTask, world, closing>>
    BY <1>0, <1>6 DEF GameReset, Cleared, NoBindings, TypeOK
  <2>2. \A t \in Task : TaskState'[t] = IF TaskState[t] = "new" THEN "new" ELSE "gone"
    BY <2>1 DEF TaskState, TaskView
  <2>3. \A j \in Job : JobState'[j] = IF JobState[j] = "new" THEN "new" ELSE "done"
    BY <2>1 DEF JobState, JobView
  <2>4. TaskState' = [t \in Task |-> TaskState'[t]] /\ JobState' = [j \in Job |-> JobState'[j]]
    BY DEF TaskState, JobState
  <2>5. /\ TaskState' = [t \in Task |-> IF TaskState[t] = "new" THEN "new" ELSE "gone"]
        /\ JobState' = [j \in Job |-> IF JobState[j] = "new" THEN "new" ELSE "done"]
    BY <2>2, <2>3, <2>4
  <2>6. Serves' = Serves /\ Dead' = Dead
    BY <2>1 DEF Serves, Dead
  <2>7. Holding!Forget
    BY <2>1, <2>5, <2>6 DEF Holding!Forget
  <2> QED BY <2>7 DEF Holding!Next
<1> QED BY <1>1, <1>2, <1>3, <1>4, <1>5, <1>6, NewMaps DEF KernelCall

LEMMA ClosingMaps ==
  ASSUME HoldInv, HoldInv', EndClosing \/ \E j \in Job : AbortNext(j)
  PROVE  Holding!Next
<1> USE DEF taskVars, jobVars, holdVars, worldVars, callVars, inCall, tickVars
<1>0. TypeOK /\ TypeOK' /\ BindingsAgree /\ None \notin Task /\ None \notin Job
  BY ConstantsOK DEF HoldInv, AgreeInv
<1>1. ASSUME NEW j \in Job, AbortNext(j) PROVE Holding!Next
  <2>1. /\ Known(j) /\ jobStatus' = [jobStatus EXCEPT ![j] = "aborted"] /\ Release({j})
        /\ UNCHANGED <<status, priority, direct, jobTask, world, closing>>
    BY <1>1 DEF AbortNext, Known, Live
  <2>2. {j} \in SUBSET Job /\ "aborted" \in JobEnded
    BY DEF JobEnded
  <2>3. \A a \in Actor : bindings'[a] = IF bindings[a] \in {j} THEN None ELSE bindings[a]
    BY <1>0, <2>1, <2>2, Unbinds
  <2> QED BY <2>1, <2>2, <2>3, ReleaseMaps
<1>2. CASE EndClosing
  <2> DEFINE t == closing
             K == JobsOf(t)
  <2>1. /\ t \in Task /\ closing' = None /\ Release(K) /\ \A j \in K : ~Live(j)
        /\ UNCHANGED <<status, priority, direct, jobTask, jobStatus, world>>
    BY <1>0, <1>2 DEF EndClosing, TypeOK
  <2>2. K \in SUBSET Job
    BY DEF JobsOf
  <2>3. \A a \in Actor : bindings'[a] = IF bindings[a] \in K THEN None ELSE bindings[a]
    BY <1>0, <2>1, <2>2, Unbinds
  <2>4. JobState' = JobState /\ Serves' = Serves /\ Dead' = Dead
    BY <2>1 DEF JobState, Serves, Dead
  <2>5. \A u \in Task \ {t} : TaskState'[u] = TaskState[u]
    BY <1>0, <2>1 DEF TaskState, TaskView
  <2>6. TaskState'[t] = IF TaskState[t] = "ended" THEN "over" ELSE TaskState[t]
    BY <1>0, <2>1 DEF TaskState, TaskView
  <2>7. \A j \in K : JobState[j] = "done" /\ jobStatus[j] # "none"
    BY <2>1 DEF JobState, JobView, Live, JobsOf
  <2>8. CASE TaskState[t] = "ended"
    <3> DEFINE L == {j \in Job : JobState[j] # "new" /\ Serves[j] = t}
    <3>1. \A j \in Job : Known(j) => (j \in L <=> j \in K)
      BY DEF Known, JobsOf, JobState, JobView, Serves
    <3>2. \A a \in Actor : bindings[a] # None => bindings[a] \in Job /\ Known(bindings[a])
      BY <1>0 DEF HoldInv, BoundKnown, TypeOK
    <3>3. None \notin L /\ None \notin K
      BY <1>0, <2>2
    <3>4. \A j \in Job : Serves[j] = t => JobState[j] # "live"
      BY <1>0, <2>1 DEF Serves, JobState, JobView, JobsOf, Live
    <3>5. TaskState' = [TaskState EXCEPT ![t] = "over"]
      <4>1. TaskState = [u \in Task |-> TaskState[u]] /\ TaskState' = [u \in Task |-> TaskState'[u]]
        BY DEF TaskState
      <4> QED BY <2>5, <2>6, <2>8, <4>1
    <3> HIDE DEF K, L
    <3>6. \A a \in Actor : bindings'[a] = IF bindings[a] \in L THEN None ELSE bindings[a]
      BY <2>3, <3>1, <3>2, <3>3
    <3>7. bindings' = Holding!Freed(L)
      BY <1>0, <3>6 DEF Holding!Freed, TypeOK
    <3>8. Holding!Close(t)
      BY <2>1, <2>4, <2>8, <3>4, <3>5, <3>7 DEF Holding!Close, Holding!jobState, L
    <3> QED BY <2>1, <3>8 DEF Holding!Next
  <2>9. CASE TaskState[t] # "ended"
    <3>1. \A u \in Task : TaskState'[u] = TaskState[u]
      BY <2>5, <2>6, <2>9
    <3> HIDE DEF K
    <3>2. Lets(K)
      BY <2>1, <2>4, <2>7, <3>1 DEF Lets
    <3> QED BY <1>0, <2>2, <2>3, <2>4, <3>2, EndMaps
  <2> QED BY <2>8, <2>9
<1> QED BY <1>1, <1>2

LEMMA TickMaps ==
  ASSUME HoldInv, HoldInv', TickStep, Idle
  PROVE  Holding!Next
<1> USE DEF taskVars, jobVars, holdVars, worldVars, callVars, inCall, tickVars
<1>0. /\ TypeOK /\ TypeOK' /\ BindingsAgree /\ JobsHaveTasks /\ (phase = "sync" => tickCopy = bindings)
      /\ JobOutcome \subseteq TaskEnded /\ JobOutcome \subseteq JobEnded
  BY ConstantsOK DEF HoldInv, AgreeInv, JobOutcome, TaskEnded, JobEnded
<1>1. CASE TickBegin \/ TickEnd \/ TickSync \/ \E j \in Job : TickDue(j)
  <2>1. UNCHANGED <<status, priority, direct, jobTask, jobStatus, bindings, world, closing>>
    BY <1>0, <1>1 DEF TickBegin, TickEnd, TickSync, TickDue
  <2>2. Lets({}) /\ Dead' = Dead
    BY <2>1 DEF Lets, TaskState, JobState, Dead
  <2> QED BY <1>0, <2>1, <2>2, QuietMaps
<1>2. ASSUME NEW result \in JobOutcome, TickFinish(result) PROVE Holding!Next
  <2> DEFINE t == jobTask[ticking]
             K == IF EndsDirect(ticking) THEN JobsOf(t) ELSE {}
  <2>1. /\ ticking \in Job /\ Known(ticking) /\ jobStatus' = [jobStatus EXCEPT ![ticking] = result]
        /\ UNCHANGED <<priority, direct, jobTask, world, closing>>
    BY <1>0, <1>2 DEF TickFinish, InTick, JobsHaveTasks, Known, TypeOK
  <2>2. K \in SUBSET Job
    BY DEF JobsOf
  <2>3. \A a \in Actor : bindings'[a] = IF bindings[a] \in K THEN None ELSE bindings[a]
    <3>1. CASE EndsDirect(ticking)
      <4>1. Release(JobsOf(t)) /\ JobsOf(t) \in SUBSET Job
        BY <1>2, <3>1 DEF TickFinish, JobsOf
      <4> QED BY <1>0, <3>1, <4>1, Unbinds
    <3>2. CASE ~EndsDirect(ticking)
      BY <1>2, <3>2 DEF TickFinish
    <3> QED BY <3>1, <3>2
  <2>4. \/ status' = status /\ K \subseteq {ticking}
        \/ /\ EndsDirect(ticking) /\ \E e \in TaskEnded : status' = [status EXCEPT ![t] = e]
           /\ K \subseteq JobsOf(t) \cup {ticking}
    BY <1>0, <1>2 DEF TickFinish
  <2> HIDE DEF K
  <2> QED BY <1>0, <2>1, <2>2, <2>3, <2>4, ReleaseMaps
<1>3. CASE TickStuck
  <2>1. /\ ticking \in Job /\ Known(ticking) /\ jobStatus' = [jobStatus EXCEPT ![ticking] = "failed"]
        /\ UNCHANGED <<status, bindings, priority, direct, jobTask, world, closing>>
    BY <1>0, <1>3 DEF TickStuck, InTick, JobsHaveTasks, Known, TypeOK
  <2>2. "failed" \in JobEnded /\ {} \in SUBSET Job /\ {} \subseteq {ticking}
    BY DEF JobEnded
  <2>3. \A a \in Actor : bindings'[a] = IF bindings[a] \in {} THEN None ELSE bindings[a]
    BY <2>1
  <2> QED BY <2>1, <2>2, <2>3, ReleaseMaps
<1>4. CASE TickArrive
  <2>1. /\ ticking \in Job /\ jobStatus[ticking] # "none"
        /\ Open(jobTask[ticking]) /\ closing = None /\ closing' = jobTask[ticking]
        /\ status' = [status EXCEPT ![jobTask[ticking]] = "succeeded"]
        /\ UNCHANGED <<priority, direct, jobTask, jobStatus, bindings, world>>
    BY <1>0, <1>4 DEF TickArrive, InTick, Idle, EndsDirect, JobsHaveTasks, TypeOK
  <2>2. jobTask[ticking] \in Task /\ "succeeded" \in TaskEnded
    BY <1>0, <2>1 DEF JobsHaveTasks, TaskEnded
  <2> QED BY <2>1, <2>2, ClosesMaps
<1> QED BY <1>1, <1>2, <1>3, <1>4 DEF TickStep

LEMMA WorldMaps ==
  ASSUME HoldInv, HoldInv', WorldStep
  PROVE  Holding!Next
<1> USE DEF taskVars, jobVars, holdVars, worldVars, callVars, inCall, tickVars
<1>0. TypeOK /\ TypeOK'
  BY DEF HoldInv, AgreeInv
<1>1. UNCHANGED <<status, priority, direct, jobTask, jobStatus, bindings, closing>>
  BY DEF WorldStep, Appear, BecomeBusy, BecomeIdle, Vanish
<1>2. UNCHANGED <<TaskState, JobState, Serves>>
  BY <1>1 DEF TaskState, JobState, Serves
<1>3. CASE Dead' = Dead
  <2>1. Lets({})
    BY <1>1, <1>2 DEF Lets
  <2> QED BY <1>0, <1>1, <1>3, <2>1, QuietMaps
<1>4. ASSUME NEW a \in Actor, Dead' = Dead \cup {a} PROVE Holding!Next
  <2>1. Holding!Die(a)
    BY <1>1, <1>2, <1>4 DEF Holding!Die, Holding!taskState, Holding!jobState
  <2> QED BY <2>1 DEF Holding!Next
<1>5. Dead' = Dead \/ \E a \in Actor : Dead' = Dead \cup {a}
  <2>1. ASSUME NEW a \in Actor, Appear(a) \/ BecomeBusy(a) \/ BecomeIdle(a) PROVE Dead' = Dead
    BY <1>0, <2>1 DEF Appear, BecomeBusy, BecomeIdle, Dead, TypeOK
  <2>2. ASSUME NEW a \in Actor, Vanish(a) PROVE Dead' = Dead \cup {a}
    BY <1>0, <2>2 DEF Vanish, Dead, TypeOK
  <2> QED BY <2>1, <2>2 DEF WorldStep
<1> QED BY <1>3, <1>4, <1>5

LEMMA HoldingBegins == Init => Holding!Init
<1> SUFFICES ASSUME Init PROVE Holding!Init
  OBVIOUS
<1>1. TaskState = [t \in Task |-> "new"]
  BY DEF Init, TaskState, TaskView
<1>2. JobState = [j \in Job |-> "new"] /\ Serves = [j \in Job |-> None]
  BY DEF Init, JobState, JobView, Serves
<1>3. priority \in [Task -> Int] /\ bindings = [a \in Actor |-> None] /\ Dead = {}
  BY DEF Init, NoBindings, Dead
<1> QED BY <1>1, <1>2, <1>3 DEF Holding!Init

LEMMA OverIsEmpty ==
  ASSUME HoldInv
  PROVE  Holding!OverHasNothing
<1> SUFFICES ASSUME NEW j \in Job, JobState[j] # "new", TaskState[Serves[j]] = "over"
             PROVE  JobState[j] = "done" /\ \A a \in Actor : bindings[a] # j
  BY DEF Holding!OverHasNothing
<1>0. TypeOK /\ BindingsAgree /\ JobsHaveTasks /\ None \notin Job
  BY ConstantsOK DEF HoldInv, AgreeInv
<1>1. jobStatus[j] # "none" /\ Serves[j] = jobTask[j] /\ jobTask[j] \in Task
  BY <1>0 DEF JobState, JobView, Serves, JobsHaveTasks
<1>2. status[jobTask[j]] \in TaskEnded /\ ~direct[jobTask[j]] /\ closing # jobTask[j]
  BY <1>0, <1>1 DEF TaskState, TaskView, TypeOK, TaskStatus
<1>3. CASE Known(j)
  <2>1. ~Live(j) /\ resources[j] = {}
    BY <1>1, <1>2, <1>3 DEF HoldInv, EndedTaskHoldsNothing, JobsOf, Known
  <2> QED BY <1>0, <1>1, <2>1 DEF BindingsAgree, JobState, JobView, Live
<1>4. CASE ~Known(j)
  <2>1. \A a \in Actor : bindings[a] # j
    BY <1>0, <1>4 DEF HoldInv, BoundKnown
  <2> QED BY <1>1, <1>4, <2>1 DEF Known, JobState, JobView
<1> QED BY <1>3, <1>4

\* With signals routed on the event loop the kernel implements UnitHolding: a
\* unit goes from job to job only up the ranks, and otherwise a job loses it by
\* its own end, its task's or the unit's; dead units are granted to nobody; an
\* ended job does not begin anew; a task with an agent, once cancel_task or
\* complete_task has returned, takes nothing and has nothing.
THEOREM UnitsMoveUpOnly == LoopSpec => Holding!Spec /\ []Holding!OverHasNothing
<1>1. HoldInv /\ MapInv /\ [LoopNext]_vars => HoldInv' /\ MapInv'
  BY HoldStep, MapStep
<1>2. HoldInv /\ HoldInv' /\ MapInv /\ [LoopNext]_vars => [Holding!Next]_(Holding!holdingVars)
  <2> SUFFICES ASSUME HoldInv, HoldInv', MapInv, [LoopNext]_vars PROVE [Holding!Next]_(Holding!holdingVars)
    OBVIOUS
  <2>1. CASE UNCHANGED vars
    <3>1. UNCHANGED <<TaskState, priority, JobState, Serves, bindings, Dead>>
      BY <2>1 DEF vars, taskVars, jobVars, holdVars, worldVars, callVars, TaskState, JobState, Serves, Dead
    <3> QED BY <3>1 DEF Holding!holdingVars, Holding!taskState, Holding!jobState
  <2>2. CASE LoopNext
    <3>1. Holding!Next
      BY <2>2, CallMaps, PassMaps, ClosingMaps, TickMaps, WorldMaps DEF LoopNext, KernelStep
    <3> QED BY <3>1
  <2> QED BY <2>1, <2>2
<1>3. Init => HoldInv /\ MapInv /\ Holding!Init
  BY HoldInit, MapInit, HoldingBegins
<1>4. HoldInv => Holding!OverHasNothing
  BY OverIsEmpty
<1> QED BY <1>1, <1>2, <1>3, <1>4, PTL DEF LoopSpec, Holding!Spec

==============================================================================
