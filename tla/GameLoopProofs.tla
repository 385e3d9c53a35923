----------------------------- MODULE GameLoopProofs -----------------------------
(***************************************************************************)
(* For every number of tasks and jobs and every interval: no job acts on a *)
(* world the loop knows to be stale, and the loop forgets none it paused.  *)
(* Each needs to know more of the jobs than it says: of those that are     *)
(* still to come in the tick, and of those registered in a restart.        *)
(***************************************************************************)
EXTENDS GameLoop, TLAPS

\* On a stale world every job the loop can reach is held, or excused.
HeldOrExcused ==
  active => \A j \in Job : j \in jobs \cup list \/ at = j => ~MayTick(j) \/ j \in excused

\* A live job the kernel knows belongs to an open task.
ActiveHaveTasks == \A j \in Active : Of[j] \in tasks

\* While the game restarts, no tick is under way and the list of paused jobs
\* may be emptied.
Restarting ==
  run = "restarting" =>
    /\ at = Off /\ list = {}
    /\ \A j \in Active : paused[j] => j \in own \cup strayed

Inductive == TypeOK /\ HeldOrExcused /\ ActiveHaveTasks /\ NobodyForgotten /\ Restarting

LEMMA InitInductive == Init => Inductive
<1> SUFFICES ASSUME Init PROVE Inductive
  OBVIOUS
<1>1. TypeOK
  <2>1. /\ status \in [Job -> {"none", "running", "waiting", "ended"}] /\ paused \in [Job -> BOOLEAN]
        /\ \A j \in Job : rest[j] \in 0..Interval[j]
        /\ due \in [Task -> 0..Review]
    BY LoopOK DEF Init
  <2>2. failures \in 0..Threshold /\ since \in 0..Escalation /\ resets \in 0..Resets
    BY LoopOK DEF Init
  <2>3. {stale, active, notified, escalated} \subseteq BOOLEAN
    BY Zenon DEF Init
  <2> QED
    BY <2>1, <2>2, <2>3 DEF Init, TypeOK, Off
<1>2. Active = {}
  BY DEF Init, Active
<1> QED
  BY <1>1, <1>2 DEF Init, Inductive, HeldOrExcused, ActiveHaveTasks, NobodyForgotten, Restarting

-----------------------------------------------------------------------------
(* What the kernel, the agents and the player do.                          *)

LEMMA KernelKeeps == Inductive /\ KernelStep => Inductive'
<1> SUFFICES ASSUME Inductive, KernelStep PROVE Inductive'
  OBVIOUS
<1> USE LoopOK DEF Inductive, TypeOK, HeldOrExcused, ActiveHaveTasks, NobodyForgotten, Restarting,
                   Active, Live, MayTick, OnlyKernel, jobVars, agentVars, regVars, healthVars,
                   staleVars, loopVars, Off
<1>1. ASSUME NEW t \in Task, CreateTask(t) PROVE Inductive'
  BY <1>1 DEF CreateTask
<1>2. ASSUME NEW t \in Task, EndTask(t) PROVE Inductive'
  BY <1>2 DEF EndTask, EndedWith
<1>3. ASSUME NEW t \in Task, Suspend(t) PROVE Inductive'
  BY <1>3 DEF Suspend
<1>4. ASSUME NEW t \in Task, TakesReview(t) PROVE Inductive'
  BY <1>4 DEF TakesReview
<1>5. ASSUME NEW j \in Job, StartJob(j) PROVE Inductive'
  BY <1>5 DEF StartJob
<1>6. ASSUME NEW j \in Job, PauseJob(j) PROVE Inductive'
  BY <1>6 DEF PauseJob, Paused
<1>7. ASSUME NEW j \in Job, ResumeJob(j) PROVE Inductive'
  BY <1>7 DEF ResumeJob, Resumed
<1>8. ASSUME NEW j \in Job, Granted(j) PROVE Inductive'
  BY <1>8 DEF Granted
<1>9. ASSUME NEW j \in Job, Revoked(j) PROVE Inductive'
  BY <1>9 DEF Revoked
<1>10. ASSUME NEW j \in Job, AbortJob(j) PROVE Inductive'
  BY <1>10 DEF AbortJob
<1> QED
  BY <1>1, <1>2, <1>3, <1>4, <1>5, <1>6, <1>7, <1>8, <1>9, <1>10 DEF KernelStep

-----------------------------------------------------------------------------
(* Registration.                                                           *)

\* A sync registers all live jobs and parks the new ones on a stale world.
LEMMA SyncKeeps ==
  ASSUME Inductive, Sync, UNCHANGED <<agentVars, healthVars, staleVars, list, run, resets>>,
         at' \in {at, Off}
  PROVE  Inductive'
<1> USE LoopOK DEF Inductive, TypeOK, Off
<1>0. /\ NewlyParked \subseteq Active \ jobs
      /\ Active \subseteq Job /\ Active' = Active
      /\ paused' = [j \in Job |-> paused[j] \/ j \in NewlyParked]
      /\ status' = [j \in Job |-> IF j \in NewlyParked THEN "waiting" ELSE status[j]]
  BY DEF Sync, Paused, NewlyParked, Active, Live
<1>1. TypeOK'
  <2>1. /\ parked' \subseteq jobs' /\ jobs' \subseteq Job
        /\ status' \in [Job -> {"none", "running", "waiting", "ended"}] /\ paused' \in [Job -> BOOLEAN]
        /\ kernel' \cup own' \cup excused' \cup strayed' \subseteq Job
    BY <1>0 DEF Sync, StillParked
  <2>2. \A j \in Job : rest'[j] \in 0..Interval[j]
    BY <1>0 DEF Sync
  <2>3. due' \in [Task -> 0..Review]
    BY DEF Sync
  <2>4. at' \in {Off, "refresh", "jobs", "queue"} \cup Job
    OBVIOUS
  <2> QED
    BY <2>1, <2>2, <2>3, <2>4 DEF Sync, agentVars, healthVars, staleVars
<1>2. HeldOrExcused'
  <2> SUFFICES ASSUME active', NEW j \in Job, j \in jobs' \cup list' \/ at' = j, MayTick(j)'
               PROVE  j \in excused'
    BY DEF HeldOrExcused
  <2>1. active /\ ~paused[j] /\ j \notin NewlyParked /\ status[j] = "running"
    BY <1>0 DEF MayTick, staleVars
  <2>2. j \in jobs \cup list \/ at = j
    BY <2>1 DEF NewlyParked, Sync, Off
  <2> QED
    BY <2>1, <2>2 DEF HeldOrExcused, MayTick, Sync
<1>3. ActiveHaveTasks'
  BY <1>0 DEF ActiveHaveTasks, agentVars
<1>4. NobodyForgotten' /\ Restarting'
  BY <1>0 DEF NobodyForgotten, Restarting, Sync, StillParked
<1> QED
  BY <1>1, <1>2, <1>3, <1>4

-----------------------------------------------------------------------------
(* The clock and the tick.                                                 *)

LEMMA ClockKeeps == Inductive /\ Clock => Inductive'
<1> SUFFICES ASSUME Inductive, Clock PROVE Inductive'
  OBVIOUS
<1> USE LoopOK DEF Inductive, jobVars, agentVars, healthVars, loopVars
<1>1. TypeOK'
  <2>1. \A j \in Job : rest'[j] \in 0..Interval[j]
    BY DEF Clock, TypeOK
  <2>2. due' \in [Task -> 0..Review] /\ since' \in 0..Escalation
    BY DEF Clock, TypeOK
  <2> QED
    BY <2>1, <2>2 DEF Clock, TypeOK
<1>2. HeldOrExcused' /\ ActiveHaveTasks' /\ NobodyForgotten' /\ Restarting'
  BY DEF Clock, HeldOrExcused, ActiveHaveTasks, NobodyForgotten, Restarting, Active, Live, MayTick
<1> QED
  BY <1>1, <1>2

\* What the loop makes of the health of the world: jobs that are registered are
\* all paused when an outage begins, and all that are parked resume at its end.
LEMMA HealthTypes ==
  ASSUME Inductive, at = "refresh", Refreshed, Outage \/ Fresh, UNCHANGED jobs
  PROVE  /\ status' \in [Job -> {"none", "running", "waiting", "ended"}] /\ paused' \in [Job -> BOOLEAN]
         /\ own' \cup excused' \subseteq Job /\ parked' \subseteq jobs
         /\ failures' \in 0..Threshold /\ since' \in 0..Escalation
         /\ {stale', active', notified', escalated'} \subseteq BOOLEAN
         /\ \A j \in Job : status'[j] \in {"running", "waiting"} => Live(j)
         /\ active' => \A j \in jobs : ~MayTick(j)' \/ j \in excused'
         /\ \A j \in Job : Live(j) /\ paused'[j] /\ (paused[j] => j \in parked \cup own \cup strayed)
                              => j \in parked' \cup own' \cup strayed
<1> USE LoopOK DEF Inductive, TypeOK
<1>0. failures \in 0..Threshold /\ stale \in BOOLEAN /\ Threshold \in Nat \ {0}
  OBVIOUS
<1>1. failures' \in 0..Threshold /\ stale' \in BOOLEAN
  <2>1. stale' \in BOOLEAN
    BY <1>0, Zenon DEF Refreshed, healthVars
  <2>2. CASE failures' = IF failures < Threshold THEN failures + 1 ELSE Threshold
    BY <1>0, <2>1, <2>2
  <2>3. CASE failures' \in {0, failures}
    BY <1>0, <2>1, <2>3
  <2> QED
    BY <2>2, <2>3 DEF Refreshed, healthVars
<1>2. CASE Outage
  <2>1. CASE active
    BY <1>1, <1>2, <2>1 DEF Outage, Began, HeldOrExcused, MayTick, Live
  <2>2. CASE ~active
    <3>1. /\ paused' = [j \in Job |-> paused[j] \/ j \in Parkable]
          /\ status' = [j \in Job |-> IF j \in Parkable THEN "waiting" ELSE status[j]]
          /\ parked' = parked \cup Parkable /\ excused' = excused \ Parkable /\ own' = own
          /\ active' = TRUE /\ since' = 0
      BY <1>2, <2>2 DEF Outage, Paused, Began
    <3>2. notified' \in BOOLEAN /\ escalated' \in BOOLEAN
      BY <1>2 DEF Outage
    <3> QED
      BY <1>1, <3>1, <3>2 DEF Parkable, MayTick, Live
  <2> QED
    BY <2>1, <2>2
<1>3. CASE Fresh
  <2>1. /\ paused' = [j \in Job |-> paused[j] /\ ~(j \in Resumable /\ Live(j))]
        /\ status' = [j \in Job |-> IF j \in Resumable /\ Live(j) THEN "running" ELSE status[j]]
        /\ parked' = IF active THEN {} ELSE parked
        /\ own' = own \ Resumable /\ excused' = excused
        /\ active' = FALSE /\ notified' = FALSE /\ escalated' = FALSE /\ since' = 0
    BY <1>3 DEF Fresh, Resumed
  <2>2. Resumable = IF active THEN parked ELSE {}
    BY DEF Resumable
  <2>3. {stale', active', notified', escalated'} \subseteq BOOLEAN
    BY <1>1, <2>1, Zenon
  <2>4. /\ status' \in [Job -> {"none", "running", "waiting", "ended"}] /\ paused' \in [Job -> BOOLEAN]
        /\ \A j \in Job : status'[j] \in {"running", "waiting"} => Live(j)
    BY <2>1, <2>2 DEF Live
  <2>5. own' \cup excused' \subseteq Job /\ parked' \subseteq jobs /\ since' \in 0..Escalation
    BY <2>1, <2>2
  <2>6. \A j \in Job : Live(j) /\ paused'[j] /\ (paused[j] => j \in parked \cup own \cup strayed)
                         => j \in parked' \cup own' \cup strayed
    BY <2>1, <2>2
  <2> QED
    BY <1>1, <2>1, <2>3, <2>4, <2>5, <2>6
<1> QED
  BY <1>2, <1>3

LEMMA TickKeeps == Inductive /\ Tick => Inductive'
<1> SUFFICES ASSUME Inductive, Tick PROVE Inductive'
  OBVIOUS
<1>1. CASE TickBegins
  BY LoopOK, <1>1 DEF TickBegins, Inductive, TypeOK, HeldOrExcused, ActiveHaveTasks, NobodyForgotten,
     Restarting, Active, Live, MayTick, jobVars, agentVars, regVars, healthVars, staleVars, Off
<1>2. CASE Health
  <2>1. Refreshed /\ (Outage \/ Fresh) /\ at = "refresh" /\ UNCHANGED jobs
    BY <1>2 DEF Health
  <2>2. /\ at' = "jobs" /\ list' = jobs /\ run # "restarting" /\ "jobs" \notin Job
        /\ UNCHANGED <<kernel, agentVars, jobs, agents, rest, due, strayed, run, resets>>
    BY <1>2, LoopOK DEF Health, Inductive, Restarting, Off
  <2> QED
    BY <2>1, <2>2, HealthTypes DEF Inductive, TypeOK, HeldOrExcused, ActiveHaveTasks, NobodyForgotten,
       Restarting, Active, Live, agentVars
<1>3. CASE HealthAfterReset
  <2>1. Refreshed /\ (Outage \/ Fresh) /\ at = "refresh" /\ UNCHANGED jobs
    BY <1>3 DEF HealthAfterReset
  <2>2. /\ at' = "jobs" /\ list' = jobs /\ run # "restarting" /\ "jobs" \notin Job
        /\ kernel' = {} /\ tasks' = {} /\ asleep' = {} /\ wake' = {}
        /\ resets < Resets /\ resets' = resets + 1
        /\ UNCHANGED <<jobs, agents, rest, due, strayed, run>>
    BY <1>3, LoopOK DEF HealthAfterReset, Inductive, Restarting, Off
  <2>3. resets' \in 0..Resets /\ Active' = {}
    BY <2>2, LoopOK DEF Inductive, TypeOK, Active
  <2>4. TypeOK'
    BY <2>1, <2>2, <2>3, HealthTypes DEF Inductive, TypeOK
  <2>5. HeldOrExcused'
    BY <2>1, <2>2, HealthTypes DEF HeldOrExcused
  <2> QED
    BY <2>2, <2>3, <2>4, <2>5 DEF Inductive, ActiveHaveTasks, NobodyForgotten, Restarting
<1>4. ASSUME NEW j \in Job, PassOver(j) PROVE Inductive'
  BY LoopOK, <1>4 DEF PassOver, Inductive, TypeOK, HeldOrExcused, ActiveHaveTasks, NobodyForgotten,
     Restarting, Active, Live, MayTick, jobVars, agentVars, regVars, healthVars, staleVars, Off
<1>5. ASSUME NEW j \in Job, HandOver(j) PROVE Inductive'
  BY LoopOK, <1>5 DEF HandOver, Inductive, TypeOK, HeldOrExcused, ActiveHaveTasks, NobodyForgotten,
     Restarting, Active, Live, MayTick, jobVars, agentVars, healthVars, staleVars, Off
<1>6. ASSUME NEW j \in Job, JobIdles(j) PROVE Inductive'
  BY LoopOK, <1>6 DEF JobIdles, Inductive, TypeOK, HeldOrExcused, ActiveHaveTasks, NobodyForgotten,
     Restarting, Active, Live, MayTick, jobVars, agentVars, regVars, healthVars, staleVars, Off
<1>7. ASSUME NEW j \in Job, JobTicks(j) PROVE Inductive'
  BY LoopOK, <1>7 DEF JobTicks, Inductive, TypeOK, HeldOrExcused, ActiveHaveTasks, NobodyForgotten,
     Restarting, Active, Live, MayTick, healthVars, staleVars, Off
<1>8. CASE Reviews
  BY LoopOK, <1>8 DEF Reviews, Inductive, TypeOK, HeldOrExcused, ActiveHaveTasks, NobodyForgotten,
     Restarting, Active, Live, MayTick, jobVars, healthVars, staleVars, Off
<1>9. CASE TickEnds
  BY <1>9, SyncKeeps DEF TickEnds
<1> QED
  BY <1>1, <1>2, <1>3, <1>4, <1>5, <1>6, <1>7, <1>8, <1>9 DEF Tick

-----------------------------------------------------------------------------
(* The runtime.                                                            *)

LEMMA RuntimeKeeps == Inductive /\ Runtime => Inductive'
<1> SUFFICES ASSUME Inductive, Runtime PROVE Inductive'
  OBVIOUS
<1> USE LoopOK DEF Inductive, TypeOK, HeldOrExcused, ActiveHaveTasks, NobodyForgotten, Restarting,
                   Active, Live, MayTick, Off, Forget
<1>1. CASE SessionClear
  <2>1. {stale', active', notified', escalated'} \subseteq BOOLEAN
    BY <1>1, Zenon DEF SessionClear
  <2>2. /\ \A j \in Job : rest'[j] \in 0..Interval[j]
        /\ failures' \in 0..Threshold /\ since' \in 0..Escalation /\ resets' \in 0..Resets
    BY <1>1 DEF SessionClear
  <2>3. kernel' = {} /\ active' = FALSE /\ run' # "restarting"
    BY <1>1 DEF SessionClear
  <2>4. TypeOK'
    BY <1>1, <2>1, <2>2 DEF SessionClear
  <2> QED
    BY <2>3, <2>4
<1>2. CASE RestartBegins
  BY <1>2 DEF RestartBegins, jobVars, agentVars, regVars, healthVars, staleVars
<1>3. CASE LoopStops
  BY <1>3 DEF LoopStops, EndedWith, healthVars, staleVars
<1>4. CASE RestartEnds
  <2>1. {stale', active', notified', escalated'} \subseteq BOOLEAN
    BY <1>4, Zenon DEF RestartEnds
  <2>2. failures' \in 0..Threshold /\ since' \in 0..Escalation
    BY <1>4 DEF RestartEnds
  <2>3. TypeOK'
    BY <1>4, <2>1, <2>2 DEF RestartEnds, jobVars, agentVars
  <2> QED
    BY <1>4, <2>3 DEF RestartEnds, jobVars, agentVars
<1>5. CASE RestartFails
  BY <1>5 DEF RestartFails, jobVars, agentVars, regVars, healthVars, staleVars
<1> QED
  BY <1>1, <1>2, <1>3, <1>4, <1>5 DEF Runtime

LEMMA InductiveStep == Inductive /\ [Next]_vars => Inductive'
<1> SUFFICES ASSUME Inductive, [Next]_vars PROVE Inductive'
  OBVIOUS
<1>1. CASE KernelStep
  BY <1>1, KernelKeeps
<1>2. CASE PlayerSync
  BY <1>2, SyncKeeps DEF PlayerSync, loopVars
<1>3. CASE Clock
  BY <1>3, ClockKeeps
<1>4. CASE Tick
  BY <1>4, TickKeeps
<1>5. CASE Runtime
  BY <1>5, RuntimeKeeps
<1>6. CASE UNCHANGED vars
  BY <1>6 DEF Inductive, TypeOK, HeldOrExcused, ActiveHaveTasks, NobodyForgotten, Restarting, Active,
     Live, MayTick, vars, jobVars, agentVars, regVars, healthVars, staleVars, loopVars
<1> QED
  BY <1>1, <1>2, <1>3, <1>4, <1>5, <1>6 DEF Next

-----------------------------------------------------------------------------

\* Every variable keeps its type, and what is parked is registered.
THEOREM TypeCorrect == Spec => []TypeOK
<1>1. Inductive => TypeOK
  BY DEF Inductive
<1> QED
  BY <1>1, InitInductive, InductiveStep, PTL DEF Spec

\* No job acts while the loop knows the world to be stale, but those an agent
\* resumed or the kernel granted units since they were parked, however jobs are
\* started, registered, paused, cleared and restarted around the tick
\* (_pause_jobs_for_recovery, register_job).
THEOREM NoJobOnStaleWorld == Spec => []StaleStopsJobs
<1>1. Inductive => StaleStopsJobs
  BY DEF Inductive, HeldOrExcused, StaleStopsJobs
<1> QED
  BY <1>1, InitInductive, InductiveStep, PTL DEF Spec

\* The loop forgets no job it has paused (_resume_jobs_after_recovery), but
\* those registered in a restart, whatever ends, clears and restarts.
THEOREM NoneForgotten == Spec => []NobodyForgotten
<1>1. Inductive => NobodyForgotten
  BY DEF Inductive
<1> QED
  BY <1>1, InitInductive, InductiveStep, PTL DEF Spec
=============================================================================
