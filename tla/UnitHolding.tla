----------------------------- MODULE UnitHolding -----------------------------
(***************************************************************************)
(* What the kernel promises of the player's units (docs/wang/design.md,    *)
(* the Kernel's arbitration and pre-emption): a unit serves one job at a   *)
(* time.  A job keeps what it has until it ends or its task does, until    *)
(* the unit dies, or until a job of a task that ranks strictly higher      *)
(* takes it.  A job that has ended does not begin anew, and a task that is *)
(* over takes nothing and has nothing.                                     *)
(***************************************************************************)
EXTENDS Integers

CONSTANTS Task, Job, Actor, None

VARIABLES
  task,     \* "new"; "open"; "ended", its units are being released; "over";
            \* "loose", ended and no agent ran it; "gone" with a reset
  rank,     \* the priority of each task
  job,      \* "new" | "live" | "done"
  serves,   \* the task of each job
  holder,   \* the job each unit serves, or None
  lost      \* the units that have died

taskState == <<task, rank>>
jobState == <<job, serves>>
holdingVars == <<taskState, jobState, holder, lost>>

Init ==
  /\ task = [t \in Task |-> "new"] /\ rank \in [Task -> Int]
  /\ job = [j \in Job |-> "new"] /\ serves = [j \in Job |-> None]
  /\ holder = [a \in Actor |-> None] /\ lost = {}

Ranks(j) == rank[serves[j]]
Outranks(j, k) == Ranks(k) < Ranks(j)

-----------------------------------------------------------------------------
(* Tasks and jobs.                                                         *)

Opens(t) ==
  /\ task[t] = "new" /\ task' = [task EXCEPT ![t] = "open"]
  /\ \E p \in Int : rank' = [rank EXCEPT ![t] = p]

Starts(j, t) ==
  /\ job[j] = "new" /\ job' = [job EXCEPT ![j] = "live"]
  /\ serves' = [serves EXCEPT ![j] = t]

\* The jobs of J stop and the tasks of T end, with an agent or without.
Stops(J, T) ==
  /\ \A j \in J : job[j] = "live"
  /\ job' = [j \in Job |-> IF j \in J THEN "done" ELSE job[j]]
  /\ \A t \in T : task[t] = "open"
  /\ \E how \in [Task -> {"ended", "loose"}] :
       task' = [t \in Task |-> IF t \in T THEN how[t] ELSE task[t]]
  /\ UNCHANGED <<rank, serves>>

Ended(j) == job[j] # "new" /\ (job'[j] = "done" \/ task'[serves[j]] # "open")

\* The jobs of K give up all they have.
Freed(K) == [a \in Actor |-> IF holder[a] \in K THEN None ELSE holder[a]]

NewTask(t) == Opens(t) /\ UNCHANGED <<jobState, holder, lost>>
NewJob(j, t) == task[t] = "open" /\ Starts(j, t) /\ UNCHANGED <<taskState, holder, lost>>
NewTaskWithJob(t, j) == Opens(t) /\ Starts(j, t) /\ UNCHANGED <<holder, lost>>

End(J, T, K) ==
  /\ Stops(J, T) /\ \A k \in K : Ended(k)
  /\ holder' = Freed(K) /\ UNCHANGED lost

\* The last of an ended task: from now on it has nothing.
Close(t) ==
  /\ task[t] = "ended" /\ task' = [task EXCEPT ![t] = "over"]
  /\ \A j \in Job : serves[j] = t => job[j] # "live"
  /\ holder' = Freed({j \in Job : job[j] # "new" /\ serves[j] = t})
  /\ UNCHANGED <<rank, jobState, lost>>

-----------------------------------------------------------------------------
(* Units.                                                                  *)

\* A unit goes to a job from nobody or from a job that ranks lower, which may
\* stop with it; what its task then gives up is given up by lower ranks, too.
Take(j, a, J, T, K) ==
  /\ job[j] # "new" /\ task[serves[j]] \in {"open", "loose"} /\ a \notin lost
  /\ holder[a] # None => Outranks(j, holder[a])
  /\ Stops(J, T) /\ \A k \in K : Ended(k)
  /\ \A k \in J \cup K : Outranks(j, k)
  /\ \A t \in T : rank[t] < Ranks(j)
  /\ holder' = [Freed(K) EXCEPT ![a] = j] /\ UNCHANGED lost

Die(a) ==
  /\ lost' = lost \cup {a}
  /\ UNCHANGED <<taskState, jobState, holder>>

Bury(a) ==
  /\ a \in lost /\ holder' = [holder EXCEPT ![a] = None]
  /\ UNCHANGED <<taskState, jobState, lost>>

\* A match or a session begins anew.
Forget ==
  /\ task' = [t \in Task |-> IF task[t] = "new" THEN "new" ELSE "gone"]
  /\ job' = [j \in Job |-> IF job[j] = "new" THEN "new" ELSE "done"]
  /\ holder' = [a \in Actor |-> None]
  /\ UNCHANGED <<rank, serves, lost>>

Next ==
  \/ \E t \in Task : NewTask(t) \/ Close(t)
  \/ \E t \in Task, j \in Job : NewJob(j, t) \/ NewTaskWithJob(t, j)
  \/ \E J, K \in SUBSET Job, T \in SUBSET Task :
       End(J, T, K) \/ \E j \in Job, a \in Actor : Take(j, a, J, T, K)
  \/ \E a \in Actor : Die(a) \/ Bury(a)
  \/ Forget

Spec == Init /\ [][Next]_holdingVars

-----------------------------------------------------------------------------
\* A task that is over has nothing, and its jobs have stopped.
OverHasNothing ==
  \A j \in Job : job[j] # "new" /\ task[serves[j]] = "over" =>
    job[j] = "done" /\ \A a \in Actor : holder[a] # j
=============================================================================
