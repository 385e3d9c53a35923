--------------------------- MODULE MCKernelResources ---------------------------
(* Small instances of KernelResources and the bounds of their runs.        *)
EXTENDS KernelResources

LowHigh == {1, 2}

\* What jobs ask for: any one unit, or a listed group of two that starts when
\* both are there, busy or not, with a need for each unit of the list.
Any(n, m)   == [count |-> n, match |-> m, busy |-> FALSE, gate |-> FALSE]
One         == {Any(1, Actor)}
MoveGroup   == {[count |-> 2, match |-> Actor, busy |-> TRUE, gate |-> TRUE]}
                 \cup {[Any(1, {a}) EXCEPT !.busy = TRUE] : a \in Actor}

Ones     == {One}
Packages == {One, MoveGroup}

\* A later task ranks no lower than an earlier one.
Ordered == status[2] = "none" \/ priority[1] <= priority[2]

\* The bound of the arbitration run: one unit at a time is not idle, jobs are
\* neither paused nor ticked, and the second task has an agent.
Arbitration ==
  /\ Ordered
  /\ Cardinality({a \in Actor : world[a] # "idle"}) <= 1
  /\ ~\E j \in Job : paused[j]
  /\ phase = "off" /\ ~direct[2]

\* The bound of the closing run: a later task ranks no lower, and the second
\* has an agent.
Closing == Ordered /\ ~direct[2]
================================================================================
