----------------------------- MODULE MCGameLoop -----------------------------
(* A task with a job, whose places later tasks and jobs take.  No step of   *)
(* the loop relates two jobs or two agents but the order of its list.      *)
EXTENDS GameLoop

TaskOf == [scout |-> "task"]
Jobs == DOMAIN TaskOf
Tasks == {TaskOf[j] : j \in Jobs}
Intervals == [scout |-> 2]
=============================================================================
