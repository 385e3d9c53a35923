------------------------------ MODULE MCFieldJobs ------------------------------
(***************************************************************************)
(* An instance of FieldJobs: two units and a job of each kind, of a named  *)
(* group that waits for all of it, of one that does not, and of a number.  *)
(***************************************************************************)
EXTENDS FieldJobs

J(kind, group, full, need, hold) ==
  [kind |-> kind, group |-> group, full |-> full, ready |-> need, need |-> need, hold |-> hold]

AUnit == CHOOSE u \in Unit : TRUE

AllConfigs ==
  {J("move", Unit, TRUE, 2, FALSE), J("move", Unit, FALSE, 1, FALSE), J("move", Unit, FALSE, 2, FALSE),
   J("move", {}, TRUE, 1, FALSE),
   J("combat", {}, TRUE, 1, FALSE), J("combat", {}, TRUE, 1, TRUE),
   J("occupy", Unit, TRUE, 1, FALSE), J("deploy", {AUnit}, TRUE, 1, FALSE),
   J("rally", Unit, TRUE, 1, FALSE), J("repair", {}, TRUE, 1, FALSE),
   J("stop", {}, TRUE, 1, FALSE)}
=============================================================================
