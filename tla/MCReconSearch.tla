---------------------------- MODULE MCReconSearch ----------------------------
(***************************************************************************)
(* An instance of ReconSearch: a row of blocks of which the second is      *)
(* never explored, though it can be entered, and the last is clipped; and  *)
(* one in which a wall keeps everybody from the last.                      *)
(***************************************************************************)
EXTENDS ReconSearch

SomeGrounds ==
  {[walls |-> {}, dim |-> {2}, clipped |-> {Width}, off |-> FALSE],
   [walls |-> {2}, dim |-> {}, clipped |-> {}, off |-> FALSE]}
==============================================================================
