----------------------------- MODULE MCBuildQueue -----------------------------
(***************************************************************************)
(* An instance of BuildQueue: a job for one barracks, which the player     *)
(* may order and cancel by hand, and so a power plant.                     *)
(***************************************************************************)
EXTENDS BuildQueue

Barracks == [j \in Job |-> "barr"]
One == [j \in Job |-> 1]

\* The bound of the run: at most two items are queued, and the game is not slow
\* once the player has acted.  It cuts orders of the player and changes of the
\* conditions, and no step that fairness asks for.
Bound ==
  /\ trouble = "slow" => byHand = 0
  /\ Len(items) <= 2
=============================================================================
