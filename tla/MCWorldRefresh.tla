--------------------------- MODULE MCWorldRefresh ---------------------------
(* A small instance of WorldRefresh: an mcv that may deploy or die, a unit, *)
(* and an enemy; the ids of the second match are those of the first.       *)
EXTENDS WorldRefresh

Kinds == [mcv |-> "mcv", yard |-> "building", tank |-> "unit", foe |-> "enemy"]
Actors == DOMAIN Kinds
Deployed == {<<"mcv", "yard">>}
Starts == <<{"mcv", "tank"}, {"mcv"}>>

\* A tenth, half and five seconds: the last two are longer than a tick.
Periods == [actors |-> 1, economy |-> 2, map |-> 2]
=============================================================================
