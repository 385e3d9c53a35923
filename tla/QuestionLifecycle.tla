-------------------------- MODULE QuestionLifecycle --------------------------
(***************************************************************************)
(* What the kernel promises of the questions agents put to the player      *)
(* (design.md, "Pending Question"): a question is open from the moment it  *)
(* is asked, is settled once, by the player's answer, by its default or by *)
(* the end of its task, and then stays as it is.  Only the reset of a      *)
(* session forgets it.                                                     *)
(***************************************************************************)
CONSTANT Question

VARIABLE outcome

Settled == {"answered", "defaulted", "withdrawn"}

Init == outcome = [q \in Question |-> "unasked"]

Ask(q) ==
  /\ outcome[q] = "unasked"
  /\ outcome' = [outcome EXCEPT ![q] = "open"]

\* One call may settle several questions: a reply to all of them, a timeout
\* scan, the end of a task.
Settle ==
  \E S \in SUBSET {q \in Question : outcome[q] = "open"}, how \in [Question -> Settled] :
    outcome' = [q \in Question |-> IF q \in S THEN how[q] ELSE outcome[q]]

Forget == outcome' = [q \in Question |-> IF outcome[q] = "unasked" THEN "unasked" ELSE "forgotten"]

Next == (\E q \in Question : Ask(q)) \/ Settle \/ Forget

Spec == Init /\ [][Next]_outcome
==============================================================================
