----------------------------- MODULE AgentBrief -----------------------------
(***************************************************************************)
(* What an agent is told when its language model is called                 *)
(* (task_agent/context.py, kernel/task_coordination.py): which lines its   *)
(* brief has, what each of them lists and where it is cut off.  Pure       *)
(* operators on a snapshot w of the world and the kernel's last export f;  *)
(* StatusBoard composes them with the exports.  Wording is left out.       *)
(*                                                                         *)
(* What comes with a call is a record in: signals, in order, each with its *)
(* job, its kind and the phase it tells ("": none); making and ready, the  *)
(* types in production and those that wait to be placed; notes of the      *)
(* player and said, whether he just spoke; others, the tasks beside it.    *)
(***************************************************************************)
EXTENDS Coordinator, SequencesExt

FirstN(list, n) == SubSeq(list, 1, IF Len(list) < n THEN Len(list) ELSE n)
LastN(list, n) == SubSeq(list, IF Len(list) < n THEN 1 ELSE Len(list) - n + 1, Len(list))

\* Each entry once, where it comes first.
Distinct(list) ==
  FoldLeft(LAMBDA seen, x : IF Contains(seen, x) THEN seen ELSE Append(seen, x), <<>>, list)

-----------------------------------------------------------------------------
(* What may be ordered, told to the capability only.                       *)

\* The queues and the types of the roster in the order they are listed; the
\* lists are empty for a faction whose roster is not supported.
QueueOrder == <<"Building", "Defense", "Infantry", "Vehicle", "Aircraft">>
Listed ==
  [Building |-> <<"powr", "proc", "barr", "weap", "dome", "fix", "afld", "stek">>,
   Defense |-> <<"tsla", "ftur", "sam">>, Infantry |-> <<"e1", "e3">>,
   Vehicle |-> <<"harv", "ftrk", "v2rl", "tank3", "tank4">>, Aircraft |-> <<"mig", "yak">>]

\* filter_demo_capability_buildable
Shown(w, types) ==
  IF Unsupported(w) THEN <<>>
  ELSE FlattenSeq([i \in 1..5 |-> Those(Listed[QueueOrder[i]],
                                            LAMBDA u : u \in types[QueueOrder[i]])])

\* "safe to issue right now"
IssueNow(w) == Shown(w, [q \in QueueType |-> BuildableNow(w, q)])

\* Of those held up, with the reason, the first eight.
Blocked(w) == Shown(w, [q \in QueueType |-> BuildableBlocked(w, q)])
HeldUp(w) == FirstN(Blocked(w), 8)

\* What could be built by its prerequisites and is in neither list.
Reference(w) ==
  Those(Shown(w, [q \in QueueType |-> Buildable(w, Faction(w), q)]),
            LAMBDA u : ~Contains(IssueNow(w) \o Blocked(w), u))

\* The next step of the base: "go", "held", or nothing is said of it.
StepLine(w) ==
  LET next == ShownStep(w).next IN
  FirstOf(<< <<Unsupported(w) \/ next = "", "">>,
             <<next \in BuildableNow(w, "Building"), "go">>,
             <<next \in BuildableBlocked(w, "Building"), "held">>,
             <<TRUE, "">> >>)

\* Types outside the faction's roster are not told of, even in production:
\* apwr is no remedy for power.
InRoster(w, u) == \E q \in QueueType : u \in Roster(Faction(w), q)
Made(w, in) == {u \in in.making : InRoster(w, u)}
ReadyLines(w, in) == FirstN(Those(in.ready, LAMBDA u : InRoster(w, u)), 6)

\* _has_ready_power_recovery: nor is a shortage that is being dealt with.
LowLine(w, in) ==
  w.low /\ {"powr", "apwr"} \cap (Made(w, in) \cup {u \in ToSet(in.ready) : InRoster(w, u)}) = {}

JamLine(w) ==
  FirstOf(<< <<w.ready # {} /\ w.paused # {}, "mixed">>, <<w.ready # {}, "ready_not_placed">>,
             <<w.paused # {}, "paused">>, <<TRUE, "">> >>)

-----------------------------------------------------------------------------
(* What is asked for and what is in the way.                               *)

\* Reservations are filtered by the roster, requests are not.
ReservationLines(w, f) ==
  FirstN(Those(f.rows, LAMBDA x :
           /\ x.reserved
           /\ \E q \in QueueType : q = QueueOf(x.unit) /\ x.unit \in Roster(Faction(w), q)), 8)

Line(of, what) == [of |-> of, what |-> what]

\* _build_capability_phase_block: the phase of the capability and the latest
\* its signals tell, four lines at most.
PhaseLines(f, in) ==
  LET told == Those(Reverse(in.signals), LAMBDA s : s.phase # "") IN
  Distinct(FirstN((IF f.status.phase = "" THEN <<>> ELSE <<Line("task", f.status.phase)>>)
                    \o [i \in DOMAIN told |-> Line(told[i].job, told[i].phase)], 4))

\* _build_capability_blocker_block: the capability's blocker, the requests,
\* the signals of trouble, and four lines of these.
BlockerLines(f, in) ==
  LET trouble == Those(Reverse(in.signals),
                           LAMBDA s : s.kind \in {"blocked", "constraint_violated", "decision_request"})
  IN FirstN((IF f.status.blocker = "" THEN <<>> ELSE <<Line("capability", f.status.blocker)>>)
              \o [i \in DOMAIN f.rows |-> Line("request", f.rows[i].id)]
              \o [i \in DOMAIN trouble |-> Line(trouble[i].job, trouble[i].kind)], 4)

-----------------------------------------------------------------------------
(* The tasks beside it, jobs and facts.                                    *)

\* build_other_active_tasks: those that go on, and the last eight reports of
\* any other task.
Siblings(t, tasks) == Those(tasks, LAMBDA o : o.id # t /\ o.status \notin Terminal)
Reported(t, messages) ==
  LastN(Those(messages, LAMBDA m : m.task # t /\ m.kind \in {"info", "report"}), 8)

\* The facts of the topics a task subscribes to; nobody has facts on production.
InfoTold(subscriptions, known) == subscriptions \cap known \cap {"threat", "base_state"}

\* The header keeps the last six signals and events of the capability.
Header(in) == LastN(in.signals, 6)

\* What live work there is, with the first four tasks beside it.
WorkLine(f, in) ==
  [jobs |-> f.status.jobs, pending |-> f.status.pending, released |-> f.status.released,
   reinforce |-> f.status.reinforce, parallel |-> FirstN(in.others, 4)]

-----------------------------------------------------------------------------
(* The two briefs.                                                         *)

\* What the capability is told that it may order, now and with reasons.
OfferLines(w) ==
  [guard |-> Unsupported(w), step |-> StepLine(w), now |-> IssueNow(w), held |-> HeldUp(w),
   reference |-> Reference(w)]

\* What it is told of the demand and the work; every open request has a line.
DemandLines(w, f, in) ==
  [sync |-> w.stale, low |-> LowLine(w, in), jam |-> JamLine(w),
   made |-> Made(w, in), waiting |-> ReadyLines(w, in),
   phases |-> PhaseLines(f, in), blockers |-> BlockerLines(f, in), work |-> WorkLine(f, in),
   requests |-> f.rows, reservations |-> ReservationLines(w, f),
   signals |-> Header(in), goal |-> f.status.directive, notes |-> LastN(in.notes, 5), said |-> in.said]

\* context_to_message for the capability.
CapabilityBrief(w, f, in) == [offers |-> OfferLines(w), demand |-> DemandLines(w, f, in)]

\* For another task t: of its own requests and reservations the first two, no
\* word on what can be built, and a rule on what to do while it waits.
OrdinaryBrief(w, f, t, in) ==
  LET mine == OfTask(f.rows, t.id)
  IN [sync |-> w.stale, requests |-> FirstN(mine, 2),
      reservations |-> FirstN(Those(mine, LAMBDA x : x.reserved), 2),
      phase |-> WorkflowPhase(t, f), signals |-> in.signals, said |-> in.said,
      parallel |-> in.others]

-----------------------------------------------------------------------------
(* Promises, for every snapshot.                                           *)

\* The lines on what may be ordered, what is held up and what to do next tell
\* the same story as the dashboard's step, none of them is empty for want of
\* another, and the list of what is buildable "for reference only" stays empty
\* (_build_capability_prereq_reference, normalize_base_progression).
LinesAgree(w) ==
  /\ Reference(w) = <<>>
  /\ (StepLine(w) = "go") = ShownStep(w).now
  /\ StepLine(w) = "go" => Contains(IssueNow(w), ShownStep(w).next)
  /\ StepLine(w) = "held" => ~Contains(IssueNow(w), ShownStep(w).next)

\* A request judged by the same snapshot waits for dispatch only if its type is
\* among those that may be ordered, or outside the roster; and one that is held
\* up is not offered in the same brief (request_reason, buildable_now).
RowsAgree(w, rows) ==
  \A i \in DOMAIN rows :
    LET u == rows[i].unit
        offered == Contains(IssueNow(w), u) IN
    /\ rows[i].reason \in {"waiting_dispatch", "reinforcement_waiting_dispatch"} =>
         offered \/ Unsupported(w) \/ ~InRoster(w, u)
    /\ rows[i].reason \in BlockingReason \cup {"world_sync_stale"} => ~offered

\* The capability's brief tells of every row, of reservations only together
\* with their rows, of the blocker first, and of as many rows as the four
\* lines on what is in the way leave place for (context_to_message).
BriefTells(w, f, in) ==
  LET b == DemandLines(w, f, in)
      lines == {b.blockers[i] : i \in DOMAIN b.blockers}
  IN /\ ToSet(b.reservations) \subseteq ToSet(b.requests)
     /\ f.status.blocker # "" => b.blockers[1] = Line("capability", f.status.blocker)
     /\ \A i \in DOMAIN b.requests : i <= 3 => Line("request", b.requests[i].id) \in lines
     /\ b.work.pending => b.blockers # <<>>
     /\ b.low => w.low
=============================================================================
