------------------------------ MODULE BuildQueue ------------------------------
(***************************************************************************)
(* The game's queue of buildings and those who work on it: the production  *)
(* jobs (experts/economy.py), the manager that places what stands ready    *)
(* for too long (queue_manager.py), and the player at the keyboard, who    *)
(* orders and cancels in the same queue; buildings are lost in battle.     *)
(*                                                                         *)
(* Jobs and manager look at the world model's copy of the queue and act on *)
(* the queue itself, which has moved on.                                   *)
(***************************************************************************)
EXTENDS Naturals, Sequences, SequencesExt, FiniteSets, FiniteSetsExt

CONSTANTS
  Job,        \* the production jobs
  Type,       \* the buildings
  TypeOf,     \* what a job builds: config.unit_type
  Count,      \* how many of it: config.count
  Powers,     \* the buildings that end a lack of power
  Economies,  \* the buildings the economy lives on
  Foreign,    \* the buildings of the other faction
  Trouble,    \* bound: what may go wrong
  Orders      \* bound: items the player orders or cancels by hand

Reasons == {"queue_missing", "queue_ready_item_pending", "low_power", "no_funds",
            "cannot_produce", "queue_paused", "ready_item_not_placeable",
            "produce_command_failed", "economy_first_constraint"}

\* At most one thing is wrong at a time: the map has no room, the player wants
\* economy first, the game declines orders, is slow to answer or does not.
Troubles == {"queue_missing", "low_power", "no_funds", "cannot_produce", "queue_paused",
             "no_room", "economy_first", "declines", "slow", "unreachable"}

ASSUME QueueOK ==
  /\ TypeOf \in [Job -> Type] /\ Count \in [Job -> Nat \ {0}]
  /\ Powers \subseteq Type /\ Economies \subseteq Type /\ Foreign \subseteq Type
  /\ Orders \in Nat /\ Trouble \subseteq Troubles

VARIABLES
  items,      \* the queue of the game, the head is worked on: [of, done]
  landed,     \* the ids of the buildings of each type that stand on the map
  born,       \* the last id given to a building of each type
  trouble,    \* what is wrong, or none
  byHand,     \* what the player did to the queue so far
  quick,      \* the queue has moved on and the manager has not seen it yet
  queueCopy,  \* the copy of the queue in the world model
  standing,   \* the copy of what stands on the map
  books,      \* the record of each job
  unread,     \* completion events a job has not read
  told,       \* why a job waits, in its last report since it went on
  mode,       \* the manager warns or places
  ready,      \* what the manager knows of a ready building of each type
  notified    \* the buildings the manager has told the player of

gameVars == <<items, landed, born, trouble, byHand, quick>>
viewVars == <<queueCopy, standing>>
jobVars == <<books, unread, told>>
managerVars == <<mode, ready, notified>>
queueVars == <<gameVars, viewVars, jobVars, managerVars>>

NoBuildings == [t \in Type |-> {}]
Item(t) == [of |-> t, done |-> FALSE]
HeadReady(q) == q # <<>> /\ q[1].done
ReadyOf(q, t) == \E i \in DOMAIN q : q[i].of = t /\ q[i].done
ActiveOf(q, t) == \E i \in DOMAIN q : q[i].of = t /\ ~q[i].done
Concluded == {"succeeded", "failed", "aborted"}

NewJob == [status |-> "none", reason |-> "none", issued |-> 0, produced |-> 0,
           counted |-> 0, known |-> {}, robbed |-> FALSE]

QueueInit ==
  /\ items = <<>> /\ landed = NoBuildings /\ born = [t \in Type |-> 0] /\ trouble = "none"
  /\ byHand = 0 /\ quick = FALSE
  /\ queueCopy = <<>> /\ standing = NoBuildings
  /\ books = [j \in Job |-> NewJob]
  /\ unread = [j \in Job |-> 0]
  /\ told = [j \in Job |-> "none"]
  /\ mode \in {"warn", "auto_place"}
  /\ ready = [t \in Type |-> "none"] /\ notified = {}

-----------------------------------------------------------------------------
(* The game and the player.                                                *)

\* The head of the queue is finished.
Complete ==
  /\ items # <<>> /\ ~items[1].done /\ ~quick
  /\ trouble \notin {"queue_missing", "no_funds", "queue_paused"}
  /\ items' = [items EXCEPT ![1].done = TRUE]
  /\ UNCHANGED <<landed, born, trouble, byHand, quick, viewVars,
                 jobVars, managerVars>>

\* Of the map only the buildings that some job is after are kept.
Sought == {TypeOf[j] : j \in Job}

\* The ready head can become a building on the map, does, or does not.
CanLand == HeadReady(items) /\ trouble # "no_room"
Lands(t) ==
  /\ born' = [born EXCEPT ![t] = @ + 1]
  /\ landed' = [landed EXCEPT ![t] = @ \cup {born[t] + 1}]
Landed ==
  /\ IF items[1].of \in Sought THEN Lands(items[1].of) ELSE UNCHANGED <<landed, born>>
  /\ quick' = TRUE
NotLanded == UNCHANGED <<landed, born, quick>>

\* Ordered with auto_place_building, or placed by the player.
AutoPlace ==
  /\ CanLand /\ Landed
  /\ items' = Tail(items)
  /\ UNCHANGED <<trouble, byHand, viewVars, jobVars, managerVars>>

PlayerOrders ==
  /\ byHand < Orders
  /\ byHand' = byHand + 1
  /\ \E t \in Type : items' = Append(items, Item(t))
  /\ UNCHANGED <<landed, born, trouble, quick, viewVars, jobVars, managerVars>>

\* A job that has ordered and has not ended counts on what it ordered: it will
\* not order again.  That something was taken from it is marked for the
\* property below.
Working(j) == books[j].status \in {"running", "waiting"}
Counting(t) == {j \in Job : TypeOf[j] = t /\ Working(j) /\ books[j].issued > 0}
Robbed(S) == [j \in Job |-> [books[j] EXCEPT !.robbed = @ \/ j \in S]]

\* By hand an item of any job is taken off the queue, ready or not.
PlayerCancels ==
  /\ byHand < Orders
  /\ byHand' = byHand + 1
  /\ \E i \in DOMAIN items :
       /\ items' = RemoveAt(items, i)
       /\ books' = Robbed(Counting(items[i].of))
  /\ UNCHANGED <<landed, born, trouble, quick, viewVars, unread, told, managerVars>>

\* A building is destroyed or sold, perhaps before anyone has seen it stand.
Falls ==
  /\ \E t \in Type : \E b \in landed[t] :
       /\ landed' = [landed EXCEPT ![t] = @ \ {b}]
       /\ books' = Robbed({j \in Counting(t) : b \notin books[j].known})
  /\ UNCHANGED <<items, born, trouble, byHand, quick, viewVars, unread, told, managerVars>>

TroubleChanges ==
  /\ trouble' \in IF trouble = "none" THEN Trouble ELSE {"none"}
  /\ UNCHANGED <<items, landed, born, byHand, quick, viewVars, jobVars, managerVars>>

-----------------------------------------------------------------------------
(* The world model.  Its layers are fetched one after the other.           *)

SeeActors ==
  /\ standing # landed /\ trouble # "unreachable"
  /\ standing' = landed
  /\ UNCHANGED <<gameVars, queueCopy, jobVars, managerVars>>

\* A ready item is news unless one of its name was ready in its place before.
News(t) == HeadReady(items) /\ items[1].of = t /\ ~(HeadReady(queueCopy) /\ queueCopy[1].of = t)

SeeQueue ==
  /\ queueCopy # items /\ trouble # "unreachable"
  /\ queueCopy' = items
  /\ unread' = [j \in Job |->
       IF News(TypeOf[j]) /\ books[j].status \notin Concluded \cup {"none"} /\ unread[j] < Count[j]
       THEN unread[j] + 1 ELSE unread[j]]
  /\ UNCHANGED <<gameVars, standing, books, told, managerVars>>

-----------------------------------------------------------------------------
(* The job.                                                                *)

\* The tasks' agents and the kernel start jobs.
Start(j) ==
  /\ books[j].status = "none"
  /\ books' = [books EXCEPT ![j].status = "running", ![j].known = standing[TypeOf[j]]]
  /\ UNCHANGED <<gameVars, viewVars, unread, told, managerVars>>

\* Completion events count up to the number asked for, whoever's they are.
AfterEvents(s, j) ==
  LET n == Min({unread[j], Count[j] - s.produced})
  IN  IF n = 0 THEN s
      ELSE [s EXCEPT !.produced = @ + n, !.counted = @ + n, !.status = "running"]

\* Mutant of AfterArrivals: only completion events count.
AfterArrivalsNone(s, j) == [s EXCEPT !.known = standing[TypeOf[j]]]

\* Buildings new on the map count up to the number ordered.
AfterArrivals(s, j) ==
  LET new == Cardinality(standing[TypeOf[j]] \ s.known)
      most == Min({s.issued, Count[j]})
      n == IF s.produced < most THEN Min({new, most - s.produced}) ELSE 0
      t == [s EXCEPT !.known = standing[TypeOf[j]]]
  IN  IF n = 0 THEN t ELSE [t EXCEPT !.produced = @ + n, !.status = "running"]

\* A building placed is counted, unless its completion already was.
AfterPlacing(s, j) ==
  IF s.counted > 0 THEN [s EXCEPT !.counted = @ - 1, !.status = "running"]
  ELSE IF s.produced < Count[j] THEN [s EXCEPT !.produced = @ + 1, !.status = "running"]
  ELSE [s EXCEPT !.status = "running"]

\* The first reason that applies.
WaitingReason(j) ==
  LET t == TypeOf[j]
  IN  CASE trouble = "queue_missing" -> "queue_missing"
        [] HeadReady(queueCopy) /\ ~ReadyOf(queueCopy, t) -> "queue_ready_item_pending"
        [] trouble = "low_power" /\ t \notin Powers -> "low_power"
        [] trouble = "no_funds" /\ ~ActiveOf(queueCopy, t) -> "no_funds"
        [] trouble = "unreachable" -> "raises"
        [] trouble = "cannot_produce" \/ t \in Foreign -> "cannot_produce"
        [] trouble = "queue_paused" /\ queueCopy # <<>> -> "queue_paused"
        [] OTHER -> "none"

\* Mutant of Reports: only the first of several reasons is told.
ReportsFirst(s, r) == s.reason = "none"

\* The agent is told of a reason once.
Reports(s, r) == r # s.reason
Waiting(s, r) == [s EXCEPT !.status = "waiting", !.reason = r]
Resumed(s) == IF s.status = "waiting" THEN [s EXCEPT !.status = "running", !.reason = "none"] ELSE s

Waits(s, j, r) ==
  /\ books' = [books EXCEPT ![j] = Waiting(s, r)]
  /\ told' = [told EXCEPT ![j] = IF Reports(s, r) THEN r ELSE @]
Becomes(s, j) ==
  /\ books' = [books EXCEPT ![j] = s]
  /\ told' = [told EXCEPT ![j] = IF s.reason = "none" THEN "none" ELSE @]

\* Nobody reads the books of a job that has ended.
Dropped(status) == [NewJob EXCEPT !.status = status]
EndsAs(j, status) ==
  /\ books' = [books EXCEPT ![j] = Dropped(status)]
  /\ told' = [told EXCEPT ![j] = "none"]

\* A building only the other faction has will never be possible.
WaitsOrFails(s, j, r) ==
  IF r = "cannot_produce" /\ TypeOf[j] \in Foreign
  THEN EndsAs(j, "failed")
  ELSE Waits(s, j, r)

\* The order is queued, once more when the client waits for the answer in vain
\* and sends it again; or the game declines it.
Produce(s, j, q) ==
  IF trouble = "declines"
  THEN Waits(s, j, "produce_command_failed") /\ items' = q
  ELSE /\ Becomes([s EXCEPT !.issued = @ + 1, !.status = "running"], j)
       /\ items' = q \o [i \in 1 .. IF trouble = "slow" THEN 2 ELSE 1 |-> Item(TypeOf[j])]

\* The rest of a tick once the job knows where it stands; q is the game's
\* queue by then.  A call that raises fails the job without a signal.
Decide(s, j, q) ==
  LET r == WaitingReason(j)
      t == Resumed(s)
      idle == ActiveOf(queueCopy, TypeOf[j]) \/ t.issued >= Count[j]
  IN  IF s.produced >= Count[j]
      THEN EndsAs(j, "succeeded") /\ items' = q
      ELSE IF r = "raises" THEN EndsAs(j, "failed") /\ items' = q
      ELSE IF r # "none" THEN WaitsOrFails(s, j, r) /\ items' = q
      ELSE IF idle THEN Becomes(t, j) /\ items' = q
      ELSE IF trouble = "economy_first" /\ TypeOf[j] \notin Economies
      THEN Waits(t, j, "economy_first_constraint") /\ items' = q
      ELSE Produce(t, j, q)

\* place_building: the game places what is ready now, if it finds room.  An
\* effect the client does not see in time is an error to it.
CanPlace == CanLand /\ trouble # "unreachable"

Read(j) == AfterArrivals(AfterEvents(books[j], j), j)
Places(j) == ReadyOf(queueCopy, TypeOf[j])

\* A tick with no building to place.
TickPlain(j) ==
  /\ ~Places(j)
  /\ Decide(Read(j), j, items) /\ NotLanded

TickPlaces(j) ==
  /\ Places(j) /\ CanPlace /\ trouble # "slow" /\ Landed
  /\ Decide(AfterPlacing(Read(j), j), j, Tail(items))

TickCannotPlace(j) ==
  /\ Places(j)
  /\ Waits(Read(j), j, "ready_item_not_placeable")
  /\ \/ CanPlace /\ trouble = "slow" /\ Landed /\ items' = Tail(items)
     \/ ~CanPlace /\ NotLanded /\ items' = items

ProductionTick(j) ==
  /\ Working(j)
  /\ TickPlain(j) \/ TickPlaces(j) \/ TickCannotPlace(j)
  /\ unread' = [unread EXCEPT ![j] = 0]
  /\ UNCHANGED <<trouble, byHand, viewVars, managerVars>>

\* The queue is cleared of what the job believes is its own, the last items of
\* the type: they may be those of another job.
Owned(s) == s.counted + (IF s.issued > s.produced THEN s.issued - s.produced ELSE 0)
Without(q, t, n) ==
  LET mine == {i \in DOMAIN q : q[i].of = t}
      gone == {i \in mine : Cardinality({k \in mine : k > i}) < n}
  IN  [i \in 1 .. Len(q) - Cardinality(gone) |->
         q[CHOOSE k \in DOMAIN q \ gone : Cardinality({m \in DOMAIN q \ gone : m < k}) = i - 1]]

Abort(j) ==
  /\ Working(j)
  /\ LET matching == Cardinality({i \in DOMAIN queueCopy : queueCopy[i].of = TypeOf[j]})
         n == Min({matching, Owned(books[j])})
     IN  IF trouble # "unreachable" /\ n > 0
         THEN /\ items' = Without(items, TypeOf[j], n)
              /\ books' = [Robbed(Counting(TypeOf[j])) EXCEPT ![j] = Dropped("aborted")]
         ELSE /\ UNCHANGED items
              /\ books' = [books EXCEPT ![j] = Dropped("aborted")]
  /\ told' = [told EXCEPT ![j] = "none"]
  /\ unread' = [unread EXCEPT ![j] = 0]
  /\ UNCHANGED <<landed, born, trouble, byHand, quick, viewVars, managerVars>>

-----------------------------------------------------------------------------
(* The manager.                                                            *)

\* ready_timeout_s have passed since a building was first seen ready.
ReadyAges(t) ==
  /\ ready[t] = "seen"
  /\ ready' = [ready EXCEPT ![t] = "due"]
  /\ UNCHANGED <<gameVars, viewVars, jobVars, mode, notified>>

ReadyType == IF HeadReady(queueCopy) THEN {queueCopy[1].of} ELSE {}
Shown == ready' = [t \in Type |-> IF t \notin ReadyType THEN "none"
                                  ELSE IF ready[t] = "none" THEN "seen" ELSE ready[t]]
         /\ notified' = notified \cap ReadyType
Due == {t \in ReadyType : ready[t] = "due"}

\* What is not ready any more is forgotten, what is ready is timed.
ManagerLooks ==
  /\ Due = {} \/ (mode = "warn" /\ Due \subseteq notified)
  /\ Shown
  /\ quick' = (quick /\ queueCopy # items)
  /\ <<quick', ready', notified'>> # <<quick, ready, notified>>
  /\ UNCHANGED <<items, landed, born>>

ManagerWarns ==
  /\ mode = "warn" /\ Due # {} /\ ~(Due \subseteq notified)
  /\ notified' = (notified \cap ReadyType) \cup Due
  /\ ready' = [t \in Type |-> IF t \in ReadyType THEN ready[t] ELSE "none"]
  /\ quick' = (quick /\ queueCopy # items)
  /\ UNCHANGED <<items, landed, born>>


\* Handled is only what was placed without an error.
AfterManager(ok) == IF ok THEN "handled" ELSE "due"

ManagerPlaces ==
  /\ mode = "auto_place"
  /\ \E t \in Due :
       /\ ready' = [u \in Type |-> IF u # t THEN "none"
                        ELSE AfterManager(CanPlace /\ trouble # "slow")]
       /\ notified' = {t}
       /\ \/ CanPlace /\ Landed /\ items' = Tail(items)
          \/ ~CanPlace /\ NotLanded /\ items' = items

ManagerTick ==
  /\ ManagerLooks \/ ManagerWarns \/ ManagerPlaces
  /\ UNCHANGED <<trouble, byHand, viewVars, jobVars, mode>>

-----------------------------------------------------------------------------
GameStep == Complete \/ AutoPlace \/ PlayerOrders \/ PlayerCancels \/ Falls \/ TroubleChanges
LoopWorks == SeeActors \/ SeeQueue \/ ManagerTick
ReadyTimePasses == \E t \in Type : ReadyAges(t)
QueueNext ==
  \/ GameStep \/ LoopWorks \/ ReadyTimePasses
  \/ \E j \in Job : Start(j) \/ ProductionTick(j) \/ Abort(j)

QueueSpec == QueueInit /\ [][QueueNext]_queueVars

\* The loop refreshes the world, ticks the jobs and then the manager, time
\* passes, and the game finishes what it works on; it may never find a place
\* for a building by itself.
QueueLiveSpec ==
  /\ QueueSpec
  /\ WF_queueVars(Complete) /\ WF_queueVars(LoopWorks) /\ WF_queueVars(ReadyTimePasses)
  /\ \A j \in Job : WF_queueVars(ProductionTick(j))

-----------------------------------------------------------------------------
QueueTypeOK ==
  /\ items \in Seq([of : Type, done : BOOLEAN]) /\ queueCopy \in Seq([of : Type, done : BOOLEAN])
  /\ \A i \in 2 .. Len(items) : ~items[i].done
  /\ born \in [Type -> Nat]
  /\ \A t \in Type : landed[t] \cup standing[t] \subseteq 1 .. born[t]
  /\ \A j \in Job :
       /\ books[j].status \in {"none", "running", "waiting"} \cup Concluded
       /\ books[j].reason \in Reasons \cup {"none"}
       /\ books[j].issued \in 0 .. Count[j] /\ books[j].produced \in 0 .. Count[j]
       /\ books[j].counted \in 0 .. books[j].produced
       /\ books[j].known \subseteq 1 .. born[TypeOf[j]] /\ books[j].robbed \in BOOLEAN
       /\ unread[j] \in 0 .. Count[j]
  /\ ready \in [Type -> {"none", "seen", "due", "handled"}] /\ notified \subseteq Type

\* A job that waits has told its agent the reason it waits for, since it last
\* went on for want of any.  A reason that follows on another is told as well.
WaitIsTold == \A j \in Job : books[j].status = "waiting" => told[j] = books[j].reason

Calm == <>[](trouble = "none")

\* Once the conditions stay good a job ends, however stale its view was, who
\* ever placed its buildings and whatever stood ready before them, unless what
\* it ordered was cancelled, or fell before it was seen: the code orders no
\* more than it was asked for, and waits for such a loss for ever.
ProductionEnds ==
  mode = "auto_place" /\ Calm =>
    \A j \in Job : Working(j) ~> (~Working(j) \/ books[j].robbed)


=============================================================================
