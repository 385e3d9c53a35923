----------------------------- MODULE AdjutantProofs -----------------------------
(***************************************************************************)
(* For every number of clients, tasks and texts, and every length of the   *)
(* history: but for what this leaves out, no message falls between         *)
(* the history and the broadcasts, nothing starts on a stale world, and    *)
(* the steps of an order come one after the other.                         *)
(***************************************************************************)
EXTENDS Adjutant, FiniteSetTheorems, WellFoundedInduction, TLAPS

-----------------------------------------------------------------------------
(* The feed.                                                               *)

Due(i) == \E j \in DOMAIN batch : batch[j] = i

\* A client of the table hears what is sent from when it connects.
TableHears ==
  \A c \in Clients, i \in 1..offset :
    socket[c] = "on" => i \in heard[c] \/ i \in before[c] \/ Due(i)

FeedInv ==
  /\ messages \in Seq([task : Tasks, kind : Kinds])
  /\ offset \in 0..Len(messages)
  /\ batch \in Seq(Nat)
  /\ synced \in SUBSET Clients /\ \A c \in synced : socket[c] = "on"
  /\ heard \in [Clients -> SUBSET Nat]
  /\ before \in [Clients -> SUBSET Nat] /\ asof \in [Clients -> Nat]
  /\ socket \in [Clients -> {"off", "on", "struck"}]
  /\ TableHears
  /\ NoGap

LEMMA InitFeed == FeedInit => FeedInv
<1> SUFFICES ASSUME FeedInit PROVE FeedInv
  OBVIOUS
<1> QED
  BY DEF FeedInit, FeedInv, TableHears, NoGap

LEMMA TakeKeeps ==
  ASSUME FeedInv, NEW loop, TakeNew(loop)
  PROVE  FeedInv'
<1> DEFINE n == Len(messages) - offset
<1>1. /\ Len(messages) \in Nat /\ offset \in Nat /\ n \in Nat
      /\ batch' = [i \in 1..n |-> offset + i]
      /\ offset' = Len(messages) /\ UNCHANGED <<messages, socket, synced, heard, before, asof>>
  BY DEF FeedInv, TakeNew
<1>2. batch' \in Seq(Nat)
  BY <1>1
<1>3. \A i \in 1..Len(messages) : i <= offset \/ Due(i)'
  <2> SUFFICES ASSUME NEW i \in 1..Len(messages), i > offset PROVE Due(i)'
    BY <1>1
  <2>1. i - offset \in DOMAIN batch' /\ batch'[i - offset] = i
    BY <1>1
  <2> QED
    BY <2>1 DEF Due
<1>4. \A i \in Nat : ~Due(i)
  BY DEF TakeNew, Due
<1>5. TableHears'
  BY <1>1, <1>3, <1>4 DEF FeedInv, TableHears
<1>6. NoGap'
  BY <1>1, <1>3, <1>4 DEF FeedInv, NoGap, LeftOut, Due
<1> QED
  BY <1>1, <1>2, <1>5, <1>6 DEF FeedInv

LEMMA SendKeeps ==
  ASSUME FeedInv, NEW failing, SendNext(failing)
  PROVE  FeedInv'
<1>1. /\ batch # <<>> /\ batch \in Seq(Nat) /\ batch' = Tail(batch)
      /\ failing \subseteq {c \in Clients : socket[c] = "on"}
      /\ socket' = [c \in Clients |-> IF c \in failing THEN "struck" ELSE socket[c]]
      /\ synced' = synced \ failing
      /\ heard' = [c \in Clients |-> IF socket'[c] = "on" THEN heard[c] \cup ({Head(batch)} \ {0}) ELSE {}]
      /\ UNCHANGED <<messages, offset, before, asof>>
  BY DEF FeedInv, SendNext
<1>2. /\ batch' \in Seq(Nat) /\ Head(batch) \in Nat /\ Head(batch) = batch[1]
      /\ \A j \in DOMAIN batch : j # 1 => j - 1 \in DOMAIN batch' /\ batch'[j - 1] = batch[j]
  BY <1>1
<1>3. \A i \in Nat : Due(i) => i = Head(batch) \/ Due(i)'
  BY <1>2 DEF Due
<1>4. \A c \in Clients, i \in 1..offset : socket'[c] = "on" =>
        /\ socket[c] = "on" /\ heard[c] \subseteq heard'[c]
        /\ i = Head(batch) => i \in heard'[c]
  BY <1>1 DEF FeedInv
<1>5. TableHears'
  BY <1>1, <1>3, <1>4 DEF FeedInv, TableHears
<1>6. socket' \in [Clients -> {"off", "on", "struck"}] /\ \A c \in synced' : c \in synced /\ socket'[c] = "on"
  BY <1>1 DEF FeedInv
<1>7. NoGap'
  <2> SUFFICES ASSUME NEW c \in synced', NEW i \in 1..offset
               PROVE  i \in heard'[c] \/ LeftOut(c, i)' \/ Due(i)'
    BY <1>1 DEF NoGap, Due
  <2>1. c \in Clients /\ c \in synced /\ socket'[c] = "on" /\ i \in Nat
    BY <1>6 DEF FeedInv
  <2>2. i \in heard[c] \/ LeftOut(c, i) \/ Due(i)
    BY <2>1 DEF FeedInv, NoGap, Due
  <2>3. LeftOut(c, i)' = LeftOut(c, i)
    BY <1>1 DEF LeftOut
  <2> QED
    BY <1>3, <1>4, <2>1, <2>2, <2>3
<1>8. heard' \in [Clients -> SUBSET Nat]
  BY <1>1, <1>2 DEF FeedInv
<1> QED
  BY <1>1, <1>2, <1>5, <1>6, <1>7, <1>8 DEF FeedInv

LEMMA SyncKeeps ==
  ASSUME FeedInv, NEW c \in Clients, NEW fails \in BOOLEAN, Sync(c, fails)
  PROVE  FeedInv'
<1>1. socket[c] = "on" /\ UNCHANGED <<messages, offset, batch, before>>
  BY DEF Sync
<1>2. CASE fails
  <2>1. /\ socket' = [socket EXCEPT ![c] = "struck"] /\ synced' = synced \ {c}
        /\ heard' = [heard EXCEPT ![c] = {}] /\ asof' = asof
    BY <1>2 DEF Sync
  <2>2. TableHears'
    BY <1>1, <2>1 DEF FeedInv, TableHears, Due
  <2>3. NoGap'
    BY <1>1, <2>1 DEF FeedInv, NoGap, LeftOut
  <2> QED
    BY <1>1, <2>1, <2>2, <2>3 DEF FeedInv
<1>3. CASE ~fails
  <2>1. /\ synced' = synced \cup {c} /\ heard' = [heard EXCEPT ![c] = @ \cup Replay]
        /\ asof' = [asof EXCEPT ![c] = IF c \in synced THEN @ ELSE Len(messages)]
        /\ socket' = socket
    BY <1>3 DEF Sync
  <2>2. Replay \subseteq Nat /\ Len(messages) \in Nat /\ 1..offset \subseteq DOMAIN messages
    BY DEF Replay, FeedInv
  <2>3. heard' \in [Clients -> SUBSET Nat] /\ asof' \in [Clients -> Nat]
        /\ \A d \in Clients : heard[d] \subseteq heard'[d]
    BY <2>1, <2>2 DEF FeedInv
  <2>4. TableHears'
    BY <1>1, <2>1, <2>3 DEF FeedInv, TableHears, Due
  <2>5. NoGap'
    <3> SUFFICES ASSUME NEW d \in synced', NEW i \in 1..offset
                 PROVE  i \in heard'[d] \/ LeftOut(d, i)' \/ Due(i)
      BY <1>1 DEF NoGap, Due
    <3>1. CASE d \in synced
      <4>1. i \in heard[d] \/ LeftOut(d, i) \/ Due(i)
        BY <3>1 DEF FeedInv, NoGap, Due
      <4>2. asof'[d] = asof[d] /\ d \in Clients
        BY <2>1, <3>1 DEF FeedInv
      <4> QED
        BY <1>1, <2>3, <4>1, <4>2 DEF LeftOut
    <3>2. CASE d \notin synced
      <4>1. d = c /\ asof'[c] = Len(messages) /\ Replay \subseteq heard'[c]
        BY <2>1, <3>2 DEF FeedInv
      <4>2. i \in heard[c] \/ i \in before[c] \/ Due(i)
        BY <1>1 DEF FeedInv, TableHears
      <4>3. i \in Replay \/ messages[i].kind = "question" \/ i <= Len(messages) - Replayed
        BY <2>2, FeedAssumption DEF Replay
      <4> QED
        BY <1>1, <2>3, <4>1, <4>2, <4>3 DEF LeftOut
    <3> QED
      BY <3>1, <3>2
  <2> QED
    BY <1>1, <2>1, <2>3, <2>4, <2>5 DEF FeedInv
<1> QED
  BY <1>2, <1>3

LEMMA ClientKeeps ==
  ASSUME FeedInv, NEW c \in Clients, Client(c)
  PROVE  FeedInv'
<1>1. CASE Connect(c)
  <2>1. /\ socket[c] = "off" /\ socket' = [socket EXCEPT ![c] = "on"]
        /\ before' = [before EXCEPT ![c] = Sent]
        /\ UNCHANGED <<messages, offset, batch, synced, heard, asof>>
    BY <1>1 DEF Connect
  <2>2. Sent \subseteq Nat /\ \A i \in 1..offset : i \in Sent \/ Due(i)
    BY DEF Sent, Due, FeedInv
  <2>3. TableHears'
    BY <2>1, <2>2 DEF FeedInv, TableHears, Due
  <2>4. NoGap'
    BY <2>1 DEF FeedInv, NoGap, LeftOut
  <2> QED
    BY <2>1, <2>2, <2>3, <2>4 DEF FeedInv
<1>2. CASE Disconnect(c)
  <2>1. /\ socket' = [socket EXCEPT ![c] = "off"] /\ synced' = synced \ {c}
        /\ heard' = [heard EXCEPT ![c] = {}] /\ UNCHANGED <<messages, offset, batch, before, asof>>
    BY <1>2 DEF Disconnect
  <2>2. TableHears'
    BY <2>1 DEF FeedInv, TableHears, Due
  <2>3. NoGap'
    BY <2>1 DEF FeedInv, NoGap, LeftOut
  <2> QED
    BY <2>1, <2>2, <2>3 DEF FeedInv
<1> QED
  BY <1>1, <1>2, SyncKeeps DEF Client

LEMMA ClearKeeps == FeedInv /\ FeedCleared => FeedInv'
<1> SUFFICES ASSUME FeedInv, FeedCleared PROVE FeedInv'
  OBVIOUS
<1>1. batch' \in Seq(Nat)
  <2>1. CASE byLoop
    BY <2>1 DEF FeedCleared
  <2>2. CASE ~byLoop
    BY <2>2 DEF FeedCleared, FeedInv
  <2> QED
    BY <2>1, <2>2
<1> QED
  BY <1>1 DEF FeedCleared, FeedInv, TableHears, NoGap

LEMMA RegisterKeeps ==
  ASSUME FeedInv, NEW t \in Tasks, NEW kind \in Kinds, messages' = Registered(t, kind),
         UNCHANGED <<offset, batch, socket, synced, heard, before, asof>>
  PROVE  FeedInv'
<1>1. /\ messages' \in Seq([task : Tasks, kind : Kinds]) /\ offset' \in 0..Len(messages')
      /\ \A i \in 1..offset : messages'[i] = messages[i]
  BY DEF FeedInv, Registered
<1>2. TableHears' /\ NoGap'
  BY <1>1 DEF FeedInv, TableHears, NoGap, LeftOut, Due
<1> QED
  BY <1>1, <1>2 DEF FeedInv

LEMMA FeedStep == FeedInv /\ [Next]_vars => FeedInv'
<1> SUFFICES ASSUME FeedInv, [Next]_vars PROVE FeedInv'
  OBVIOUS
<1>0. CASE UNCHANGED feedVars
  BY <1>0 DEF feedVars, FeedInv, TableHears, NoGap, LeftOut, Due
<1>1. ASSUME NEW c \in Clients,
             Submit(c) \/ Classified(c) \/ QueryAnswered(c) \/ (\E t \in Tasks : CancelPressed(c, t))
      PROVE  FeedInv'
  BY <1>0, <1>1 DEF Submit, Classified, QueryAnswered, CancelPressed
<1>2. ASSUME NEW c \in Clients, ClearSession(c) PROVE FeedInv'
  BY <1>2, ClearKeeps DEF ClearSession
<1>3. ASSUME NEW c \in Clients, ClientStep(c) PROVE FeedInv'
  BY <1>3, ClientKeeps DEF ClientStep
<1>4. CASE PublishStep
  BY <1>4, TakeKeeps, SendKeeps DEF PublishStep, Publish
<1>5. ASSUME NEW t \in Tasks, TaskEnds(t) PROVE FeedInv'
  BY <1>5, RegisterKeeps DEF TaskEnds, Kinds
<1>6. ASSUME NEW t \in Tasks, AgentSpeaks(t) PROVE FeedInv'
  BY <1>6, RegisterKeeps DEF AgentSpeaks, Kinds
<1>7. CASE SyncTurns \/ UNCHANGED vars
  BY <1>0, <1>7 DEF SyncTurns, vars
<1> QED
  BY <1>1, <1>2, <1>3, <1>4, <1>5, <1>6, <1>7 DEF Next

\* A client of the server's table that has had its history misses no message a
\* publication has taken but those its history leaves out (questions, and what
\* precedes its last entries, of what had been sent before the client came), whoever
\* fails, connects or clears the session between the sends (replay_history,
\* publish_task_messages, broadcast).
THEOREM NothingMissed == Spec => []NoGap
<1>1. Init => FeedInv
  BY InitFeed DEF Init
<1>2. FeedInv => NoGap
  BY DEF FeedInv
<1> QED
  BY <1>1, <1>2, FeedStep, PTL DEF Spec

-----------------------------------------------------------------------------
(* The desk.                                                               *)

IsTask(r) == DOMAIN r = {"kind", "dom", "status", "order", "step"}
IsDesk(d) ==
  /\ DOMAIN d = {"tasks", "asking", "pending", "current", "directives"}
  /\ DOMAIN d.tasks = Tasks
  /\ \A t \in Tasks : IsTask(d.tasks[t])

\* A step that comes after another has one before it that came to something.
HasEarlier(d, order, step) ==
  \E s \in Tasks : /\ d.tasks[s].order = order
                   /\ d.tasks[s].step = step - 1
                   /\ d.tasks[s].status \in {"succeeded", "partial"}

\* The steps that are pending are those after the current one.
Chained(d) ==
  d.pending # <<>> =>
    /\ d.current \in Tasks /\ d.tasks[d.current].status # "none"
    /\ \A k \in 1..Len(d.pending) :
          /\ d.pending[k].order = d.tasks[d.current].order
          /\ d.pending[k].step = d.tasks[d.current].step + k

Ordered(d) ==
  /\ \A t \in Tasks : /\ d.tasks[t].step \in Nat
                      /\ d.tasks[t].status # "none" => d.tasks[t].order \in Nat \ {0}
                      /\ d.tasks[t].step > 1 => HasEarlier(d, d.tasks[t].order, d.tasks[t].step)
  /\ d.pending \in Seq([order : Nat, step : Nat])
  /\ Chained(d)

Sound(d) == IsDesk(d) /\ Ordered(d)

\* What a handler may make of a desk: it uses one place at most, none if it saw
\* a stale world, and keeps the steps that are pending or puts new ones.
Follows(d, e, blind) ==
  /\ Sound(e)
  /\ Spare(e) = Spare(d) \/ (~blind /\ \E i \in Spare(d) : Spare(e) = Spare(d) \ {i})
  /\ Len(e.pending) \in {Len(d.pending), Len(Plan) - 1}

LEMMA SpareId ==
  ASSUME NEW d, Spare(d) # {}
  PROVE  NextId(d) \in Spare(d) /\ NextId(d) \in Tasks /\ NextId(d) \in Nat \ {0}
<1>1. Spare(d) \subseteq Nat \ {0} /\ Spare(d) \subseteq Tasks
  BY DeskAssumption DEF Spare, Tasks
<1>2. PICK m \in Spare(d) : \A k \in Spare(d) : <<k, m>> \notin OpToRel(<, Nat)
  BY <1>1, WFMin, NatLessThanWellFounded, Zenon
<1>3. \A k \in Spare(d) : ~(k < m)
  BY <1>1, <1>2, Zenon DEF OpToRel
<1>4. \A k \in Spare(d) : m <= k
  BY <1>1, <1>3
<1> QED
  BY <1>1, <1>4 DEF NextId

LEMMA Stays ==
  ASSUME NEW d, Sound(d), NEW blind
  PROVE  Follows(d, d, blind)
  BY DEF Follows

\* A cancellation ends what runs, and nothing else.
LEMMA CancelFollows ==
  ASSUME NEW d, Sound(d), NEW ts
  PROVE  /\ Sound(Cancelled(d, ts)) /\ Spare(Cancelled(d, ts)) = Spare(d)
         /\ Cancelled(d, ts).pending = d.pending
<1> DEFINE e == Cancelled(d, ts)
<1>1. /\ DOMAIN e = DOMAIN d /\ e.pending = d.pending /\ e.current = d.current
      /\ e.tasks = [t \in Tasks |-> IF t \in ts \cap Running(d)
                                    THEN [d.tasks[t] EXCEPT !.status = "aborted"] ELSE d.tasks[t]]
  BY DEF Sound, IsDesk, Cancelled
<1>2. ASSUME NEW t \in Tasks
      PROVE  /\ IsTask(e.tasks[t]) /\ e.tasks[t].order = d.tasks[t].order
             /\ e.tasks[t].step = d.tasks[t].step
             /\ e.tasks[t].status = IF t \in ts \cap Running(d) THEN "aborted" ELSE d.tasks[t].status
  BY <1>1 DEF Sound, IsDesk, IsTask
<1>3. IsDesk(e)
  BY <1>1, <1>2 DEF Sound, IsDesk
<1>4. Spare(e) = Spare(d)
  BY <1>2 DEF Spare, Running
<1>5. Ordered(e)
  BY <1>1, <1>2 DEF Sound, Ordered, Chained, HasEarlier, Running
<1> HIDE DEF e
<1> QED
  BY <1>1, <1>3, <1>4, <1>5 DEF Sound, e

\* A task is put into the next place; its step is a first one or has one before it.
Placed(d, e, order, step) ==
  /\ Sound(e) /\ Spare(e) = Spare(d) \ {NextId(d)} /\ NextId(d) \in Spare(d)
  /\ e.pending = d.pending
  /\ e.tasks[NextId(d)].status = "running" /\ e.tasks[NextId(d)].step = step
  /\ e.tasks[NextId(d)].order = IF order = 0 THEN NextId(d) ELSE order

LEMMA CreateFollows ==
  ASSUME NEW d, Sound(d), Spare(d) # {}, NEW kind, NEW dom, NEW order \in Nat, NEW step \in Nat,
         step > 1 => order # 0 /\ HasEarlier(d, order, step)
  PROVE  Placed(d, Created(d, kind, dom, order, step), order, step)
<1> DEFINE e == Created(d, kind, dom, order, step)
           id == NextId(d)
           r == [kind |-> kind, dom |-> dom, status |-> "running",
                 order |-> IF order = 0 THEN id ELSE order, step |-> step]
<1>1. id \in Spare(d) /\ id \in Tasks /\ id \in Nat \ {0} /\ d.tasks[id].status = "none"
  BY SpareId DEF Spare
<1>2. /\ DOMAIN e = DOMAIN d /\ DOMAIN e.tasks = Tasks
      /\ e.pending = d.pending /\ e.current = d.current
      /\ e.tasks[id] = r /\ \A t \in Tasks \ {id} : e.tasks[t] = d.tasks[t]
  BY <1>1 DEF Sound, IsDesk, Created
<1>3. IsTask(r) /\ r.status = "running" /\ r.step = step /\ r.order = IF order = 0 THEN id ELSE order
  BY DEF IsTask
<1> HIDE DEF e, r, id
<1>4. IsDesk(e)
  BY <1>2, <1>3 DEF Sound, IsDesk
<1>5. Spare(e) = Spare(d) \ {id}
  BY <1>1, <1>2, <1>3 DEF Spare
<1>6. \A o, k : HasEarlier(d, o, k) => HasEarlier(e, o, k)
  BY <1>1, <1>2 DEF HasEarlier
<1>7. ASSUME NEW t \in Tasks
      PROVE  /\ e.tasks[t].step \in Nat
             /\ e.tasks[t].status # "none" => e.tasks[t].order \in Nat \ {0}
             /\ e.tasks[t].step > 1 => HasEarlier(e, e.tasks[t].order, e.tasks[t].step)
  <2>1. CASE t = id
    BY <1>1, <1>2, <1>3, <1>6, <2>1
  <2>2. CASE t # id
    BY <1>2, <1>6, <2>2 DEF Sound, Ordered
  <2> QED
    BY <2>1, <2>2
<1>8. Chained(e)
  BY <1>1, <1>2 DEF Sound, Ordered, Chained
<1>9. Ordered(e)
  BY <1>2, <1>7, <1>8 DEF Sound, Ordered
<1> QED
  BY <1>1, <1>2, <1>3, <1>4, <1>5, <1>9 DEF Sound, Placed, e, id

LEMMA DirectFollows ==
  ASSUME NEW d, Sound(d), Spare(d) # {}, NEW dom
  PROVE  Follows(d, Direct(d, dom), FALSE)
<1>1. /\ Sound(Direct(d, dom)) /\ Spare(Direct(d, dom)) = Spare(d) \ {NextId(d)}
      /\ NextId(d) \in Spare(d) /\ Direct(d, dom).pending = d.pending
  BY CreateFollows DEF Direct, Placed
<1> QED
  BY <1>1 DEF Follows

\* Whatever else a step of the player does to a desk that stays sound.
LEMMA SideFollows ==
  ASSUME NEW d, Sound(d), NEW x, NEW blind
  PROVE  /\ Follows(d, [d EXCEPT !.directives = x], blind)
         /\ Follows(d, [d EXCEPT !.asking = x], blind)
  BY DEF Follows, Sound, IsDesk, Ordered, Chained, HasEarlier, Spare

LEMMA AfterCancel ==
  ASSUME NEW d, Sound(d), NEW ts, NEW e, NEW blind, Follows(Cancelled(d, ts), e, blind)
  PROVE  Follows(d, e, blind)
  BY CancelFollows DEF Follows

LEMMA ManagedFollows ==
  ASSUME NEW d, Sound(d), Spare(d) # {}, NEW u, NEW e \in Managed(d, u)
  PROVE  Follows(d, e, FALSE)
<1> DEFINE c == Created(d, "agent", DomainOf(u), 0, 1)
<1>1. Sound(c) /\ Spare(c) = Spare(d) \ {NextId(d)} /\ NextId(d) \in Spare(d) /\ c.pending = d.pending
  BY CreateFollows DEF Placed
<1>2. e = c
  BY DEF Managed
<1> HIDE DEF c
<1> QED
  BY <1>1, <1>2 DEF Follows

LEMMA CommandFollows ==
  ASSUME NEW d, Sound(d), Spare(d) # {}, NEW u, NEW w, NEW e \in CommandOutcomes(d, u, w),
         NEW blind \in BOOLEAN, blind => w.stale
  PROVE  Follows(d, e, blind)
<1>1. CASE e = d
  BY <1>1, Stays
<1>2. CASE ~w.stale /\ e \in Managed(d, u)
  BY <1>2, ManagedFollows
<1> QED
  BY <1>1, <1>2 DEF CommandOutcomes

LEMMA OrdersFollow ==
  ASSUME NEW d, Sound(d), Spare(d) # {}, NEW u, NEW w, NEW blind \in BOOLEAN, blind => w.stale
  PROVE  /\ \A e \in MergeOutcomes(d, u, w) : Follows(d, e, blind)
         /\ ~blind => \A e \in EconomyOutcomes(d, u, w) : Follows(d, e, blind)
         /\ \A deed : \A e \in OrderOutcomes(d, u, w, deed) : Follows(d, e, blind)
         /\ \A e \in Answered(d) : Follows(d, e, blind)
<1>0. ASSUME NEW c, Sound(c), NEW b PROVE Follows(c, [c EXCEPT !.directives = @ \cup {u}], b)
  <2> DEFINE x == c.directives \cup {u}
  <2>1. [c EXCEPT !.directives = x] = [c EXCEPT !.directives = @ \cup {u}]
    OBVIOUS
  <2> HIDE DEF x
  <2>2. Follows(c, [c EXCEPT !.directives = x], b)
    BY <1>0, SideFollows
  <2> QED
    BY <2>1, <2>2
<1>1. ASSUME NEW e \in MergeOutcomes(d, u, w) PROVE Follows(d, e, blind)
  <2>1. e = d \/ e = [d EXCEPT !.directives = @ \cup {u}]
    BY <1>1, Zenon DEF MergeOutcomes
  <2> QED
    BY <1>0, <2>1, Stays, Zenon
<1>2. ASSUME NEW c, Sound(c), Spare(c) # {}, NEW e \in EconomyOutcomes(c, u, w)
      PROVE  Follows(c, e, FALSE)
  <2>1. \/ e = c \/ e = [c EXCEPT !.directives = @ \cup {u}]
        \/ e = Direct(c, "economy")
    BY <1>2, Zenon DEF EconomyOutcomes
  <2> QED
    BY <1>0, <1>2, <2>1, Stays, DirectFollows, Zenon
<1>3. ASSUME NEW deed, NEW e \in OrderOutcomes(d, u, w, deed) PROVE Follows(d, e, blind)
  <2>1. CASE w.stale
    BY <1>3, <2>1, Stays DEF OrderOutcomes
  <2>2. CASE ~w.stale
    <3> DEFINE cleared == Cancelled(d, Conflicting(d, deed.preempts))
    <3>1. Sound(cleared) /\ Spare(cleared) # {}
      BY CancelFollows
    <3>2. e \in EconomyOutcomes(cleared, u, w) \/ e = Direct(cleared, deed.expert)
      BY <1>3, <2>2 DEF OrderOutcomes
    <3> HIDE DEF cleared
    <3>3. Follows(cleared, e, FALSE)
      BY <1>2, <3>1, <3>2, DirectFollows
    <3> QED
      BY <2>2, <3>3, AfterCancel DEF cleared
  <2> QED
    BY <2>1, <2>2
<1>4. ASSUME NEW e \in Answered(d) PROVE Follows(d, e, blind)
  <2>1. PICK ts : e = [d EXCEPT !.asking = @ \ ts]
    BY <1>4, Zenon DEF Answered
  <2> DEFINE x == d.asking \ ts
  <2>2. e = [d EXCEPT !.asking = x]
    BY <2>1
  <2> HIDE DEF x
  <2> QED
    BY <2>2, SideFollows, Zenon
<1> QED
  BY <1>1, <1>2, <1>3, <1>4

\* An order in several steps: the first one is started, the others are kept.
LEMMA SequenceFollows ==
  ASSUME NEW d, Sound(d), Spare(d) # {}, NEW e \in SequenceOutcomes(d)
  PROVE  Follows(d, e, FALSE)
<1> DEFINE id == NextId(d)
           c == Direct(d, Plan[1])
           rest == [k \in 1..(Len(Plan) - 1) |-> [order |-> id, step |-> k + 1]]
<1>1. /\ Sound(c) /\ Spare(c) = Spare(d) \ {id} /\ id \in Spare(d)
      /\ c.tasks[id].status = "running" /\ c.tasks[id].step = 1 /\ c.tasks[id].order = id
  BY CreateFollows DEF Direct, Placed
<1>2. id \in Tasks /\ id \in Nat
  BY SpareId
<1>3. e = [c EXCEPT !.pending = rest, !.current = id]
  BY DEF SequenceOutcomes
<1> HIDE DEF c, id
<1>4. /\ DOMAIN e = DOMAIN c /\ e.tasks = c.tasks /\ e.pending = rest /\ e.current = id
  BY <1>1, <1>3 DEF Sound, IsDesk
<1>5. /\ rest \in Seq([order : Nat, step : Nat]) /\ Len(rest) = Len(Plan) - 1
      /\ \A k \in 1..Len(rest) : rest[k].order = id /\ rest[k].step = k + 1
  BY <1>2, DeskAssumption
<1> HIDE DEF rest
<1>6. Chained(e)
  BY <1>1, <1>2, <1>4, <1>5 DEF Chained
<1>7. Sound(e)
  BY <1>1, <1>4, <1>5, <1>6 DEF Sound, IsDesk, Ordered, HasEarlier
<1>8. Spare(e) = Spare(c)
  BY <1>4 DEF Spare
<1> QED
  BY <1>1, <1>4, <1>5, <1>7, <1>8 DEF Follows

LEMMA NluFollows ==
  ASSUME NEW d, Sound(d), Spare(d) # {}, NEW u, NEW w, NEW e \in NluOutcomes(d, u, w),
         NEW blind \in BOOLEAN, blind => w.stale
  PROVE  Follows(d, e, blind)
<1>1. CASE w.stale
  <2>1. e = d
    BY <1>1 DEF NluOutcomes
  <2> QED
    BY <2>1, Stays
<1>2. CASE ~w.stale
  <2>1. \/ e = d
        \/ e \in EconomyOutcomes(d, u, w) \/ e \in MergeOutcomes(d, u, w) \/ e \in SequenceOutcomes(d)
        \/ \E dom : e = Direct(d, dom)
        \/ e = Direct(Cancelled(d, Conflicting(d, "operator")), "combat")
    BY <1>2, Zenon DEF NluOutcomes
  <2>2. CASE e = Direct(Cancelled(d, Conflicting(d, "operator")), "combat")
    BY <1>2, <2>2, CancelFollows, DirectFollows, AfterCancel
  <2> QED
    BY <1>2, <2>1, <2>2, Stays, OrdersFollow, SequenceFollows, DirectFollows
<1> QED
  BY <1>1, <1>2

LEMMA DeedFollows ==
  ASSUME NEW d, Sound(d), Spare(d) # {}, NEW u, NEW w, NEW deed, NEW e \in DeedOutcomes(d, u, w, deed),
         NEW blind \in BOOLEAN, blind => w.stale
  PROVE  Follows(d, e, blind)
<1>1. \/ e \in OrderOutcomes(d, u, w, deed) \/ e \in Answered(d) \/ e = d
      \/ ~w.stale /\ e \in Managed(d, u)
      \/ e \in NluOutcomes(d, u, w) \/ e \in MergeOutcomes(d, u, w)
  BY Zenon DEF DeedOutcomes
<1> QED
  BY <1>1, Stays, OrdersFollow, ManagedFollows, NluFollows

LEMMA DirectOrFollows ==
  ASSUME NEW d, Sound(d), Spare(d) # {}, NEW u, NEW w, NEW other,
         NEW blind \in BOOLEAN, blind => w.stale, \A e \in other : Follows(d, e, blind),
         NEW e \in DirectOr(d, u, w, other)
  PROVE  Follows(d, e, blind)
<1>1. \/ \E deed : e \in OrderOutcomes(d, u, w, deed)
      \/ e \in NluOutcomes(d, u, w) \/ e \in other
  BY Zenon DEF DirectOr
<1> QED
  BY <1>1, OrdersFollow, NluFollows

LEMMA ClassFollows ==
  ASSUME NEW d, Sound(d), Spare(d) # {}, NEW u, NEW w, NEW class, NEW e \in ClassOutcomes(d, u, w, class),
         NEW blind \in BOOLEAN, blind => w.stale
  PROVE  Follows(d, e, blind)
<1> DEFINE freed(t) == Cancelled(d, {t})
<1>1. \/ e = d \/ e \in Answered(d) \/ e \in CommandOutcomes(d, u, w)
      \/ \E t : e = freed(t)
      \/ ~w.stale /\ \E t : e \in DirectOr(freed(t), u, w, CommandOutcomes(freed(t), u, w))
      \/ ~w.stale /\ e \in DirectOr(d, u, w, Managed(d, u))
  BY Zenon DEF ClassOutcomes
<1>2. ASSUME NEW t
      PROVE  Sound(freed(t)) /\ Spare(freed(t)) # {} /\ Follows(d, freed(t), blind)
  BY CancelFollows DEF Follows
<1>3. ASSUME NEW t, ~w.stale, e \in DirectOr(freed(t), u, w, CommandOutcomes(freed(t), u, w))
      PROVE  Follows(d, e, blind)
  <2> HIDE DEF freed
  <2>1. \A f \in CommandOutcomes(freed(t), u, w) : Follows(freed(t), f, blind)
    BY <1>2, CommandFollows
  <2>2. Follows(freed(t), e, blind)
    BY <1>2, <1>3, <2>1, DirectOrFollows
  <2> QED
    BY <2>2, AfterCancel DEF freed
<1>4. CASE ~w.stale /\ e \in DirectOr(d, u, w, Managed(d, u))
  BY <1>4, ManagedFollows, DirectOrFollows
<1> HIDE DEF freed
<1> QED
  BY <1>1, <1>2, <1>3, <1>4, Stays, OrdersFollow, CommandFollows

\* The report of the current step: the next one starts, or the rest is dropped.
LEMMA AdvanceFollows ==
  ASSUME NEW d, Sound(d), d.pending # <<>> => Spare(d) # {},
         NEW e \in Advanced(d, d.tasks[d.current].status)
  PROVE  /\ Sound(e)
         /\ \/ Spare(e) = Spare(d) /\ e.pending = <<>>
            \/ /\ ~stale
               /\ \E i \in Spare(d) : Spare(e) = Spare(d) \ {i}
               /\ d.pending # <<>> /\ Len(e.pending) = Len(d.pending) - 1
<1> DEFINE dropped == [d EXCEPT !.pending = <<>>, !.current = NoTask]
           next == Head(d.pending)
           started == Created(d, "direct", Plan[next.step], next.order, next.step)
           on == [started EXCEPT !.pending = Tail(@), !.current = NextId(d)]
<1>1. CASE e = [d EXCEPT !.current = NoTask] /\ d.pending = <<>>
  <2>1. DOMAIN e = DOMAIN d /\ e.tasks = d.tasks /\ e.pending = <<>>
    BY <1>1 DEF Sound, IsDesk
  <2> QED
    BY <2>1 DEF Sound, IsDesk, Ordered, Chained, HasEarlier, Spare
<1>2. CASE e = dropped
  <2>1. DOMAIN e = DOMAIN d /\ e.tasks = d.tasks /\ e.pending = <<>>
    BY <1>2 DEF Sound, IsDesk
  <2> QED
    BY <2>1 DEF Sound, IsDesk, Ordered, Chained, HasEarlier, Spare
<1>3. CASE /\ e = on /\ ~stale /\ d.pending # <<>>
           /\ d.tasks[d.current].status \in {"succeeded", "partial"}
  <2> DEFINE order == d.tasks[d.current].order
             step == d.tasks[d.current].step
  <2>a. /\ order \in Nat \ {0} /\ step \in Nat
        /\ \A k \in 1..Len(d.pending) : d.pending[k].order = order /\ d.pending[k].step = step + k
    BY <1>3 DEF Sound, Ordered, Chained
  <2>b. HasEarlier(d, order, step + 1)
    <3>1. d.current \in Tasks
      BY <1>3 DEF Sound, Ordered, Chained
    <3>2. d.tasks[d.current].status \in {"succeeded", "partial"}
      BY <1>3
    <3>3. d.tasks[d.current].order = order /\ d.tasks[d.current].step = step
      OBVIOUS
    <3> HIDE DEF order, step
    <3>4. step = (step + 1) - 1
      BY <2>a
    <3> QED
      BY <3>1, <3>2, <3>3, <3>4 DEF HasEarlier
  <2> HIDE DEF order, step
  <2>c. /\ d.pending \in Seq([order : Nat, step : Nat]) /\ Len(d.pending) \in Nat \ {0}
        /\ next = d.pending[1]
    BY <1>3 DEF Sound, Ordered
  <2>1. next.order = order /\ next.step = step + 1 /\ next.order \in Nat \ {0} /\ next.step \in Nat
    BY <2>a, <2>c
  <2>2. HasEarlier(d, next.order, next.step)
    BY <2>b, <2>1
  <2> HIDE DEF next
  <2>3. /\ Sound(started) /\ Spare(started) = Spare(d) \ {NextId(d)} /\ NextId(d) \in Spare(d)
        /\ started.pending = d.pending
        /\ started.tasks[NextId(d)].status = "running"
        /\ started.tasks[NextId(d)].step = next.step
        /\ started.tasks[NextId(d)].order = next.order
    <3>1. /\ Spare(d) # {} /\ next.order \in Nat /\ next.step \in Nat
          /\ next.order # 0 /\ HasEarlier(d, next.order, next.step)
      BY <1>3, <2>1, <2>2
    <3> DEFINE dom == Plan[next.step]
               ord == next.order
               st == next.step
    <3> HIDE DEF dom, ord, st
    <3>2. started = Created(d, "direct", dom, ord, st)
      BY DEF dom, ord, st
    <3>3. /\ Spare(d) # {} /\ ord \in Nat /\ st \in Nat /\ ord # 0 /\ HasEarlier(d, ord, st)
      BY <3>1 DEF ord, st
    <3>a. Placed(d, started, ord, st)
      BY <3>2, <3>3, CreateFollows
    <3> HIDE DEF started
    <3>4. /\ Sound(started) /\ Spare(started) = Spare(d) \ {NextId(d)} /\ NextId(d) \in Spare(d)
          /\ started.pending = d.pending
          /\ started.tasks[NextId(d)].status = "running"
          /\ started.tasks[NextId(d)].step = st
          /\ started.tasks[NextId(d)].order = ord
      BY <3>3, <3>a DEF Placed
    <3> QED
      BY <3>4 DEF ord, st
  <2> HIDE DEF started
  <2>4. /\ DOMAIN e = DOMAIN started /\ e.tasks = started.tasks
        /\ e.pending = Tail(d.pending) /\ e.current = NextId(d)
    BY <1>3, <2>3 DEF Sound, IsDesk
  <2>5. /\ e.pending \in Seq([order : Nat, step : Nat]) /\ Len(e.pending) = Len(d.pending) - 1
        /\ \A k \in 1..Len(e.pending) : e.pending[k] = d.pending[k + 1]
    BY <2>c, <2>4
  <2>6. \A k \in 1..Len(e.pending) :
          e.pending[k].order = next.order /\ e.pending[k].step = next.step + k
    <3> SUFFICES ASSUME NEW k \in 1..Len(e.pending)
                 PROVE  e.pending[k].order = next.order /\ e.pending[k].step = next.step + k
      OBVIOUS
    <3>1. k \in Nat /\ k + 1 \in 1..Len(d.pending) /\ e.pending[k] = d.pending[k + 1]
      BY <2>c, <2>5
    <3>2. d.pending[k + 1].order = order /\ d.pending[k + 1].step = step + (k + 1)
      BY <2>a, <3>1
    <3> QED
      BY <2>a, <2>1, <3>1, <3>2
  <2>7. Chained(e)
    BY <2>3, <2>4, <2>6, SpareId DEF Chained
  <2>8. Sound(e) /\ Spare(e) = Spare(started)
    BY <2>3, <2>4, <2>5, <2>7 DEF Sound, IsDesk, Ordered, HasEarlier, Spare
  <2> QED
    BY <1>3, <2>3, <2>5, <2>8
<1> QED
  BY <1>1, <1>2, <1>3 DEF Advanced

-----------------------------------------------------------------------------
(* The invariant: the desk is sound, and the places that are spare do for  *)
(* the steps that are pending and for what the handlers under way may      *)
(* start.  The second part is the bound on tasks that Submit guards.       *)

Busy == {c \in Clients : handler[c] # Idle}
Room == Cardinality(Spare(Desk)) >= Len(pending) + Len(Plan) * Cardinality(Busy)

DeskInv ==
  /\ Sound(Desk)
  /\ stale \in BOOLEAN
  /\ handler = [c \in Clients |-> handler[c]]
  /\ IsFiniteSet(Busy)
  /\ Room

\* A task that appears does so while the world is in sync.
InSync == \A t \in Tasks : tasks[t].status = "none" /\ tasks'[t].status # "none" => ~stale

LEMMA Spaces ==
  ASSUME NEW d
  PROVE  /\ IsFiniteSet(Spare(d)) /\ Cardinality(Spare(d)) \in Nat
         /\ IsFiniteSet(Tasks) /\ Cardinality(Spare(d)) <= Cardinality(Tasks)
         /\ Cardinality(Tasks) \in Nat
         /\ \A i \in Spare(d) : Cardinality(Spare(d) \ {i}) = Cardinality(Spare(d)) - 1
<1>1. IsFiniteSet(Tasks)
  BY DeskAssumption, FS_Interval DEF Tasks
<1>2. Spare(d) \subseteq Tasks
  BY DEF Spare
<1> QED
  BY <1>1, <1>2, FS_Subset, FS_CardinalityType, FS_RemoveElement

LEMMA Fewer ==
  ASSUME NEW p \in Nat, NEW a \in Nat, NEW b \in Nat, a <= b
  PROVE  /\ p * a \in Nat /\ p * b \in Nat /\ p * a <= p * b
         /\ b >= 1 => p * (b - 1) = p * b - p
<1>1. PICK k \in Nat : b = a + k
  BY SMT
<1>2. p * b = p * a + p * k /\ p * k \in Nat /\ p * a \in Nat /\ p * b \in Nat
  BY <1>1
<1>3. b >= 1 => p * (b - 1) = p * b - p
  OBVIOUS
<1> QED
  BY <1>2, <1>3

\* The numbers of the desk.
LEMMA Numbers ==
  ASSUME DeskInv
  PROVE  /\ Len(pending) \in Nat /\ Len(Plan) \in Nat /\ Len(Plan) >= 2
         /\ Cardinality(Busy) \in Nat /\ Len(Plan) * Cardinality(Busy) \in Nat
         /\ Cardinality(Spare(Desk)) \in Nat
         /\ Cardinality(Spare(Desk)) >= Len(pending) + Len(Plan) * Cardinality(Busy)
<1>1. pending \in Seq([order : Nat, step : Nat])
  BY DEF DeskInv, Sound, Ordered, Desk
<1>2. Len(pending) \in Nat /\ Len(Plan) \in Nat /\ Len(Plan) >= 2
  BY <1>1, DeskAssumption
<1>3. Cardinality(Busy) \in Nat
  BY FS_CardinalityType DEF DeskInv
<1> QED
  BY <1>2, <1>3, Fewer, Spaces DEF DeskInv, Room

LEMMA Becoming ==
  ASSUME NEW d, Sound(d), Becomes(d)
  PROVE  Sound(Desk)' /\ Spare(Desk)' = Spare(d) /\ pending' = d.pending
<1>1. Sound(Desk')
  BY DEF Sound, IsDesk, Ordered, Chained, HasEarlier, Desk, Becomes
<1>2. Spare(Desk') = Spare(d)
  BY DEF Spare, Desk, Becomes
<1> QED
  BY <1>1, <1>2 DEF Becomes

LEMMA CreatedInSync ==
  ASSUME NEW d, Becomes(d), Spare(d) = Spare(Desk) \/ ~stale
  PROVE  InSync
  BY DEF InSync, Spare, Desk, Becomes

\* What keeps the tasks, the pending steps and the handlers keeps the invariant.
LEMMA DeskSame ==
  ASSUME DeskInv, UNCHANGED deskVars, stale' \in BOOLEAN,
         handler' = [c \in Clients |-> handler'[c]], Busy' \subseteq Busy
  PROVE  DeskInv' /\ InSync
<1>1. Sound(Desk)' /\ Spare(Desk)' = Spare(Desk) /\ pending' = pending
  BY DEF DeskInv, Desk, deskVars
<1>2. IsFiniteSet(Busy') /\ Cardinality(Busy') <= Cardinality(Busy) /\ Cardinality(Busy') \in Nat
  BY FS_Subset, FS_CardinalityType DEF DeskInv
<1>3. Room'
  BY <1>1, <1>2, Numbers, Fewer DEF Room
<1> QED
  BY <1>1, <1>2, <1>3 DEF DeskInv, InSync, deskVars

\* As long as the places do, a step that leaves handlers alone keeps it too.
LEMMA DeskMoved ==
  ASSUME DeskInv, NEW d, Sound(d), Becomes(d), stale' \in BOOLEAN, UNCHANGED handler,
         \/ Spare(d) = Spare(Desk) /\ Len(d.pending) \in {0, Len(pending)}
         \/ /\ ~stale
            /\ \E i \in Spare(Desk) : Spare(d) = Spare(Desk) \ {i}
            /\ Len(pending) # 0 /\ Len(d.pending) = Len(pending) - 1
  PROVE  DeskInv' /\ InSync
<1>1. Sound(Desk)' /\ Spare(Desk)' = Spare(d) /\ pending' = d.pending
  BY Becoming
<1>2. Busy' = Busy
  BY DEF Busy
<1>3. Room'
  <2>1. Cardinality(Spare(Desk)) >= Len(pending) + Len(Plan) * Cardinality(Busy)
    BY Numbers
  <2>2. CASE Spare(d) = Spare(Desk) /\ Len(d.pending) \in {0, Len(pending)}
    BY <1>1, <1>2, <2>1, <2>2, Numbers DEF Room
  <2>3. CASE \E i \in Spare(Desk) : Spare(d) = Spare(Desk) \ {i} /\ Len(d.pending) = Len(pending) - 1
    <3>1. Cardinality(Spare(d)) = Cardinality(Spare(Desk)) - 1
      BY <2>3, Spaces
    <3> QED
      BY <1>1, <1>2, <2>1, <2>3, <3>1, Numbers DEF Room
  <2> QED
    BY <2>2, <2>3
<1>4. InSync
  BY CreatedInSync
<1> QED
  BY <1>1, <1>2, <1>3, <1>4 DEF DeskInv

-----------------------------------------------------------------------------
(* One lemma per action.                                                   *)

LEMMA SubmitKeeps ==
  ASSUME DeskInv, NEW c \in Clients, Submit(c)
  PROVE  DeskInv' /\ InSync
<1>1. PICK u \in Texts, facts \in FactSets :
        LET w == Sight(facts)
            deed == RouteOf(u, w)
        IN /\ handler' = [handler EXCEPT ![c] =
                IF deed.do = "classify" THEN [at |-> "classify", text |-> u] ELSE Idle]
           /\ \E d \in DeedOutcomes(Desk, u, w, deed) :
                Fits(d, {b \in Clients : handler'[b] # Idle}) /\ Becomes(d)
  BY DEF Submit
<1> DEFINE w == Sight(facts)
           deed == RouteOf(u, w)
<1>2. PICK d \in DeedOutcomes(Desk, u, w, deed) : Fits(d, Busy') /\ Becomes(d)
  BY <1>1 DEF Busy
<1>3. Spare(Desk) # {} /\ stale' = stale
  BY DEF Submit
<1>4. w.stale = stale
  BY DEF Sight
<1>5. handler' = [b \in Clients |-> handler'[b]] /\ \A b \in Clients \ {c} : handler'[b] = handler[b]
  BY <1>1 DEF DeskInv
<1> HIDE DEF w, deed
<1>6. Follows(Desk, d, stale)
  BY <1>2, <1>3, <1>4, DeedFollows DEF DeskInv
<1>7. Sound(Desk)' /\ Spare(Desk)' = Spare(d) /\ pending' = d.pending
  BY <1>2, <1>6, Becoming DEF Follows
<1>8. Busy' \subseteq Busy \cup {c}
  BY <1>5 DEF Busy
<1>9. IsFiniteSet(Busy')
  BY <1>8, FS_AddElement, FS_Subset DEF DeskInv
<1>10. Room'
  BY <1>2, <1>7 DEF Room, Fits
<1>11. InSync
  BY <1>2, <1>6, CreatedInSync DEF Follows
<1> QED
  BY <1>3, <1>5, <1>7, <1>9, <1>10, <1>11 DEF DeskInv

LEMMA ClassifiedKeeps ==
  ASSUME DeskInv, NEW c \in Clients, Classified(c)
  PROVE  DeskInv' /\ InSync
<1>1. c \in Busy /\ stale' = stale
  BY DEF Classified, Busy, Idle
<1>2. CASE handler' = [handler EXCEPT ![c].at = "answer"] /\ UNCHANGED deskVars
  <2>1. handler' = [b \in Clients |-> handler'[b]] /\ \A b \in Clients \ {c} : handler'[b] = handler[b]
    BY <1>2 DEF DeskInv
  <2>2. Busy' \subseteq Busy
    BY <1>1, <2>1 DEF Busy
  <2> QED
    BY <1>1, <1>2, <2>1, <2>2, DeskSame DEF DeskInv
<1>3. CASE /\ \E class \in Classes, facts \in FactSets :
                \E d \in ClassOutcomes(Desk, handler[c].text, Sight(facts), class) : Becomes(d)
           /\ handler' = [handler EXCEPT ![c] = Idle]
  <2>1. PICK class \in Classes, facts \in FactSets :
          \E d \in ClassOutcomes(Desk, handler[c].text, Sight(facts), class) : Becomes(d)
    BY <1>3
  <2> DEFINE w == Sight(facts)
             u == handler[c].text
  <2>2. PICK d \in ClassOutcomes(Desk, u, w, class) : Becomes(d)
    BY <2>1
  <2>3. w.stale = stale
    BY DEF Sight
  <2> HIDE DEF w, u
  <2>4. handler' = [b \in Clients |-> handler'[b]] /\ Busy' = Busy \ {c}
    BY <1>3 DEF DeskInv, Busy
  <2>5. IsFiniteSet(Busy') /\ Cardinality(Busy') = Cardinality(Busy) - 1 /\ Cardinality(Busy) >= 1
    <3>1. IsFiniteSet(Busy)
      BY DEF DeskInv
    <3>2. IsFiniteSet(Busy \ {c}) /\ Cardinality(Busy \ {c}) = Cardinality(Busy) - 1
      BY <1>1, <3>1, FS_RemoveElement
    <3>3. Cardinality(Busy) \in Nat /\ Cardinality(Busy \ {c}) \in Nat
      BY <3>1, <3>2, FS_CardinalityType
    <3> QED
      BY <2>4, <3>2, <3>3
  <2>6. /\ Cardinality(Busy) \in Nat
        /\ Len(Plan) * Cardinality(Busy') = Len(Plan) * Cardinality(Busy) - Len(Plan)
        /\ Len(Plan) * Cardinality(Busy') \in Nat
    BY <2>5, Numbers, Fewer
  <2>7. Cardinality(Spare(Desk)) >= 2
    BY <2>6, Numbers
  <2>8. Spare(Desk) # {}
    BY <2>7, FS_EmptySet
  <2>9. Follows(Desk, d, stale)
    BY <2>2, <2>3, <2>8, ClassFollows DEF DeskInv
  <2>10. Sound(Desk)' /\ Spare(Desk)' = Spare(d) /\ pending' = d.pending
    BY <2>2, <2>9, Becoming DEF Follows
  <2>11. Cardinality(Spare(d)) >= Cardinality(Spare(Desk)) - 1 /\ Cardinality(Spare(d)) \in Nat
    BY <2>9, Spaces DEF Follows
  <2>12. Len(d.pending) = Len(pending) \/ Len(d.pending) = Len(Plan) - 1
    BY <2>9 DEF Follows, Desk
  <2>13. Room'
    <3>1. Cardinality(Spare(d)) >= Len(d.pending) + Len(Plan) * Cardinality(Busy')
      BY <2>6, <2>11, <2>12, Numbers
    <3> QED
      BY <2>10, <3>1 DEF Room
  <2>14. InSync
    BY <2>2, <2>9, CreatedInSync DEF Follows
  <2> QED
    BY <1>1, <2>4, <2>5, <2>10, <2>13, <2>14 DEF DeskInv
<1> QED
  BY <1>2, <1>3 DEF Classified

LEMMA ClearKeepsDesk ==
  ASSUME DeskInv, NEW c \in Clients, ClearSession(c)
  PROVE  DeskInv' /\ InSync
<1>1. /\ tasks' = [t \in Tasks |-> Unused] /\ pending' = <<>> /\ stale' = stale
      /\ handler' = handler
  BY DEF ClearSession
<1>2. IsTask(Unused) /\ Unused.status = "none" /\ Unused.step = 0
  BY DEF IsTask, Unused
<1>3. Sound(Desk)'
  BY <1>1, <1>2 DEF Sound, IsDesk, Ordered, Chained, Desk
<1>4. Spare(Desk)' = Tasks
  BY <1>1, <1>2 DEF Spare, Desk
<1>5. Busy' = Busy
  BY <1>1 DEF Busy
<1>6. Room'
  BY <1>1, <1>4, <1>5, Numbers, Spaces DEF Room
<1> QED
  BY <1>1, <1>2, <1>3, <1>5, <1>6 DEF DeskInv, InSync

LEMMA PublishKeeps ==
  ASSUME DeskInv, PublishStep
  PROVE  DeskInv' /\ InSync
<1>1. stale' = stale /\ handler' = handler
  BY DEF PublishStep
<1>2. CASE UNCHANGED deskVars
  BY <1>1, <1>2, DeskSame DEF DeskInv, Busy
<1>3. CASE \E d \in Advanced(Desk, tasks[current].status) : Becomes(d)
  <2>1. PICK d \in Advanced(Desk, Desk.tasks[Desk.current].status) : Becomes(d)
    BY <1>3 DEF Desk
  <2>2. Desk.pending = pending /\ (pending # <<>> => Spare(Desk) # {})
    <3>1. pending \in Seq([order : Nat, step : Nat]) /\ Desk.pending = pending
      BY DEF DeskInv, Sound, Ordered, Desk
    <3>2. pending # <<>> => Len(pending) >= 1
      BY <3>1
    <3>3. pending # <<>> => Cardinality(Spare(Desk)) # 0
      BY <3>2, Numbers
    <3> QED
      BY <3>1, <3>3, FS_EmptySet
  <2>3. /\ Sound(d)
        /\ \/ Spare(d) = Spare(Desk) /\ d.pending = <<>>
           \/ /\ ~stale
              /\ \E i \in Spare(Desk) : Spare(d) = Spare(Desk) \ {i}
              /\ pending # <<>> /\ Len(d.pending) = Len(pending) - 1
    BY <2>1, <2>2, AdvanceFollows DEF DeskInv
  <2>4. pending # <<>> => Len(pending) # 0
    BY DEF DeskInv, Sound, Ordered, Desk
  <2> QED
    BY <1>1, <2>1, <2>3, <2>4, DeskMoved DEF DeskInv
<1> QED
  BY <1>2, <1>3 DEF PublishStep, Publish, Notified

LEMMA EndKeeps ==
  ASSUME DeskInv, NEW t \in Tasks, TaskEnds(t)
  PROVE  DeskInv' /\ InSync
<1>1. PICK result \in Results : tasks' = [tasks EXCEPT ![t].status = result]
  BY DEF TaskEnds
<1>2. /\ tasks[t].status = "running" /\ result # "none"
      /\ UNCHANGED <<pending, current, directives, handler, stale>>
  BY <1>1, DeskAssumption DEF TaskEnds
<1>3. DOMAIN tasks = Tasks /\ \A s \in Tasks : IsTask(tasks[s])
  BY DEF DeskInv, Sound, IsDesk, Desk
<1>4. /\ DOMAIN tasks' = Tasks
      /\ \A s \in Tasks : /\ IsTask(tasks'[s]) /\ tasks'[s].order = tasks[s].order
                          /\ tasks'[s].step = tasks[s].step
                          /\ tasks'[s].status = IF s = t THEN result ELSE tasks[s].status
  BY <1>1, <1>3 DEF IsTask
<1>5. Spare(Desk') = Spare(Desk) /\ IsDesk(Desk')
  BY <1>2, <1>4 DEF Spare, Desk, IsDesk
<1>6. Ordered(Desk')
  <2>1. Ordered(Desk)
    BY DEF DeskInv, Sound
  <2>2. \A o, k : HasEarlier(Desk, o, k) => HasEarlier(Desk', o, k)
    BY <1>2, <1>4 DEF HasEarlier, Desk
  <2>3. \A s \in Tasks : /\ tasks'[s].step \in Nat
                         /\ tasks'[s].status # "none" => tasks'[s].order \in Nat \ {0}
                         /\ tasks'[s].step > 1 => HasEarlier(Desk', tasks'[s].order, tasks'[s].step)
    <3> SUFFICES ASSUME NEW s \in Tasks
                 PROVE  /\ tasks'[s].step \in Nat
                        /\ tasks'[s].status # "none" => tasks'[s].order \in Nat \ {0}
                        /\ tasks'[s].step > 1 => HasEarlier(Desk', tasks'[s].order, tasks'[s].step)
      OBVIOUS
    <3>1. /\ tasks[s].step \in Nat
          /\ tasks[s].status # "none" => tasks[s].order \in Nat \ {0}
          /\ tasks[s].step > 1 => HasEarlier(Desk, tasks[s].order, tasks[s].step)
      BY <2>1 DEF Ordered, Desk
    <3> QED
      BY <1>2, <1>4, <2>2, <3>1
  <2>4. pending \in Seq([order : Nat, step : Nat])
    BY <2>1 DEF Ordered, Desk
  <2>5. Chained(Desk')
    BY <1>2, <1>4, <2>1 DEF Ordered, Chained, Desk
  <2> QED
    BY <1>2, <2>3, <2>4, <2>5 DEF Ordered, Desk
<1>7. Busy' = Busy
  BY <1>2 DEF Busy
<1>8. Room' /\ InSync
  BY <1>2, <1>4, <1>5, <1>7 DEF DeskInv, Room, InSync
<1> QED
  BY <1>2, <1>5, <1>6, <1>7, <1>8 DEF DeskInv, Sound

LEMMA SpeakKeeps ==
  ASSUME DeskInv, NEW t \in Tasks, AgentSpeaks(t)
  PROVE  DeskInv' /\ InSync
<1> DEFINE d == [Desk EXCEPT !.asking = asking']
<1>1. Becomes(d) /\ stale' = stale /\ handler' = handler
  BY DEF AgentSpeaks, Becomes, Desk
<1>2. Sound(d) /\ Spare(d) = Spare(Desk) /\ d.pending = pending
  BY SideFollows DEF DeskInv, Follows, Desk, Spare
<1> HIDE DEF d
<1> QED
  BY <1>1, <1>2, DeskMoved DEF DeskInv

LEMMA DeskStep ==
  ASSUME DeskInv, [Next]_vars
  PROVE  DeskInv' /\ InSync
<1>1. CASE UNCHANGED vars
  BY <1>1, DeskSame DEF vars, DeskInv, Busy
<1>2. ASSUME NEW c \in Clients, QueryAnswered(c) PROVE DeskInv' /\ InSync
  BY <1>2, DeskSame DEF QueryAnswered, DeskInv, Busy
<1>3. ASSUME NEW c \in Clients, ClientStep(c) PROVE DeskInv' /\ InSync
  BY <1>3, DeskSame DEF ClientStep, DeskInv, Busy
<1>4. ASSUME NEW c \in Clients, NEW t \in Tasks, CancelPressed(c, t) PROVE DeskInv' /\ InSync
  <2>1. /\ Sound(Cancelled(Desk, {t})) /\ Spare(Cancelled(Desk, {t})) = Spare(Desk)
        /\ Cancelled(Desk, {t}).pending = pending
    BY CancelFollows DEF DeskInv, Desk
  <2> QED
    BY <1>4, <2>1, DeskMoved DEF CancelPressed, DeskInv
<1>5. CASE SyncTurns
  BY <1>5, DeskSame DEF SyncTurns, DeskInv, Busy
<1> QED
  BY <1>1, <1>2, <1>3, <1>4, <1>5, SubmitKeeps, ClassifiedKeeps, ClearKeepsDesk, PublishKeeps,
     EndKeeps, SpeakKeeps
  DEF Next

LEMMA InitDesk == Init => DeskInv
<1> SUFFICES ASSUME Init PROVE DeskInv
  OBVIOUS
<1>1. IsTask(Unused) /\ Unused.status = "none" /\ Unused.step = 0
  BY DEF IsTask, Unused
<1>2. Sound(Desk)
  BY <1>1 DEF Init, Sound, IsDesk, Ordered, Chained, Desk
<1>3. Busy = {} /\ pending = <<>> /\ stale \in BOOLEAN /\ handler = [c \in Clients |-> handler[c]]
  BY DEF Init, Busy
<1>4. Room /\ IsFiniteSet(Busy)
  BY <1>3, Spaces, FS_EmptySet, DeskAssumption DEF Room
<1> QED
  BY <1>2, <1>3, <1>4 DEF DeskInv

\* A later step of an order exists only if the one before it came to something.
THEOREM StepsFollow == Spec => []StepsInTurn
<1>1. Init => DeskInv
  BY InitDesk
<1>2. DeskInv /\ [Next]_vars => DeskInv'
  BY DeskStep
<1>3. DeskInv => StepsInTurn
  BY DEF DeskInv, Sound, Ordered, HasEarlier, StepsInTurn, Desk
<1> QED
  BY <1>1, <1>2, <1>3, PTL DEF Spec

\* No task appears while the sync is stale.
THEOREM NoOrderOnStaleWorld == Spec => OrdersNeedSync
<1>1. Init => DeskInv
  BY InitDesk
<1>2. DeskInv /\ [Next]_vars => DeskInv'
  BY DeskStep
<1>3. DeskInv /\ [Next]_vars =>
        [\A t \in Tasks : tasks[t].status = "none" /\ tasks'[t].status # "none" => ~stale]_vars
  BY DeskStep DEF InSync
<1> QED
  BY <1>1, <1>2, <1>3, PTL DEF Spec, OrdersNeedSync
=============================================================================
