-------------------------------- MODULE Feed --------------------------------
(***************************************************************************)
(* The feed of task messages (dashboard_publish.py, ws_server/server.py):  *)
(* what tasks report is kept in a log of the kernel; each publication      *)
(* takes what is new since the last one, sends it message by message to    *)
(* every client of the server's table, and calls the adjutant back.  A     *)
(* client that connects is in the table at once and asks for the history   *)
(* afterwards, which is the end of the log without its questions; one that *)
(* fails or is slow is struck from the table while its connection stays    *)
(* open.  Clearing the session empties the log.                            *)
(***************************************************************************)
EXTENDS Integers, Sequences, FiniteSets

CONSTANTS
    Clients, NoTask,
    Replayed,               \* how many of the last messages a history has
    MaxMessages             \* bound: the messages of a session

ASSUME FeedAssumption == MaxMessages \in Nat \ {0} /\ Replayed \in Nat \ {0}

VARIABLES
    messages,   \* kernel.task_messages: [task, kind]
    offset,     \* task_message_offset: how many have been taken for sending
    batch,      \* the indices taken and not yet sent; 0: of a session cleared since
    byLoop,     \* the publication under way, if any, is the loop's own, which a clear cancels
    socket,     \* "off" | "on" (in the table of the server) | "struck" (out of it, open)
    synced,     \* the clients of the table whose history has been replayed to them
    heard,      \* the indices a client of the table has been sent
    before,     \* auxiliary: the indices that had been sent when the client connected
    asof        \* auxiliary: how long the log was at the client's first history

feedVars == <<messages, offset, batch, byLoop, socket, synced, heard, before, asof>>

Kinds == {"report", "note", "question"}

FeedInit ==
    /\ messages = <<>> /\ offset = 0 /\ batch = <<>> /\ byLoop = TRUE
    /\ socket = [c \in Clients |-> "off"]
    /\ synced = {} /\ heard = [c \in Clients |-> {}]
    /\ before = [c \in Clients |-> {}] /\ asof = [c \in Clients |-> 0]

\* register_task_message.
Registered(task, kind) == Append(messages, [task |-> task, kind |-> kind])

(* ---------------- the publication ---------------- *)

\* publish_all: one at a time, for the loop's tick or for a handler; it reads the
\* list and moves the offset before it sends anything.
TakeNew(loop) ==
    /\ batch = <<>> /\ offset < Len(messages)
    /\ batch' = [i \in 1..(Len(messages) - offset) |-> offset + i]
    /\ offset' = Len(messages)
    /\ byLoop' = loop
    /\ UNCHANGED <<messages, socket, synced, heard, before, asof>>

\* Mutant of SendNext: the offset is set after the sends, to what the list has by then.
SendNextThenMark(failing) ==
    /\ batch # <<>>
    /\ LET table == {c \in Clients : socket[c] = "on"}
       IN /\ failing \subseteq table
          /\ socket' = [c \in Clients |-> IF c \in failing THEN "struck" ELSE socket[c]]
          /\ synced' = synced \ failing
          /\ heard' = [c \in Clients |->
                IF socket'[c] = "on" THEN heard[c] \cup ({Head(batch)} \ {0}) ELSE {}]
    /\ batch' = Tail(batch)
    /\ offset' = IF Len(batch) = 1 THEN Len(messages) ELSE offset
    /\ byLoop' = (byLoop \/ Len(batch) = 1)
    /\ UNCHANGED <<messages, before, asof>>

\* broadcast of one message: every client of the table gets it, or fails and is struck.
SendNext(failing) ==
    /\ batch # <<>>
    /\ LET table == {c \in Clients : socket[c] = "on"}
       IN /\ failing \subseteq table
          /\ socket' = [c \in Clients |-> IF c \in failing THEN "struck" ELSE socket[c]]
          /\ synced' = synced \ failing
          /\ heard' = [c \in Clients |->
                IF socket'[c] = "on" THEN heard[c] \cup ({Head(batch)} \ {0}) ELSE {}]
    /\ batch' = Tail(batch)
    /\ byLoop' = (byLoop \/ Len(batch) = 1)
    /\ UNCHANGED <<messages, offset, before, asof>>

(* ---------------- the clients ---------------- *)

\* Taken for sending, and sent.
Sent == {i \in 1..offset : \A j \in DOMAIN batch : batch[j] # i}

\* _ws_handler registers the client before it reads a message.
Connect(c) ==
    /\ socket[c] = "off"
    /\ socket' = [socket EXCEPT ![c] = "on"]
    /\ before' = [before EXCEPT ![c] = Sent]
    /\ UNCHANGED <<messages, offset, batch, byLoop, synced, heard, asof>>

Disconnect(c) ==
    /\ socket[c] # "off"
    /\ socket' = [socket EXCEPT ![c] = "off"]
    /\ synced' = synced \ {c}
    /\ heard' = [heard EXCEPT ![c] = {}]
    /\ UNCHANGED <<messages, offset, batch, byLoop, before, asof>>

\* replay_history: of the last messages of the log all but the questions, which are
\* told as long as they are open with the state that is sent before.
Replay ==
    {i \in DOMAIN messages : i > Len(messages) - Replayed /\ messages[i].kind # "question"}

\* on_sync_request: the state, then the history as the kernel has it; a failing
\* send strikes the client, and one that has been struck is sent nothing.
Sync(c, fails) ==
    /\ socket[c] = "on"
    /\ IF fails
       THEN /\ socket' = [socket EXCEPT ![c] = "struck"]
            /\ synced' = synced \ {c} /\ heard' = [heard EXCEPT ![c] = {}]
            /\ UNCHANGED asof
       ELSE /\ synced' = synced \cup {c}
            /\ heard' = [heard EXCEPT ![c] = @ \cup Replay]
            /\ asof' = [asof EXCEPT ![c] = IF c \in synced THEN @ ELSE Len(messages)]
            /\ UNCHANGED socket
    /\ UNCHANGED <<messages, offset, batch, byLoop, before>>

\* The part of on_session_clear that concerns the feed: a publication of the loop is
\* cancelled, one of a handler goes on with the messages it has taken.
FeedCleared ==
    /\ messages' = <<>> /\ offset' = 0
    /\ batch' = IF byLoop THEN <<>> ELSE [i \in DOMAIN batch |-> 0]
    /\ heard' = [c \in Clients |-> {}]
    /\ before' = [c \in Clients |-> {}] /\ asof' = [c \in Clients |-> 0]
    /\ UNCHANGED <<byLoop, socket, synced>>

(* ---------------- what it promises ---------------- *)

FeedTypeOK ==
    /\ Len(messages) <= MaxMessages
    /\ \A i \in DOMAIN messages : messages[i].kind \in Kinds
    /\ offset \in 0..Len(messages)
    /\ \A i \in DOMAIN batch : batch[i] \in 0..offset
    /\ byLoop \in BOOLEAN
    /\ socket \in [Clients -> {"off", "on", "struck"}]
    /\ \A c \in synced : socket[c] = "on"
    /\ heard \in [Clients -> SUBSET (1..MaxMessages)]
    /\ before \in [Clients -> SUBSET (1..offset)]
    /\ asof \in [Clients -> 0..Len(messages)]

\* What the history leaves out: what had been sent before the client came, and is a
\* question or not among the last messages of the log.
LeftOut(c, i) ==
    i \in before[c] /\ (messages[i].kind = "question" \/ i <= asof[c] - Replayed)

\* A client of the table that has had its history has heard, or is about to be sent,
\* every message a publication has taken, but for what its history leaves out:
\* nothing falls between the replay of replay_history and the broadcasts of
\* publish_task_messages, also of what is asked or is no longer replayed by then.
NoGap ==
    \A c \in synced, i \in 1..offset :
        i \in heard[c] \/ LeftOut(c, i) \/ \E j \in DOMAIN batch : batch[j] = i
=============================================================================
