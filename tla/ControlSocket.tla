----------------------------- MODULE ControlSocket -----------------------------
(***************************************************************************)
(* The agent's control connection: agent/control/queue.py (the outbound    *)
(* queue) and agent/control/socket.py (reader, writer, pinger and stater   *)
(* tasks of a session, the commands they start, the reconnect loop with    *)
(* its registration, and the end of the process).                          *)
(*                                                                         *)
(* All tasks run on one event loop, so a step is what a task does between  *)
(* two awaits.  A message is "ping", "state" or the result of a command,   *)
(* written as the command's id; nothing in the agent sends an event.       *)
(***************************************************************************)
EXTENDS Integers, FiniteSets, SequencesExt

CONSTANTS Command,      \* ids of the commands the pool sends
          MaxDepth,     \* OutboundQueue.max_depth (MAX_DEPTH = 2000)
          None,         \* the writer has no message in its hands
          MaxFailures,  \* bound: failed connections, ends of the process, and how
                        \* often the pool forgets the rig
          MaxPuts       \* bound: pings and states put before the writer, or the
                        \* next session, catches up (they come 20 and 30 seconds apart)

Droppable == {"ping", "state"}
Precious == Command
Message == Droppable \cup Precious

ASSUME QueueAssumption ==
    /\ Command \cap Droppable = {} /\ None \notin Message
    /\ MaxDepth \in Nat \ {0} /\ MaxFailures \in Nat /\ MaxPuts \in Nat

VARIABLES
    items,     \* OutboundQueue._items, the next message first
    hand,      \* the message the writer has taken and not yet sent, or None
    session,   \* the four tasks of a session run
    link,      \* the connection: "live", closed by the pool, "broken" or "silent"
    known,     \* the pool knows the rig
    need,      \* need_register of the reconnect loop
    command,   \* the _execute task of each command
    puts,      \* pings and states put since the queue was last empty
    failures,  \* failures so far
    finished,  \* history: results in the order in which they were put
    got,       \* history: results in the order in which the pool got them
    lost       \* history: results that left the agent and reached nobody

poolVars == <<known, need>>
vars == <<items, hand, session, link, poolVars, command, puts, failures, finished, got, lost>>

-----------------------------------------------------------------------------
(* A full queue that drops whatever is oldest.                             *)
DropHead(q) == Tail(q)

(* OutboundQueue._drop_oldest_droppable; the queue itself if there is none.*)
DropOldest(q) ==
    LET i == SelectInSeq(q, LAMBDA m : m \in Droppable)
    IN  IF i = 0 THEN q ELSE RemoveAt(q, i)

(* A put that does not look at the depth.                                  *)
PutUnbounded(q, m, front) == IF front THEN <<m>> \o q ELSE Append(q, m)

(* OutboundQueue.put: what the queue is afterwards.  A full queue makes    *)
(* room by dropping its oldest ping or state; a precious message is put    *)
(* in any case, any other only if there is room now.                       *)
Put(q, m, front) ==
    LET room == IF Len(q) >= MaxDepth THEN DropOldest(q) ELSE q
    IN  IF m \notin Precious /\ Len(room) >= MaxDepth THEN room
        ELSE IF front THEN <<m>> \o room ELSE Append(room, m)

(* A requeue at the end, and one that respects the depth.                  *)
RequeueLast(q, m) == Append(q, m)
RequeueIfRoom(q, m) == IF Len(q) < MaxDepth THEN <<m>> \o q ELSE q

(* OutboundQueue.requeue: at the front, whatever the depth.                *)
Requeue(q, m) == <<m>> \o q

(* A result the pool receives, or one that nobody does.                    *)
Receive(m) == got' = IF m \in Precious THEN Append(got, m) ELSE got
Lose(m) == lost' = IF m \in Precious THEN lost \cup {m} ELSE lost

Type ==
    /\ items \in Seq(Message)
    /\ hand \in Message \cup {None}
    /\ session \in BOOLEAN
    /\ link \in {"live", "closed", "broken", "silent"}
    /\ known \in BOOLEAN /\ need \in BOOLEAN
    /\ command \in [Command -> {"unsent", "running", "done", "gone"}]
    /\ puts \in 0..MaxPuts /\ failures \in 0..MaxFailures
    /\ finished \in Seq(Command) /\ got \in Seq(Command)
    /\ lost \subseteq Command

Init ==
    /\ items = <<>> /\ hand = None
    /\ session = FALSE /\ link = "closed"
    /\ known \in BOOLEAN /\ need = FALSE
    /\ command = [c \in Command |-> "unsent"]
    /\ puts = 0 /\ failures = 0
    /\ finished = <<>> /\ got = <<>> /\ lost = {}

-----------------------------------------------------------------------------
Fault == failures < MaxFailures /\ failures' = failures + 1

(* run and _session: after a pause a registration, if something went wrong *)
(* before, then connect, exchange hello and welcome, start the tasks.  The *)
(* first registration, which may have failed, is that of                   *)
(* AgentRuntime.run.                                                       *)
Connect ==
    /\ ~session /\ (known \/ need)
    /\ known' = TRUE
    /\ session' = TRUE /\ link' = "live" /\ puts' = 0
    /\ UNCHANGED <<items, hand, need, command, failures, finished, got, lost>>

(* The pool closes the connection of a rig that it does not know ...       *)
Refused ==
    /\ ~session /\ ~known /\ ~need
    /\ need' = TRUE
    /\ UNCHANGED <<items, hand, session, link, known, command, puts, failures, finished, got, lost>>

(* ... or the attempt fails, with or without the registration.             *)
ConnectFails ==
    /\ ~session /\ Fault
    /\ need' = TRUE
    /\ known' \in {known, known \/ need}
    /\ UNCHANGED <<items, hand, session, link, command, puts, finished, got, lost>>

(* The connection goes: a closing handshake of the pool, a reset, or       *)
(* nothing at all any more (a half-open connection, a hung server).        *)
LinkFails ==
    /\ session /\ link = "live" /\ Fault
    /\ link' \in {"closed", "broken", "silent"}
    /\ UNCHANGED <<items, hand, session, poolVars, command, puts, finished, got, lost>>

(* The pool forgets the rig, and says so with a close code.                *)
Forgets ==
    /\ known /\ Fault
    /\ known' = FALSE
    /\ link' = IF session /\ link = "live" THEN "broken" ELSE link
    /\ UNCHANGED <<items, hand, session, need, command, puts, finished, got, lost>>

(* The first exception of a task ends the session; the other tasks are     *)
(* cancelled.                                                              *)
SessionEnds == session' = FALSE /\ link' = "closed" /\ need' = TRUE /\ UNCHANGED known

(* What was written of the message in the writer's hands may or may not    *)
(* arrive, and the agent will not know.  This is also what becomes of it   *)
(* when the writer is cancelled: its send ends in CancelledError, which    *)
(* `except Exception` does not catch, so it is not requeued.               *)
Unseen ==
    /\ hand' = None
    /\ \/ Receive(hand) /\ UNCHANGED lost
       \/ Lose(hand) /\ UNCHANGED got

-----------------------------------------------------------------------------
(* _reader: a command starts a task that outlives the session.             *)
ReadCommand(c) ==
    /\ session /\ link = "live"
    /\ command[c] = "unsent"
    /\ command' = [command EXCEPT ![c] = "running"]
    /\ UNCHANGED <<items, hand, session, link, poolVars, puts, failures, finished, got, lost>>

(* _execute: handlers.handle turns every error into a result, which is     *)
(* put whether there is a session or not.                                  *)
Execute(c) ==
    /\ command[c] = "running"
    /\ command' = [command EXCEPT ![c] = "done"]
    /\ items' = Put(items, c, FALSE)
    /\ finished' = Append(finished, c)
    /\ UNCHANGED <<hand, session, link, poolVars, puts, failures, got, lost>>

(* The reader of a broken connection raises; that of a connection closed   *)
(* in good order just ends, which ends nothing else.                       *)
ReaderRaises ==
    /\ session /\ link = "broken"
    /\ SessionEnds
    /\ Unseen
    /\ UNCHANGED <<items, command, puts, failures, finished>>

(* _pinger: a ping at the front of the queue ...                           *)
Ping ==
    /\ session /\ puts < MaxPuts
    /\ items' = Put(items, "ping", TRUE)
    /\ puts' = puts + 1
    /\ UNCHANGED <<hand, session, link, poolVars, command, failures, finished, got, lost>>

(* A pinger that leaves a closed connection to the reader.                 *)
PingerTrustsReader ==
    /\ session /\ link = "silent"
    /\ SessionEnds
    /\ Unseen
    /\ UNCHANGED <<items, command, puts, failures, finished>>

(* ... and an exception once no pong has come for PONG_TIMEOUT_SECONDS.    *)
PingerRaises ==
    /\ session /\ link # "live"
    /\ SessionEnds
    /\ Unseen
    /\ UNCHANGED <<items, command, puts, failures, finished>>

(* _stater                                                                 *)
State ==
    /\ session /\ puts < MaxPuts
    /\ items' = Put(items, "state", FALSE)
    /\ puts' = puts + 1
    /\ UNCHANGED <<hand, session, link, poolVars, command, failures, finished, got, lost>>

-----------------------------------------------------------------------------
(* _writer: take a message ...                                             *)
Get ==
    /\ session /\ hand = None /\ items # <<>>
    /\ hand' = Head(items) /\ items' = Tail(items)
    /\ puts' = IF Tail(items) = <<>> THEN 0 ELSE puts
    /\ UNCHANGED <<session, link, poolVars, command, failures, finished, got, lost>>

(* ... and send it.                                                        *)
Send ==
    /\ session /\ hand # None /\ link = "live"
    /\ hand' = None
    /\ Receive(hand)
    /\ UNCHANGED <<items, session, link, poolVars, command, puts, failures, finished, lost>>

(* A silent connection takes it too, at least for a while, and the pool    *)
(* may or may not see it.                                                  *)
SendUnseen ==
    /\ session /\ hand # None /\ link = "silent"
    /\ Unseen
    /\ UNCHANGED <<items, session, link, poolVars, command, puts, failures, finished>>

(* A handler around the wait for a message too: what it requeues may be    *)
(* the None the writer began with.                                         *)
WriterRaisesWaiting ==
    /\ session /\ link \in {"closed", "broken"}
    /\ items' = Requeue(items, hand)
    /\ hand' = None
    /\ \/ Receive(hand)
       \/ UNCHANGED got
    /\ SessionEnds
    /\ UNCHANGED <<command, puts, failures, finished, lost>>

(* A send that fails requeues the message and ends the session.  The pool  *)
(* may have got the message all the same, and will get it again.           *)
WriterRaises ==
    /\ session /\ hand # None /\ link \in {"closed", "broken"}
    /\ items' = Requeue(items, hand)
    /\ hand' = None
    /\ \/ Receive(hand)
       \/ UNCHANGED got
    /\ SessionEnds
    /\ UNCHANGED <<command, puts, failures, finished, lost>>

-----------------------------------------------------------------------------
(* AgentRuntime.run ends: the session and shutdown cancel what runs, and   *)
(* the queue goes with the process.  The next one registers first, or      *)
(* fails to.                                                               *)
ProcessEnds ==
    /\ Fault
    /\ session' = FALSE /\ link' = "closed"
    /\ known' \in {known, TRUE} /\ need' = FALSE
    /\ items' = <<>> /\ hand' = None /\ puts' = 0
    /\ command' = [c \in Command |-> IF command[c] = "running" THEN "gone" ELSE command[c]]
    /\ lost' = lost \cup (Precious \cap (ToSet(items) \cup {hand}))
                   \cup {c \in Command : command[c] = "running"}
    /\ UNCHANGED <<finished, got>>

Next ==
    \/ Connect \/ Refused \/ ConnectFails \/ LinkFails \/ Forgets \/ ProcessEnds
    \/ \E c \in Command : ReadCommand(c) \/ Execute(c)
    \/ ReaderRaises \/ Ping \/ PingerRaises \/ State
    \/ Get \/ Send \/ SendUnseen \/ WriterRaises

Spec == Init /\ [][Next]_vars

(* The tasks of the event loop run, handlers finish (each has a timeout),  *)
(* and the pool accepts registrations and connections.  Nothing is asked   *)
(* of the connection itself nor of pings and states, but that the writer   *)
(* of a live connection keeps up with them (MaxPuts).                      *)
Fairness ==
    /\ WF_vars(Connect) /\ WF_vars(Refused) /\ WF_vars(Get) /\ WF_vars(Send) /\ WF_vars(WriterRaises)
    /\ WF_vars(ReaderRaises) /\ WF_vars(PingerRaises)
    /\ \A c \in Command : WF_vars(Execute(c))

FairSpec == Spec /\ Fairness

-----------------------------------------------------------------------------
Count(q, S) == Cardinality({i \in DOMAIN q : q[i] \in S})

(* A full queue stays within its limit: pings and states never hold more   *)
(* than MaxDepth places, or one more when a failed send was put back into  *)
(* a queue that filled up meanwhile; only results go beyond.               *)
QueueBounded == Count(items, Droppable) <= MaxDepth + 1

(* No result is dropped by the queue: a finished command's result is       *)
(* queued, in the writer's hands, with the pool, or was lost on a          *)
(* connection that failed.                                                 *)
ResultsKept ==
    \A c \in Command : command[c] = "done" =>
        c \in ToSet(items) \cup {hand} \cup ToSet(got) \cup lost

(* The pool gets results in the order in which the commands finished, if   *)
(* some more than once, through full queues, front insertions and failed   *)
(* sends that are put back.                                                *)
Position(c) == CHOOSE i \in DOMAIN finished : finished[i] = c
ResultsInOrder ==
    \A i, j \in DOMAIN got : i < j => Position(got[i]) <= Position(got[j])

(* The agent always gets back to a connection that works: a dead one is    *)
(* noticed, also one that was closed in good order (which ends the reader  *)
(* without an exception) and one that went silent, and a rig that the pool *)
(* does not know, or no longer, is registered again.                       *)
Connected == session /\ link = "live"
Reconnects == ~Connected ~> Connected

(* A result in the queue does not stay there for ever behind pings and     *)
(* states: it gets to the pool or is lost with its connection.             *)
ResultsLeave ==
    \A c \in Command : command[c] = "running" ~>
        c \in ToSet(got) \cup lost
=============================================================================
