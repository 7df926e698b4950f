-------------------------- MODULE WebSocketSession --------------------------
(***************************************************************************)
(* The websocket endpoint of one group (app/routes/websocket.py), its room *)
(* (app/websocket.py) and the stream of events of a run (services/         *)
(* agent_trigger.py, infra/runtime/openai.py). The execution coordinator   *)
(* is RunQueue, which it implements.                                       *)
(*                                                                         *)
(* Three kinds of tasks work here: per connection the endpoint, which      *)
(* receives, and the waiter, which waits for the result of its run; per    *)
(* run the consumer of its events, which broadcasts them through the       *)
(* connection that submitted the run. A broadcast is one await per socket. *)
(***************************************************************************)
EXTENDS Integers, Sequences, FiniteSets

CONSTANTS
  Conns, NumRuns, Room, None,
  Submitters  \* the connections a prompt may come from; the others watch

Runs == 1 .. NumRuns

ASSUME WebSocketAssumption ==
  /\ NumRuns \in Nat /\ Submitters \in [Runs -> SUBSET Conns]
  /\ None \notin Runs \cup Conns
  /\ None \notin {"started", "token", "completed", "failed", "cancelled", "raised"}

VARIABLES
  phase, line, ahead, busy, \* the coordinator (RunQueue)
  sock,      \* new, open, dead: the peer has gone
  room,      \* ConnectionManager.active_connections of the group
  pc,        \* the endpoint: new, receive, cancelling, closing, ended
  cancelRun, \* cancel_run_id of the command being answered
  activeRun, waiter, seen, \* active_run_id, active_task, terminal_event_seen
  owner,     \* the connection that submitted a run
  stream,    \* the runtime's stream of a run: none, open, last, stopped
  cast,      \* the event it is broadcasting, and to whom still
  reply,     \* RuntimeReplyCollector: the last terminal event, or "raised"
  inbox,     \* terminal events about each run that each peer has, while it is there
  hurt       \* history: runs one of whose broadcasts failed at a dead socket

queue == <<phase, line, ahead, busy>>
conn == <<sock, room, pc, cancelRun>>
events == <<owner, stream, cast, reply, inbox, hurt>>
vars == <<queue, conn, activeRun, waiter, seen, events>>

Q == INSTANCE RunQueue WITH Groups <- {Room}

Terminal == {"completed", "failed", "cancelled"}
Idle == [ev |-> None, left |-> {}]
NoWaiter == [run |-> None, at |-> "none", ev |-> None, left |-> {}]
Waits(c) == waiter[c].at # "none"

Init ==
  /\ Q!Init
  /\ sock = [c \in Conns |-> "new"] /\ room = {} /\ pc = [c \in Conns |-> "new"]
  /\ cancelRun = [c \in Conns |-> None]
  /\ activeRun = [c \in Conns |-> None]
  /\ waiter = [c \in Conns |-> NoWaiter]
  /\ seen = [c \in Conns |-> FALSE]
  /\ owner = [r \in Runs |-> None]
  /\ stream = [r \in Runs |-> "none"]
  /\ cast = [r \in Runs |-> Idle]
  /\ reply = [r \in Runs |-> None]
  /\ inbox = [c \in Conns |-> [r \in Runs |-> <<>>]]
  /\ hurt = {}

\* send_text of an event about run r. A peer that has gone gets nothing; whether the
\* sender is told is left open.
Sent(c, r, ev) ==
  inbox' = [inbox EXCEPT ![c][r] = IF sock[c] = "open" /\ ev \in Terminal
                                     THEN Append(@, ev) ELSE @]

-----------------------------------------------------------------------------
(***************************************************************************)
(* The run: the group's worker, and the runtime's events.                  *)
(***************************************************************************)
StartRun(r) ==
  /\ Q!Start(r, Room)
  /\ stream' = [stream EXCEPT ![r] = "open"]
  /\ UNCHANGED <<conn, activeRun, waiter, seen, owner, cast, reply, inbox, hurt>>

\* Seeded fault: the connection does not note a terminal event of the stream.
NoteTerminalNot(r, ev) == seen' = seen

\* broadcast_event notes a terminal event before it sends it.
NoteTerminal(r, ev) == seen' = [seen EXCEPT ![owner[r]] = @ \/ ev \in Terminal]

\* handle_event: the collector, then the broadcaster: run.started goes to the
\* submitter only, every other event to the sockets in the room at this moment.
HandleEvent(r, ev) ==
  /\ cast[r] = Idle
  /\ reply' = [reply EXCEPT ![r] = IF ev \in Terminal THEN ev ELSE @]
  /\ NoteTerminal(r, ev)
  /\ cast' = [cast EXCEPT ![r] = [ev |-> ev,
                                    left |-> IF ev = "started" THEN {owner[r]} ELSE room]]

\* An event of the model: a start, a token or tool event, or a failed response (at most
\* one in a stream).
StreamEvent(r, ev) ==
  /\ stream[r] = "open" /\ (ev = "failed" => reply[r] = None)
  /\ HandleEvent(r, ev)
  /\ UNCHANGED <<queue, conn, activeRun, waiter, stream, owner, inbox, hurt>>

\* The end of the stream is run.completed, also after a failed response.
StreamCompletes(r) ==
  /\ stream[r] = "open"
  /\ HandleEvent(r, "completed")
  /\ stream' = [stream EXCEPT ![r] = "last"]
  /\ UNCHANGED <<queue, conn, activeRun, waiter, owner, inbox, hurt>>

StreamSends(r, c) ==
  /\ c \in cast[r].left
  /\ Sent(c, r, cast[r].ev)
  /\ cast' = [cast EXCEPT ![r] = IF @.left = {c} THEN Idle
                                    ELSE [ev |-> @.ev, left |-> @.left \ {c}]]
  /\ UNCHANGED <<queue, conn, activeRun, waiter, seen, owner, stream, reply, hurt>>

\* Nobody is in the room any more.
StreamSendsNobody(r) ==
  /\ cast[r] # Idle /\ cast[r].left = {}
  /\ cast' = [cast EXCEPT ![r] = Idle]
  /\ UNCHANGED <<queue, conn, activeRun, waiter, seen, owner, stream, reply, inbox, hurt>>

\* send_text raises at a dead socket: the others get nothing, the run fails.
StreamSendRaises(r, c) ==
  /\ c \in cast[r].left /\ sock[c] = "dead"
  /\ cast' = [cast EXCEPT ![r] = Idle]
  /\ stream' = [stream EXCEPT ![r] = "stopped"]
  /\ reply' = [reply EXCEPT ![r] = "raised"]
  /\ hurt' = hurt \cup {r}
  /\ UNCHANGED <<queue, conn, activeRun, waiter, seen, owner, inbox>>

\* The runtime cannot be started, or its stream raises.
StreamRaises(r) ==
  /\ stream[r] = "open" /\ cast[r] = Idle
  /\ stream' = [stream EXCEPT ![r] = "stopped"]
  /\ reply' = [reply EXCEPT ![r] = "raised"]
  /\ UNCHANGED <<queue, conn, activeRun, waiter, seen, owner, cast, inbox, hurt>>

\* build_result, and how the coordinator takes an exception.
ResultOf(r) ==
  CASE reply[r] = "raised" -> "failed"
    [] reply[r] = None     -> "completed"
    [] OTHER               -> reply[r]

ExecuteEnds(r) ==
  /\ stream[r] = "stopped" \/ (stream[r] = "last" /\ cast[r] = Idle)
  /\ stream' = [stream EXCEPT ![r] = "stopped"]
  /\ busy[Room] = r
  /\ Q!Finish(Room, ResultOf(r)) \/ Q!Release(Room)
  /\ reply' = [reply EXCEPT ![r] = None]
  /\ UNCHANGED <<conn, activeRun, waiter, seen, owner, cast, inbox, hurt>>

\* Seeded fault: a cancelled consumer is stopped at its next event only.
InterruptibleAtEvents(r) == cast[r] # Idle

\* A cancelled consumer gets a CancelledError wherever it waits.
Interruptible(r) == stream[r] \in {"open", "last"}

\* The cancelled run_agent_execution cancels the runtime and the consumer.
StreamCancelled(r) ==
  /\ phase[r] = "cancelled" /\ stream[r] \in {"open", "last"} /\ Interruptible(r)
  /\ stream' = [stream EXCEPT ![r] = "stopped"]
  /\ cast' = [cast EXCEPT ![r] = Idle]
  /\ UNCHANGED <<queue, conn, activeRun, waiter, seen, owner, reply, inbox, hurt>>

-----------------------------------------------------------------------------
(***************************************************************************)
(* The waiter of a connection.                                             *)
(***************************************************************************)
\* finally of wait_for_result
WaiterGone(c) ==
  /\ waiter' = [waiter EXCEPT ![c] = NoWaiter]
  /\ activeRun' = [activeRun EXCEPT ![c] = IF @ = waiter[c].run THEN None ELSE @]

WaiterCasts(c, at, ev, left) ==
  /\ waiter' = [waiter EXCEPT ![c] = [@ EXCEPT !.at = at, !.ev = ev, !.left = left]]
  /\ UNCHANGED activeRun

\* emit_terminal_event: nothing after a terminal event of the stream; a completed run
\* of the OpenAI runtime has had one.
EmitTerminalEvent(c) ==
  LET status == phase[waiter[c].run]
  IN \/ (status = "completed" \/ (seen[c] /\ status = "failed")) /\ WaiterGone(c)
     \/ status = "cancelled" /\ WaiterCasts(c, "sending", "cancelled", {c})
     \/ ~seen[c] /\ status = "failed" /\ WaiterCasts(c, "sending", "failed", room)

WaiterWakes(c) ==
  /\ waiter[c].at = "waiting" /\ phase[waiter[c].run] \in Terminal
  /\ EmitTerminalEvent(c)
  /\ UNCHANGED <<queue, conn, seen, events>>

WaiterSends(c, d) ==
  /\ waiter[c].at \in {"sending", "reporting"} /\ d \in waiter[c].left
  /\ Sent(d, waiter[c].run, waiter[c].ev)
  /\ waiter' = [waiter EXCEPT ![c].left = @ \ {d}]
  /\ UNCHANGED <<queue, conn, activeRun, seen, owner, stream, cast, reply, hurt>>

\* A failed broadcast is reported to the room in turn; if that fails too, the waiter ends.
WaiterSendRaises(c, d) ==
  /\ waiter[c].at \in {"sending", "reporting"} /\ d \in waiter[c].left /\ sock[d] = "dead"
  /\ IF waiter[c].at = "sending" THEN WaiterCasts(c, "reporting", "failed", room)
     ELSE WaiterGone(c)
  /\ hurt' = hurt \cup {waiter[c].run}
  /\ UNCHANGED <<queue, conn, seen, owner, stream, cast, reply, inbox>>

WaiterEnds(c) ==
  /\ \/ waiter[c].at \in {"sending", "reporting"} /\ waiter[c].left = {}
     \/ waiter[c].at = "cancelled"
  /\ WaiterGone(c)
  /\ UNCHANGED <<queue, conn, seen, events>>

-----------------------------------------------------------------------------
(***************************************************************************)
(* The endpoint.                                                           *)
(***************************************************************************)
Connect(c) ==
  /\ sock[c] = "new"
  /\ sock' = [sock EXCEPT ![c] = "open"]
  /\ pc' = [pc EXCEPT ![c] = "receive"]
  /\ room' = room \cup {c}
  /\ UNCHANGED <<queue, cancelRun, activeRun, waiter, seen, events>>

\* Seeded fault: the flag is left as the last run set it.
ForgetTerminalNot(c) == seen' = seen

ForgetTerminal(c) == seen' = [seen EXCEPT ![c] = FALSE]

\* Seeded fault: a second prompt is taken while the first is served.
AcceptsPromptAlways(c) == TRUE

\* A prompt that comes while a waiter is there is dropped.
AcceptsPrompt(c) == ~Waits(c)

Prompt(c, r) ==
  /\ pc[c] = "receive" /\ sock[c] = "open" /\ AcceptsPrompt(c)
  /\ \A s \in Runs : s < r => phase[s] # "new"
  /\ Q!Enter(r, Room)
  /\ ForgetTerminal(c)
  /\ owner' = [owner EXCEPT ![r] = c]
  /\ activeRun' = [activeRun EXCEPT ![c] = r]
  /\ waiter' = [waiter EXCEPT ![c] = [NoWaiter EXCEPT !.run = r, !.at = "waiting"]]
  /\ UNCHANGED <<conn, stream, cast, reply, inbox, hurt>>

\* coordinator.cancel
CoordinatorCancel(r) ==
  \/ r # None /\ (Q!Withdraw(r) \/ Q!Cancel(r))
  \/ (r # None => phase[r] \in Terminal) /\ UNCHANGED queue

\* _cleanup_task up to its gather.
CleanupTask(c) ==
  waiter' = [waiter EXCEPT ![c] = IF Waits(c) THEN [@ EXCEPT !.at = "cancelled"] ELSE @]

\* The cancel command: both calls before the first await.
CancelCommand(c) ==
  /\ pc[c] = "receive" /\ sock[c] = "open" /\ activeRun[c] # None
  /\ CoordinatorCancel(activeRun[c])
  /\ CleanupTask(c)
  /\ pc' = [pc EXCEPT ![c] = "cancelling"]
  /\ cancelRun' = [cancelRun EXCEPT ![c] = activeRun[c]]
  /\ UNCHANGED <<sock, room, activeRun, seen, events>>

\* The event loop has run the cancelled tasks in the order they were cancelled: the
\* consumer of the run has stopped before the waiter is gathered.
CancelAnswered(c) ==
  /\ pc[c] = "cancelling" /\ ~Waits(c)
  /\ stream[cancelRun[c]] \in {"none", "stopped"}
  /\ activeRun' = [activeRun EXCEPT ![c] = None]
  /\ seen' = [seen EXCEPT ![c] = TRUE]
  /\ cancelRun' = [cancelRun EXCEPT ![c] = None]
  /\ Sent(c, cancelRun[c], "cancelled")
  /\ \/ pc' = [pc EXCEPT ![c] = "receive"]
     \/ sock[c] = "dead" /\ pc' = [pc EXCEPT ![c] = "closing"]
  /\ UNCHANGED <<queue, sock, room, waiter, owner, stream, cast, reply, hurt>>

\* The peer goes, at any time.
PeerGoes(c) ==
  /\ sock[c] = "open"
  /\ sock' = [sock EXCEPT ![c] = "dead"]
  /\ inbox' = [inbox EXCEPT ![c] = [r \in Runs |-> <<>>]]
  /\ UNCHANGED <<queue, room, pc, cancelRun, activeRun, waiter, seen,
                 owner, stream, cast, reply, hurt>>

\* Seeded fault: the run is left to itself.
DisconnectCancelsNot(c) == UNCHANGED queue

DisconnectCancels(c) == CoordinatorCancel(activeRun[c])

\* WebSocketDisconnect from receive_text, and the finally of the endpoint.
Disconnected(c) ==
  /\ pc[c] = "receive" /\ sock[c] = "dead"
  /\ DisconnectCancels(c)
  /\ CleanupTask(c)
  /\ pc' = [pc EXCEPT ![c] = "closing"]
  /\ UNCHANGED <<sock, room, cancelRun, activeRun, seen, events>>

Leaves(c) ==
  /\ pc[c] = "closing" /\ ~Waits(c)
  /\ room' = room \ {c}
  /\ pc' = [pc EXCEPT ![c] = "ended"]
  /\ UNCHANGED <<queue, sock, cancelRun, activeRun, waiter, seen, events>>

-----------------------------------------------------------------------------
RunSteps(r) ==
  \/ \E c \in Conns : StreamSends(r, c) \/ StreamSendRaises(r, c)
  \/ StreamSendsNobody(r) \/ ExecuteEnds(r) \/ StreamCancelled(r)

WaiterSteps(c) ==
  \/ \E d \in Conns : WaiterSends(c, d) \/ WaiterSendRaises(c, d)
  \/ WaiterWakes(c) \/ WaiterEnds(c)

EndpointSteps(c) == Disconnected(c) \/ Leaves(c) \/ CancelAnswered(c)

Next ==
  \/ \E r \in Runs : \/ StartRun(r) \/ RunSteps(r) \/ StreamCompletes(r) \/ StreamRaises(r)
                     \/ \E ev \in {"started", "token", "failed"} : StreamEvent(r, ev)
  \/ \E c \in Conns : \/ WaiterSteps(c) \/ EndpointSteps(c)
                      \/ Connect(c) \/ CancelCommand(c) \/ PeerGoes(c)
                      \/ \E r \in Runs : c \in Submitters[r] /\ Prompt(c, r)

\* The event loop runs what is ready. Nothing is assumed of the model behind the
\* runtime: a stream may be silent for ever.
Fairness ==
  /\ \A r \in Runs : WF_vars(RunSteps(r)) /\ WF_vars(StreamCancelled(r))
  /\ \A c \in Conns : WF_vars(WaiterSteps(c)) /\ WF_vars(EndpointSteps(c))

Spec == Init /\ [][Next]_vars /\ Fairness

-----------------------------------------------------------------------------
(***************************************************************************)
(* Properties.                                                             *)
(***************************************************************************)
Count(c, r, ev) == Cardinality({i \in DOMAIN inbox[c][r] : inbox[c][r][i] = ev})

\* A connection that is gone has no run in the queue or running: its endpoint ends only
\* after it has cancelled the run, whatever the waiter was doing.
NoOrphanRun ==
  \A c \in Conns, r \in Runs : pc[c] = "ended" /\ owner[r] = c => phase[r] \in Terminal

\* A connection never has two unfinished runs, although its waiter, not the end of its
\* run, is what the next prompt waits for.
OneRunPerConnection ==
  \A c \in Conns, r, s \in Runs :
    owner[r] = c /\ owner[s] = c /\ r # s => phase[r] \in Terminal \/ phase[s] \in Terminal

\* The unfinished runs of a room are at most one for each connection that is there.
RunsHaveConnection == NoOrphanRun /\ OneRunPerConnection

\* Whoever submitted a run and is still there has been sent a terminal event about it
\* when the waiter is done with it and no cancel command is being answered, unless a
\* dead socket of the room came between.
SubmitterTold ==
  \A c \in Conns, r \in Runs :
    /\ owner[r] = c /\ sock[c] = "open" /\ pc[c] = "receive"
    /\ waiter[c].run # r /\ r \notin hurt
    => inbox[c][r] # <<>>

\* No peer is sent the same terminal event about a run twice, by the stream, the waiter
\* and the answer to a cancel command together, unless a dead socket came between.
NoEventTwice ==
  \A c \in Conns, r \in Runs, ev \in Terminal :
    r \notin hurt => Count(c, r, ev) <= 1

\* The peers hear of the end of a run, and once.
ToldOnce == SubmitterTold /\ NoEventTwice

\* When the peer of a run has gone, the group is freed for the other connections, also
\* if the model behind the run never answers.
GroupFreed ==
  \A c \in Conns, r \in Runs : (busy[Room] = r /\ owner[r] = c /\ sock[c] = "dead") ~> busy[Room] # r

\* What the code does not ensure: one terminal event per run. A response that failed is
\* followed by run.completed, and a cancel command may come after a terminal event.
OneTerminalEvent == \A c \in Conns, r \in Runs : Len(inbox[c][r]) <= 1

\* What the code does not ensure: a prompt sent after a terminal event is taken.
ToldMeansReady ==
  \A c \in Conns : activeRun[c] # None /\ inbox[c][activeRun[c]] # <<>> => ~Waits(c)
=============================================================================
