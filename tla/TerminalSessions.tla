-------------------------- MODULE TerminalSessions --------------------------
(***************************************************************************)
(* services/terminal_sessions.py with the docker bridge it drives          *)
(* (services/terminal_bridge.py) and the terminal websocket endpoint       *)
(* (app/routes/terminals.py): a workspace has one session, clients attach  *)
(* to it and leave, a detached session is closed when its reconnect window *)
(* ends, output is kept for replay, and snapshots are written to disk, from *)
(* which a restarted server recovers.                                      *)
(*                                                                         *)
(* No code awaits while it holds the service's lock, so a critical section *)
(* is one step. What follows it (starting or closing the bridge, writing   *)
(* the snapshot built inside it) happens later, in steps of a job: job t   *)
(* is the rest of one handler. Refused requests (a caller who is not the   *)
(* owner, an unknown session, an active session at creation) change        *)
(* nothing and have no action. Waiting inside asyncio.wait_for is that of  *)
(* Python 3.11.                                                            *)
(***************************************************************************)
EXTENDS Naturals, Sequences, FiniteSets

CONSTANTS
  Groups,             \* workspace folders
  Sessions,           \* session ids (uuid4); each is created once
  Conns,              \* websocket connections; each connects once
  Tasks,              \* handlers that can be under way at once
  MaxChunks,          \* bound: output chunks a session produces
  MaxHistory,         \* history_max_bytes; a chunk of output counts one
  MaxRestarts,        \* bound: restarts of the server
  DockerErrors,       \* may Docker refuse a call?
  DiskOutcomes,       \* how writing a snapshot may end: "ok", "error"
  HandshakeFailures,  \* may a client be gone before the receive loop starts?
  None

VARIABLES
  byGroup,   \* _sessions_by_group
  byId,      \* keys of _sessions_by_id
  groupOf,   \* group_folder of a session's record; None before its creation
  rec,       \* its record: status, and timed = reconnect_deadline is set
  hist,      \* its output history: head = the text recovered at a restart (one
             \* chunk), tail = the chunks since, and the truncated flag
  seen,      \* number of chunks its history has been given
  bridge,    \* its bridge: object = managed.bridge is not None, handle =
             \* _exec_process is set, proc = the docker exec process, listed =
             \* _reader_tasks is not empty, and the state of the two tasks in it
  outq,      \* its output_queue, named by the connection that made it
  timer,     \* its reconnect_task: None, "asleep", or the job it has become
  box,       \* sessions whose container exists
  conn,      \* connections: where the endpoint is, and all its queue was given
  task,      \* jobs
  temp,      \* latest.json.tmp of a workspace
  latest,    \* latest.json of a workspace
  archive,   \* snapshots/<session_id>.json
  restarts

tables == <<byGroup, byId, groupOf>>
shell  == <<bridge, box>>
disk   == <<temp, latest, archive>>
vars   == <<tables, rec, hist, seen, shell, outq, timer, conn, task, disk, restarts>>

Active   == {"created", "attached", "detached"}    \* _ACTIVE_RECOVERABLE_STATUSES
Final    == {"closed", "exited"}                   \* _TERMINAL_ARCHIVE_STATUSES
Statuses == Active \cup Final
ExitMark == 0                                      \* terminal.exit among output chunks

NoRecord  == [status |-> "none", timed |-> FALSE]
NoHistory == [head |-> <<>>, tail |-> <<>>, truncated |-> FALSE]
NoBridge  == [object |-> FALSE, handle |-> FALSE, proc |-> "none", listed |-> FALSE,
              reader |-> "off", watcher |-> "off"]
NoConn    == [pc |-> "idle", session |-> None, stream |-> <<>>]
Gone      == [NoConn EXCEPT !.pc = "done"]    \* an endpoint that has returned

\* Seeded fault: the session does not remember the bridge made for it.
NewBridgeLost == NoBridge

\* DockerExecTerminalBridge.__init__, and its assignment to managed.bridge
NewBridge == [NoBridge EXCEPT !.object = TRUE]

RecordType  == [status: Statuses \cup {"none"}, timed: BOOLEAN]
HistoryType == [head: Seq(Nat), tail: Seq(Nat), truncated: BOOLEAN]
BridgeType  == [object: BOOLEAN, handle: BOOLEAN, proc: {"none", "running", "dead"},
                listed: BOOLEAN, reader: {"off", "reading", "busy"},
                watcher: {"off", "waiting", "busy"}]
ConnType    == [pc: {"idle", "attaching", "accepting", "open", "leaving", "closing", "done"},
                session: Sessions \cup {None}, stream: Seq(Nat)]
SnapType    == [session: Sessions, status: Statuses \cup {"none"}, output: Seq(Nat),
                truncated: BOOLEAN]
JobType     == [kind: {"create", "attach", "failed", "detach", "close", "expire",
                       "output", "exit", "thread"},
                session: Sessions,
                pc: {"start", "exec", "kill", "drain", "temp", "replace"},
                snap: SnapType \cup {None}, conn: Conns \cup {None}, item: Nat]

ASSUME TerminalAssumption ==
  /\ MaxChunks \in Nat /\ MaxHistory \in Nat /\ MaxRestarts \in Nat
  /\ DockerErrors \in BOOLEAN /\ HandshakeFailures \in BOOLEAN
  /\ DiskOutcomes \subseteq {"ok", "error"}
  /\ None \notin Groups /\ None \notin Sessions /\ None \notin Conns /\ None \notin Tasks
  /\ "asleep" \notin Tasks
  /\ None \notin JobType /\ None \notin SnapType

Init ==
  /\ byGroup = [g \in Groups |-> None]
  /\ byId = {}
  /\ groupOf = [s \in Sessions |-> None]
  /\ rec = [s \in Sessions |-> NoRecord]
  /\ hist = [s \in Sessions |-> NoHistory]
  /\ seen = [s \in Sessions |-> 0]
  /\ bridge = [s \in Sessions |-> NoBridge]
  /\ outq = [s \in Sessions |-> None]
  /\ timer = [s \in Sessions |-> None]
  /\ box = {}
  /\ conn = [c \in Conns |-> NoConn]
  /\ task = [t \in Tasks |-> None]
  /\ temp = [g \in Groups |-> None]
  /\ latest = [g \in Groups |-> None]
  /\ archive = [s \in Sessions |-> None]
  /\ restarts = 0

-----------------------------------------------------------------------------
(***************************************************************************)
(* Helpers.                                                                *)
(***************************************************************************)
Idle(t)    == task[t] = None
Working(t) == task[t] # None

Output(h) == h.head \o h.tail

\* Seeded fault: chunks are dropped without a trace.
AppendOutputHistorySilent(h, n) ==
  LET tail == Append(h.tail, n)
  IN IF Len(h.head) + Len(tail) <= MaxHistory THEN [h EXCEPT !.tail = tail]
     ELSE [h EXCEPT !.head = <<>>, !.tail = Tail(tail)]

\* _append_output_history of chunk n. Every chunk counts one, so what the loop
\* pops first (the recovered text if it is still there) is enough.
AppendOutputHistory(h, n) ==
  LET tail == Append(h.tail, n)
  IN IF MaxHistory = 0 THEN [h EXCEPT !.head = <<>>, !.tail = <<>>]
     ELSE IF Len(h.head) + Len(tail) <= MaxHistory THEN [h EXCEPT !.tail = tail]
     ELSE IF h.head # <<>> THEN [head |-> <<>>, tail |-> tail, truncated |-> TRUE]
     ELSE [head |-> <<>>, tail |-> Tail(tail), truncated |-> TRUE]

\* _build_history_snapshot of session s with record r and history h
BuildHistorySnapshot(s, r, h) ==
  [session |-> s, status |-> r.status, output |-> Output(h), truncated |-> h.truncated]

Job(kind, s, pc, snap, c) ==
  [kind |-> kind, session |-> s, pc |-> pc, snap |-> snap, conn |-> c, item |-> 0]

\* What _cancel_reconnect_task(s) does to the jobs f. An expiry inside
\* bridge.close() stops there, unless it waits for a process that is dead by now:
\* wait_for swallows that cancellation. One that waits for its snapshot stops, and
\* the thread that writes it goes on.
CancelReconnectTask(f, s) ==
  IF timer[s] \notin Tasks \/ (f[timer[s]].pc = "kill" /\ bridge[s].proc = "dead") THEN f
  ELSE IF f[timer[s]].pc \in {"kill", "drain"} THEN [f EXCEPT ![timer[s]] = None]
  ELSE [f EXCEPT ![timer[s]].kind = "thread"]

\* What cancelling the reader tasks of s does to the jobs f: their event handlers
\* stop, the threads that write their snapshots go on.
CancelReaders(f, s) ==
  [t \in Tasks |->
     IF f[t] # None /\ f[t].session = s /\ f[t].kind \in {"output", "exit"}
     THEN [f[t] EXCEPT !.kind = "thread"] ELSE f[t]]

-----------------------------------------------------------------------------
(***************************************************************************)
(* DockerExecTerminalBridge.close, called by job j = f[t] after its        *)
(* critical section has left the jobs f.                                   *)
(***************************************************************************)

\* ContainerManager.graceful_shutdown; it blocks the event loop until it returns,
\* and its errors are ignored.
GracefulShutdown(s) ==
  box' \in {box \ {s}} \cup (IF DockerErrors THEN {box} ELSE {})

\* The second half: close the pty, cancel the reader tasks and wait for them.
StopReaders(f, t, j) ==
  LET s == j.session
  IN \/ /\ bridge[s].listed
        /\ bridge' = [bridge EXCEPT ![s].handle = FALSE, ![s].reader = "off", ![s].watcher = "off"]
        /\ task' = [CancelReaders(f, s) EXCEPT ![t] = [j EXCEPT !.pc = "drain"]]
        /\ UNCHANGED box
     \/ /\ ~bridge[s].listed
        /\ bridge' = [bridge EXCEPT ![s].handle = FALSE]
        /\ task' = [f EXCEPT ![t] = [j EXCEPT !.pc = "temp"]]
        /\ GracefulShutdown(s)

CloseBridge(f, t, j) ==
  LET b == bridge[j.session]
  IN \/ /\ ~b.object
        /\ task' = [f EXCEPT ![t] = [j EXCEPT !.pc = "temp"]]
        /\ UNCHANGED shell
     \/ /\ b.object /\ b.handle /\ b.proc = "running"
        /\ bridge' = [bridge EXCEPT ![j.session].handle = FALSE]
        /\ task' = [f EXCEPT ![t] = [j EXCEPT !.pc = "kill"]]
        /\ UNCHANGED box
     \/ /\ b.object /\ ~(b.handle /\ b.proc = "running")
        /\ StopReaders(f, t, j)

\* Seeded fault: the wait for the killed process has no time limit.
KillWaitedForever(t) ==
  /\ Working(t) /\ task[t].pc = "kill"
  /\ bridge[task[t].session].proc = "dead" /\ bridge[task[t].session].watcher # "waiting"
  /\ StopReaders(task, t, task[t])
  /\ UNCHANGED <<tables, rec, hist, seen, outq, timer, conn, disk, restarts>>

\* wait_for(process.wait(), 1) returns or times out. When the process has died,
\* the watcher, which waited first, has been resumed first.
KillWaited(t) ==
  /\ Working(t) /\ task[t].pc = "kill"
  /\ bridge[task[t].session].proc = "dead" => bridge[task[t].session].watcher # "waiting"
  /\ StopReaders(task, t, task[t])
  /\ UNCHANGED <<tables, rec, hist, seen, outq, timer, conn, disk, restarts>>

\* gather(*_reader_tasks) returns.
ReadersGone(t) ==
  /\ Working(t) /\ task[t].pc = "drain"
  /\ bridge' = [bridge EXCEPT ![task[t].session].listed = FALSE]
  /\ GracefulShutdown(task[t].session)
  /\ task' = [task EXCEPT ![t].pc = "temp"]
  /\ UNCHANGED <<tables, rec, hist, seen, outq, timer, conn, disk, restarts>>

-----------------------------------------------------------------------------
(***************************************************************************)
(* Sessions.                                                               *)
(***************************************************************************)

\* _drop_session: _sessions_by_id without the old session
DropSession(old) == byId \ {old}

\* create_session of a new session s, first critical section: an ended session of
\* the workspace is dropped.
CreateSession(g, s, t) ==
  LET old == byGroup[g]
  IN /\ Idle(t)
     /\ groupOf[s] = None
     /\ old # None => rec[old].status \in Final
     /\ byGroup' = [byGroup EXCEPT ![g] = s]
     /\ byId' = DropSession(old) \cup {s}
     /\ groupOf' = [groupOf EXCEPT ![s] = g]
     /\ rec' = [rec EXCEPT ![s] = [status |-> "created", timed |-> FALSE]]
     /\ bridge' = [bridge EXCEPT ![s] = NewBridge]
     /\ timer' = [x \in Sessions |-> IF x = old THEN None ELSE timer[x]]
     /\ task' = [IF old = None THEN task ELSE CancelReconnectTask(task, old)
                 EXCEPT ![t] = Job("create", s, "start", None, None)]
     /\ UNCHANGED <<hist, seen, box, outq, conn, disk, restarts>>

\* attach_session for connection c, critical section. A recovered session has no
\* bridge: this call makes and starts one.
AttachSession(c, s, t) ==
  LET r == [status |-> "attached", timed |-> FALSE]
      pc == IF bridge[s].object THEN "temp" ELSE "start"
  IN /\ Idle(t)
     /\ conn[c].pc = "idle"
     /\ s \in byId
     /\ rec' = [rec EXCEPT ![s] = r]
     /\ outq' = [outq EXCEPT ![s] = c]
     /\ conn' = [conn EXCEPT ![c] = [pc |-> "attaching", session |-> s,
                                     stream |-> Output(hist[s])]]
     /\ bridge' = [bridge EXCEPT ![s] = IF @.object THEN @ ELSE NewBridge]
     /\ timer' = [timer EXCEPT ![s] = None]
     /\ task' = [CancelReconnectTask(task, s)
                 EXCEPT ![t] = Job("attach", s, pc, BuildHistorySnapshot(s, r, hist[s]), c)]
     /\ UNCHANGED <<tables, hist, seen, box, disk, restarts>>

\* Seeded fault: the old timer is cancelled after the new one was stored.
DetachSessionCancelsLast(s, t) ==
  LET r == [status |-> "detached", timed |-> TRUE]
  IN /\ rec' = [rec EXCEPT ![s] = r]
     /\ outq' = [outq EXCEPT ![s] = None]
     /\ timer' = [timer EXCEPT ![s] = None]
     /\ task' = [task EXCEPT ![t] =
                   Job("detach", s, "temp", BuildHistorySnapshot(s, r, hist[s]), None)]

\* detach_session of session s, critical section, in job t.
DetachSession(s, t) ==
  LET r == [status |-> "detached", timed |-> TRUE]
  IN /\ rec' = [rec EXCEPT ![s] = r]
     /\ outq' = [outq EXCEPT ![s] = None]
     /\ timer' = [timer EXCEPT ![s] = "asleep"]
     /\ task' = [CancelReconnectTask(task, s)
                 EXCEPT ![t] = Job("detach", s, "temp", BuildHistorySnapshot(s, r, hist[s]), None)]

\* close_session of session s (and force_close_session_by_group), critical section
\* and what runs of bridge.close() before it waits, in job t for connection c.
CloseSession(s, t, c) ==
  LET r == [status |-> "closed", timed |-> FALSE]
  IN /\ rec' = [rec EXCEPT ![s] = r]
     /\ outq' = [outq EXCEPT ![s] = None]
     /\ timer' = [timer EXCEPT ![s] = None]
     /\ CloseBridge(CancelReconnectTask(task, s), t,
                    Job("close", s, "kill", BuildHistorySnapshot(s, r, hist[s]), c))

\* DELETE of a workspace's session, by its owner or forced by an administrator.
CloseSessionByGroup(g, t) ==
  /\ Idle(t)
  /\ byGroup[g] # None
  /\ CloseSession(byGroup[g], t, None)
  /\ UNCHANGED <<tables, hist, seen, conn, disk, restarts>>

\* Seeded fault: the expiry looks for an attached session.
WindowDueAttached(s) == s \in byId /\ rec[s].status = "attached" /\ rec[s].timed

\* What _expire_detached_session checks after its sleep. A timer that still sleeps
\* is that of the last detach, so a deadline that is set is its own.
WindowDue(s) == s \in byId /\ rec[s].status = "detached" /\ rec[s].timed

\* _expire_detached_session when its sleep ends.
ExpireDetachedSession(s, t) ==
  LET r == [status |-> "closed", timed |-> FALSE]
  IN /\ Idle(t)
     /\ timer[s] = "asleep"
     /\ \/ /\ WindowDue(s)
           /\ rec' = [rec EXCEPT ![s] = r]
           /\ timer' = [timer EXCEPT ![s] = t]
           /\ CloseBridge(task, t, Job("expire", s, "kill",
                                       BuildHistorySnapshot(s, r, hist[s]), None))
        \/ /\ ~WindowDue(s)
           /\ timer' = [timer EXCEPT ![s] = None]
           /\ UNCHANGED <<rec, shell, task>>
     /\ UNCHANGED <<tables, hist, seen, outq, conn, disk, restarts>>

-----------------------------------------------------------------------------
(***************************************************************************)
(* DockerExecTerminalBridge.start, in a create or attach job.              *)
(***************************************************************************)

\* run_container succeeds: no container of that name existed.
RunContainer(t) ==
  /\ Working(t) /\ task[t].pc = "start"
  /\ task[t].session \notin box
  /\ box' = box \cup {task[t].session}
  /\ task' = [task EXCEPT ![t].pc = "exec"]
  /\ UNCHANGED <<tables, rec, hist, seen, bridge, outq, timer, conn, disk, restarts>>

\* Seeded fault: create_session persists before it has a snapshot.
CreatedSnapshotMissing(s) == None

\* The snapshot of create_session's second critical section.
CreatedSnapshot(s) == BuildHistorySnapshot(s, rec[s], hist[s])

\* docker exec runs and the reader tasks are created. create_session goes on to its
\* second critical section; attach_session to the snapshot of its first.
ExecStarts(t) ==
  LET j == task[t]
      s == j.session
  IN /\ Working(t) /\ j.pc = "exec"
     /\ bridge' = [bridge EXCEPT ![s].handle = TRUE, ![s].proc = "running", ![s].listed = TRUE,
                                 ![s].reader = "reading", ![s].watcher = "waiting"]
     /\ task' = [task EXCEPT ![t] =
                   IF j.kind = "attach" THEN [j EXCEPT !.pc = "temp"]
                   ELSE IF s \in byId
                   THEN [j EXCEPT !.pc = "temp", !.snap = CreatedSnapshot(s)]
                   ELSE None]
     /\ UNCHANGED <<tables, rec, hist, seen, box, outq, timer, conn, disk, restarts>>

\* start raises. create_session lets the error pass and leaves the session as it
\* is; attach_session closes a session it still finds, and then the connection.
StartRaises(t) ==
  LET j == task[t]
      s == j.session
      r == [status |-> "closed", timed |-> FALSE]
      cleanup == j.kind = "attach" /\ s \in byId
  IN /\ task' = [task EXCEPT ![t] =
                   IF cleanup
                   THEN Job("failed", s, "temp", BuildHistorySnapshot(s, r, hist[s]), j.conn)
                   ELSE None]
     /\ rec' = IF cleanup THEN [rec EXCEPT ![s] = r] ELSE rec
     /\ outq' = IF cleanup THEN [outq EXCEPT ![s] = None] ELSE outq
     /\ bridge' = IF cleanup THEN [bridge EXCEPT ![s] = NoBridge] ELSE bridge
     /\ conn' = IF j.kind = "attach" /\ ~cleanup
                THEN [conn EXCEPT ![j.conn] = Gone] ELSE conn
     /\ UNCHANGED <<tables, hist, seen, timer, disk, restarts>>

\* run_container fails: the name is taken, or Docker refuses.
RunContainerFails(t) ==
  /\ Working(t) /\ task[t].pc = "start"
  /\ task[t].session \in box \/ DockerErrors
  /\ StartRaises(t)
  /\ UNCHANGED box

\* create_subprocess_exec fails: the container is shut down again.
ExecFails(t) ==
  /\ Working(t) /\ task[t].pc = "exec"
  /\ DockerErrors
  /\ GracefulShutdown(task[t].session)
  /\ StartRaises(t)

-----------------------------------------------------------------------------
(***************************************************************************)
(* Events of the bridge.                                                   *)
(***************************************************************************)

\* The shell ends by itself, is killed, or loses its container.
ProcessExits(s) ==
  /\ bridge[s].proc = "running"
  /\ bridge' = [bridge EXCEPT ![s].proc = "dead"]
  /\ UNCHANGED <<tables, rec, hist, seen, box, outq, timer, conn, task, disk, restarts>>

\* _forward_pty_output reads a chunk and hands it to _handle_bridge_event.
HandleOutput(s, t) ==
  LET n == seen[s] + 1
      h == AppendOutputHistory(hist[s], n)
  IN /\ Idle(t)
     /\ bridge[s].reader = "reading"
     /\ s \in byId
     /\ n <= MaxChunks
     /\ seen' = [seen EXCEPT ![s] = n]
     /\ hist' = [hist EXCEPT ![s] = h]
     /\ bridge' = [bridge EXCEPT ![s].reader = "busy"]
     /\ task' = [task EXCEPT ![t] = [Job("output", s, "temp",
                   BuildHistorySnapshot(s, rec[s], h), outq[s]) EXCEPT !.item = n]]
     /\ UNCHANGED <<tables, rec, box, outq, timer, conn, disk, restarts>>

\* _forward_pty_output reads the end of the output.
ReadEof(s) ==
  /\ bridge[s].reader = "reading" /\ bridge[s].proc = "dead"
  /\ bridge' = [bridge EXCEPT ![s].reader = "off"]
  /\ UNCHANGED <<tables, rec, hist, seen, box, outq, timer, conn, task, disk, restarts>>

\* _watch_process_exit hands the exit to _handle_bridge_event.
HandleExit(s, t) ==
  LET r == [status |-> "exited", timed |-> FALSE]
  IN /\ Idle(t)
     /\ bridge[s].watcher = "waiting" /\ bridge[s].proc = "dead"
     /\ \/ /\ s \in byId
           /\ rec' = [rec EXCEPT ![s] = r]
           /\ timer' = [timer EXCEPT ![s] = None]
           /\ bridge' = [bridge EXCEPT ![s].watcher = "busy"]
           /\ task' = [CancelReconnectTask(task, s) EXCEPT ![t] =
                         Job("exit", s, "temp", BuildHistorySnapshot(s, r, hist[s]), outq[s])]
        \/ /\ s \notin byId
           /\ bridge' = [bridge EXCEPT ![s].watcher = "off"]
           /\ UNCHANGED <<rec, timer, task>>
     /\ UNCHANGED <<tables, hist, seen, box, outq, conn, disk, restarts>>

-----------------------------------------------------------------------------
(***************************************************************************)
(* Snapshots on disk (_persist_history_snapshot, in a thread), and what a  *)
(* handler does once its snapshot is written or given up.                  *)
(***************************************************************************)

\* Seeded fault: an event goes to the queue of the moment, not to the one it was handled for.
EventQueueNow(j) == outq[j.session]

\* The queue an event handler found in its critical section.
EventQueue(j) == j.conn

\* The rest of the handler. An event handler puts its event on its queue, which
\* nobody reads once the endpoint has returned.
Resume(t) ==
  LET j == task[t]
      q == EventQueue(j)
  IN /\ task' = [task EXCEPT ![t] = None]
     /\ conn' = IF j.kind \in {"output", "exit"}
                THEN IF q = None \/ conn[q] = Gone THEN conn
                     ELSE [conn EXCEPT ![q].stream =
                             Append(@, IF j.kind = "output" THEN j.item ELSE ExitMark)]
                ELSE IF j.kind = "attach" THEN [conn EXCEPT ![j.conn].pc = "accepting"]
                ELSE IF j.kind \in {"failed", "close"} /\ j.conn # None
                THEN [conn EXCEPT ![j.conn] = Gone]
                ELSE conn
     /\ bridge' = IF j.kind = "output" THEN [bridge EXCEPT ![j.session].reader = "reading"]
                  ELSE IF j.kind = "exit" THEN [bridge EXCEPT ![j.session].watcher = "off"]
                  ELSE bridge
     /\ timer' = IF timer[j.session] = t THEN [timer EXCEPT ![j.session] = None] ELSE timer

\* _write_snapshot_payload writes the temporary file all writers of a workspace share.
WriteTemp(t) ==
  /\ Working(t) /\ task[t].pc = "temp"
  /\ "ok" \in DiskOutcomes
  /\ temp' = [temp EXCEPT ![groupOf[task[t].session]] = task[t].snap]
  /\ task' = [task EXCEPT ![t].pc = "replace"]
  /\ UNCHANGED <<tables, rec, hist, seen, shell, outq, timer, conn, latest, archive, restarts>>

\* It renames the temporary file, whoever wrote it last, and archives the snapshot
\* of an ended session. A file renamed away by another writer is an error, and an
\* error ends the write.
ReplaceLatest(t) ==
  LET j == task[t]
      g == groupOf[j.session]
  IN /\ Working(t) /\ j.pc = "replace"
     /\ "ok" \in DiskOutcomes
     /\ \/ /\ temp[g] # None
           /\ latest' = [latest EXCEPT ![g] = temp[g]]
           /\ temp' = [temp EXCEPT ![g] = None]
           /\ archive' = IF j.snap.status \in Final
                         THEN [archive EXCEPT ![j.session] = j.snap] ELSE archive
        \/ /\ temp[g] = None
           /\ UNCHANGED disk
     /\ Resume(t)
     /\ UNCHANGED <<tables, rec, hist, seen, box, outq, restarts>>

\* _persist_history_snapshot_best_effort gives up on a write that raises.
PersistFails(t) ==
  /\ Working(t) /\ task[t].pc \in {"temp", "replace"}
  /\ "error" \in DiskOutcomes
  /\ Resume(t)
  /\ UNCHANGED <<tables, rec, hist, seen, box, outq, disk, restarts>>

-----------------------------------------------------------------------------
(***************************************************************************)
(* terminal_websocket_endpoint, after attach_session has returned.         *)
(***************************************************************************)

\* accept() and the ready message succeed; the receive loop starts.
AcceptSocket(c) ==
  /\ conn[c].pc = "accepting"
  /\ conn' = [conn EXCEPT ![c].pc = "open"]
  /\ UNCHANGED <<tables, rec, hist, seen, shell, outq, timer, task, disk, restarts>>

\* One of them raises because the client has gone: outside of try/finally.
HandshakeFails(c) ==
  /\ HandshakeFailures
  /\ conn[c].pc = "accepting"
  /\ conn' = [conn EXCEPT ![c] = Gone]
  /\ UNCHANGED <<tables, rec, hist, seen, shell, outq, timer, task, disk, restarts>>

\* The receive loop ends without terminal.close; the forwarding task is cancelled
\* and awaited.
Disconnect(c) ==
  /\ conn[c].pc = "open"
  /\ conn' = [conn EXCEPT ![c].pc = "leaving"]
  /\ UNCHANGED <<tables, rec, hist, seen, shell, outq, timer, task, disk, restarts>>

\* Seeded fault: the endpoint just returns.
LeaveQuietly(c, t) ==
  /\ conn[c].pc = "leaving"
  /\ conn' = [conn EXCEPT ![c] = Gone]
  /\ UNCHANGED <<tables, rec, hist, seen, shell, outq, timer, task, disk, restarts>>

\* The endpoint detaches the session it was attached to, if that still exists.
Leave(c, t) ==
  LET s == conn[c].session
  IN /\ Idle(t)
     /\ conn[c].pc = "leaving"
     /\ conn' = [conn EXCEPT ![c] = Gone]
     /\ \/ s \in byId /\ DetachSession(s, t)
        \/ s \notin byId /\ UNCHANGED <<rec, outq, timer, task>>
     /\ UNCHANGED <<tables, hist, seen, shell, disk, restarts>>

\* The client sends terminal.close. The endpoint never detaches after that.
CloseMessage(c, t) ==
  LET s == conn[c].session
  IN /\ Idle(t)
     /\ conn[c].pc = "open"
     /\ \/ /\ s \in byId
           /\ conn' = [conn EXCEPT ![c].pc = "closing"]
           /\ CloseSession(s, t, c)
        \/ /\ s \notin byId
           /\ conn' = [conn EXCEPT ![c] = Gone]
           /\ UNCHANGED <<rec, shell, outq, timer, task>>
     /\ UNCHANGED <<tables, hist, seen, disk, restarts>>

-----------------------------------------------------------------------------
\* The server stops at any point and starts again: containers and files stay, and
\* _recover_active_sessions_from_persisted_snapshots reads latest.json.
Recovered(g) == latest[g] # None /\ latest[g].status \in Active

\* Seeded fault: recovery registers a session by its workspace only.
RecoveredIdsNone(back) == {}

\* The sessions that recovery registers by id.
RecoveredIds(back) == {latest[g].session : g \in back}

Restart ==
  LET back == {g \in Groups : Recovered(g)}
      ids == RecoveredIds(back)
      snap(s) == latest[CHOOSE g \in back : latest[g].session = s]
  IN /\ restarts < MaxRestarts
     /\ restarts' = restarts + 1
     /\ byGroup' = [g \in Groups |-> IF g \in back THEN latest[g].session ELSE None]
     /\ byId' = ids
     /\ rec' = [s \in Sessions |-> IF s \in ids THEN [status |-> "detached", timed |-> FALSE]
                                   ELSE rec[s]]
     /\ hist' = [s \in Sessions |->
                   IF s \in ids THEN [head |-> snap(s).output, tail |-> <<>>,
                                      truncated |-> snap(s).truncated]
                   ELSE NoHistory]
     /\ seen' = [s \in Sessions |->
                   IF s \in ids /\ snap(s).output # <<>> THEN snap(s).output[Len(snap(s).output)]
                   ELSE 0]
     /\ bridge' = [s \in Sessions |-> NoBridge]
     /\ outq' = [s \in Sessions |-> None]
     /\ timer' = [s \in Sessions |-> None]
     /\ conn' = [c \in Conns |-> IF conn[c].pc = "idle" THEN conn[c]
                                 ELSE Gone]
     /\ task' = [t \in Tasks |-> None]
     /\ UNCHANGED <<groupOf, box, disk>>

-----------------------------------------------------------------------------
\* A step of the event loop or of a thread in the job t.
JobStep(t) ==
  \/ RunContainer(t) \/ RunContainerFails(t) \/ ExecStarts(t) \/ ExecFails(t)
  \/ KillWaited(t) \/ ReadersGone(t)
  \/ WriteTemp(t) \/ ReplaceLatest(t) \/ PersistFails(t)

Next ==
  \/ \E g \in Groups, s \in Sessions, t \in Tasks : CreateSession(g, s, t)
  \/ \E c \in Conns, s \in Sessions, t \in Tasks : AttachSession(c, s, t)
  \/ \E g \in Groups, t \in Tasks : CloseSessionByGroup(g, t)
  \/ \E s \in Sessions, t \in Tasks : ExpireDetachedSession(s, t)
  \/ \E s \in Sessions, t \in Tasks : HandleOutput(s, t) \/ HandleExit(s, t)
  \/ \E s \in Sessions : ProcessExits(s) \/ ReadEof(s)
  \/ \E c \in Conns : AcceptSocket(c) \/ HandshakeFails(c) \/ Disconnect(c)
  \/ \E c \in Conns, t \in Tasks : Leave(c, t) \/ CloseMessage(c, t)
  \/ \E t \in Tasks : JobStep(t)
  \/ Restart

Spec == Init /\ [][Next]_vars

(***************************************************************************)
(* Handlers and threads go on, sleeps end, a dead process is noticed, and  *)
(* an endpoint that has left its loop runs to its end. Nothing is assumed  *)
(* of clients, of the shell or of the workspace's other users.             *)
(***************************************************************************)
Fairness ==
  /\ \A t \in Tasks : WF_vars(JobStep(t))
  /\ \A s \in Sessions : /\ WF_vars(\E t \in Tasks : ExpireDetachedSession(s, t))
                         /\ WF_vars(\E t \in Tasks : HandleExit(s, t))
  /\ \A c \in Conns : /\ WF_vars(AcceptSocket(c) \/ HandshakeFails(c))
                      /\ WF_vars(\E t \in Tasks : Leave(c, t))

FairSpec == Spec /\ Fairness

-----------------------------------------------------------------------------
(***************************************************************************)
(* Properties.                                                             *)
(***************************************************************************)

TypeTables ==
  /\ byGroup \in [Groups -> Sessions \cup {None}]
  /\ byId \subseteq Sessions
  /\ groupOf \in [Sessions -> Groups \cup {None}]

TypeRecords ==
  /\ rec \in [Sessions -> RecordType]
  /\ hist \in [Sessions -> HistoryType]
  /\ seen \in [Sessions -> Nat]
  /\ outq \in [Sessions -> Conns \cup {None}]
  /\ timer \in [Sessions -> Tasks \cup {None, "asleep"}]

TypeShell ==
  /\ bridge \in [Sessions -> BridgeType]
  /\ box \subseteq Sessions

TypeDisk ==
  /\ temp \in [Groups -> SnapType \cup {None}]
  /\ latest \in [Groups -> SnapType \cup {None}]
  /\ archive \in [Sessions -> SnapType \cup {None}]
  /\ restarts \in Nat

\* A job holds the snapshot it will write; only create_session builds its own after
\* the start of the bridge.
HoldsSnapshot(j) == j.snap # None \/ (j.kind = "create" /\ j.pc \in {"start", "exec"})

\* Every variable has its type, and no handler reaches a write without a snapshot.
TypeOK ==
  /\ TypeTables /\ TypeRecords /\ TypeShell /\ TypeDisk
  /\ conn \in [Conns -> ConnType]
  /\ task \in [Tasks -> JobType \cup {None}]
  /\ \A t \in Tasks : Working(t) => HoldsSnapshot(task[t])

\* The two tables hold the same sessions, one for each workspace that has any:
\* creation, dropping and recovery never leave a session that can be reached by its
\* id and not through its workspace, or the other way round.
TablesAgree ==
  /\ byId = {byGroup[g] : g \in Groups} \ {None}
  /\ \A g \in Groups : byGroup[g] # None => groupOf[byGroup[g]] = g

\* A session's bridge is started by one handler at a time, and never once it runs:
\* the lazy start of attach_session is decided in the critical section and done
\* after it, while other clients attach.
OneStart ==
  \A t \in Tasks : Working(t) /\ task[t].pc \in {"start", "exec"} =>
    /\ ~bridge[task[t].session].handle
    /\ \A u \in Tasks \ {t} : Working(u) /\ task[u].pc \in {"start", "exec"} =>
         task[u].session # task[t].session

\* A session with a reconnect deadline is detached and a timer runs for it: no
\* order of attach, detach, exit and close leaves a window that nobody ends.
WindowHasTimer ==
  \A s \in byId : rec[s].timed => rec[s].status = "detached" /\ timer[s] = "asleep"

\* An attached session sends its output to a connection that is still there (or
\* about to detach it), so it cannot stay attached for ever with nobody behind it.
AttachedHasClient ==
  \A s \in byId : rec[s].status = "attached" =>
    \E c \in Conns : /\ outq[s] = c /\ conn[c].session = s
                     /\ conn[c].pc \in {"attaching", "accepting", "open", "leaving"}

Consecutive(q) == \A i \in 1..(Len(q) - 1) : q[i + 1] = q[i] + 1

\* Two chunks with nothing but exit marks between them follow each other.
ChunksFollow(q) ==
  \A i, j \in 1..Len(q) :
    /\ i < j
    /\ q[i] # ExitMark /\ q[j] # ExitMark
    /\ \A k \in (i + 1)..(j - 1) : q[k] = ExitMark
    => q[j] = q[i] + 1

\* What a client is sent is replay and live output without a hole or a repetition,
\* whatever happens between the critical section of an output event and its put on
\* the queue; and the client of a running bridge misses nothing but the chunk being
\* handled.
ReplayExact ==
  /\ \A c \in Conns : ChunksFollow(conn[c].stream)
  /\ \A s \in byId, c \in Conns :
       outq[s] = c /\ bridge[s].handle /\ MaxHistory > 0 /\ seen[s] > 0 =>
         \/ \E i \in 1..Len(conn[c].stream) : conn[c].stream[i] = seen[s]
         \/ \E t \in Tasks : Working(t) /\ task[t].kind = "output" /\ task[t].conn = c
                                        /\ task[t].item = seen[s]

\* The history is the end of the output seen, within its limit, and says it is
\* truncated exactly when its beginning is missing; a restart keeps that true.
HistoryIsSuffix ==
  MaxHistory > 0 =>
    \A s \in byId :
      LET out == Output(hist[s])
      IN /\ Consecutive(out)
         /\ Len(out) <= MaxHistory
         /\ seen[s] > 0 => out # <<>> /\ out[Len(out)] = seen[s]
         /\ out # <<>> => (out[1] # 1 <=> hist[s].truncated)

\* The reconnect window of a detached session ends: it is attached again, closed,
\* exited or replaced.
WindowEnds ==
  \A s \in Sessions : (s \in byId /\ rec[s].timed) ~> ~(s \in byId /\ rec[s].timed)

\* Every handler returns: bridge.close() never waits for ever for the process or
\* for the reader tasks it cancels, which may be waiting themselves.
JobsReturn ==
  \A t \in Tasks : Working(t) ~> Idle(t)

(***************************************************************************)
(* What the design documents say and the code does not guarantee.          *)
(***************************************************************************)
Quiet == \A t \in Tasks : Idle(t)

\* closed and exited are terminal states of a session.
FinalIsFinal ==
  [][\A s \in byId \cap byId' : rec[s].status \in Final => rec'[s].status \in Final]_vars

\* The bridge of a closed session is terminated.
ClosedIsTerminated ==
  \A s \in Sessions : rec[s].status = "closed" /\ s \in box =>
    \E t \in Tasks : Working(t) /\ task[t].session = s
                                /\ task[t].pc \in {"start", "exec", "kill", "drain"}

\* A session is detached when its client is not connected.
DetachedHasNoClient ==
  \A s \in byId, c \in Conns :
    rec[s].status = "detached" => ~(conn[c].session = s /\ conn[c].pc = "open")

\* latest.json reflects that a session has ended.
LatestIsFinal ==
  \A g \in Groups :
    Quiet /\ byGroup[g] # None /\ rec[byGroup[g]].status \in Final =>
      latest[g] # None /\ latest[g].session = byGroup[g] /\ latest[g].status \in Final

\* A session that has ended has an archived snapshot.
ArchiveWritten ==
  \A s \in byId : Quiet /\ rec[s].status \in Final => archive[s] # None

\* The owner can attach to a recovered session: its bridge starts again.
RecoveredIsAttachable ==
  \A t \in Tasks : Working(t) => task[t].kind # "failed"
=============================================================================
