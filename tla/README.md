# Portex verification project

Portex is a FastAPI/asyncio server that runs agent prompts for chat groups, keeps
terminal sessions in containers, and stores workspaces, tasks, messages and settings.
This directory holds TLA+ models of the parts of it where ordering, cancellation and
failure matter, the TLC configurations that check them on small instances, and TLAPS
proofs for the most important facts. All references are to files of the repository
(`services/...`, `app/...`, `infra/...`).

## Inventory

| Component | State | Operations | Hard behaviour | Module |
|---|---|---|---|---|
| Execution coordinator (`services/execution_coordinator.py`) | per-group deques and workers, futures, statuses, snapshots, retained results | submit, wait, cancel, worker loop, execution task, timeout, retry, eviction, monitor | cancellation at any await; worker leaving against a submission; timer, cancel and result racing | `ExecutionCoordinator`, `RunQueue` |
| Workspace session lifecycle (`services/workspace_lifecycle.py`), execution policy | current session per workspace | preview, commit, invalidate; mode to backend | the session of a run depends on all earlier outcomes | `WorkspaceLifecycle`, `ExecutionCoordinator` |
| Execution backends (`services/execution_backends.py`), process executor (`infra/exec/process.py`), Docker client (`infra/exec/`) | active runs, clean-up tasks, child processes, named containers | execute, cancel, clean-up, parsing of the runner's output | cancel while a process is created; a container name the next run reuses; waits with limits | `ExecutionBackends` |
| WebSocket route, connection manager (`app/routes/websocket.py`, `app/websocket.py`), agent trigger and runtime (`services/agent_trigger.py`, `infra/runtime/`) | sockets per group, run and waiter of a connection, streams | connect, prompt, cancel, disconnect, stream, broadcast | cancel against completion; a dead socket in a broadcast; a model that never answers | `WebSocketSession` |
| Terminal sessions and bridge (`services/terminal_sessions.py`, `terminal_bridge.py`), the websocket of `app/routes/terminals.py` | session tables, output history, reconnect timers, snapshots | create, attach, detach, close, force close, expire, bridge events, persist, recover | lock released before the bridge is started or closed and before a snapshot is written; late exit; restart | `TerminalSessions` |
| Terminal histories (`services/terminal_sessions.py` 880-1175, the read routes of `app/routes/terminals.py`) | snapshots in memory, latest and archived files | persist, load, merge; recent, detail, inventory, timeline, search, archives | writers out of order; memory and disk read at different times | `TerminalHistory` |
| Terminal history search (`services/terminal_sessions.py` 1176-2722) | none | scan, classification of matches, counts, ranking, snippets | predicates that exclude one another, offsets in changed text | `HistorySearch` |
| Scheduler, task service, task log (`services/scheduler.py`, `task_service.py`, `task_log_service.py`) | task objects, running ids, loops, logs | create, delete, start, stop, run pending | stale list of due tasks, overlapping passes, catching up | `TaskScheduler` |
| Message dispatch (`services/message_*.py`, `app/routes/messages.py`, `im.py`), IM channels (`infra/im/`) | message rows | send, webhook, store, route, reply | redelivery, one of several steps failing, a binding that changes | `MessageDispatch` |
| Groups, members, slots, bindings (`services/group_registry.py`, `group_member_service.py`, `conversation_slot_service.py`, `app/routes/groups.py`) | rows | create, rename, list, slots, members, bind, unbind | check-then-write in separate commits | `Workspaces` |
| Accounts (`services/auth.py`, `app/routes/auth.py`, `users.py`) | users, invites, policy | register, invites, policy | policy read before an await, single-use invites | `Accounts` |
| Settings, MCP servers, skills, memory (`services/settings.py`, `mcp_servers.py`, `skills.py`, `memory.py` and routes) | files, a cache | read, write, toggle, delete, append | threads interleaved at every system call | `SettingsStore`, `McpServersStore`, `SkillsStore`, `MemoryStore` on `FileSystem` |
| Workspace files, usage and audit, runner container, schemas, web client | files, rows, declarations | | | not modelled |

What makes each component correct:

* coordinator: one run per group at a time, in order of submission; every run gets one
  terminal status and keeps it; status, result, snapshot and future agree; nothing
  stays in a table after its run; no queued run is forgotten;
* sessions: a follow-up continues on the session of the last answer of its slot, only a
  successful run commits, a session that failed to resume is never used again;
* backends: nothing runs on for a run that is over, the tables are cleared, a run is
  reported completed only if its own runner said so, or a tool had said so when the run
  was stopped, and a cancellation ends;
* websocket: a run has a connection behind it, its end is told once, a peer that has
  gone does not keep the group;
* terminal sessions: the tables agree; a bridge is started once; a reconnect window has
  a timer and ends; a client is sent the output without holes or repetitions; the
  history is an honest suffix of the output, also after a restart;
* histories and search: an answer that is whole, or about the latest session, is not older
  than what was in memory when it was asked for; a session that was seen ended stays
  ended; matches, counts and order are what they say;
* stores: no update is lost unless updates overlap, and the cache is the file;
* control plane: workspaces stay with their creators, messages run where they are bound
  and replies are not lost, tasks run at their times and once, invites are used once.

## Plan

Done: the modules above with their runs; proofs of the safety and action properties of
the execution plane (coordinator, backends, websocket), of `TerminalSessions`, of the
histories, of the file-backed stores and of the control plane, and of the refinement of
`RunQueue`. What is left to TLC is named, with the reason, at the end of each section on
proofs.

## How the models are built

Everything but the file operations and the snapshot writers runs on one event loop, so
one action is the code of a task between two suspension points; in the worker threads
of the file-backed stores, and in the snapshot writers, one action is one system call.
Data is abstract: texts, ids and timestamps are model values or small numbers, and what
only formats, validates or copies is left out. Properties that consist of several parts
are conjunctions of named definitions, each with its own comment.

Some properties say "unless two requests overlapped". A history variable records the
overlap (`disputed`, `setRaced`, `overlapped`, ...); the code takes no lock there,
and what goes wrong under overlap is in the table of divergences.

`asyncio.wait_for` is that of Python 3.11, which the Dockerfile selects.

## The execution plane

### Modules

* `WorkspaceLifecycle` - the session state of a workspace and the operators
  `PreviewSessionId`, `CommitSuccess`, `Invalidate`. Pure.
* `ExecutionCoordinator` - the coordinator. Each VARIABLE is one attribute of the
  class (the comment beside it names it) or the state of an asyncio task:
  `task`/`attempt`/`outcome` are an execution task, `worker`/`current` a group's
  worker, `live` the backend coroutines that have not finished. `used`, `revoked`,
  `committer` and `heard` (the session of the last answer a workspace got, until one
  fails to resume) are history variables for properties.
* `RunQueue` - what the coordinator promises its callers: groups serve their runs
  one at a time in order, queued runs can be withdrawn, running ones cancelled,
  each run ends once. The line of a group is the set of its waiting runs, and `ahead[r]`
  those that came before `r`: only a run with nobody ahead is taken.
* `ExecutionBackends` - what `execute`, `cancel` and the clean-up tasks of the host and
  container backends do to processes and containers, for consecutive runs of a group.
* `WebSocketSession` - endpoint, waiter and stream consumer of the connections of one
  room, on top of `RunQueue`, whose actions it uses for the coordinator.
* `MC...` - request sets and symmetry for TLC.
* `ExecutionCoordinatorProofs`, `BackendsProofs`, `WebSocketProofs` - the proofs.

### Correspondence with the code

Coordinator. `SubmitExecution` and `CancelQueued`/`CancelRunning` are whole calls;
`WorkerLaunch` runs from the pop of an entry to the await of its execution task;
`WorkerDrops`, `WorkerStores` and `WorkerDies` are what follows that await;
`BackendEnds`, `WaitForReturns`, `TimeoutUnwinds` and `CancelUnwinds` are the ways an
await of the backend ends, each followed in the same step (`Conclude`) by the retry, or
by the commit and the return. The worker may pop several entries without suspending; it
is split at its loop head and `onLoop` keeps every other handler away until it suspends.
`wait_for` runs the backend in an inner task, cancels it when the timer fires and waits
for it; a cancellation of the outer task is swallowed when the inner task has already
finished, and leaves the inner task running when it arrives while a timed-out one
unwinds. The host executor has a `wait_for` of its own, so a host backend may return
normally although it was cancelled (`SwallowedCancel`). A session id is the bare
workspace key or a minted id named after the run and the purpose it was minted for; a
run id is submitted once. `except Exception` around `_execute_request` (lines 287-301)
has no action: nothing in it can raise once a backend has been selected. Rejected
requests fail inside `_execute_request` itself (`WorkerReject`).

Backends. `exec[r]` is where `execute` of run `r` stands (spawning, communicating,
reaping); `helper[r]` are the tasks that work on the run beside it: the clean-up task it
leaves behind, and the coordinator's calls of `backend.cancel` for the client and for
the timeout. `proc` and `box` are the child process and the container, `active` and
`cleanups` the tables. `World` is the environment: processes exit, are reaped or never
are, containers appear after the docker client was started, end, or resist.
`stop_container` makes blocking calls, so it is one step. What the runner and its tools
print is a sequence of markers, and `ParseRunnerOutput` searches it as the code does.
`stdout[r]` is what `communicate()` has read: of a container that is stopped, or a process
that is killed, any part of a report (`CutShort`). A cancelled `create_subprocess_exec`
closes its transport and then waits for the process (`closing`).

WebSocket. `pc[c]` is the endpoint of a connection, `waiter[c]` the task that waits for
its run, `stream[r]` and `cast[r]` the consumer of the run's events and the broadcast it
is in the middle of, one await per socket. A peer may go at any moment; the next send to
it raises and the room's other sockets miss the event.

### Runs

| Run | Instance | Shows |
|---|---|---|
| `coordinator_slot` | 3 runs, one group and slot; resumed, fresh, timed and host requests, retention 1, every outcome | types, retention limit, sound sessions and continuation, final results and no residue under the race of timer, cancel and result, no overlapping backend calls but the one Python 3.11 makes possible |
| `coordinator_groups` | 3 runs, 2 groups, 2 slots, unsupported mode, cancelled waiters | one run per group, agreement of the read-side tables, no lost wake-up, no backend call after the result was delivered |
| `coordinator_live` | 3 runs of one group, timed or rejected, weak fairness | refinement of `RunQueue`, the monitor view agrees with it, every run settles |
| `execution_backends` | a host or container run that is timed and may be cancelled, a container run of the same session behind it | tables cleared, nothing left running, honest answers, cancellations settle |
| `websocket_session` | 2 connections, 2 runs | runs have a connection, the end of a run is told once, a peer that has gone frees the group |

Bounds. Three runs are the least for a run to be queued behind one that unwinds while a
third is cancelled or evicted; retention 1 makes every second completion evict; two
groups are enough for a worker of another group to run in between. The history of one
workspace needs a commit, a failed resume and a follow-up: three runs. Symmetry is over
run ids, which no definition tells apart. For the backends two runs are enough: what a
clean-up can disturb is the run after its own; host runs share nothing with others. For
the websocket two connections give a submitter and a bystander of every broadcast, and
the second run is the one the flags of the first may leak into; the first prompt comes
from `c1` by symmetry.

Fairness. `coordinator_live`: weak fairness of every worker and execution task; the
event loop runs ready tasks, and backend calls end (the host executor has a limit of one
hour, the model provider and Docker calls are assumed to return). Nothing is assumed of
callers or of the timer. `execution_backends`: weak fairness of `execute` where it
unwinds and of the helpers, whose waits have limits; nothing is assumed of processes
and containers, which may never end, nor of the one wait without a limit, that of a
cancelled `create_subprocess_exec` for its process, which `CancelSettles` excepts. `websocket_session`: weak fairness of the endpoint,
the waiter and the consumer; nothing of peers, of the model or of the order of prompts.

What the properties do not claim. `EveryRunSettles` and `QueuedHasWorker` are checked
without stray `CancelledError`s: one ends the group's worker, and runs queued behind it
wait for the next submission to the group. A cancelled waiter cancels the future it
shares with other waiters; a run still queued is then skipped and stays `queued`.
`OneBackendCallPerGroup` admits the one overlap Python 3.11 makes possible.
`NoCallAfterTerminal` is checked for runs without a coordinator timeout: with one,
`wait_for` may swallow the cancellation, and a resume error of the cancelled run is then
still retried. `NoContainerLeft` excepts containers that did not exist yet when the run
was cancelled or that Docker failed to stop, `TablesCleared` host runs whose process was
gone when it was to be killed, `ToldOnce` runs one of whose broadcasts met a dead socket.
`AnswerHonest` admits that a run which another run's clean-up has stopped is answered
completed on what a tool had printed by then. `FollowUpResumes` speaks of answers: `heard` follows what the backend has answered and
with which session, not the store, so a commit that is lost or takes the wrong session, or
an invalidation that is forgotten, breaks it at the next launch.

### Proofs

Everything below holds for every set of runs, groups, slots, requests and outcomes,
every retention limit, every number of connections and every choice of backends. The
proofs assume the named assumption of the module (`ConstantsAssumption`,
`BackendAssumption`, `WebSocketAssumption`), which every run evaluates, and the
hypotheses named here. None of the properties is inductive; each invariant was checked
with TLC before it was proved, and each proof has one lemma per action.

Coordinator.

| Module | Theorem | Property | Invariant it rests on |
|---|---|---|---|
| `ExecutionCoordinatorProofs` | `TypeCorrect`, `OneActive` | `TypeOK`, `OneActivePerGroup` | `IInv` |
| | `ReadersAlwaysAgree`, `RetentionBounded`, `NothingLeftBehind`, `FinalStatuses` | `ReadersAgree`, `RetentionBound`, `NoResidue`, `TerminalIsFinal` | `IInv`, `Books` |
| | `OneBackendCall` | `OneBackendCallPerGroup` | and `LiveTasks` |
| | `SessionsStaySound` | `SessionsSound` | and `SInv` |
| | `FollowUps` | `FollowUpResumes` | and `SInv`, `Remembers` |
| | `NoLostWakeUp` | `QueuedHasWorker` | and `Unwinding`, `Served` |
| | `NoLateCalls` | `NoCallAfterTerminal` | and `CallsAllowed` |
| | `MonitorShowsQueue`, `Refinement` | `MonitorAgrees`, `ImplementsRunQueue` | and `Awaited` |

`IInv` adds to the types `Submitted` (whatever the coordinator holds about a run, the run
was submitted, and a deque holds runs of its own group), `TaskData` (a run in the running
maps has a session, an unfinished task is in them, a finished one has a status) and
`WorkerData` (the worker at its loop head is the one on the event loop, and a run that
occupies a group is the one the group's worker awaits). Two runs that occupy a group
would both be its worker's current run.

`Books` joins the read-side properties with `LinesDistinct` (a run waits once, and has no
task while it does) and `StatusData` (the status goes with the task): that a worker
stores a result only for an unfinished run depends on what the deques and the running
maps hold, so none of these is inductive without the others. `LiveTasks` says which task
a backend call belongs to; two calls of one group then belong to tasks one of which was
cancelled while a timed-out call unwound. `SInv` says where a session in circulation
comes from: a minted one exists only once its purpose came up (`Minted`), so a session
minted now is new; the bare workspace key is not offered again after it failed
(`Attempts`); and the run that committed last has completed (`Committers`). `Remembers`
ties the store to the answers: its current session is that of the last answer, or none
once that was lost, and a workspace with a past does not offer its bare key again.

The hypotheses of `NoLostWakeUp`, `NoLateCalls`, `MonitorShowsQueue` and `Refinement`
are the conditions under which the runs
check the same properties, and without them the properties fail ("What the properties do
not claim"): `NoStrayCancel` (no backend raises a `CancelledError` nobody asked for; it
would end the worker), `~WaitersMayCancel` (a cancelled waiter cancels the shared
future), `NoTimedResume` (a timed run that may resume a session may swallow its
cancellation). `Refinement` maps each step to one of `RunQueue` or to a stutter:
`line` is the set of queued runs of a group, `ahead` comes from the positions in its
deque, and `busy` is the run its worker awaits; the head of the deque is the run with
nobody ahead of it.

Backends. `BackendsProofs` proves `TablesAreCleared` (`TablesCleared`), `NothingRunsOn`
(`NothingLeftRunning`) and `AnswersAreHonest` (`AnswerHonest`). The invariant
`BackendInv` speaks of one run at a time: `TableEntry` says who is still going to clear
each entry of the tables, `Remains` who is still going to end its process and container.
Runs meet only at the daemon, so a step of another run leaves all of it alone (`Alone`)
or takes its container away (`ContainerTaken`), which only brings the run nearer its
end. `AnswerInv` adds that stdout holds nothing while the process runs, and afterwards a
report or a part of one (`Heard`), also when another run's clean-up has taken the container
away. An answer is that of the output of a process that has ended, and a run that nobody
interrupted and that is in no table was answered so, or by the executor's limit
(`Uninterrupted`). The lemmas about the parser say that it takes
the last frame for the runner's. `AnswersAreHonest` has the hypothesis `NobodyForges`:
the parser cannot tell a whole frame that a tool prints after the runner's (or instead
of it) from the runner's own. Of a run that was stopped before its runner had said
anything the theorem only says that a tool had printed the success. `MCExecutionBackends` checks that its reports satisfy it.

WebSocket. `WebSocketProofs` proves `RunsKeepConnection` (`RunsHaveConnection`) and
`EndToldOnce` (`ToldOnce`). `RoomInv` relates endpoints, waiters, runs and streams: an
unfinished run is the run of a waiter that waits, whose endpoint receives; a cancelled
run whose stream has not stopped yet has an endpoint that waits for it or has left.
`ToldInv` adds, for a run whose broadcasts met no dead socket, what each inbox does not
contain while it may still be sent (`Once`), that a terminal event which the connection
has noted is with the submitter or on its way (`Noted`), and that somebody is there to
tell the submitter until it has been told (`Told`).

Model-checked only: liveness (`EveryRunSettles`, `CancelSettles`, `GroupFreed`), which is
out of the prover's reach.

## Terminal sessions

### Modules

* `TerminalSessions` - the life of sessions: `services/terminal_sessions.py` without its
  read models, `services/terminal_bridge.py` and the websocket endpoint of
  `app/routes/terminals.py`.
* `TerminalHistory` - the snapshots and who reads them: the threads of
  `_persist_history_snapshot`, and the read models and routes that merge memory with
  `latest.json` and the archives.
* `HistorySearch` - the search as pure operators over character sequences.
* `MCTerminalSessions`, `MCHistorySearch`; `TerminalSessionsProofs`,
  `TerminalHistoryProofs` - the proofs.

### Correspondence with the code

`TerminalSessions`. The service never awaits while it holds its lock, so a critical
section is one action: `CreateSession`, `AttachSession`, `DetachSession` (in `Leave`),
`CloseSession` (in `CloseSessionByGroup` and `CloseMessage`), `ExpireDetachedSession`,
`HandleOutput`, `HandleExit`. What a handler does after its critical section is a job
`task[t]` with a program counter:

| `pc` | The handler is in |
|---|---|
| `start`, `exec` | `bridge.start()`: `docker run`, then `docker exec` |
| `kill`, `drain` | `bridge.close()`: waiting for the killed process, then for the cancelled reader tasks |
| `temp`, `replace` | the thread that writes its snapshot: the temporary file, then the rename and the archive |

A job of kind `thread` is a write whose handler was cancelled: the thread goes on and
nobody waits for it. `Resume` is what follows the write: an event goes on the queue the
handler found in its critical section, `attach_session` returns to the endpoint, a
timer's task ends. `rec`, `hist`, `outq`, `timer` and `bridge` are the fields of a
managed session and of its bridge; `box` is the set of containers Docker has; `temp`,
`latest` and `archive` are the files; `seen` counts the chunks a session has produced and
serves the properties.

Output is abstract: chunk `n` is the number `n`, and counts one towards
`history_max_bytes`. The text a restarted server recovers is one chunk
(`hist[s].head`), as in the code. Requests that are refused change nothing and have no
action. Typed input and resizing pass bytes to the pty and change no state. The
forwarding task, which copies the queue to the socket and stops at the exit, is left
out: `conn[c].stream` is all the queue was given. A file is written whole or not at all
here; `TerminalHistory` takes the write apart. `restarts` stops the server between any
two steps; threads, tasks and connections are gone, containers and files stay.
`DockerErrors` lets any Docker call fail, `DiskOutcomes` says whether writes succeed or
raise, `HandshakeFailures` lets a client be gone between `attach_session` and the receive
loop.

`TerminalHistory`. A status is "active" (created, attached, detached) or "ended"
(closed, exited). A timestamp is the number of changes made so far: the clock is taken
to be strictly monotone. The thread that writes the snapshot of stamp `t` is thread `t`;
its steps are the system calls of the write (open the shared temporary file, write,
rename, for `latest.json` and then for the archive), each of which the disk may refuse.
One request is followed until it has read what it needs; each kind of request reads
memory under the lock and files in a thread, and `LatestHistory`, `Dedupe` and the other
operators merge what it has read as the code does. What has been loaded and merged is a
set, which its timestamps order as the code's lists are: a page is a range of that order,
an answer the set of what it shows. The status filter stands for all
filters. The model starts from what an earlier life of the server has left. Counts that
go with a page are left out.

`HistorySearch`. Offsets count from 0 and a slice past the end is empty, as in Python;
lower-casing may lengthen a character, as `str.lower()` does. Each `Is...` operator is
one predicate of the code, `Candidate` the numbers `_build_search_candidate` computes,
`SearchKey` the sort key.

### Runs

| Run | Instance | Shows |
|---|---|---|
| `terminal_replay` | 2 clients taking over from each other, 3 jobs, output arriving | each client gets replay and live output exactly, windows have timers, attached sessions have clients |
| `terminal_history` | output beyond the limit, racing writers, a restart, two clients that attach to the recovered session | types, tables agree, one lazy start, the history is a suffix of the output and says when it is cut |
| `terminal_live` | Docker and handshakes may fail, weak fairness | reconnect windows end, handlers return |
| `history_search` | a session writing word, separators and end piece by piece, another to rank against | offsets, ranking and snippets are right |
| `file_stores` (`store = "history"`) | one workspace, 4 changes, 2 writers at a time, a refused write, any request | no stale answer; a session answered as ended stays so |

Bounds. Two jobs are enough for every race between a handler and the next one, for two
writers of one file, and for an expiry cancelled by a handler; a third lets an output
event wait while two other handlers run; two clients are a take-over; a history limit
below the number of chunks gives eviction; one restart, at any point of a session's
life. A second session replaces the first in `terminal_history`; `SmallSuccession` keeps
the instance small: a session that is followed by another one has no output, and either
no client or no restart. `SecondAfterRestart` lets the second client come to a recovered
session, where the lazy start of the bridge may meet another attach; before a restart two
clients are the business of `terminal_replay`. Workspaces share no session, file or timer, so the runs have
one. Where the disk does not matter to the properties (`terminal_replay`,
`terminal_live`) every write fails: the handler goes on in the same way and the two
steps of a successful write are saved. Sessions, connections and jobs are symmetric.
Deadlock is not checked: when the bounds are used up and every client has left, the
service waits for requests. In `history_search` the texts have every bracket, log
marker, white space and line end the predicates tell apart, upper case, and a letter
(U+0130) whose lower case is two characters; two characters of separator decide every
predicate.

`AttachedHasClient` is checked with `HandshakeFailures = FALSE`: the handshake is the
one place where the promise breaks (see the divergences).

Fairness (`terminal_live`). Weak fairness of every job, of a timer whose sleep ends, of
the watcher of a dead process, of the handshake and of an endpoint that has left its
loop: the event loop runs ready tasks, sleeps end, and Docker and the disk answer.
Nothing is assumed of clients or of the shell, which may never exit: `bridge.close()`
must get past it with its own time limit. The run has one session: the jobs are
a bound of the model, and with a second session an endless series of close requests could
keep the watcher of the first from ever finding a job free, which the code does not need.

### Proofs

For every set of workspaces, sessions, connections and jobs, every history limit and
every number of restarts, from `TerminalAssumption`:

| Module | Theorem | Property | Invariant it rests on |
|---|---|---|---|
| `TerminalSessionsProofs` | `TypeCorrect`, `WindowTimed` | `TypeOK`, `WindowHasTimer` | `IInv` |
| | `TablesAlwaysAgree` | `TablesAgree` | and `Named` |
| | `StartedOnce` | `OneStart` | and `StartedBridges` |
| | `AttachedServed`, if `~HandshakeFailures` | `AttachedHasClient` | and `Clients` |
| | `HistoriesAreSuffixes` | `HistoryIsSuffix` | and `Histories` |
| | `ReplaysExactly`, if `~HandshakeFailures` | `ReplayExact` | `StreamsInv` and `Served` |

`TypeOK` includes that a handler never comes to write a snapshot it does not hold.
`_cancel_reconnect_task` rewrites the job that the timer has become, so `IInv` adds
`TimerIsExpiry`: a timer that no longer sleeps is an expiry of that very session, past
its critical section and not ended. Without it a cancellation could turn an unrelated
job, or none, into a writer. `WindowHasTimer` follows because each critical section sets
the deadline and the timer together, and because a job that ends as a timer (`Resume`)
was not asleep.

`Named` files every snapshot, of a job or on disk, under the workspace its session was
created in, which is what recovery needs to register a session where it belongs.
`StartedBridges` says that a bridge on its way through `start()` is the one its session
remembers, so what `attach_session` decided under the lock still holds when it acts on
it. `Clients` ties each job that will report to its connection; `AttachedServed` has the
hypothesis `~HandshakeFailures` because the handshake is where the promise breaks (see
the divergences). `Histories` carries the suffix property (`SuffixOf`) through the jobs'
snapshots and the files, from which a restarted server recovers. All of them use the same
two lemmas about jobs: what a step makes of the job of another handler (`Derived`), and
where the jobs of the next state come from (`Source`).

`ReplaysExactly` is about the gap between the critical section of an output event, where
the chunk enters the history, and its put on the queue, before which clients attach,
leave and close. `Readers` (in `ReadersInv`) says that a chunk on its way is the last
one its session has seen, because the reader waits for its handler, and that a shell
runs at most once; the latter rests on `StartsInv`, since a second `start()` would be a
second reader. `NothingKept` (in `ReplaysInv`) covers the history limit 0, where a
replay is empty. `Streams` then says what a stream holds: chunks that follow each other,
for every connection; for a connection to which a chunk is on its way, everything up to
the chunk before; and for one that has a session's queue, everything the session has
seen or all but the chunk on its way to it, as long as the session can still have output
(`Live`). The last condition is needed: `bridge.close()` cancels the reader together
with the handler it waits for, and the chunk of that handler stays in the history
without ever being put on a queue. `StreamsInv` holds without hypothesis, so no stream
ever has a hole or a repetition. That the queue of a session is that of a client which
is still there (`Served`) is, like `AttachedHasClient`, only true if no client goes in
the handshake; otherwise the queue stays behind unread.

`TerminalHistoryProofs` holds the lemmas about the histories, from `HistoryAssumption`;
its theorems are stated with those of the stores ("The file-backed stores").

Model-checked only: liveness, and the properties of `HistorySearch`, a recursive scan of
every text.

## The file-backed stores

`FileSystem` says what the stores use of files: a request runs in a worker thread, no
lock is taken, `write_text` is two calls (open, which empties the file, and the write at
offset 0 of the opened file, whatever its name is by then), and a text written over a
longer one may leave it torn. On it:

* `SettingsStore` - one document of `services/settings.py`; an update writes the
  document's one temporary file and renames it (`OpenTmp`, write, replace), the
  provider's reads the document first to keep the key;
* `McpServersStore` - the servers of a user, one file read and written whole in place;
* `SkillsStore` - one skill, whose state is the name of its file; a toggle removes the
  file under the target name and renames;
* `MemoryStore` - the global memory of a user with its cache on the event loop, and one
  memory file of a group, replaced or appended to.

`FileStores` composes these with `TerminalHistory`; `MCFileStores` is its instance. They
share no file, so there a behaviour has the requests of one of them, and the run
`file_stores` explores all five: three
requests of any kind, arguments of two values, blank and oversized ones where the code
checks for them. Three requests are two that race and one that finds what they left.
`UpdatesKept` compares the file with the sum of the successful updates, `AnswersFresh`
the cache with the file, and history answers that are whole or about the latest session
with what was in memory when the request looked; pages, searches, filtered lists and
details are bound by `EndedStaysEnded` only.
Deadlock is not checked: each request is made once.

### Proofs

| Module | Theorem | Property | Invariant it rests on |
|---|---|---|---|
| `FileStoresProofs` | `NoUpdateIsLost` | `UpdatesKept` | `StoresInv` |
| | `NoAnswerIsStale` | `AnswersFresh` | `StoresInv` |
| | `EndedIsShownEnded` | `EndedStaysEnded` | `StoresInv` |

The specification is `FileStoresSpec`: all stores at work in one behaviour, any number of
requests, folders, sessions and writers, any texts. Of the constants it is assumed that
"no node", "no skill" and "first" are no requests (`SettingsAssumption`,
`SkillsAssumption`) and that bounds are numbers (`HistoryAssumption`); `file_stores`
evaluates all three. `StoresInv` is a conjunction of one invariant per store, and a step is one of
a single store.

*Stores.* The properties compare a file with the whole history of successful updates, and
say nothing of an update on its way. Each invariant adds what an update that overlaps
with no other may rely on between two system calls: that it is alone, that the file or
temporary file is still as its last call left it, and that what it will write is what it
read, changed by itself. That is `SoleOK` for the settings, `SoleChangeOK` for the MCP
servers, `UserOK` and `GroupOK` for the memory and `SkAlone` for the skill.
`LoggedOK`, `McpLogged`, `GrpLogged` and `SkLogged` tie the log to the requests: a logged
update has taken effect, and a request that changes later is not in it. In the settings
an update writes a file of its own when it opens one, so `SoleOK` holds again, after a
race, for an update that found nobody under way (`lone`), unless what it writes depends on
what it read. The cache of the memory file is exact while no update is under way; a
reader that has read and not yet filled it has the text of the file.

*Histories.* `HDiskInv` describes the disk, whatever the threads race for: a file belongs
to the path it was made for, a whole file has the snapshot of some thread of its folder,
and an archive that of the ended session it is named after (`HNodes`) - so an archive can
be old, but not of another session and not active. `HReadOK` follows a request. For a
session that had ended, with its archive written, when the request came, `LoadOK` says
that it has been seen ended already, or that it is at rest with its archive still to be
read; and that what memory said is among what was seen. When the load is done the newest
snapshot of each session is kept (`Dedupe`), so an older `latest.json` does not
hide the end, unless the session was made active again after it ended (`Broken`).
The answer is a page of what was kept.

Liveness is not claimed of the stores, and nothing else about them is left to TLC.

## The control plane

* `Workspaces` - each call of `app/routes/groups.py` as the statements and commits it
  makes, one action each; a call holds the rows it has read (`calls[r]`), a database
  session does not read a row again, an UPDATE writes the changed columns only, and an
  INSERT fails when the row has appeared since, which leaves what was committed before.
  The jid and the folder of a group are columns of their own, and group ids in requests may
  be any of a plain name, a web jid, an endpoint's jid or its chat folder: registering a
  group that is there moves it to the folder that comes with the request (`Updated`).
  `bindLog` is the history of bindings; `disputed` says that a creation has found the row
  of its workspace there, or an addition of a member its workspace in creation.
* `MessageDispatch` extends it with messages: a web call or a delivery by an IM platform
  registers its target, stores, submits, waits for the run, replies and stores the
  reply; each step may fail, and a platform delivers again when it has no good answer.
* `TaskScheduler` - the table of tasks and passes over it; a pass belongs to a loop
  (`start`) or a caller and awaits one due task after the other while tasks are created
  and deleted and other passes run.
* `Accounts` - registrations that read the policy in a thread and then register, while
  the policy changes and invites are made, expire and are used.

`MCControlPlane` gives a behaviour the calls of one topic (workspaces, members,
bindings, messages, tasks, accounts); the rest stays as it was. The run `control_plane`
has two calls, three for bindings (bind, unbind and a third party), two folders, the home
workspace, a user of each role, one chat, two tasks, a loop and a caller, two ticks,
two registrations for one code. Messages go to the group ids `main`, `ws`, `web:ws` and the
jid of the chat (`Posted`), and meet a creation of `ws` or a binding. Two calls that interleave statement by statement are the
race the code is exposed to; a third would only repeat one of them. Symmetry is over
calls and tasks. `home_rename` checks one claim of the documents and fails (below).

### Proofs

| Module | Theorem | Specification | Property | Invariant it rests on |
|---|---|---|---|---|
| `WorkspacesProofs` | `WorkspacesStaySound` | `DispatchSpec` | `WorkspacesSound` | `DispatchInv` |
| | `DispatchStaysSound` | `DispatchSpec` | `DispatchSound` | `DispatchInv` |
| `ControlPlaneProofs` | `SchedulerSound` | `SchedulerSpec` | `SchedulesSound` | `SchedulerInv` |
| | `AccountsSound` | `AccountsSpec` | `RegistrationsSound` | `AccountsInv` |

`DispatchSpec`, `SchedulerSpec` and `AccountsSpec` are specifications of modules that
share no variable, with every call that `MCControlPlane` starts: its topics only restrict
which calls a behaviour has. The theorems hold for any number of calls in one behaviour,
of every topic, by any users.

`WorkspacesAssumption` says that the folder `main` is not one a user may create and that
no user has the null for an id (`Nobody`, the creator of an endpoint's own row);
`SchedulerAssumption` that a cron expression has a positive period and that schedules are
kinds with numbers; `AccountsAssumption` that "no code" is neither a code nor a name.

*Workspaces and messages.* A call is a course of transactions, and all that is wrong
with it is wrong between two of them. So `DispatchInv` first says where a call can be and
what it holds there (`Courses`: `OpsAt` names the operations that come to each place,
`CallOK` what of the tables they have found and cannot lose, `TablesOK` that a member's
workspace and a binding's target are there), and then what the call's decision rests on:

* `TablesOK` also says where a group can be: in the folder it was created with, or in the one
  named like its jid (`FoldersOf`), so that no two workspaces share a folder, and a member
  of a folder is one of the workspace whose jid the folder's name gives, wherever that is
  by now.
* `Ownership`, unless `disputed`: a call that has found a folder vacant is the only
  one that creates it, nobody is a member of it and no call is at its members (`Alone`);
  the row it has inserted is its own (`CreationOK`); a call that gives or takes a role has
  an answer about the owner that still holds when it writes (`AddOK`, `RemoveOK`).
* `Bindings`: what an endpoint's row says is what the last change of it said, which ties
  the table to the history `bindLog`; unless two changes overlapped, a change that is
  about to be written has seen that value (`ChangeOK`). `LatestOK` says that the changes
  of an endpoint have a last one; it is part of the invariant because its proof is an
  induction over the history, which is the induction over steps here.
* `RoutedToBinding` is inductive beside `Bindings`: the binding a message resolves is the
  one in force when it is read, and a later change only adds to what was in force.
* `Replies`: which of the rows, replies and outcomes of a message are there at its place.

*Scheduler.* A pass works through a list that others make stale. `SchedulerInv` says what
it may still rely on: the tasks on it are distinct and exist as objects (`ListOK`); a
task is marked exactly while one pass awaits it (`MarkedOK`); unless passes overlapped
the pass is alone and its tasks are still due (`SolePass`), so that its next run is later
than those it had (`TimesOK`); whoever has a deleted task on a list was under way when it
was deleted (`DeletedOK`). `GridOK` keeps interval tasks on the times `first + n * every`
and cron tasks from missing one, and `LogOK` keeps a log in the order of the times its
runs began, which the stable sort needs to leave the last row first.

*Accounts.* `RegistrationsSound` does not say what a call holds between its suspension
points: `AccountsInv` adds that a call holds a policy that was in force since its request
(`PolicyHeld`), that an account was allowed by such a policy (`AccountAllowed`), and that
the invite of an account is there and names it, or has run out while it was used
(`AccountInvited`): `register_user` looks at the invite before it stores the account and
`consume_invite_code` again after it, so `RegisterUser` has both looks, with the clock in
between. An invite that is free and valid names nobody, so it is that of no account when
it is used; one that has run out is never used again.

## Divergences from the documents

`home_rename` is listed under `findings` in `PROJECT.json`. The modules state further
claims of documents, comments or names that the code does not keep; each fails in a few
steps when its definition is added to the named configuration.

| Definition | Configuration | What the code does |
|---|---|---|
| `CancelledRunNeverCommits` | `coordinator_slot` | a run cancelled after its task has ended keeps the commit ("failed or cancelled runs do not overwrite the last good committed session") |
| `RecoveredMeansCompleted` | `coordinator_slot` | a retry that raises no `RuntimeError` counts as a success, also when it failed or timed out (`docs/plans/2026-03-13-m7-2-7-focused-tests-design.md:101`) |
| `FreshSessionIsFresh` | `coordinator_slot` | with nothing committed, a fresh run gets the bare workspace key, which a failed run may have used (`docs/plans/2026-03-13-m7-2-4-session-workspace-lifecycle-design.md:151`) |
| `StopsOnlyOwn` | `execution_backends` | the clean-up of a cancelled run stops the container of the next run of its session, by name |
| `OneTerminalEvent` | `websocket_session` | a stream that failed is followed by `run.completed`; a cancel command may answer after a terminal event |
| `ToldMeansReady` | `websocket_session` | a prompt sent right after a terminal event is dropped while the waiter of the last run is there |
| `FinalIsFinal` | `terminal_replay` | attaching to a closed session, or leaving it, makes it active again (`docs/plans/2026-03-16-m8-5-7-terminal-history-timeline-pagination-design.md:34`) |
| `ClosedIsTerminated` | `terminal_replay` | a session closed while its bridge starts keeps its shell (`docs/plans/2026-03-15-m8-1-terminal-session-backend-design.md:166`) |
| `DetachedHasNoClient` | `terminal_replay` | an old connection's late end detaches the client that has reconnected |
| `AttachedHasClient` | `terminal_replay` with `HandshakeFailures = TRUE` | a client lost during the handshake leaves the session attached, without a timer (`docs/plans/2026-03-15-m8-1-terminal-session-backend-design.md:172`) |
| `LatestIsFinal` | `terminal_history` | an older snapshot written last leaves an ended session active on disk (`docs/plans/2026-03-16-m8-5-4-terminal-history-persistence-fallback-design.md:36`) |
| `ArchiveWritten` | `terminal_history` | two writers share a temporary file and one loses its archive (`docs/plans/2026-03-16-m8-5-7-terminal-history-timeline-pagination-design.md:34`) |
| `RecoveredIsAttachable` | `terminal_history` | a recovered session's container still has its name, so the new start fails (`docs/plans/2026-03-16-m8-5-5-terminal-active-session-recovery-design.md:87`) |
| `SearchArchiveFull` | `file_stores` with `MaxStamp = 6`, `MaxThreads = 1` | the matches of a search archive are counted by one search and fetched by another (`app/routes/terminals.py:982`) |
| `KeyPreserved`, `ErrorMeansUnchanged` | `file_stores` | overlapping provider updates restore a replaced key (`domain/schemas.py:673`); an update answered with an error may be the one that is stored |
| `PutIsKept`, `FileUsable` | `file_stores` | overlapping changes of MCP servers lose one another's entries or leave a file no request can read |
| `TogglesKeepSkill` | `file_stores` | two requests for the same state remove the skill's only file (`app/routes/skills.py:124`) |
| `CacheIsFile` | `file_stores` | a late reader puts the text from before an update into the cache (`app/routes/memory.py:134`) |
| `ConflictIsReal` | `control_plane` | a message to a group id that is no workspace registers a row, and creating the workspace is then refused as a conflict |
| `OnceRunsOnce` | `control_plane` | overlapping passes run a one-off task twice |

Further behaviours that the properties except:

* two creators of one folder that both find it vacant both become owners, and a call that
  adds a member while the workspace is being created may make its owner an admin
  (`services/group_registry.py:149`, `app/routes/groups.py:525`; `disputed` in
  `OwnerIsCreator`);
* a message whose group id is a jid is dispatched to that jid, for the folder too
  (`app/routes/messages.py:70`), and registering it moves the workspace to the folder
  named `web:...` (`services/group_registry.py:87`). The old folder is vacant, and whoever
  creates it becomes a second owner of the row, without any race (`disputed`);
* an invite whose time ends between the two looks at it (`services/auth.py:242`, `:299`)
  leaves an account with its role, a call answered with 400 and an invite that names nobody
  (`Lapsed` in `InviteOnce`);
* a run whose container the clean-up of an earlier run of its session stops may be answered
  completed, when a tool had printed a success frame by then
  (`services/execution_backends.py:280`; `AnswerHonest`);
* a run cancelled while its process is created waits for that process without a limit, and
  its group's worker with it (`services/execution_backends.py:271`,
  `infra/exec/process.py:211`; `CancelSettles`);
* groups whose ids differ only in characters that container names cannot have share a name
  (`infra/exec/container_manager.py:69`);
* a chunk of terminal output is decoded on its own, so a multi-byte character on the
  1024-byte boundary disappears (`services/terminal_bridge.py:195`).

## Not modelled

* Workspace files (`services/workspace_files.py`): path validation and single file
  operations, made on the event loop without an await in between.
* Usage and audit: append-only rows and aggregation queries.
* The runner container: reads one request, writes events to standard output; what it
  may write is `Reports` in `ExecutionBackends`.
* Schemas and database declarations, `_ensure_schema` migrations: they appear as types.
* IM clients and webhook parsing, signatures, passwords and tokens: I/O and cryptography;
  of the channels `MessageDispatch` keeps that a send may fail, also after it arrived.
* Docker API calls: only their effects on containers and their failures.
* The web client: presentation. Reader methods that only copy a table; texts, wording.
