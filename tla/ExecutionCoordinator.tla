------------------------ MODULE ExecutionCoordinator ------------------------
(***************************************************************************)
(* services/execution_coordinator.py: runs are queued per group, a worker  *)
(* task per group drains its queue, each run executes in a task of its own *)
(* and may be cancelled by any caller at any await point.                  *)
(*                                                                         *)
(* Everything runs on one asyncio event loop, so an action is the code     *)
(* between two suspension points. The one handler that loops without       *)
(* suspending is the worker: it may pop several entries before it awaits   *)
(* an execution task or returns. It is split at its loop head, and onLoop  *)
(* names the group whose worker holds the event loop: no other action is   *)
(* enabled until that worker reaches an await or its end.                  *)
(*                                                                         *)
(* asyncio.wait_for is that of Python 3.11 (the version the Dockerfile     *)
(* builds): a cancellation that finds the inner task finished is swallowed,*)
(* and one that arrives while a timed-out inner task unwinds leaves that   *)
(* task behind.                                                            *)
(***************************************************************************)
EXTENDS Naturals, Sequences, FiniteSets, WorkspaceLifecycle

CONSTANTS
  Runs,              \* run ids (uuid4 or request_id); each is submitted once
  Groups,            \* group_folder values
  Slots,             \* slot_id values
  Requests,          \* the ExecutionRequests callers may submit
  Backends,          \* names registered in _backends
  MaxCompletedRuns,  \* max_completed_runs
  Outcomes,          \* how backend.execute may end (see AllOutcomes)
  WaitersMayCancel   \* may a task awaiting wait_for_run be cancelled?

OpenAI    == "openai_runtime"
Host      == "host_process"
Container == "docker_container"
Unknown   == "unknown"
MainSlot  == "main"       \* the default of ExecutionResult.slot_id

Modes    == {"default", "openai", "host", "container", "unsupported"}
Terminal == {"completed", "failed", "cancelled", "timeout"}

(***************************************************************************)
(* How one call of backend.execute may end. The first three are returned   *)
(* statuses; the others are exceptions: a RuntimeError, the                *)
(* SessionResumeFailedError subclass of it, any other Exception, and a     *)
(* CancelledError nobody asked for.                                        *)
(***************************************************************************)
AllOutcomes == {"completed", "failed", "timeout", "runtime_error",
                "resume_error", "other_error", "cancelled_error"}

RequestType == [group: Groups, slot: Slots, mode: Modes,
                fresh: BOOLEAN, timed: BOOLEAN]

Keys     == Groups \X Slots
Sessions == [key: Keys, by: Runs \cup {None}, use: {"base", "start", "retry", "peek"}]
Names    == {OpenAI, Host, Container, Unknown}
Results  == [status: Terminal, backend: Names, session: Sessions, slot: Slots \cup {MainSlot}]
SnapshotType ==
  [status: Terminal \cup {"queued", "running"}, backend: Names \cup {None},
   session: Sessions \cup {None}, slot: Slots \cup {MainSlot},
   attempted: BOOLEAN, succeeded: {"unknown", "yes", "no"}]

ASSUME ConstantsAssumption ==
  /\ Requests \subseteq RequestType
  /\ Outcomes \subseteq AllOutcomes
  /\ MaxCompletedRuns \in Nat
  /\ WaitersMayCancel \in BOOLEAN
  /\ None \notin Runs /\ None \notin Groups
  /\ None \notin Requests /\ None \notin Sessions
  /\ None \notin Results /\ None \notin SnapshotType

VARIABLES
  request,    \* the ExecutionRequest of each run, None before submission
  future,     \* its Future: "none", "pending", "abandoned" (cancelled by a waiter,
              \* still in _run_futures), "lost" (popped unresolved), or the status
              \* it was resolved with. _run_requests has the keys of _run_futures.
  status,     \* _statuses; "none" when absent
  snapshot,   \* _run_snapshots; None when absent
  results,    \* _completed_results; None when absent
  order,      \* _completed_order
  queue,      \* _group_queues
  worker,     \* _group_workers: "none", "created", "loop", "awaiting", "dead"
  current,    \* the run a worker awaits
  onLoop,     \* the group whose worker holds the event loop, None if no handler does
  running,    \* keys of _running_backends and of _running_tasks
  sessionOf,  \* _run_session_ids; None when absent
  cancelled,  \* _cancelled_run_ids
  task,       \* execution task: "none", "created", "executing", "returned",
              \* "unwinding" (timed out, backend not yet gone), "cancelling"
              \* (backend not yet gone), "detaching" (nothing left to wait for), "done"
  attempt,    \* which call of backend.execute the task is in: 0, 1 or 2
  outcome,    \* "returned": how the call ended; "done": the status the task
              \* returned, or "cancelled_error" if it raised; "none" otherwise
  live,       \* runs with a backend.execute coroutine that has not finished
  store,      \* WorkspaceSessionStore._states, FreshState when absent
  used,       \* history: sessions handed to backend.execute so far
  revoked,    \* history: sessions invalidated after a failed resume
  committer,  \* history: the run whose success each workspace committed last
  heard       \* history: the session of the last answer each workspace got from
              \* OpenAI, None once that session has failed to resume

runVars    == <<request, future, status, snapshot, results, order>>
workerVars == <<queue, worker, current, onLoop, running, cancelled>>
taskVars   == <<task, attempt, outcome, live, sessionOf>>
storeVars  == <<store, used, revoked, committer, heard>>
vars       == <<runVars, workerVars, taskVars, storeVars>>

-----------------------------------------------------------------------------
(***************************************************************************)
(* Helpers.                                                                *)
(***************************************************************************)

\* ExecutionPolicy.select_backend; Unknown stands for the ValueError it raises
\* (and is what _safe_select_backend_name turns that error into).
SelectBackend(mode) ==
  IF mode \in {"default", "openai"} THEN OpenAI
  ELSE IF mode = "host" THEN Host
  ELSE IF mode = "container" THEN Container
  ELSE Unknown

BackendOf(r)  == SelectBackend(request[r].mode)
WorkspaceKey(q) == <<q.group, q.slot>>
KeyOf(r)      == WorkspaceKey(request[r])
GroupOf(r)    == request[r].group

UsesWorkspaceSession(backend) == backend = OpenAI

\* _resolve_session_id for run r, minting (if it must) a session for this use.
ResolveSessionId(r, use) ==
  LET key    == KeyOf(r)
      minted == NewSession(key, r, use)
  IN IF UsesWorkspaceSession(BackendOf(r))
       THEN PreviewSessionId(store[key], key, BackendOf(r), request[r].fresh, minted)
       ELSE IF request[r].fresh THEN minted ELSE BaseSession(key)

\* _build_result
BuildResult(st, backend, session, slot) ==
  [status |-> st, backend |-> backend, session |-> session, slot |-> slot]

\* Seeded fault: the snapshot keeps its status.
MarkTerminalKeepsStatus(snap, res) ==
  [snap EXCEPT !.backend = res.backend, !.session = res.session, !.slot = res.slot]

\* _mark_terminal on the snapshot of a run.
MarkTerminal(snap, res) ==
  [snap EXCEPT !.status = res.status, !.backend = res.backend,
               !.session = res.session, !.slot = res.slot]

\* Seeded fault: the oldest result is evicted one completion too late.
OverLimitLate(n) == n > MaxCompletedRuns + 1

\* The condition of the eviction loop on the length of _completed_order.
OverLimit(n) == n > MaxCompletedRuns

(***************************************************************************)
(* _store_terminal_result with _mark_terminal. order never exceeds         *)
(* MaxCompletedRuns between calls (RetentionBound), so the eviction loop   *)
(* runs at most once.                                                      *)
(***************************************************************************)
StoreTerminalResult(r, res) ==
  LET grown == Append(order, r)
      stale == IF OverLimit(Len(grown)) THEN {Head(grown)} ELSE {}
  IN /\ order'    = IF stale = {} THEN grown ELSE Tail(grown)
     /\ status'   = [x \in Runs |-> IF x \in stale THEN "none"
                                     ELSE IF x = r THEN res.status ELSE status[x]]
     /\ results'  = [x \in Runs |-> IF x \in stale THEN None
                                     ELSE IF x = r THEN res ELSE results[x]]
     /\ snapshot' = [x \in Runs |->
                       IF x \in stale THEN None
                       ELSE IF x = r /\ snapshot[x] # None
                              THEN MarkTerminal(snapshot[x], res)
                              ELSE snapshot[x]]
     /\ future'   = [future EXCEPT ![r] = IF @ = "pending" THEN res.status
                                          ELSE IF @ = "abandoned" THEN "lost" ELSE @]

\* No worker holds the event loop: any other ready handler may run.
LoopFree == onLoop = None

-----------------------------------------------------------------------------
(***************************************************************************)
(* Calls into the coordinator.                                             *)
(***************************************************************************)

\* Seeded fault: a second worker is created beside a living one.
EnsureAnotherWorker(g) == worker' = [worker EXCEPT ![g] = "created"]

\* _ensure_worker: a new worker task unless one is still alive.
EnsureWorker(g) ==
  worker' = [worker EXCEPT ![g] = IF @ \in {"none", "dead"} THEN "created" ELSE @]

\* Seeded fault: appendleft.
EnqueueLeft(line, r) == <<r>> \o line

\* group_queue.append: the tail of the deque.
Enqueue(line, r) == Append(line, r)

\* submit_execution: never suspends.
SubmitExecution(r, q) ==
  /\ LoopFree
  /\ request[r] = None
  /\ request'  = [request EXCEPT ![r] = q]
  /\ future'   = [future EXCEPT ![r] = "pending"]
  /\ status'   = [status EXCEPT ![r] = "queued"]
  /\ snapshot' = [snapshot EXCEPT ![r] =
                    [status |-> "queued", backend |-> None, session |-> None,
                     slot |-> q.slot, attempted |-> FALSE, succeeded |-> "unknown"]]
  /\ queue'    = [queue EXCEPT ![q.group] = Enqueue(@, r)]
  /\ EnsureWorker(q.group)
  /\ UNCHANGED <<results, order, current, onLoop, running, cancelled, taskVars, storeVars>>

\* cancel, status "queued": the entry stays in the deque, the worker skips it.
CancelQueued(r) ==
  /\ LoopFree
  /\ status[r] = "queued"
  /\ StoreTerminalResult(r, BuildResult("cancelled", BackendOf(r),
                                        ResolveSessionId(r, "peek"), request[r].slot))
  /\ UNCHANGED <<request, workerVars, taskVars, storeVars>>

\* Seeded fault: the worker is not made to wait for the backend to unwind.
CancelTaskDetaches(r) ==
  task' = [task EXCEPT ![r] = IF @ \in {"created", "executing", "unwinding"}
                                THEN "detaching" ELSE @]

(***************************************************************************)
(* execution_task.cancel(), by what the task is suspended on. A task that  *)
(* never ran ends at once; the backend of an executing one unwinds first;  *)
(* wait_for swallows the cancellation when its inner task has finished,    *)
(* and leaves the inner task behind when it was already waiting for a      *)
(* timed-out one to unwind.                                                *)
(***************************************************************************)
CancelTask(r) ==
  task' = [task EXCEPT ![r] = IF @ = "executing" THEN "cancelling"
                              ELSE IF @ \in {"created", "unwinding"} THEN "detaching"
                              ELSE @]

\* cancel, status "running"; what backend.cancel(run_id) then does to the
\* backend only hastens the end of its execute coroutine.
CancelRunning(r) ==
  /\ LoopFree
  /\ status[r] = "running"
  /\ r \in running
  /\ cancelled' = cancelled \cup {r}
  /\ CancelTask(r)
  /\ StoreTerminalResult(r, BuildResult("cancelled", BackendOf(r), sessionOf[r],
                                        request[r].slot))
  /\ UNCHANGED <<request, queue, worker, current, onLoop, running,
                 attempt, outcome, live, sessionOf, storeVars>>

\* A task suspended in wait_for_run is cancelled: it awaits the shared future
\* without a shield, so the cancellation reaches the future itself.
CancelWaiter(r) ==
  /\ LoopFree
  /\ WaitersMayCancel
  /\ future[r] = "pending"
  /\ future' = [future EXCEPT ![r] = "abandoned"]
  /\ UNCHANGED <<request, status, snapshot, results, order, workerVars, taskVars, storeVars>>

-----------------------------------------------------------------------------
(***************************************************************************)
(* The worker task of group g: _run_group_queue and _execute_request.      *)
(***************************************************************************)

WorkerStart(g) ==
  /\ LoopFree
  /\ worker[g] = "created"
  /\ worker' = [worker EXCEPT ![g] = "loop"]
  /\ onLoop' = g
  /\ UNCHANGED <<runVars, queue, current, running, cancelled, taskVars, storeVars>>

\* Seeded fault: every popped run is started.
NeverSettled(r) == FALSE

\* The popped run is gone already: cancelled or abandoned while it was queued.
Settled(r) == future[r] # "pending"

\* Seeded fault: the worker returns where it should continue.
WorkerSkipReturns(g) ==
  /\ onLoop = g
  /\ queue[g] # <<>>
  /\ Settled(Head(queue[g]))
  /\ queue'  = [queue EXCEPT ![g] = Tail(@)]
  /\ worker' = [worker EXCEPT ![g] = "none"]
  /\ onLoop' = None
  /\ UNCHANGED <<runVars, current, running, cancelled, taskVars, storeVars>>

WorkerSkip(g) ==
  /\ onLoop = g
  /\ queue[g] # <<>>
  /\ Settled(Head(queue[g]))
  /\ queue' = [queue EXCEPT ![g] = Tail(@)]
  /\ UNCHANGED <<runVars, worker, current, onLoop, running, cancelled, taskVars, storeVars>>

\* The policy rejects the mode, or nothing is registered under the selected
\* name: failed without suspending. Only the first path passes the slot on.
WorkerReject(g) ==
  /\ onLoop = g
  /\ queue[g] # <<>>
  /\ LET r == Head(queue[g]) IN
       /\ ~Settled(r)
       /\ BackendOf(r) \notin Backends
       /\ StoreTerminalResult(r,
            BuildResult("failed", BackendOf(r), ResolveSessionId(r, "peek"),
                        IF BackendOf(r) = Unknown THEN request[r].slot ELSE MainSlot))
  /\ queue' = [queue EXCEPT ![g] = Tail(@)]
  /\ UNCHANGED <<request, worker, current, onLoop, running, cancelled, taskVars, storeVars>>

\* Start the run: resolve its session, mark it running, create its execution
\* task and suspend on it.
WorkerLaunch(g) ==
  /\ onLoop = g
  /\ queue[g] # <<>>
  /\ LET r == Head(queue[g])
         session == ResolveSessionId(r, "start")
     IN /\ ~Settled(r)
        /\ BackendOf(r) \in Backends
        /\ sessionOf' = [sessionOf EXCEPT ![r] = session]
        /\ status'    = [status EXCEPT ![r] = "running"]
        /\ snapshot'  = [snapshot EXCEPT ![r] =
                           IF @ = None THEN None
                           ELSE [@ EXCEPT !.status = "running", !.backend = BackendOf(r),
                                          !.session = session]]
        /\ running'   = running \cup {r}
        /\ task'      = [task EXCEPT ![r] = "created"]
        /\ current'   = [current EXCEPT ![g] = r]
  /\ worker' = [worker EXCEPT ![g] = "awaiting"]
  /\ onLoop' = None
  /\ queue'  = [queue EXCEPT ![g] = Tail(@)]
  /\ UNCHANGED <<request, future, results, order, cancelled, attempt, outcome, live, storeVars>>

WorkerExit(g) ==
  /\ onLoop = g
  /\ queue[g] = <<>>
  /\ worker' = [worker EXCEPT ![g] = "none"]
  /\ onLoop' = None
  /\ UNCHANGED <<runVars, queue, current, running, cancelled, taskVars, storeVars>>

\* Seeded fault: a cancelled run is not waited for.
WorkerWakesEarly(g, r) ==
  /\ LoopFree
  /\ worker[g] = "awaiting"
  /\ current[g] = r
  /\ task[r] = "done" \/ r \in cancelled
  /\ running'   = running \ {r}
  /\ sessionOf' = [sessionOf EXCEPT ![r] = None]
  /\ current'   = [current EXCEPT ![g] = None]
  /\ UNCHANGED <<request, queue, task, attempt, outcome, live, storeVars>>

\* The awaited task is done; the finally clause runs on every path below.
WorkerWakes(g, r) ==
  /\ LoopFree
  /\ worker[g] = "awaiting"
  /\ current[g] = r
  /\ task[r] = "done"
  /\ running'   = running \ {r}
  /\ sessionOf' = [sessionOf EXCEPT ![r] = None]
  /\ current'   = [current EXCEPT ![g] = None]
  /\ UNCHANGED <<request, queue, task, attempt, outcome, live, storeVars>>

\* Seeded fault: the run stays in _cancelled_run_ids.
WorkerDropsKeepsMark(g, r) ==
  /\ WorkerWakes(g, r)
  /\ r \in cancelled
  /\ worker' = [worker EXCEPT ![g] = "loop"]
  /\ onLoop' = g
  /\ UNCHANGED <<future, status, snapshot, results, order, cancelled>>

\* The run was cancelled: whatever its task produced is dropped.
WorkerDrops(g, r) ==
  /\ WorkerWakes(g, r)
  /\ r \in cancelled
  /\ cancelled' = cancelled \ {r}
  /\ worker' = [worker EXCEPT ![g] = "loop"]
  /\ onLoop' = g
  /\ UNCHANGED <<future, status, snapshot, results, order>>

\* Seeded fault: the session is read after the finally clause has popped it.
WorkerStoresLate(g, r) ==
  /\ WorkerWakes(g, r)
  /\ r \notin cancelled
  /\ outcome[r] # "cancelled_error"
  /\ StoreTerminalResult(r, BuildResult(outcome[r], BackendOf(r), sessionOf'[r],
                                        request[r].slot))
  /\ worker' = [worker EXCEPT ![g] = "loop"]
  /\ onLoop' = g
  /\ UNCHANGED cancelled

\* Seeded fault: _cancelled_run_ids is not looked at.
WorkerStoresAnyway(g, r) ==
  /\ WorkerWakes(g, r)
  /\ outcome[r] # "cancelled_error"
  /\ StoreTerminalResult(r, BuildResult(outcome[r], BackendOf(r), sessionOf[r],
                                        request[r].slot))
  /\ worker' = [worker EXCEPT ![g] = "loop"]
  /\ onLoop' = g
  /\ UNCHANGED cancelled

\* The run was not cancelled: its task's result becomes its terminal result.
WorkerStores(g, r) ==
  /\ WorkerWakes(g, r)
  /\ r \notin cancelled
  /\ outcome[r] # "cancelled_error"
  /\ StoreTerminalResult(r, BuildResult(outcome[r], BackendOf(r), sessionOf[r],
                                        request[r].slot))
  /\ worker' = [worker EXCEPT ![g] = "loop"]
  /\ onLoop' = g
  /\ UNCHANGED cancelled

\* A CancelledError nobody asked for leaves _execute_request, is not an
\* Exception, and ends the worker with its entry still in _group_workers.
WorkerDies(g, r) ==
  /\ WorkerWakes(g, r)
  /\ r \notin cancelled
  /\ outcome[r] = "cancelled_error"
  /\ worker' = [worker EXCEPT ![g] = "dead"]
  /\ UNCHANGED <<future, status, snapshot, results, order, onLoop, cancelled>>

WorkerResume(g) == \E r \in Runs : WorkerDrops(g, r) \/ WorkerStores(g, r) \/ WorkerDies(g, r)

WorkerStep(g) ==
  \/ WorkerStart(g) \/ WorkerSkip(g) \/ WorkerReject(g)
  \/ WorkerLaunch(g) \/ WorkerExit(g) \/ WorkerResume(g)

-----------------------------------------------------------------------------
(***************************************************************************)
(* The execution task of run r: _execute_backend_with_lifecycle and        *)
(* _run_backend_with_timeout.                                              *)
(***************************************************************************)

\* First step of the task: the first call of backend.execute.
TaskStart(r) ==
  /\ LoopFree
  /\ task[r] = "created"
  /\ task'    = [task EXCEPT ![r] = "executing"]
  /\ attempt' = [attempt EXCEPT ![r] = 1]
  /\ live'    = live \cup {r}
  /\ used'    = used \cup {sessionOf[r]}
  /\ UNCHANGED <<runVars, workerVars, outcome, sessionOf, store, revoked, committer, heard>>

\* _should_retry_session_resume, in the first call only.
ShouldRetry(r, o) ==
  /\ o = "resume_error"
  /\ attempt[r] = 1
  /\ ~request[r].fresh
  /\ UsesWorkspaceSession(BackendOf(r))

\* The resume failed: invalidate the workspace session and call the backend
\* again with a fresh one.
RetryFresh(r) ==
  LET key   == KeyOf(r)
      reset == Invalidate(store[key])
      fresh == PreviewSessionId(reset, key, BackendOf(r), TRUE, NewSession(key, r, "retry"))
  IN /\ snapshot'  = [snapshot EXCEPT ![r] =
                       IF @ = None THEN None
                       ELSE [@ EXCEPT !.attempted = TRUE, !.succeeded = "unknown"]]
     /\ store'     = [store EXCEPT ![key] = reset]
     /\ revoked'   = revoked \cup {sessionOf[r]}
     /\ heard'     = [heard EXCEPT ![key] = None]
     /\ sessionOf' = [sessionOf EXCEPT ![r] = fresh]
     /\ used'      = used \cup {fresh}
     /\ attempt'   = [attempt EXCEPT ![r] = 2]
     /\ task'      = [task EXCEPT ![r] = "executing"]
     /\ outcome'   = [outcome EXCEPT ![r] = "none"]
     /\ live'      = live \cup {r}
     /\ UNCHANGED committer

\* The status the task returns when a call ends in o.
ReturnedStatus(o) ==
  IF o \in {"runtime_error", "resume_error", "other_error"} THEN "failed" ELSE o

\* Only a RuntimeError of the second call is recorded as a failed recovery.
RecoveryResult(o) ==
  IF o \in {"runtime_error", "resume_error"} THEN "no" ELSE "yes"

\* Seeded fault: the status of the result is not looked at.
CommitsAlways(r, o) == UsesWorkspaceSession(BackendOf(r))

\* Success-only commit, and only for backends that use the workspace session.
Commits(r, o) == UsesWorkspaceSession(BackendOf(r)) /\ o = "completed"

\* The task ends: recovery flag, success-only commit, result.
Return(r, o) ==
  LET key    == KeyOf(r)
      commit == Commits(r, o)
  IN /\ snapshot'  = [snapshot EXCEPT ![r] =
                       IF @ = None \/ attempt[r] # 2 \/ o = "cancelled_error" THEN @
                       ELSE [@ EXCEPT !.succeeded = RecoveryResult(o)]]
     /\ store'     = IF commit
                       THEN [store EXCEPT ![key] =
                               CommitSuccess(@, BackendOf(r), sessionOf[r])]
                       ELSE store
     /\ committer' = IF commit THEN [committer EXCEPT ![key] = r] ELSE committer
     /\ heard'     = [heard EXCEPT ![key] =
                       IF BackendOf(r) = OpenAI /\ o = "completed" THEN sessionOf[r] ELSE @]
     /\ task'      = [task EXCEPT ![r] = "done"]
     /\ outcome'   = [outcome EXCEPT ![r] = ReturnedStatus(o)]
     /\ live'      = live \ {r}
     /\ UNCHANGED <<attempt, sessionOf, used, revoked>>

\* What follows the end of a call of backend.execute, in the same step.
Conclude(r, o) ==
  /\ IF ShouldRetry(r, o) THEN RetryFresh(r) ELSE Return(r, o)
  /\ UNCHANGED <<request, future, status, results, order, workerVars>>

\* backend.execute ends. Awaited directly, the task goes on at once; under
\* wait_for it is an inner task whose end the outer one has yet to notice.
BackendEnds(r, o) ==
  /\ LoopFree
  /\ task[r] = "executing"
  /\ o \in Outcomes
  /\ \/ /\ ~request[r].timed
        /\ Conclude(r, o)
     \/ /\ request[r].timed
        /\ task'    = [task EXCEPT ![r] = "returned"]
        /\ outcome' = [outcome EXCEPT ![r] = o]
        /\ live'    = live \ {r}
        /\ UNCHANGED <<runVars, workerVars, attempt, sessionOf, storeVars>>

\* wait_for notices that its inner task has finished.
WaitForReturns(r) ==
  /\ LoopFree
  /\ task[r] = "returned"
  /\ Conclude(r, outcome[r])

\* The timer of wait_for fires first: it cancels the inner task and waits for it.
TimeoutFires(r) ==
  /\ LoopFree
  /\ task[r] = "executing"
  /\ request[r].timed
  /\ task' = [task EXCEPT ![r] = "unwinding"]
  /\ UNCHANGED <<runVars, workerVars, attempt, outcome, live, sessionOf, storeVars>>

\* How a backend that is being cancelled may end other than by CancelledError:
\* the host executor has a wait_for of its own that may swallow it, and its
\* kill() may find the process gone.
SwallowedCancel(r) ==
  IF BackendOf(r) = Host
    THEN Outcomes \cap {"completed", "failed", "timeout", "other_error"}
    ELSE {}

\* The timed-out backend is gone: "timeout", unless it finished after all.
TimeoutUnwinds(r, o) ==
  /\ LoopFree
  /\ task[r] = "unwinding"
  /\ o \in {"timeout"} \cup SwallowedCancel(r)
  /\ Conclude(r, o)

\* The cancelled backend is gone. A coordinator timeout re-raises the
\* cancellation whatever the backend did; a direct await passes its end on.
CancelUnwinds(r, o) ==
  /\ LoopFree
  /\ task[r] = "cancelling"
  /\ o \in {"cancelled_error"} \cup (IF request[r].timed THEN {} ELSE SwallowedCancel(r))
  /\ Conclude(r, o)

\* The cancelled task had no backend to wait for (or no longer waits for it).
Detach(r) ==
  /\ LoopFree
  /\ task[r] = "detaching"
  /\ task'    = [task EXCEPT ![r] = "done"]
  /\ outcome' = [outcome EXCEPT ![r] = "cancelled_error"]
  /\ UNCHANGED <<runVars, workerVars, attempt, live, sessionOf, storeVars>>

\* A backend left behind by its task finishes.
OrphanEnds(r) ==
  /\ LoopFree
  /\ task[r] \in {"detaching", "done"}
  /\ r \in live
  /\ live' = live \ {r}
  /\ UNCHANGED <<runVars, workerVars, task, attempt, outcome, sessionOf, storeVars>>

\* get_monitor_queue_snapshot, for one group: how many of the runs that still
\* have a request are queued, and which ones are running (one of them is shown
\* as the active run).
MonitorQueue(g) ==
  LET held == {r \in Runs : future[r] \in {"pending", "abandoned"} /\ GroupOf(r) = g}
  IN [queued  |-> Cardinality({r \in held : status[r] = "queued"}),
      running |-> {r \in held : status[r] = "running"}]

TaskStep(r) ==
  \/ TaskStart(r) \/ WaitForReturns(r) \/ Detach(r) \/ OrphanEnds(r)
  \/ \E o \in AllOutcomes : BackendEnds(r, o) \/ TimeoutUnwinds(r, o) \/ CancelUnwinds(r, o)

-----------------------------------------------------------------------------
Init ==
  /\ request   = [r \in Runs |-> None]
  /\ future    = [r \in Runs |-> "none"]
  /\ status    = [r \in Runs |-> "none"]
  /\ snapshot  = [r \in Runs |-> None]
  /\ results   = [r \in Runs |-> None]
  /\ order     = <<>>
  /\ queue     = [g \in Groups |-> <<>>]
  /\ worker    = [g \in Groups |-> "none"]
  /\ current   = [g \in Groups |-> None]
  /\ onLoop    = None
  /\ running   = {}
  /\ cancelled = {}
  /\ task      = [r \in Runs |-> "none"]
  /\ attempt   = [r \in Runs |-> 0]
  /\ outcome   = [r \in Runs |-> "none"]
  /\ live      = {}
  /\ sessionOf = [r \in Runs |-> None]
  /\ store     = [k \in Keys |-> FreshState]
  /\ used      = {}
  /\ revoked   = {}
  /\ committer = [k \in Keys |-> None]
  /\ heard     = [k \in Keys |-> None]

\* Every run has been submitted and nothing is left to do: the model's runs
\* are finitely many, the server itself goes on.
Idle ==
  /\ \A r \in Runs : request[r] # None /\ task[r] \in {"none", "done"}
  /\ \A g \in Groups : worker[g] \in {"none", "dead"}
  /\ live = {}
  /\ UNCHANGED vars

Next ==
  \/ \E r \in Runs, q \in Requests : SubmitExecution(r, q)
  \/ \E r \in Runs : CancelQueued(r) \/ CancelRunning(r) \/ CancelWaiter(r)
  \/ \E r \in Runs : TaskStep(r) \/ TimeoutFires(r)
  \/ \E g \in Groups : WorkerStep(g)
  \/ Idle

Spec == Init /\ [][Next]_vars

(***************************************************************************)
(* The event loop runs every ready task, and every backend call ends: the  *)
(* host executor has a one-hour limit, the others are assumed to return.   *)
(* Nothing is assumed of callers: they need not submit, cancel or wait.    *)
(***************************************************************************)
Fairness ==
  /\ \A g \in Groups : WF_vars(WorkerStep(g))
  /\ \A r \in Runs : WF_vars(TaskStep(r))

FairSpec == Spec /\ Fairness

-----------------------------------------------------------------------------
(***************************************************************************)
(* Properties.                                                             *)
(***************************************************************************)

StoreType ==
  [session: Sessions \cup {None}, backend: {OpenAI, None}, everCommitted: BOOLEAN]

\* Type invariant: every attribute of ExecutionCoordinator and of the session
\* store keeps its shape.
TypeOK ==
  /\ request   \in [Runs -> Requests \cup {None}]
  /\ future    \in [Runs -> {"none", "pending", "abandoned", "lost"} \cup Terminal]
  /\ status    \in [Runs -> {"none", "queued", "running"} \cup Terminal]
  /\ snapshot  \in [Runs -> SnapshotType \cup {None}]
  /\ results   \in [Runs -> Results \cup {None}]
  /\ order     \in Seq(Runs)
  /\ queue     \in [Groups -> Seq(Runs)]
  /\ worker    \in [Groups -> {"none", "created", "loop", "awaiting", "dead"}]
  /\ current   \in [Groups -> Runs \cup {None}]
  /\ onLoop    \in Groups \cup {None}
  /\ running   \subseteq Runs
  /\ cancelled \subseteq Runs
  /\ task      \in [Runs -> {"none", "created", "executing", "returned", "unwinding",
                             "cancelling", "detaching", "done"}]
  /\ attempt   \in [Runs -> 0..2]
  /\ outcome   \in [Runs -> AllOutcomes \cup {"none"}]
  /\ live      \subseteq Runs
  /\ sessionOf \in [Runs -> Sessions \cup {None}]
  /\ store     \in [Keys -> StoreType]
  /\ used      \subseteq Sessions
  /\ revoked   \subseteq Sessions
  /\ committer \in [Keys -> Runs \cup {None}]
  /\ heard     \in [Keys -> Sessions \cup {None}]

\* A run occupies its group from the creation of its execution task until the
\* worker has collected that task.
Occupies(r) == r \in running \/ task[r] \notin {"none", "done"}

\* At most one run occupies a group at any time, across submissions,
\* cancellations that are still unwinding and workers that come and go
\* ("Coordinate one active execution at a time per group").
OneActivePerGroup ==
  \A r1, r2 \in Runs :
    Occupies(r1) /\ Occupies(r2) /\ GroupOf(r1) = GroupOf(r2) => r1 = r2

\* The backend itself sees two overlapping execute calls of one group only if
\* one of them had a timeout that fired and was then cancelled while unwinding.
OneBackendCallPerGroup ==
  \A r1, r2 \in live :
    GroupOf(r1) = GroupOf(r2) /\ r1 # r2 =>
      \E r \in {r1, r2} : request[r].timed /\ cancelled \cap {r} = {} /\ task[r] = "done"

\* _statuses, _completed_results, _run_snapshots and the futures tell one
\* story: a run is unfinished exactly as long as its future is in the map, a
\* retained result is what its waiters got and what the snapshot shows, and
\* only finished runs are ever evicted.
ReadersAgree ==
  \A r \in Runs :
    /\ status[r] \in {"queued", "running"} <=> future[r] \in {"pending", "abandoned"}
    /\ results[r] # None <=> status[r] \in Terminal
    /\ snapshot[r] # None <=> status[r] # "none"
    /\ snapshot[r] # None => snapshot[r].status = status[r]
    /\ results[r] # None => /\ results[r].status = status[r]
                            /\ future[r] \in {status[r], "lost"}

\* The table of finished runs never exceeds max_completed_runs and holds
\* exactly the retained results, each once.
RetentionBound ==
  /\ Len(order) <= MaxCompletedRuns
  /\ \A i, j \in 1..Len(order) : i # j => order[i] # order[j]
  /\ \A r \in Runs : results[r] # None <=> \E i \in 1..Len(order) : order[i] = r

\* Nothing is left behind in the running maps or in _cancelled_run_ids: their
\* entries are runs that a live worker is still waiting for.
NoResidue ==
  \A r \in Runs :
    /\ r \in running <=> \E g \in Groups : worker[g] = "awaiting" /\ current[g] = r
    /\ r \in cancelled => r \in running /\ status[r] \in {"cancelled", "none"}
    /\ r \in running => sessionOf[r] # None
    /\ r \notin running => sessionOf[r] = None

\* No lost wake-up: while a run waits in the queue with someone entitled to
\* its result, the group has a worker that will get to it.
QueuedHasWorker ==
  \A r \in Runs :
    status[r] = "queued" /\ future[r] = "pending" =>
      /\ \E i \in 1..Len(queue[GroupOf(r)]) : queue[GroupOf(r)][i] = r
      /\ worker[GroupOf(r)] \in {"created", "loop", "awaiting"}

\* A terminal status is final: it can only be forgotten, never replaced, and
\* what a waiter was told stays what it was told.
TerminalIsFinal ==
  [][\A r \in Runs :
       /\ status[r] \in Terminal => status'[r] \in {status[r], "none"}
       /\ future[r] \in Terminal => future'[r] = future[r]
       /\ status[r] = "none" /\ request[r] # None => status'[r] = "none"]_vars

\* No backend call starts for a run whose result has been delivered: neither a
\* run cancelled in the queue, nor the fresh retry of one cancelled meanwhile.
NoCallAfterTerminal ==
  [][\A r \in Runs : future[r] \in Terminal /\ r \notin live => r \notin live']_vars

\* A session that failed to resume is not used again: no OpenAI call runs on
\* it and no workspace has it as its current session.
RevokedSessionStaysDead ==
  /\ \A r \in Runs :
       task[r] \in {"created", "executing", "unwinding", "returned"} /\ BackendOf(r) = OpenAI
         => sessionOf[r] \notin revoked
  /\ \A k \in Keys : store[k].session \notin revoked

\* Success-only commit, for the two statuses a task can return itself: the run
\* that wrote a workspace's current session did not end failed or timed out.
FailedRunNeverCommits ==
  \A k \in Keys : committer[k] # None => future[committer[k]] \notin {"failed", "timeout"}

\* The session a workspace offers its next run is one that worked: no failed run has
\* committed it and no resume of it has failed since.
SessionsSound == RevokedSessionStaysDead /\ FailedRunNeverCommits

\* The workspace has had an answer, or a session of it has failed to resume.
HasPast(k) == committer[k] # None \/ \E s \in revoked : s.key = k

\* A follow-up in a slot continues the conversation: whatever runs have failed,
\* timed out or been cancelled since, it starts on the session that gave the
\* workspace its last answer. One that asks for a fresh session, or whose
\* workspace has lost its session to a failed resume, starts on a session no
\* call has seen, the bare workspace key included.
FollowUpResumes ==
  [][\A r \in Runs :
       task[r] = "none" /\ task'[r] = "created" /\ BackendOf(r) = OpenAI =>
         LET k == KeyOf(r) IN
         /\ ~request[r].fresh /\ heard[k] # None => sessionOf'[r] = heard[k]
         /\ (request[r].fresh \/ heard[k] = None) /\ HasPast(k) => sessionOf'[r] \notin used]_vars

\* Every submitted run is settled: its waiters get a terminal result.
EveryRunSettles ==
  \A r \in Runs : request[r] # None ~> future[r] \in Terminal

-----------------------------------------------------------------------------
(***************************************************************************)
(* The coordinator implements RunQueue: the deque without the entries that *)
(* were cancelled in it is the line, and a group is busy from the creation *)
(* of an execution task until its worker has collected it.                 *)
(***************************************************************************)

\* Run r is an entry of group g's deque.
InLine(r, g) == \E i \in 1..Len(queue[g]) : queue[g][i] = r

\* Run x stands before run r in a deque.
Before(x, r) ==
  \E g \in Groups : \E i, j \in 1..Len(queue[g]) : i < j /\ queue[g][i] = x /\ queue[g][j] = r

AbstractPhase == [r \in Runs |-> IF future[r] = "none" THEN "new"
                                 ELSE IF future[r] \in Terminal THEN future[r]
                                 ELSE status[r]]
AbstractLine  == [g \in Groups |-> {r \in Runs : future[r] = "pending" /\ InLine(r, g)}]
AbstractAhead == [r \in Runs |-> {x \in Runs : /\ future[r] = "pending" /\ future[x] = "pending"
                                               /\ Before(x, r)}]
AbstractBusy  == [g \in Groups |-> IF worker[g] = "awaiting" THEN current[g] ELSE None]

Abstract == INSTANCE RunQueue WITH phase <- AbstractPhase, line <- AbstractLine,
                                   ahead <- AbstractAhead, busy <- AbstractBusy

\* The monitor shows what the group is doing: every run it counts as queued is
\* still in the deque, and it never shows a second active run, or one that the
\* group's worker is no longer waiting for.
MonitorAgrees ==
  \A g \in Groups :
    /\ MonitorQueue(g).queued = Cardinality(AbstractLine[g])
    /\ MonitorQueue(g).running \subseteq {AbstractBusy[g]}

\* Refinement: per-group first-in first-out service, one run at a time, one
\* terminal status per run, for every interleaving of the coordinator's tasks
\* (waiters that are not cancelled, backends that raise no stray CancelledError).
ImplementsRunQueue == Abstract!Spec

-----------------------------------------------------------------------------
(***************************************************************************)
(* What the repository's documents say and the code does not do.           *)
(***************************************************************************)

\* "failed or cancelled runs do not overwrite the last good committed
\* session": the run that wrote a workspace's current session was not cancelled.
CancelledRunNeverCommits ==
  \A k \in Keys : committer[k] # None => future[committer[k]] # "cancelled"

\* "session-resume retry failure sets recovery_attempted=True and
\* recovery_succeeded=False": a run recorded as recovered did not fail.
RecoveredMeansCompleted ==
  \A r \in Runs :
    snapshot[r] # None /\ snapshot[r].succeeded = "yes" =>
      snapshot[r].status \notin {"failed", "timeout"}

\* "mint a fresh session candidate when the caller sets fresh_session=True": the
\* session a fresh run starts on has not been used before.
FreshSessionIsFresh ==
  [][\A r \in Runs :
       task[r] = "created" /\ task'[r] = "executing" /\ request[r].fresh
         => sessionOf[r] \notin used]_vars
=============================================================================
