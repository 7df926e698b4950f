-------------------------- MODULE ExecutionBackends --------------------------
(***************************************************************************)
(* What the host and the container backend (services/execution_backends.py,*)
(* infra/exec/process.py) do to the operating system and the Docker daemon *)
(* for the runs of one group: a child process per run, for a container run *)
(* the docker client, whose container has a name that runs of the same     *)
(* session share. Runs are numbered in the order the group's worker takes  *)
(* them (RunQueue): the next execute starts when the worker has stored the *)
(* result of the last.                                                     *)
(*                                                                         *)
(* One action is the code of one task between two awaits. stop_container   *)
(* makes blocking calls, so it is one step although it is awaited.         *)
(***************************************************************************)
EXTENDS Integers, Sequences, FiniteSets, SequencesExt

CONSTANTS
  NumRuns,
  Kinds,        \* the choices of a backend, "host" or "container", for each run
  Names, NameOf,\* container names, and the one of each run's group and session
  Timed,        \* runs whose request has a timeout
  Cancellable,  \* runs whose client may cancel them
  Reports       \* what a runner may report, and what tools print before and after it

Runs == 1 .. NumRuns

ASSUME BackendAssumption ==
  /\ NumRuns \in Nat
  /\ Kinds \subseteq [Runs -> {"host", "container"}]
  /\ NameOf \in [Runs -> Names]
  /\ Timed \subseteq Runs /\ Cancellable \subseteq Runs
  /\ \A p \in Reports : \/ p.status \in {"success", "error", "timeout"}
                        \/ p.status = "nothing" /\ p.after = <<>>

\* The tasks that may work on a run beside execute itself: the clean-up task that
\* execute leaves behind, and the coordinator's calls of backend.cancel.
Helpers == {"cleanup", "cancel", "timeout"}
Silence == [before |-> <<>>, status |-> "nothing", after |-> <<>>]

VARIABLES
  kind,      \* the backend of each run
  exec,      \* where its execute stands
  interrupt, \* a CancelledError is on its way into execute, and from whom
  proc,      \* its child process, as the asyncio transport sees it
  box,       \* its container
  active,    \* keys of _active_processes (and of _container_names)
  cleanups,  \* keys of _cleanup_tasks
  helper,    \* [Runs -> [Helpers -> where the task stands]]
  stdout,    \* what its process has written, while execute reads it: a report as in Reports,
             \* or one that was "stopped" before the runner's own part was whole
  answer,    \* what execute returned or raised
  missed     \* history: no container was there when it was to be stopped, or Docker failed

vars == <<kind, exec, interrupt, proc, box, active, cleanups, helper, stdout, answer, missed>>
world == <<proc, box, stdout, missed>>

-----------------------------------------------------------------------------
(***************************************************************************)
(* The runner's output. A text is a sequence of tokens: the two markers,   *)
(* JSON objects named by their "status", "junk" for any other text, and    *)
(* "bytes" that are no UTF-8 (on stderr they have the same effect).        *)
(***************************************************************************)
\* write_output of the runner, framed.
Frame(status) == IF status \in {"nothing", "stopped"} THEN <<>> ELSE <<"start", status, "end">>

Written(report) == report.before \o Frame(report.status) \o report.after

\* A text that ends early, where a token ends or inside of one, or of a character.
Torn(text) ==
  UNION {{SubSeq(text, 1, n) \o rest : rest \in {<<>>, <<"junk">>, <<"bytes">>}}
           : n \in 0 .. Len(text) - 1}

\* What a process that is stopped may have written of a report: not all of the runner's
\* own part, or that and some of the rest.
CutShort(report) ==
  {[before |-> text, status |-> "stopped", after |-> <<>>]
     : text \in Torn(report.before \o Frame(report.status))}
  \cup {[before |-> report.before, status |-> report.status, after |-> text]
          : text \in Torn(report.after) \cup {report.after}}

Found(text, token) == {i \in DOMAIN text : text[i] = token}

\* Seeded fault: the first start marker instead of the last.
FrameStartFirst(text) == CHOOSE i \in Found(text, "start") : \A j \in Found(text, "start") : i <= j

\* stdout.rfind(OUTPUT_START_MARKER)
FrameStart(text) == CHOOSE i \in Found(text, "start") : \A j \in Found(text, "start") : j <= i

\* _extract_runner_output; the empty sequence is None.
ExtractRunnerOutput(text) ==
  IF Found(text, "start") # {} /\ Found(text, "end") # {}
  THEN LET ends == {i \in Found(text, "end") : FrameStart(text) < i}
       IN IF ends = {} THEN <<>>
          ELSE SubSeq(text, FrameStart(text) + 1,
                      (CHOOSE i \in ends : \A j \in ends : i <= j) - 1)
  ELSE text

\* parse_runner_output: the status; nothing, bad JSON and no object are failures.
ParseRunnerOutput(text) ==
  CASE ExtractRunnerOutput(text) = <<"success">> -> "completed"
    [] ExtractRunnerOutput(text) = <<"timeout">> -> "timeout"
    [] OTHER -> "failed"

\* What execute makes of the output: decoding it may raise.
Outcome(text) == IF "bytes" \in Range(text) THEN "failed" ELSE ParseRunnerOutput(text)

-----------------------------------------------------------------------------
(***************************************************************************)
(* Processes and the Docker daemon (outside of the repository).            *)
(* A process is running, dying (SIGKILL is sent), exited, or gone: its     *)
(* transport is closed, and Process.kill raises ProcessLookupError.        *)
(***************************************************************************)
Exists(r) == box[r] \in {"created", "running"}
Holders(name) == {r \in Runs : Exists(r) /\ NameOf[r] = name}

Killed(p) == IF p = "running" THEN "dying" ELSE p
Reaped(r) == proc[r] \in {"exited", "gone"}

\* execute reads what the process writes; nobody else does.
Writes(r, report) ==
  stdout' = [stdout EXCEPT ![r] = IF exec[r] \in {"spawning", "communicating"} THEN report ELSE @]

\* The process exits by itself, unless it has been killed.
Leave(r, report) ==
  /\ proc' = [proc EXCEPT ![r] = IF @ = "running" THEN "exited" ELSE @]
  /\ IF proc[r] = "running" THEN Writes(r, report) ELSE UNCHANGED stdout

Spawned(r) == proc[r] = "running" /\ kind[r] = "container"

\* docker run --name: the daemon creates the container, or refuses a name in use.
CliCreates(r) ==
  /\ Spawned(r) /\ box[r] = "none"
  /\ IF Holders(NameOf[r]) = {}
     THEN box' = [box EXCEPT ![r] = "created"] /\ UNCHANGED <<proc, stdout>>
     ELSE Leave(r, Silence) /\ UNCHANGED box
  /\ UNCHANGED <<kind, exec, interrupt, active, cleanups, helper, answer, missed>>

CliStarts(r) ==
  /\ Spawned(r) /\ box[r] = "created"
  /\ box' = [box EXCEPT ![r] = "running"]
  /\ UNCHANGED <<kind, exec, interrupt, proc, active, cleanups, helper, stdout, answer, missed>>

\* The runner ends, having reported or crashed; docker run ends with it, --rm removes
\* the container.
RunnerEnds(r, report) ==
  /\ \/ kind[r] = "host" /\ proc[r] = "running" /\ UNCHANGED box
     \/ box[r] = "running" /\ box' = [box EXCEPT ![r] = "gone"]
  /\ Leave(r, report)
  /\ UNCHANGED <<kind, exec, interrupt, active, cleanups, helper, answer, missed>>

\* A killed process is reaped, having written what it had.
Dies(r, report) ==
  /\ proc[r] = "dying" /\ proc' = [proc EXCEPT ![r] = "exited"]
  /\ \E part \in CutShort(report) : Writes(r, part)
  /\ UNCHANGED <<kind, exec, interrupt, box, active, cleanups, helper, answer, missed>>

TransportCloses(r) ==
  /\ proc[r] = "exited" /\ exec[r] # "spawning" /\ proc' = [proc EXCEPT ![r] = "gone"]
  /\ UNCHANGED <<kind, exec, interrupt, box, active, cleanups, helper, stdout, answer, missed>>

-----------------------------------------------------------------------------
(***************************************************************************)
(* execute.                                                                *)
(***************************************************************************)
Init ==
  /\ kind \in Kinds
  /\ exec = [r \in Runs |-> "idle"]
  /\ interrupt = [r \in Runs |-> "none"]
  /\ proc = [r \in Runs |-> "none"]
  /\ box = [r \in Runs |-> "none"]
  /\ active = {}
  /\ cleanups = {}
  /\ helper = [r \in Runs |-> [k \in Helpers |-> "none"]]
  /\ stdout = [r \in Runs |-> Silence]
  /\ answer = [r \in Runs |-> "none"]
  /\ missed = {}

\* execute is over; after a coordinator timeout, wait_for raises TimeoutError in its
\* place and the coordinator calls backend.cancel in a task of its own.
Ended(r, outcome) ==
  /\ exec' = [exec EXCEPT ![r] = "ended"]
  /\ answer' = [answer EXCEPT ![r] = outcome]

TimeoutHelper(r, outcome) ==
  IF interrupt[r] = "timeout" /\ outcome = "cancelled"
  THEN [helper[r] EXCEPT !["timeout"] = "called"] ELSE helper[r]

Live(r, k) == helper[r][k] \notin {"none", "ended"}

\* Seeded fault: an entry that a clean-up task is to remove is left to it.
ClearActiveRunLate(r) ==
  IF Live(r, "cleanup") THEN UNCHANGED <<active, cleanups>>
  ELSE active' = active \ {r} /\ cleanups' = cleanups \ {r}

\* _clear_active_run
ClearActiveRun(r) == active' = active \ {r} /\ cleanups' = cleanups \ {r}

Turn(r) == \A s \in 1 .. r - 1 : exec[s] = "stored"

\* The checks before the process: a folder or user id that is no path segment, a
\* directory outside of the allowed roots, a forbidden command; or no such program.
ExecuteRefused(r) ==
  /\ exec[r] = "idle" /\ Turn(r)
  /\ Ended(r, "failed")
  /\ UNCHANGED <<kind, interrupt, active, cleanups, helper, world>>

\* create_subprocess_exec forks at once and returns when the pipes are connected.
ExecuteStarts(r) ==
  /\ exec[r] = "idle" /\ Turn(r)
  /\ exec' = [exec EXCEPT ![r] = "spawning"]
  /\ proc' = [proc EXCEPT ![r] = "running"]
  /\ UNCHANGED <<kind, interrupt, box, active, cleanups, helper, stdout, answer, missed>>

ExecuteRegisters(r) ==
  /\ exec[r] = "spawning" /\ interrupt[r] = "none"
  /\ exec' = [exec EXCEPT ![r] = "communicating"]
  /\ active' = active \cup {r}
  /\ UNCHANGED <<kind, interrupt, cleanups, helper, answer, world>>

\* A cancelled create_subprocess_exec closes its transport, which kills the process;
\* what the docker client has created by then nobody knows of.
SpawnCancelled(r) ==
  /\ exec[r] = "spawning" /\ interrupt[r] # "none"
  /\ exec' = [exec EXCEPT ![r] = "closing"]
  /\ proc' = [proc EXCEPT ![r] = Killed(@)]
  /\ missed' = missed \cup {r}
  /\ UNCHANGED <<kind, interrupt, box, active, cleanups, helper, stdout, answer>>

\* It then waits for the process, without a limit, before it raises.
SpawnClosed(r) ==
  /\ exec[r] = "closing" /\ Reaped(r)
  /\ Ended(r, "cancelled")
  /\ helper' = [helper EXCEPT ![r] = TimeoutHelper(r, "cancelled")]
  /\ UNCHANGED <<kind, interrupt, active, cleanups, world>>

\* communicate has the output and the exit. The host executor's own wait_for swallows a
\* cancellation that comes after that.
CommunicateReturns(r) ==
  /\ exec[r] = "communicating" /\ Reaped(r)
  /\ interrupt[r] = "none" \/ kind[r] = "host"
  /\ ClearActiveRun(r)
  /\ Ended(r, Outcome(Written(stdout[r])))
  /\ UNCHANGED <<kind, interrupt, helper, world>>

\* _ensure_cleanup_task; the task starts with what it is to do first.
EnsureCleanupTask(r, first) ==
  /\ cleanups' = cleanups \cup {r}
  /\ helper' = [helper EXCEPT ![r] = [TimeoutHelper(r, "cancelled") EXCEPT !["cleanup"] = first]]

\* except CancelledError in ContainerBackend.execute
ContainerCancelled(r) ==
  /\ exec[r] = "communicating" /\ kind[r] = "container" /\ interrupt[r] # "none"
  /\ EnsureCleanupTask(r, "stopping")
  /\ Ended(r, "cancelled")
  /\ UNCHANGED <<kind, interrupt, active, world>>

\* Seeded fault: the process is left to the clean-up task.
HostKilledLater(r) == proc' = proc

HostKilled(r) == proc' = [proc EXCEPT ![r] = Killed(@)]

\* except CancelledError in ProcessExecutor.run_agent: kill raises when the process has
\* gone while communicate was being cancelled, and there is no clean-up task then.
HostCancelled(r) ==
  /\ exec[r] = "communicating" /\ kind[r] = "host" /\ interrupt[r] # "none"
  /\ IF proc[r] = "gone"
     THEN Ended(r, "failed") /\ UNCHANGED <<cleanups, helper>>
     ELSE EnsureCleanupTask(r, "waiting") /\ Ended(r, "cancelled")
  /\ HostKilled(r)
  /\ UNCHANGED <<kind, interrupt, box, active, stdout, missed>>

\* except TimeoutError: the executor's own limit. The process is killed and awaited.
HostTimesOut(r) ==
  /\ exec[r] = "communicating" /\ kind[r] = "host" /\ interrupt[r] = "none"
  /\ IF proc[r] = "gone" THEN Ended(r, "failed")
     ELSE exec' = [exec EXCEPT ![r] = "reaping"] /\ UNCHANGED answer
  /\ HostKilled(r)
  /\ UNCHANGED <<kind, interrupt, box, active, cleanups, helper, stdout, missed>>

HostReaped(r) ==
  /\ exec[r] = "reaping" /\ interrupt[r] = "none" /\ Reaped(r)
  /\ ClearActiveRun(r)
  /\ Ended(r, "timeout")
  /\ UNCHANGED <<kind, interrupt, helper, world>>

HostReapCancelled(r) ==
  /\ exec[r] = "reaping" /\ interrupt[r] # "none"
  /\ Ended(r, "cancelled")
  /\ helper' = [helper EXCEPT ![r] = TimeoutHelper(r, "cancelled")]
  /\ UNCHANGED <<kind, interrupt, active, cleanups, world>>

\* The group's worker takes the result; the run can no longer be cancelled, and what
\* execute had read and answered is not kept.
WorkerStores(r) ==
  /\ exec[r] = "ended"
  /\ exec' = [exec EXCEPT ![r] = "stored"]
  /\ stdout' = [stdout EXCEPT ![r] = Silence]
  /\ answer' = [answer EXCEPT ![r] = "none"]
  /\ UNCHANGED <<kind, interrupt, proc, box, active, cleanups, helper, missed>>

-----------------------------------------------------------------------------
(***************************************************************************)
(* backend.cancel and the clean-up task.                                   *)
(***************************************************************************)
\* ExecutionCoordinator.cancel of a running run: it cancels the execution task and
\* starts backend.cancel.
Cancel(r) ==
  /\ r \in Cancellable
  /\ exec[r] \notin {"idle", "stored"} /\ helper[r]["cancel"] = "none"
  /\ interrupt' = [interrupt EXCEPT ![r] = IF exec[r] = "ended" \/ @ # "none" THEN @ ELSE "cancel"]
  /\ helper' = [helper EXCEPT ![r]["cancel"] = "called"]
  /\ UNCHANGED <<kind, exec, active, cleanups, answer, world>>

\* The timer of the coordinator's wait_for cancels execute.
TimerFires(r) ==
  /\ r \in Timed /\ exec[r] \notin {"idle", "ended", "stored"} /\ interrupt[r] = "none"
  /\ interrupt' = [interrupt EXCEPT ![r] = "timeout"]
  /\ UNCHANGED <<kind, exec, active, cleanups, helper, answer, world>>

Step(r, k, to) == helper' = [helper EXCEPT ![r][k] = to]

HasCleanup(r) == r \in cleanups /\ Live(r, "cleanup")

\* ContainerBackend.cancel up to its first await.
ContainerCancelCalled(r, k) ==
  /\ kind[r] = "container" /\ helper[r][k] = "called"
  /\ \/ HasCleanup(r) /\ Step(r, k, "gathering") /\ UNCHANGED <<active, cleanups>>
     \/ ~HasCleanup(r) /\ r \in active /\ Step(r, k, "stopping") /\ UNCHANGED <<active, cleanups>>
     \/ ~HasCleanup(r) /\ r \notin active /\ Step(r, k, "ended") /\ ClearActiveRun(r)
  /\ UNCHANGED <<kind, exec, interrupt, answer, world>>

\* ProcessExecutor.cancel up to its first await.
HostCancelCalled(r, k) ==
  /\ kind[r] = "host" /\ helper[r][k] = "called"
  /\ IF r \in active /\ proc[r] # "gone"
     THEN /\ proc' = [proc EXCEPT ![r] = Killed(@)]
          /\ Step(r, k, IF HasCleanup(r) THEN "gathering" ELSE "waiting")
     ELSE Step(r, k, "ended") /\ UNCHANGED proc
  /\ UNCHANGED <<kind, exec, interrupt, box, active, cleanups, stdout, answer, missed>>

\* asyncio.gather of the clean-up task.
Gathered(r, k) ==
  /\ helper[r][k] = "gathering" /\ ~Live(r, "cleanup")
  /\ Step(r, k, "ended")
  /\ UNCHANGED <<kind, exec, interrupt, active, cleanups, answer, world>>

\* Seeded fault: the end of the docker client is taken for the end of the container.
StopActiveRunKills(r, k) ==
  /\ helper[r][k] = "stopping"
  /\ Step(r, k, "killing")
  /\ UNCHANGED <<kind, exec, interrupt, active, cleanups, answer, world>>

\* ContainerManager.stop_container: whatever container has the name is stopped and
\* removed, and the docker client of its run ends with what it has read of it.
StopContainer(r) ==
  \E h \in Holders(NameOf[r]) :
    /\ box' = [box EXCEPT ![h] = "gone"]
    /\ IF box[h] = "created" THEN Leave(h, Silence)
       ELSE \E report \in Reports : \E part \in CutShort(report) : Leave(h, part)
    /\ missed' = IF h = r \/ box[r] = "gone" THEN missed ELSE missed \cup {r}

\* There is none, or Docker fails; the error is ignored.
StopContainerFails(r) ==
  /\ missed' = IF box[r] = "gone" THEN missed ELSE missed \cup {r}
  /\ UNCHANGED <<proc, box, stdout>>

\* _stop_active_run up to the kill.
StopActiveRun(r, k) ==
  /\ helper[r][k] = "stopping"
  /\ StopContainer(r) \/ StopContainerFails(r)
  /\ Step(r, k, "killing")
  /\ UNCHANGED <<kind, exec, interrupt, active, cleanups, answer>>

\* The kill: for a process that has gone it raises, which ends the task; only the
\* clean-up task has a finally that clears the tables then.
KillClient(r, k) ==
  /\ helper[r][k] = "killing"
  /\ IF proc[r] = "gone"
     THEN /\ Step(r, k, "ended")
          /\ IF k = "cleanup" THEN ClearActiveRun(r) ELSE UNCHANGED <<active, cleanups>>
     ELSE Step(r, k, "waiting") /\ UNCHANGED <<active, cleanups>>
  /\ proc' = [proc EXCEPT ![r] = Killed(@)]
  /\ UNCHANGED <<kind, exec, interrupt, box, stdout, answer, missed>>

\* Seeded fault: the wait for the killed process has no limit.
WaitOverUnlimited(r) == Reaped(r)

\* process.wait() returns, or its limit (5 s) passes first.
WaitOver(r) == TRUE

WaitEnds(r, k) ==
  /\ helper[r][k] = "waiting" /\ WaitOver(r)
  /\ Step(r, k, "ended")
  /\ ClearActiveRun(r)
  /\ UNCHANGED <<kind, exec, interrupt, answer, world>>

HelperSteps(r) ==
  \E k \in Helpers :
    \/ ContainerCancelCalled(r, k) \/ HostCancelCalled(r, k)
    \/ Gathered(r, k) \/ StopActiveRun(r, k)
    \/ KillClient(r, k) \/ WaitEnds(r, k)

Unwinds(r) ==
  \/ SpawnCancelled(r) \/ SpawnClosed(r) \/ CommunicateReturns(r) \/ ContainerCancelled(r)
  \/ HostCancelled(r) \/ HostReapCancelled(r)

World(r) ==
  \/ CliCreates(r) \/ CliStarts(r) \/ TransportCloses(r)
  \/ \E report \in Reports : RunnerEnds(r, report) \/ Dies(r, report)

Next == \E r \in Runs :
  \/ ExecuteRefused(r) \/ ExecuteStarts(r) \/ ExecuteRegisters(r)
  \/ HostTimesOut(r) \/ HostReaped(r) \/ WorkerStores(r)
  \/ Cancel(r) \/ TimerFires(r)
  \/ Unwinds(r) \/ HelperSteps(r) \/ World(r)

\* The event loop runs what is ready. Nothing is assumed of processes and containers:
\* a killed process may never be reaped, a container never end.
Fairness == \A r \in Runs : WF_vars(Unwinds(r)) /\ WF_vars(HelperSteps(r))

Spec == Init /\ [][Next]_vars /\ Fairness

-----------------------------------------------------------------------------
(***************************************************************************)
(* Properties.                                                             *)
(***************************************************************************)
Over(r) == exec[r] \in {"ended", "stored"}

\* execute is over and no task works on the run any more.
Settled(r) == Over(r) /\ \A k \in Helpers : ~Live(r, k)

\* A settled run is in none of the tables, in whatever order execute, its clean-up task
\* and two calls of cancel came to clear them. The one exception is a host run whose
\* process had gone when it was to be killed: kill raises past the clearing.
TablesCleared ==
  \A r \in Runs : Settled(r) /\ r \in active \cup cleanups =>
                    kind[r] = "host" /\ proc[r] = "gone"

\* No child process runs on after its run: a host process is killed before execute
\* ends, the docker client at the latest by the task that execute leaves behind.
NoProcessLeft ==
  \A r \in Runs : (IF kind[r] = "host" THEN Over(r) ELSE Settled(r)) => proc[r] # "running"

\* A container outlives its settled run only if it was not there yet when the run was
\* cancelled, or Docker failed to stop it.
NoContainerLeft == \A r \in Runs : Settled(r) /\ Exists(r) => r \in missed

\* Nothing runs on for a run that is over: neither its child process nor its container.
NothingLeftRunning == NoProcessLeft /\ NoContainerLeft

Tokens == {"start", "end", "success", "error", "timeout", "junk", "bytes"}

\* A complete frame that reports a success, in a text that is not the runner's; or nothing
\* but a success.
ForgesSuccess(text) ==
  \E i \in DOMAIN text : /\ text[i] = "start" /\ i + 2 \in DOMAIN text
                         /\ text[i + 1] = "success" /\ text[i + 2] = "end"
SaysSuccess(text) == ForgesSuccess(text) \/ text = <<"success">>

\* Tools print what they like, markers and successes included, but neither a whole frame
\* that reports a success after the runner's own nor a success when the runner reports
\* nothing at all.
NobodyForges ==
  \A p \in Reports :
    /\ p.before \in Seq(Tokens) /\ p.after \in Seq(Tokens)
    /\ ~ForgesSuccess(p.after)
    /\ p.status = "nothing" => ~SaysSuccess(p.before)

\* A run is reported completed only if its own runner said so, whatever tools printed
\* around it; except that one which was stopped before its runner had said anything (the
\* clean-up of an earlier run of the session may do that) is, when a tool had printed a
\* success by then. And a runner's success is not lost unless a start marker was printed
\* after it, something printed is no text, or the executor's own limit passed at that
\* moment.
AnswerHonest ==
  \A r \in Runs : LET out == stdout[r] IN
    /\ answer[r] = "completed" =>
         \/ out.status = "success"
         \/ out.status = "stopped" /\ SaysSuccess(out.before)
    /\ /\ exec[r] = "ended" /\ r \notin active /\ interrupt[r] = "none"
       /\ out.status = "success" /\ "start" \notin Range(out.after) /\ "bytes" \notin Range(Written(out))
       => answer[r] \in {"completed", "timeout"}

\* A cancelled or timed-out run settles, also if its process is never reaped: the waits of
\* the clean-up have a limit, and nobody waits for the one that waits for him. The one
\* wait without a limit is that of a cancelled create_subprocess_exec for its process.
CancelSettles ==
  \A r \in Runs : (interrupt[r] # "none") ~> (Settled(r) \/ [](exec[r] = "closing" /\ ~Reaped(r)))

\* What the code does not ensure: the clean-up of a run stops only its own container.
\* The name is the session's, and the next run may have it by then.
StopsOnlyOwn ==
  [][\A r \in Runs : (\E k \in Helpers : StopActiveRun(r, k)) =>
       \A s \in Runs \ {r} : box[s] = "running" => box'[s] = "running"]_vars
=============================================================================
