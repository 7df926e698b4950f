--------------------------- MODULE BackendsProofs ---------------------------
(***************************************************************************)
(* Proofs about ExecutionBackends, for every number of runs, every choice  *)
(* of backends, every sharing of container names and whatever processes    *)
(* and Docker do: a run that is over and on which no task works any more   *)
(* is in no table of its backend (TablesCleared), and neither its child    *)
(* process nor a container that was there to be stopped runs on            *)
(* (NothingLeftRunning); and its answer is what its own runner said, or    *)
(* what a tool had said when it was stopped (AnswerHonest).                *)
(*                                                                         *)
(* Runs meet only at the daemon, where the clean-up of one may stop the    *)
(* container of another that has its name. So the invariants are stated    *)
(* of one run, and a step of another run either leaves all of it alone     *)
(* (Alone) or takes away its container and with it its docker client       *)
(* (ContainerTaken).                                                       *)
(***************************************************************************)
EXTENDS ExecutionBackends, SequenceTheorems, NaturalsInduction, WellFoundedInduction, TLAPS

\* What the variables hold; the texts and reports do not matter here.
Types ==
  /\ kind \in [Runs -> {"host", "container"}]
  /\ exec \in [Runs -> {"idle", "spawning", "closing", "communicating", "reaping", "ended", "stored"}]
  /\ interrupt \in [Runs -> {"none", "cancel", "timeout"}]
  /\ proc \in [Runs -> {"none", "running", "dying", "exited", "gone"}]
  /\ box \in [Runs -> {"none", "created", "running", "gone"}]
  /\ active \subseteq Runs /\ cleanups \subseteq Runs /\ missed \subseteq Runs
  /\ helper \in [Runs -> [Helpers ->
       {"none", "called", "gathering", "stopping", "killing", "waiting", "ended"}]]

-----------------------------------------------------------------------------
(***************************************************************************)
(* The tables.                                                             *)
(***************************************************************************)
\* Which tasks there are, and when: execute leaves the clean-up task and the call after
\* a timeout behind as it ends, and the client's call comes with an interrupt; only the
\* host's executor awaits a process it has killed.
TasksOf(r) ==
  /\ ~Over(r) => helper[r]["cleanup"] = "none" /\ helper[r]["timeout"] = "none"
  /\ helper[r]["cleanup"] \notin {"called", "gathering"}
  /\ exec[r] = "idle" => helper[r]["cancel"] = "none"
  /\ helper[r]["cancel"] # "none" /\ ~Over(r) => interrupt[r] # "none"
  /\ exec[r] = "closing" => interrupt[r] # "none"
  /\ exec[r] = "reaping" => kind[r] = "host"

\* What a host run's tasks do: they wait for the process and stop no container; they
\* gather a clean-up task only when there is one.
HostTasks(r) ==
  kind[r] = "host" => \A k \in Helpers :
    /\ helper[r][k] \notin {"stopping", "killing"}
    /\ helper[r][k] = "gathering" => helper[r]["cleanup"] # "none"

\* Entries of the tables: an active run has a process that was registered, a clean-up
\* entry has its task, and the task clears both tables as it ends.
Entries(r) ==
  /\ exec[r] \in {"idle", "spawning", "closing"} => r \notin active
  /\ helper[r]["cleanup"] = "none" => r \notin cleanups
  /\ helper[r]["cleanup"] = "ended" => r \notin active \cup cleanups
  /\ kind[r] = "container" /\ Over(r) /\ helper[r]["cleanup"] = "none" => r \notin active

\* A call of cancel that has not yet ended, and will clear the tables when it does.
WillClear(r, k) == helper[r][k] \in {"called", "waiting"}

\* A host run without a clean-up task stays active only while somebody is going to clear
\* it: execute itself, unless the client's cancel has come, and else a call of cancel;
\* or else the process had gone, and kill raised past the clearing.
HostAwaited(r) ==
  kind[r] = "host" /\ helper[r]["cleanup"] = "none" /\ r \in active =>
    \/ proc[r] = "gone"
    \/ /\ exec[r] \in {"communicating", "reaping"}
       /\ interrupt[r] = "cancel" => WillClear(r, "cancel")
    \/ Over(r) /\ \E k \in {"cancel", "timeout"} : WillClear(r, k)

TableEntry(r) == TasksOf(r) /\ HostTasks(r) /\ Entries(r) /\ HostAwaited(r)

-----------------------------------------------------------------------------
(***************************************************************************)
(* Processes and containers.                                               *)
(***************************************************************************)
\* The container is stopped, or was not there to be stopped.
Stopped(r) == box[r] = "gone" \/ r \in missed

\* Before execute starts there is nothing, and a cancelled spawn has killed what there
\* was; only a docker client makes a container.
Nothing(r) ==
  /\ exec[r] = "idle" => proc[r] = "none"
  /\ exec[r] = "closing" => proc[r] # "running"
  /\ proc[r] = "none" => box[r] = "none"
  /\ kind[r] = "host" => box[r] = "none"

\* A host process is killed before execute ends; the docker client of a run that is over
\* lives until the clean-up task comes to kill it.
ProcessEnds(r) ==
  /\ kind[r] = "host" /\ (Over(r) \/ exec[r] = "reaping") => proc[r] # "running"
  /\ kind[r] = "container" /\ Over(r) /\ proc[r] = "running" =>
       helper[r]["cleanup"] \in {"stopping", "killing"}

\* A docker client ends only because its container has ended, was never made, or was
\* to be stopped first; execute leaves a container only to the clean-up task.
ContainerEnds(r) ==
  kind[r] = "container" =>
    /\ proc[r] \in {"dying", "exited", "gone"} => Stopped(r) \/ box[r] = "none"
    /\ \A k \in Helpers : helper[r][k] = "killing" => Stopped(r)
    /\ exec[r] = "closing" => Stopped(r)
    /\ Over(r) => \/ Stopped(r)
                  \/ box[r] = "none" /\ proc[r] # "running"
                  \/ helper[r]["cleanup"] = "stopping"

Remains(r) == Nothing(r) /\ ProcessEnds(r) /\ ContainerEnds(r)

\* What the invariant says of one run.
Sound(r) == TableEntry(r) /\ Remains(r)

BackendInv == \A r \in Runs : Sound(r)

-----------------------------------------------------------------------------
(***************************************************************************)
(* Lemmas about what the actions share.                                    *)
(***************************************************************************)
\* A step that leaves all of run s as it is.
Alone(s) ==
  /\ kind'[s] = kind[s] /\ exec'[s] = exec[s] /\ interrupt'[s] = interrupt[s]
  /\ proc'[s] = proc[s] /\ box'[s] = box[s] /\ helper'[s] = helper[s]
  /\ s \in active' <=> s \in active
  /\ s \in cleanups' <=> s \in cleanups
  /\ s \in missed' <=> s \in missed

\* What a step of run r has to do.
Kept(r) == Types' /\ Sound(r)' /\ \A s \in Runs \ {r} : Alone(s)

\* What holds about a run stays so in a step that leaves it alone.
LEMMA AloneKeeps ==
  ASSUME NEW s \in Runs, Sound(s), Alone(s)
  PROVE  Sound(s)'
<1>1. TasksOf(s)' /\ HostTasks(s)' /\ Entries(s)'
  BY DEF Sound, TableEntry, TasksOf, HostTasks, Entries, Over, Alone
<1>2. HostAwaited(s)'
  BY DEF Sound, TableEntry, HostAwaited, WillClear, Over, Alone
<1>3. Remains(s)'
  BY DEF Sound, Remains, Nothing, ProcessEnds, ContainerEnds, Stopped, Over, Alone
<1> QED BY <1>1, <1>2, <1>3 DEF Sound, TableEntry

\* One task of one run moves.
LEMMA StepOK ==
  ASSUME Types, NEW r \in Runs, NEW k \in Helpers,
         NEW to \in {"none", "called", "gathering", "stopping", "killing", "waiting", "ended"},
         Step(r, k, to)
  PROVE  /\ helper' \in [Runs -> [Helpers ->
              {"none", "called", "gathering", "stopping", "killing", "waiting", "ended"}]]
         /\ helper'[r][k] = to
         /\ \A j \in Helpers : j # k => helper'[r][j] = helper[r][j]
         /\ \A s \in Runs : s # r => helper'[s] = helper[s]
BY DEF Types, Step

\* A signal changes the process it is sent to, and only if that process runs.
LEMMA KilledOK ==
  ASSUME Types, NEW r \in Runs, proc' = [proc EXCEPT ![r] = Killed(@)]
  PROVE  /\ proc' \in [Runs -> {"none", "running", "dying", "exited", "gone"}]
         /\ \A s \in Runs : s # r => proc'[s] = proc[s]
         /\ proc'[r] # "running"
         /\ proc'[r] = proc[r] \/ (proc[r] = "running" /\ proc'[r] = "dying")
BY DEF Types, Killed

\* A running process that leaves has exited, and no other process moves.
LEMMA LeaveOK ==
  ASSUME Types, NEW r \in Runs, NEW text, Leave(r, text)
  PROVE  /\ proc' \in [Runs -> {"none", "running", "dying", "exited", "gone"}]
         /\ \A s \in Runs : s # r => proc'[s] = proc[s]
         /\ proc'[r] # "running"
         /\ proc'[r] = proc[r] \/ (proc[r] = "running" /\ proc'[r] = "exited")
BY DEF Types, Leave

-----------------------------------------------------------------------------
(***************************************************************************)
(* The initial state.                                                      *)
(***************************************************************************)
LEMMA InitSound == Init => Types /\ BackendInv
<1> SUFFICES ASSUME Init PROVE Types /\ BackendInv
  OBVIOUS
<1>1. Types
  BY BackendAssumption DEF Init, Types
<1>2. ASSUME NEW r \in Runs PROVE Sound(r)
  <2>1. TableEntry(r)
    BY DEF Init, TableEntry, TasksOf, HostTasks, Entries, HostAwaited, Over, Helpers
  <2>2. Remains(r)
    BY DEF Init, Remains, Nothing, ProcessEnds, ContainerEnds, Over, Helpers
  <2> QED BY <2>1, <2>2 DEF Sound
<1> QED BY <1>1, <1>2 DEF BackendInv

-----------------------------------------------------------------------------
(***************************************************************************)
(* Processes and the daemon.                                               *)
(***************************************************************************)
LEMMA CliCreatesKeeps ==
  ASSUME Types, NEW r \in Runs, Sound(r), CliCreates(r)
  PROVE  Kept(r)
<1>1. /\ proc' \in [Runs -> {"none", "running", "dying", "exited", "gone"}]
      /\ box' \in [Runs -> {"none", "created", "running", "gone"}]
      /\ \A s \in Runs : s # r => proc'[s] = proc[s] /\ box'[s] = box[s]
      /\ \/ proc'[r] = "running" /\ box'[r] = "created"
         \/ proc'[r] = "exited" /\ box'[r] = "none"
  <2>1. CASE Holders(NameOf[r]) = {}
    BY <2>1 DEF CliCreates, Spawned, Types
  <2>2. CASE Holders(NameOf[r]) # {}
    BY <2>2, LeaveOK DEF CliCreates, Spawned, Types
  <2> QED BY <2>1, <2>2
<1>2. proc[r] = "running" /\ kind[r] = "container" /\ box[r] = "none"
  BY DEF CliCreates, Spawned
<1>3. UNCHANGED <<kind, exec, interrupt, active, cleanups, helper, missed>>
  BY DEF CliCreates
<1>4. Types' /\ \A s \in Runs \ {r} : Alone(s)
  BY <1>1, <1>3 DEF Types, Alone
<1>5. TableEntry(r)'
  BY <1>1, <1>2, <1>3 DEF Sound, TableEntry, TasksOf, HostTasks, Entries, HostAwaited,
                          WillClear, Over
<1>6. Remains(r)'
  BY <1>1, <1>2, <1>3 DEF Sound, Remains, Nothing, ProcessEnds, ContainerEnds, Stopped, Over
<1> QED BY <1>4, <1>5, <1>6 DEF Kept, Sound

\* A container that was created starts while its client runs.
LEMMA CliStartsKeeps ==
  ASSUME Types, NEW r \in Runs, Sound(r), CliStarts(r)
  PROVE  Kept(r)
<1>1. /\ proc[r] = "running" /\ kind[r] = "container" /\ box[r] = "created"
      /\ box' \in [Runs -> {"none", "created", "running", "gone"}]
      /\ box'[r] = "running" /\ \A s \in Runs : s # r => box'[s] = box[s]
      /\ UNCHANGED <<kind, exec, interrupt, proc, active, cleanups, helper, missed>>
  BY DEF CliStarts, Spawned, Types
<1>2. Types' /\ \A s \in Runs \ {r} : Alone(s)
  BY <1>1 DEF Types, Alone
<1>3. TableEntry(r)'
  BY <1>1 DEF Sound, TableEntry, TasksOf, HostTasks, Entries, HostAwaited, WillClear, Over
<1>4. Remains(r)'
  BY <1>1 DEF Sound, Remains, Nothing, ProcessEnds, ContainerEnds, Stopped, Over
<1> QED BY <1>2, <1>3, <1>4 DEF Kept, Sound

\* The end of a runner is that of its process and of its container.
LEMMA RunnerEndsKeeps ==
  ASSUME Types, NEW r \in Runs, Sound(r), NEW report, RunnerEnds(r, report)
  PROVE  Kept(r)
<1>1. /\ proc' \in [Runs -> {"none", "running", "dying", "exited", "gone"}]
      /\ \A s \in Runs : s # r => proc'[s] = proc[s]
      /\ proc'[r] # "running"
      /\ proc'[r] = proc[r] \/ (proc[r] = "running" /\ proc'[r] = "exited")
  BY LeaveOK DEF RunnerEnds
<1>2. /\ box' \in [Runs -> {"none", "created", "running", "gone"}]
      /\ \A s \in Runs : s # r => box'[s] = box[s]
      /\ \/ kind[r] = "host" /\ proc[r] = "running" /\ box'[r] = box[r]
         \/ box[r] = "running" /\ box'[r] = "gone"
  BY DEF RunnerEnds, Types
<1>3. UNCHANGED <<kind, exec, interrupt, active, cleanups, helper, missed>>
  BY DEF RunnerEnds
<1>4. Types' /\ \A s \in Runs \ {r} : Alone(s)
  BY <1>1, <1>2, <1>3 DEF Types, Alone
<1>5. TableEntry(r)'
  BY <1>1, <1>2, <1>3 DEF Sound, TableEntry, TasksOf, HostTasks, Entries, HostAwaited,
                          WillClear, Over
<1>6. Remains(r)'
  BY <1>1, <1>2, <1>3 DEF Sound, Remains, Nothing, ProcessEnds, ContainerEnds, Stopped, Over
<1> QED BY <1>4, <1>5, <1>6 DEF Kept, Sound

\* A process that dies, or has exited, moves toward its end.
LEMMA ProcessMovesKeeps ==
  ASSUME Types, NEW r \in Runs, Sound(r), NEW report, Dies(r, report) \/ TransportCloses(r)
  PROVE  Kept(r)
<1>1. /\ proc' \in [Runs -> {"none", "running", "dying", "exited", "gone"}]
      /\ \A s \in Runs : s # r => proc'[s] = proc[s]
      /\ \/ proc[r] = "dying" /\ proc'[r] = "exited"
         \/ proc[r] = "exited" /\ proc'[r] = "gone"
      /\ UNCHANGED <<kind, exec, interrupt, box, active, cleanups, helper, missed>>
  BY DEF Dies, TransportCloses, Types
<1>2. Types' /\ \A s \in Runs \ {r} : Alone(s)
  BY <1>1 DEF Types, Alone
<1>3. TableEntry(r)'
  BY <1>1 DEF Sound, TableEntry, TasksOf, HostTasks, Entries, HostAwaited, WillClear, Over
<1>4. Remains(r)'
  BY <1>1 DEF Sound, Remains, Nothing, ProcessEnds, ContainerEnds, Stopped, Over
<1> QED BY <1>2, <1>3, <1>4 DEF Kept, Sound

-----------------------------------------------------------------------------
(***************************************************************************)
(* execute.                                                                *)
(***************************************************************************)
LEMMA EndedOK ==
  ASSUME Types, NEW r \in Runs, NEW outcome, Ended(r, outcome)
  PROVE  /\ exec' \in [Runs -> {"idle", "spawning", "closing", "communicating", "reaping", "ended", "stored"}]
         /\ exec'[r] = "ended" /\ \A s \in Runs : s # r => exec'[s] = exec[s]
BY DEF Types, Ended

\* The tables without the entries of one run.
LEMMA ClearOK ==
  ASSUME Types, NEW r \in Runs, ClearActiveRun(r)
  PROVE  /\ active' \subseteq Runs /\ cleanups' \subseteq Runs
         /\ r \notin active' \cup cleanups'
         /\ \A s \in Runs : s # r => /\ s \in active' <=> s \in active
                                     /\ s \in cleanups' <=> s \in cleanups
BY DEF Types, ClearActiveRun

\* As execute ends by a cancellation it leaves the calls of cancel behind.
LEMMA TimeoutHelperOK ==
  ASSUME Types, NEW r \in Runs
  PROVE  /\ TimeoutHelper(r, "cancelled") \in [Helpers ->
              {"none", "called", "gathering", "stopping", "killing", "waiting", "ended"}]
         /\ \A k \in {"cleanup", "cancel"} : TimeoutHelper(r, "cancelled")[k] = helper[r][k]
         /\ TimeoutHelper(r, "cancelled")["timeout"] =
              IF interrupt[r] = "timeout" THEN "called" ELSE helper[r]["timeout"]
BY DEF Types, TimeoutHelper, Helpers

\* A refused execute leaves no entry in the tables.
LEMMA ExecuteRefusedKeeps ==
  ASSUME Types, NEW r \in Runs, Sound(r), ExecuteRefused(r)
  PROVE  Kept(r)
<1>1. /\ exec' \in [Runs -> {"idle", "spawning", "closing", "communicating", "reaping", "ended", "stored"}]
      /\ exec[r] = "idle" /\ exec'[r] = "ended" /\ \A s \in Runs : s # r => exec'[s] = exec[s]
  BY EndedOK DEF ExecuteRefused
<1>2. UNCHANGED <<kind, interrupt, proc, box, active, cleanups, helper, missed>>
  BY DEF ExecuteRefused, world
<1>3. Types' /\ \A s \in Runs \ {r} : Alone(s)
  BY <1>1, <1>2 DEF Types, Alone
<1>4. TableEntry(r)'
  BY <1>1, <1>2 DEF Sound, TableEntry, TasksOf, HostTasks, Entries, HostAwaited, WillClear, Over
<1>5. Remains(r)'
  BY <1>1, <1>2 DEF Sound, TableEntry, TasksOf, Remains, Nothing, ProcessEnds, ContainerEnds,
                    Stopped, Over
<1> QED BY <1>3, <1>4, <1>5 DEF Kept, Sound

\* execute enters the run it is going to clear.
LEMMA ExecuteStartsKeeps ==
  ASSUME Types, NEW r \in Runs, Sound(r), ExecuteStarts(r)
  PROVE  Kept(r)
<1>1. /\ exec' \in [Runs -> {"idle", "spawning", "closing", "communicating", "reaping", "ended", "stored"}]
      /\ exec[r] = "idle" /\ exec'[r] = "spawning"
      /\ \A s \in Runs : s # r => exec'[s] = exec[s]
      /\ proc' \in [Runs -> {"none", "running", "dying", "exited", "gone"}]
      /\ proc'[r] = "running" /\ \A s \in Runs : s # r => proc'[s] = proc[s]
      /\ UNCHANGED <<kind, interrupt, box, active, cleanups, helper, missed>>
  BY DEF ExecuteStarts, Types
<1>2. Types' /\ \A s \in Runs \ {r} : Alone(s)
  BY <1>1 DEF Types, Alone
<1>3. TableEntry(r)'
  BY <1>1 DEF Sound, TableEntry, TasksOf, HostTasks, Entries, HostAwaited, WillClear, Over
<1>4. Remains(r)'
  BY <1>1 DEF Sound, Remains, Nothing, ProcessEnds, ContainerEnds, Stopped, Over
<1> QED BY <1>2, <1>3, <1>4 DEF Kept, Sound

\* The run is registered only if no interrupt has come: there is no call of cancel yet.
LEMMA ExecuteRegistersKeeps ==
  ASSUME Types, NEW r \in Runs, Sound(r), ExecuteRegisters(r)
  PROVE  Kept(r)
<1>1. /\ exec' \in [Runs -> {"idle", "spawning", "closing", "communicating", "reaping", "ended", "stored"}]
      /\ exec[r] = "spawning" /\ exec'[r] = "communicating" /\ interrupt[r] = "none"
      /\ \A s \in Runs : s # r => exec'[s] = exec[s]
      /\ active' \subseteq Runs /\ r \in active'
      /\ \A s \in Runs : s # r => (s \in active' <=> s \in active)
      /\ UNCHANGED <<kind, interrupt, proc, box, cleanups, helper, missed>>
  BY DEF ExecuteRegisters, Types, world
<1>2. Types' /\ \A s \in Runs \ {r} : Alone(s)
  BY <1>1 DEF Types, Alone
<1>3. TableEntry(r)'
  BY <1>1 DEF Sound, TableEntry, TasksOf, HostTasks, Entries, HostAwaited, WillClear, Over
<1>4. Remains(r)'
  BY <1>1 DEF Sound, Remains, Nothing, ProcessEnds, ContainerEnds, Stopped, Over
<1> QED BY <1>2, <1>3, <1>4 DEF Kept, Sound

\* A cancelled spawn kills its client; a container it leaves is counted as missed.
LEMMA SpawnCancelledKeeps ==
  ASSUME Types, NEW r \in Runs, Sound(r), SpawnCancelled(r)
  PROVE  Kept(r)
<1>1. /\ exec' \in [Runs -> {"idle", "spawning", "closing", "communicating", "reaping", "ended", "stored"}]
      /\ exec[r] = "spawning" /\ exec'[r] = "closing" /\ interrupt[r] # "none"
      /\ \A s \in Runs : s # r => exec'[s] = exec[s]
  BY DEF SpawnCancelled, Types
<1>2. helper' = helper
  BY DEF SpawnCancelled
<1>3. /\ proc' \in [Runs -> {"none", "running", "dying", "exited", "gone"}]
      /\ \A s \in Runs : s # r => proc'[s] = proc[s]
      /\ proc'[r] # "running"
      /\ proc'[r] = proc[r] \/ (proc[r] = "running" /\ proc'[r] = "dying")
  BY KilledOK DEF SpawnCancelled
<1>4. /\ missed' \subseteq Runs /\ r \in missed'
      /\ \A s \in Runs : s # r => (s \in missed' <=> s \in missed)
      /\ UNCHANGED <<kind, interrupt, box, active, cleanups>>
  BY DEF SpawnCancelled, Types
<1>5. Types' /\ \A s \in Runs \ {r} : Alone(s)
  BY <1>1, <1>2, <1>3, <1>4 DEF Types, Alone
<1>6. TableEntry(r)'
  BY <1>1, <1>2, <1>3, <1>4 DEF Sound, TableEntry, TasksOf, HostTasks, Entries, HostAwaited,
                                WillClear, Over, Helpers
<1>7. Remains(r)'
  BY <1>1, <1>2, <1>3, <1>4 DEF Sound, Remains, Nothing, ProcessEnds, ContainerEnds, Stopped,
                                Over, Helpers
<1> QED BY <1>5, <1>6, <1>7 DEF Kept, Sound

\* When its process has been reaped, a cancelled spawn leaves the call after a timeout.
LEMMA SpawnClosedKeeps ==
  ASSUME Types, NEW r \in Runs, Sound(r), SpawnClosed(r)
  PROVE  Kept(r)
<1>1. /\ exec' \in [Runs -> {"idle", "spawning", "closing", "communicating", "reaping", "ended", "stored"}]
      /\ exec[r] = "closing" /\ exec'[r] = "ended"
      /\ \A s \in Runs : s # r => exec'[s] = exec[s]
  BY EndedOK DEF SpawnClosed
<1>2. /\ helper' \in [Runs -> [Helpers ->
           {"none", "called", "gathering", "stopping", "killing", "waiting", "ended"}]]
      /\ \A k \in {"cleanup", "cancel"} : helper'[r][k] = helper[r][k]
      /\ helper'[r]["timeout"] \in {"called", helper[r]["timeout"]}
      /\ \A s \in Runs : s # r => helper'[s] = helper[s]
  BY TimeoutHelperOK DEF SpawnClosed, Types
<1>3. UNCHANGED <<kind, interrupt, proc, box, active, cleanups, missed>>
  BY DEF SpawnClosed, world
<1>4. Types' /\ \A s \in Runs \ {r} : Alone(s)
  BY <1>1, <1>2, <1>3 DEF Types, Alone
<1>5. TableEntry(r)'
  BY <1>1, <1>2, <1>3 DEF Sound, TableEntry, TasksOf, HostTasks, Entries, HostAwaited,
                          WillClear, Over, Helpers
<1>6. Remains(r)'
  BY <1>1, <1>2, <1>3 DEF Sound, Remains, Nothing, ProcessEnds, ContainerEnds, Stopped,
                          Over, Helpers
<1> QED BY <1>4, <1>5, <1>6 DEF Kept, Sound

\* What communicate or the wait for a killed process ends with: the tables are cleared.
LEMMA ClearedEndKeeps ==
  ASSUME Types, NEW r \in Runs, Sound(r), NEW outcome,
         exec[r] \in {"communicating", "reaping"}, Reaped(r),
         ClearActiveRun(r), Ended(r, outcome),
         UNCHANGED <<kind, interrupt, helper, world>>
  PROVE  Kept(r)
<1>1. /\ exec' \in [Runs -> {"idle", "spawning", "closing", "communicating", "reaping", "ended", "stored"}]
      /\ exec'[r] = "ended" /\ \A s \in Runs : s # r => exec'[s] = exec[s]
  BY EndedOK
<1>2. /\ active' \subseteq Runs /\ cleanups' \subseteq Runs
      /\ r \notin active' \cup cleanups'
      /\ \A s \in Runs : s # r => /\ s \in active' <=> s \in active
                                  /\ s \in cleanups' <=> s \in cleanups
  BY ClearOK
<1>3. proc[r] \in {"exited", "gone"} /\ UNCHANGED <<kind, interrupt, proc, box, helper, missed>>
  BY DEF Reaped, world
<1>4. Types' /\ \A s \in Runs \ {r} : Alone(s)
  BY <1>1, <1>2, <1>3 DEF Types, Alone
<1>5. TableEntry(r)'
  BY <1>1, <1>2, <1>3 DEF Sound, TableEntry, TasksOf, HostTasks, Entries, HostAwaited,
                          WillClear, Over
<1>6. Remains(r)'
  BY <1>1, <1>2, <1>3 DEF Sound, Remains, Nothing, ProcessEnds, ContainerEnds, Stopped, Over
<1> QED BY <1>4, <1>5, <1>6 DEF Kept, Sound

\* execute clears its entries when its process has answered.
LEMMA CommunicateReturnsKeeps ==
  ASSUME Types, NEW r \in Runs, Sound(r), CommunicateReturns(r)
  PROVE  Kept(r)
BY ClearedEndKeeps DEF CommunicateReturns

\* execute clears its entries when the process it has killed is reaped.
LEMMA HostReapedKeeps ==
  ASSUME Types, NEW r \in Runs, Sound(r), HostReaped(r)
  PROVE  Kept(r)
BY ClearedEndKeeps DEF HostReaped

\* A clean-up task is there for the run from then on, the one there was or a new one.
LEMMA EnsureCleanupOK ==
  ASSUME Types, NEW r \in Runs, NEW first \in {"stopping", "waiting"},
         EnsureCleanupTask(r, first)
  PROVE  /\ cleanups' \subseteq Runs
         /\ \A s \in Runs : s # r => (s \in cleanups' <=> s \in cleanups)
         /\ helper' \in [Runs -> [Helpers ->
              {"none", "called", "gathering", "stopping", "killing", "waiting", "ended"}]]
         /\ helper'[r]["cleanup"] = first /\ helper'[r]["cancel"] = helper[r]["cancel"]
         /\ helper'[r]["timeout"] \in {"called", helper[r]["timeout"]}
         /\ \A s \in Runs : s # r => helper'[s] = helper[s]
<1> DEFINE calls == TimeoutHelper(r, "cancelled")
<1>1. /\ calls \in [Helpers ->
           {"none", "called", "gathering", "stopping", "killing", "waiting", "ended"}]
      /\ \A k \in {"cleanup", "cancel"} : calls[k] = helper[r][k]
      /\ calls["timeout"] \in {"called", helper[r]["timeout"]}
  BY TimeoutHelperOK
<1>2. helper' = [helper EXCEPT ![r] = [calls EXCEPT !["cleanup"] = first]]
  BY DEF EnsureCleanupTask
<1> HIDE DEF calls
<1>3. /\ helper' \in [Runs -> [Helpers ->
           {"none", "called", "gathering", "stopping", "killing", "waiting", "ended"}]]
      /\ helper'[r] = [calls EXCEPT !["cleanup"] = first]
      /\ \A s \in Runs : s # r => helper'[s] = helper[s]
  BY <1>1, <1>2 DEF Types, Helpers
<1>4. /\ helper'[r]["cleanup"] = first /\ helper'[r]["cancel"] = calls["cancel"]
      /\ helper'[r]["timeout"] = calls["timeout"]
  BY <1>1, <1>3 DEF Helpers
<1> QED BY <1>1, <1>3, <1>4 DEF EnsureCleanupTask, Types

\* A cancelled container run is left to a clean-up task.
LEMMA ContainerCancelledKeeps ==
  ASSUME Types, NEW r \in Runs, Sound(r), ContainerCancelled(r)
  PROVE  Kept(r)
<1>1. /\ exec' \in [Runs -> {"idle", "spawning", "closing", "communicating", "reaping", "ended", "stored"}]
      /\ exec[r] = "communicating" /\ exec'[r] = "ended"
      /\ \A s \in Runs : s # r => exec'[s] = exec[s]
  BY EndedOK DEF ContainerCancelled
<1>2. /\ cleanups' \subseteq Runs
      /\ \A s \in Runs : s # r => (s \in cleanups' <=> s \in cleanups)
      /\ helper' \in [Runs -> [Helpers ->
           {"none", "called", "gathering", "stopping", "killing", "waiting", "ended"}]]
      /\ helper'[r]["cleanup"] = "stopping" /\ helper'[r]["cancel"] = helper[r]["cancel"]
      /\ helper'[r]["timeout"] \in {"called", helper[r]["timeout"]}
      /\ \A s \in Runs : s # r => helper'[s] = helper[s]
  BY EnsureCleanupOK DEF ContainerCancelled
<1>3. kind[r] = "container" /\ UNCHANGED <<kind, interrupt, proc, box, active, missed>>
  BY DEF ContainerCancelled, world
<1>4. Types' /\ \A s \in Runs \ {r} : Alone(s)
  BY <1>1, <1>2, <1>3 DEF Types, Alone
<1>5. TableEntry(r)'
  BY <1>1, <1>2, <1>3 DEF Sound, TableEntry, TasksOf, HostTasks, Entries, HostAwaited,
                          WillClear, Over, Helpers
<1>6. Remains(r)'
  BY <1>1, <1>2, <1>3 DEF Sound, Remains, Nothing, ProcessEnds, ContainerEnds, Stopped,
                          Over, Helpers
<1> QED BY <1>4, <1>5, <1>6 DEF Kept, Sound

\* Cancelled when the process has gone already, the run has no clean-up task and keeps
\* its entry; otherwise the clean-up task waits for the process that was killed.
LEMMA HostCancelledKeeps ==
  ASSUME Types, NEW r \in Runs, Sound(r), HostCancelled(r)
  PROVE  Kept(r)
<1>1. /\ proc' \in [Runs -> {"none", "running", "dying", "exited", "gone"}]
      /\ \A s \in Runs : s # r => proc'[s] = proc[s]
      /\ proc'[r] # "running"
      /\ proc'[r] = proc[r] \/ (proc[r] = "running" /\ proc'[r] = "dying")
  BY KilledOK DEF HostCancelled, HostKilled
<1>2. /\ exec' \in [Runs -> {"idle", "spawning", "closing", "communicating", "reaping", "ended", "stored"}]
      /\ exec[r] = "communicating" /\ exec'[r] = "ended"
      /\ \A s \in Runs : s # r => exec'[s] = exec[s]
  <2>1. PICK outcome \in {"failed", "cancelled"} : Ended(r, outcome)
    BY DEF HostCancelled
  <2> QED BY <2>1, EndedOK DEF HostCancelled
<1>3. kind[r] = "host" /\ UNCHANGED <<kind, interrupt, box, active, missed>>
  BY DEF HostCancelled
<1>4. CASE proc[r] = "gone"
  <2>1. UNCHANGED <<cleanups, helper>>
    BY <1>4 DEF HostCancelled
  <2>2. Types' /\ \A s \in Runs \ {r} : Alone(s)
    BY <1>1, <1>2, <1>3, <2>1 DEF Types, Alone
  <2>3. TableEntry(r)'
    BY <1>1, <1>2, <1>3, <1>4, <2>1 DEF Sound, TableEntry, TasksOf, HostTasks, Entries,
                                        HostAwaited, WillClear, Over
  <2>4. Remains(r)'
    BY <1>1, <1>2, <1>3, <2>1 DEF Sound, Remains, Nothing, ProcessEnds, ContainerEnds,
                                  Stopped, Over
  <2> QED BY <2>2, <2>3, <2>4 DEF Kept, Sound
<1>5. CASE proc[r] # "gone"
  <2>1. /\ cleanups' \subseteq Runs
        /\ \A s \in Runs : s # r => (s \in cleanups' <=> s \in cleanups)
        /\ helper' \in [Runs -> [Helpers ->
             {"none", "called", "gathering", "stopping", "killing", "waiting", "ended"}]]
        /\ helper'[r]["cleanup"] = "waiting" /\ helper'[r]["cancel"] = helper[r]["cancel"]
        /\ helper'[r]["timeout"] \in {"called", helper[r]["timeout"]}
        /\ \A s \in Runs : s # r => helper'[s] = helper[s]
    BY <1>5, EnsureCleanupOK DEF HostCancelled
  <2>2. Types' /\ \A s \in Runs \ {r} : Alone(s)
    BY <1>1, <1>2, <1>3, <2>1 DEF Types, Alone
  <2>3. TableEntry(r)'
    BY <1>1, <1>2, <1>3, <2>1 DEF Sound, TableEntry, TasksOf, HostTasks, Entries,
                                  HostAwaited, WillClear, Over, Helpers
  <2>4. Remains(r)'
    BY <1>1, <1>2, <1>3, <2>1 DEF Sound, Remains, Nothing, ProcessEnds, ContainerEnds,
                                  Stopped, Over, Helpers
  <2> QED BY <2>2, <2>3, <2>4 DEF Kept, Sound
<1> QED BY <1>4, <1>5

\* A host run that timed out is killed before it is awaited.
LEMMA HostTimesOutKeeps ==
  ASSUME Types, NEW r \in Runs, Sound(r), HostTimesOut(r)
  PROVE  Kept(r)
<1>1. /\ proc' \in [Runs -> {"none", "running", "dying", "exited", "gone"}]
      /\ \A s \in Runs : s # r => proc'[s] = proc[s]
      /\ proc'[r] # "running"
      /\ proc'[r] = proc[r] \/ (proc[r] = "running" /\ proc'[r] = "dying")
  BY KilledOK DEF HostTimesOut, HostKilled
<1>2. /\ exec' \in [Runs -> {"idle", "spawning", "closing", "communicating", "reaping", "ended", "stored"}]
      /\ exec[r] = "communicating"
      /\ exec'[r] = "reaping" \/ (proc[r] = "gone" /\ exec'[r] = "ended")
      /\ \A s \in Runs : s # r => exec'[s] = exec[s]
  <2>1. CASE proc[r] = "gone"
    BY <2>1, EndedOK DEF HostTimesOut
  <2>2. CASE proc[r] # "gone"
    BY <2>2 DEF HostTimesOut, Types
  <2> QED BY <2>1, <2>2
<1>3. /\ kind[r] = "host" /\ interrupt[r] = "none"
      /\ UNCHANGED <<kind, interrupt, box, active, cleanups, helper, missed>>
  BY DEF HostTimesOut
<1>4. Types' /\ \A s \in Runs \ {r} : Alone(s)
  BY <1>1, <1>2, <1>3 DEF Types, Alone
<1>5. TableEntry(r)'
  BY <1>1, <1>2, <1>3 DEF Sound, TableEntry, TasksOf, HostTasks, Entries, HostAwaited,
                          WillClear, Over
<1>6. Remains(r)'
  BY <1>1, <1>2, <1>3 DEF Sound, Remains, Nothing, ProcessEnds, ContainerEnds, Stopped, Over
<1> QED BY <1>4, <1>5, <1>6 DEF Kept, Sound

\* The call of cancel, the client's or the one after the timeout, is now to clear the entry.
LEMMA HostReapCancelledKeeps ==
  ASSUME Types, NEW r \in Runs, Sound(r), HostReapCancelled(r)
  PROVE  Kept(r)
<1>1. /\ exec' \in [Runs -> {"idle", "spawning", "closing", "communicating", "reaping", "ended", "stored"}]
      /\ exec[r] = "reaping" /\ exec'[r] = "ended"
      /\ \A s \in Runs : s # r => exec'[s] = exec[s]
  BY EndedOK DEF HostReapCancelled
<1>2. /\ helper' \in [Runs -> [Helpers ->
           {"none", "called", "gathering", "stopping", "killing", "waiting", "ended"}]]
      /\ \A k \in {"cleanup", "cancel"} : helper'[r][k] = helper[r][k]
      /\ helper'[r]["timeout"] =
           IF interrupt[r] = "timeout" THEN "called" ELSE helper[r]["timeout"]
      /\ \A s \in Runs : s # r => helper'[s] = helper[s]
  BY TimeoutHelperOK DEF HostReapCancelled, Types
<1>3. /\ interrupt[r] \in {"cancel", "timeout"}
      /\ UNCHANGED <<kind, interrupt, proc, box, active, cleanups, missed>>
  BY DEF HostReapCancelled, world, Types
<1>4. Types' /\ \A s \in Runs \ {r} : Alone(s)
  BY <1>1, <1>2, <1>3 DEF Types, Alone
<1>5. TasksOf(r)' /\ HostTasks(r)' /\ Entries(r)'
  <2>1. /\ helper'[r]["timeout"] \in {"called", helper[r]["timeout"]}
        /\ helper'[r]["cleanup"] = helper[r]["cleanup"]
        /\ helper'[r]["cancel"] = helper[r]["cancel"]
    BY <1>2
  <2>2. TasksOf(r) /\ HostTasks(r) /\ Entries(r)
    BY DEF Sound, TableEntry
  <2> QED BY <1>1, <1>3, <2>1, <2>2 DEF TasksOf, HostTasks, Entries, Over, Helpers
<1>6. HostAwaited(r)'
  <2>1. HostAwaited(r)
    BY DEF Sound, TableEntry
  <2> QED BY <1>1, <1>2, <1>3, <2>1 DEF HostAwaited, WillClear, Over, Helpers
<1>7. Remains(r)'
  <2>1. /\ helper'[r]["timeout"] \in {"called", helper[r]["timeout"]}
        /\ helper'[r]["cleanup"] = helper[r]["cleanup"]
        /\ helper'[r]["cancel"] = helper[r]["cancel"]
    BY <1>2
  <2>2. Remains(r) /\ kind[r] = "host"
    BY <1>1 DEF Sound, TableEntry, TasksOf
  <2> QED BY <1>1, <1>3, <2>1, <2>2 DEF Remains, Nothing, ProcessEnds, ContainerEnds, Stopped,
                                        Over, Helpers
<1> QED BY <1>4, <1>5, <1>6, <1>7 DEF Kept, Sound, TableEntry

\* A run is settled only when its execute has ended.
LEMMA WorkerStoresKeeps ==
  ASSUME Types, NEW r \in Runs, Sound(r), WorkerStores(r)
  PROVE  Kept(r)
<1>1. /\ exec' \in [Runs -> {"idle", "spawning", "closing", "communicating", "reaping", "ended", "stored"}]
      /\ exec[r] = "ended" /\ exec'[r] = "stored"
      /\ \A s \in Runs : s # r => exec'[s] = exec[s]
      /\ UNCHANGED <<kind, interrupt, proc, box, active, cleanups, helper, missed>>
  BY DEF WorkerStores, Types
<1>2. Types' /\ \A s \in Runs \ {r} : Alone(s)
  BY <1>1 DEF Types, Alone
<1>3. TableEntry(r)'
  BY <1>1 DEF Sound, TableEntry, TasksOf, HostTasks, Entries, HostAwaited, WillClear, Over
<1>4. Remains(r)'
  BY <1>1 DEF Sound, Remains, Nothing, ProcessEnds, ContainerEnds, Stopped, Over
<1> QED BY <1>2, <1>3, <1>4 DEF Kept, Sound

-----------------------------------------------------------------------------
(***************************************************************************)
(* backend.cancel and the clean-up task.                                   *)
(***************************************************************************)
\* The interrupt and the call of backend.cancel come in one step.
LEMMA CancelKeeps ==
  ASSUME Types, NEW r \in Runs, Sound(r), Cancel(r)
  PROVE  Kept(r)
<1>1. /\ interrupt' \in [Runs -> {"none", "cancel", "timeout"}]
      /\ interrupt'[r] = IF exec[r] = "ended" \/ interrupt[r] # "none"
                         THEN interrupt[r] ELSE "cancel"
      /\ \A s \in Runs : s # r => interrupt'[s] = interrupt[s]
  BY DEF Cancel, Types
<1>2. /\ helper' \in [Runs -> [Helpers ->
           {"none", "called", "gathering", "stopping", "killing", "waiting", "ended"}]]
      /\ helper'[r]["cancel"] = "called"
      /\ \A j \in Helpers : j # "cancel" => helper'[r][j] = helper[r][j]
      /\ \A s \in Runs : s # r => helper'[s] = helper[s]
  <2>1. Step(r, "cancel", "called")
    BY DEF Cancel, Step
  <2> QED BY <2>1, StepOK DEF Helpers
<1>3. /\ exec[r] \notin {"idle", "stored"} /\ helper[r]["cancel"] = "none"
      /\ UNCHANGED <<kind, exec, proc, box, active, cleanups, missed>>
  BY DEF Cancel, world
<1>4. Types' /\ \A s \in Runs \ {r} : Alone(s)
  BY <1>1, <1>2, <1>3 DEF Types, Alone
<1>5. TableEntry(r)'
  BY <1>1, <1>2, <1>3 DEF Sound, TableEntry, TasksOf, HostTasks, Entries, HostAwaited,
                          WillClear, Over, Types, Helpers
<1>6. Remains(r)'
  BY <1>1, <1>2, <1>3 DEF Sound, Remains, Nothing, ProcessEnds, ContainerEnds, Stopped,
                          Over, Helpers
<1> QED BY <1>4, <1>5, <1>6 DEF Kept, Sound

\* A timer interrupts an execute that has not ended.
LEMMA TimerFiresKeeps ==
  ASSUME Types, NEW r \in Runs, Sound(r), TimerFires(r)
  PROVE  Kept(r)
<1>1. /\ interrupt' \in [Runs -> {"none", "cancel", "timeout"}]
      /\ interrupt[r] = "none" /\ interrupt'[r] = "timeout"
      /\ \A s \in Runs : s # r => interrupt'[s] = interrupt[s]
      /\ UNCHANGED <<kind, exec, proc, box, active, cleanups, helper, missed>>
  BY DEF TimerFires, Types, world
<1>2. Types' /\ \A s \in Runs \ {r} : Alone(s)
  BY <1>1 DEF Types, Alone
<1>3. TableEntry(r)'
  BY <1>1 DEF Sound, TableEntry, TasksOf, HostTasks, Entries, HostAwaited, WillClear, Over
<1>4. Remains(r)'
  BY <1>1 DEF Sound, Remains, Nothing, ProcessEnds, ContainerEnds, Stopped, Over
<1> QED BY <1>2, <1>3, <1>4 DEF Kept, Sound

\* cancel of a container run waits for its clean-up task, stops the container, or
\* finds the run over.
LEMMA ContainerCancelCalledKeeps ==
  ASSUME Types, NEW r \in Runs, Sound(r), NEW k \in Helpers, ContainerCancelCalled(r, k)
  PROVE  Kept(r)
<1>1. PICK to \in {"gathering", "stopping", "ended"} : Step(r, k, to)
  BY DEF ContainerCancelCalled
<1>2. /\ helper' \in [Runs -> [Helpers ->
           {"none", "called", "gathering", "stopping", "killing", "waiting", "ended"}]]
      /\ helper'[r][k] = to
      /\ \A j \in Helpers : j # k => helper'[r][j] = helper[r][j]
      /\ \A s \in Runs : s # r => helper'[s] = helper[s]
  BY <1>1, StepOK
<1>3. /\ active' \subseteq Runs /\ cleanups' \subseteq Runs
      /\ active' = active \/ r \notin active'
      /\ cleanups' = cleanups \/ r \notin cleanups'
      /\ \A s \in Runs : s # r => /\ s \in active' <=> s \in active
                                  /\ s \in cleanups' <=> s \in cleanups
  BY ClearOK DEF ContainerCancelCalled, Types
<1>4. /\ kind[r] = "container" /\ helper[r][k] = "called"
      /\ UNCHANGED <<kind, exec, interrupt, proc, box, missed>>
  BY DEF ContainerCancelCalled, world
<1>5. k # "cleanup" /\ k \in {"cancel", "timeout"}
  BY <1>4 DEF Sound, TableEntry, TasksOf, Helpers
<1>6. Types' /\ \A s \in Runs \ {r} : Alone(s)
  BY <1>2, <1>3, <1>4 DEF Types, Alone
<1>7. TableEntry(r)'
  BY <1>2, <1>3, <1>4, <1>5 DEF Sound, TableEntry, TasksOf, HostTasks, Entries, HostAwaited,
                                WillClear, Over, Helpers
<1>8. Remains(r)'
  BY <1>2, <1>3, <1>4, <1>5 DEF Sound, Remains, Nothing, ProcessEnds, ContainerEnds, Stopped,
                                Over, Helpers
<1> QED BY <1>6, <1>7, <1>8 DEF Kept, Sound

\* A host's call of cancel finds the process gone, the entry cleared, or it waits.
LEMMA HostCancelCalledKeeps ==
  ASSUME Types, NEW r \in Runs, Sound(r), NEW k \in Helpers, HostCancelCalled(r, k)
  PROVE  Kept(r)
<1>1. PICK to \in {"gathering", "waiting", "ended"} :
        /\ Step(r, k, to)
        /\ to = "gathering" => Live(r, "cleanup")
        /\ to = "ended" => r \notin active \/ proc[r] = "gone"
  BY DEF HostCancelCalled, HasCleanup
<1>2. /\ helper' \in [Runs -> [Helpers ->
           {"none", "called", "gathering", "stopping", "killing", "waiting", "ended"}]]
      /\ helper'[r][k] = to
      /\ \A j \in Helpers : j # k => helper'[r][j] = helper[r][j]
      /\ \A s \in Runs : s # r => helper'[s] = helper[s]
  BY <1>1, StepOK
<1>3. /\ proc' \in [Runs -> {"none", "running", "dying", "exited", "gone"}]
      /\ \A s \in Runs : s # r => proc'[s] = proc[s]
      /\ proc'[r] = proc[r] \/ (proc[r] = "running" /\ proc'[r] = "dying")
  BY KilledOK DEF HostCancelCalled, Types
<1>4. /\ kind[r] = "host" /\ helper[r][k] = "called"
      /\ UNCHANGED <<kind, exec, interrupt, box, active, cleanups, missed>>
  BY DEF HostCancelCalled
<1>5. k # "cleanup" /\ k \in {"cancel", "timeout"}
  BY <1>4 DEF Sound, TableEntry, TasksOf, Helpers
<1>6. Types' /\ \A s \in Runs \ {r} : Alone(s)
  BY <1>2, <1>3, <1>4 DEF Types, Alone
<1>7. TasksOf(r)' /\ HostTasks(r)' /\ Entries(r)'
  <2>1. TasksOf(r) /\ HostTasks(r) /\ Entries(r)
    BY DEF Sound, TableEntry
  <2> QED BY <1>1, <1>2, <1>4, <1>5, <2>1 DEF TasksOf, HostTasks, Entries, Over, Helpers, Live
<1>8. HostAwaited(r)'
  <2>1. HostAwaited(r)
    BY DEF Sound, TableEntry
  <2> QED BY <1>1, <1>2, <1>3, <1>4, <1>5, <2>1 DEF HostAwaited, WillClear, Over, Helpers, Live
<1>9. Remains(r)'
  BY <1>1, <1>2, <1>3, <1>4, <1>5 DEF Sound, Remains, Nothing, ProcessEnds, ContainerEnds,
                                      Stopped, Over, Helpers
<1> QED BY <1>6, <1>7, <1>8, <1>9 DEF Kept, Sound, TableEntry

\* A cancel that waited for the clean-up task is over after it.
LEMMA GatheredKeeps ==
  ASSUME Types, NEW r \in Runs, Sound(r), NEW k \in Helpers, Gathered(r, k)
  PROVE  Kept(r)
<1>1. /\ helper' \in [Runs -> [Helpers ->
           {"none", "called", "gathering", "stopping", "killing", "waiting", "ended"}]]
      /\ helper'[r][k] = "ended"
      /\ \A j \in Helpers : j # k => helper'[r][j] = helper[r][j]
      /\ \A s \in Runs : s # r => helper'[s] = helper[s]
  BY StepOK DEF Gathered
<1>2. /\ helper[r][k] = "gathering"
      /\ UNCHANGED <<kind, exec, interrupt, proc, box, active, cleanups, missed>>
  BY DEF Gathered, world
<1>3. k # "cleanup" /\ k \in {"cancel", "timeout"}
  BY <1>2 DEF Sound, TableEntry, TasksOf, Helpers
<1>4. Types' /\ \A s \in Runs \ {r} : Alone(s)
  BY <1>1, <1>2 DEF Types, Alone
<1>5. TableEntry(r)'
  BY <1>1, <1>2, <1>3 DEF Sound, TableEntry, TasksOf, HostTasks, Entries, HostAwaited,
                          WillClear, Over, Helpers
<1>6. Remains(r)'
  BY <1>1, <1>2, <1>3 DEF Sound, Remains, Nothing, ProcessEnds, ContainerEnds, Stopped,
                          Over, Helpers
<1> QED BY <1>4, <1>5, <1>6 DEF Kept, Sound

\* The kill comes after the container was stopped; where it raises, only the clean-up
\* task clears the tables.
LEMMA KillClientKeeps ==
  ASSUME Types, NEW r \in Runs, Sound(r), NEW k \in Helpers, KillClient(r, k)
  PROVE  Kept(r)
<1>1. PICK to \in {"ended", "waiting"} :
        /\ Step(r, k, to)
        /\ to = "ended" /\ k = "cleanup" => r \notin active' \cup cleanups'
  BY ClearOK DEF KillClient
<1>2. /\ helper' \in [Runs -> [Helpers ->
           {"none", "called", "gathering", "stopping", "killing", "waiting", "ended"}]]
      /\ helper'[r][k] = to
      /\ \A j \in Helpers : j # k => helper'[r][j] = helper[r][j]
      /\ \A s \in Runs : s # r => helper'[s] = helper[s]
  BY <1>1, StepOK
<1>3. /\ active' \subseteq Runs /\ cleanups' \subseteq Runs
      /\ active' = active \/ r \notin active'
      /\ cleanups' = cleanups \/ r \notin cleanups'
      /\ \A s \in Runs : s # r => /\ s \in active' <=> s \in active
                                  /\ s \in cleanups' <=> s \in cleanups
  BY ClearOK DEF KillClient, Types
<1>4. /\ proc' \in [Runs -> {"none", "running", "dying", "exited", "gone"}]
      /\ \A s \in Runs : s # r => proc'[s] = proc[s]
      /\ proc'[r] # "running"
      /\ proc'[r] = proc[r] \/ (proc[r] = "running" /\ proc'[r] = "dying")
  BY KilledOK DEF KillClient
<1>5. /\ helper[r][k] = "killing"
      /\ UNCHANGED <<kind, exec, interrupt, box, missed>>
  BY DEF KillClient
<1>6. kind[r] = "container" /\ Stopped(r)
  BY <1>5 DEF Sound, TableEntry, HostTasks, Remains, ContainerEnds, Types
<1>7. Types' /\ \A s \in Runs \ {r} : Alone(s)
  BY <1>2, <1>3, <1>4, <1>5 DEF Types, Alone
<1>8. TableEntry(r)'
  <2>1. TasksOf(r) /\ HostTasks(r) /\ Entries(r)
    BY DEF Sound, TableEntry
  <2>2. TasksOf(r)' /\ HostTasks(r)' /\ Entries(r)'
    BY <1>1, <1>2, <1>3, <1>5, <1>6, <2>1 DEF TasksOf, HostTasks, Entries, Over, Helpers
  <2>3. HostAwaited(r)'
    BY <1>5, <1>6 DEF HostAwaited
  <2> QED BY <2>2, <2>3 DEF TableEntry
<1>9. Remains(r)'
  BY <1>1, <1>2, <1>4, <1>5, <1>6 DEF Sound, Remains, Nothing, ProcessEnds, ContainerEnds,
                                      Stopped, Over, Helpers
<1> QED BY <1>7, <1>8, <1>9 DEF Kept, Sound

\* Whichever task ends its wait clears both tables, the entries of the clean-up task too.
LEMMA WaitEndsKeeps ==
  ASSUME Types, NEW r \in Runs, Sound(r), NEW k \in Helpers, WaitEnds(r, k)
  PROVE  Kept(r)
<1>1. /\ helper' \in [Runs -> [Helpers ->
           {"none", "called", "gathering", "stopping", "killing", "waiting", "ended"}]]
      /\ helper'[r][k] = "ended"
      /\ \A j \in Helpers : j # k => helper'[r][j] = helper[r][j]
      /\ \A s \in Runs : s # r => helper'[s] = helper[s]
  BY StepOK DEF WaitEnds
<1>2. /\ active' \subseteq Runs /\ cleanups' \subseteq Runs
      /\ r \notin active' \cup cleanups'
      /\ \A s \in Runs : s # r => /\ s \in active' <=> s \in active
                                  /\ s \in cleanups' <=> s \in cleanups
  BY ClearOK DEF WaitEnds
<1>3. /\ helper[r][k] = "waiting"
      /\ UNCHANGED <<kind, exec, interrupt, proc, box, missed>>
  BY DEF WaitEnds, world
<1>4. Types' /\ \A s \in Runs \ {r} : Alone(s)
  BY <1>1, <1>2, <1>3 DEF Types, Alone
<1>5. TableEntry(r)'
  BY <1>1, <1>2, <1>3 DEF Sound, TableEntry, TasksOf, HostTasks, Entries, HostAwaited,
                          WillClear, Over, Helpers
<1>6. Remains(r)'
  BY <1>1, <1>2, <1>3 DEF Sound, Remains, Nothing, ProcessEnds, ContainerEnds, Stopped,
                          Over, Helpers
<1> QED BY <1>4, <1>5, <1>6 DEF Kept, Sound

-----------------------------------------------------------------------------
(***************************************************************************)
(* Stopping a container by its name, which another run may have by then.   *)
(***************************************************************************)
\* What a run sees of the clean-up of another: its container is stopped and removed, and
\* its docker client ends if it had not yet.
ContainerTaken(h) ==
  /\ box[h] \in {"created", "running"} /\ box'[h] = "gone"
  /\ proc'[h] = proc[h] \/ (proc[h] = "running" /\ proc'[h] = "exited")

\* What a run's own task does here: it goes on to the kill.
GoesOn(s, r, k) ==
  IF s = r THEN /\ helper[s][k] = "stopping" /\ helper'[s][k] = "killing"
                /\ \A j \in Helpers : j # k => helper'[s][j] = helper[s][j]
                /\ box'[s] = "gone" \/ s \in missed'
           ELSE helper'[s] = helper[s]

\* A container may be taken from any run at any time, without harm to what is known of it.
LEMMA TakenKeeps ==
  ASSUME Types, NEW s \in Runs, Sound(s), NEW r \in Runs, NEW k \in Helpers,
         GoesOn(s, r, k), r = s => kind[s] = "container",
         ContainerTaken(s) \/ (box'[s] = box[s] /\ proc'[s] = proc[s]),
         s \in missed => s \in missed',
         UNCHANGED <<kind, exec, interrupt, active, cleanups>>
  PROVE  Sound(s)'
<1>1. TasksOf(s)' /\ HostTasks(s)' /\ Entries(s)'
  BY DEF GoesOn, Sound, TableEntry, TasksOf, HostTasks, Entries, Over, Helpers
<1>2. HostAwaited(s)'
  <2>1. HostAwaited(s)
    BY DEF Sound, TableEntry
  <2>2. CASE s = r
    BY <2>2 DEF HostAwaited
  <2>3. CASE s # r
    BY <2>1, <2>3 DEF GoesOn, ContainerTaken, HostAwaited, WillClear, Over
  <2> QED BY <2>2, <2>3
<1>3. Remains(s)'
  <2>1. Remains(s)
    BY DEF Sound
  <2>2. Nothing(s)'
    BY <2>1 DEF Remains, Nothing, ContainerTaken
  <2>3. ProcessEnds(s)'
    BY <2>1 DEF Remains, ProcessEnds, ContainerTaken, GoesOn, Over, Helpers
  <2>4. ContainerEnds(s)'
    BY <2>1 DEF Remains, ContainerEnds, ContainerTaken, GoesOn, Over, Helpers, Stopped
  <2> QED BY <2>2, <2>3, <2>4 DEF Remains
<1> QED BY <1>1, <1>2, <1>3 DEF Sound, TableEntry

\* Stopping a container takes it away from any run that has the same name.
LEMMA StopActiveRunKeeps ==
  ASSUME Types, BackendInv, NEW r \in Runs, NEW k \in Helpers, StopActiveRun(r, k)
  PROVE  Types' /\ BackendInv'
<1>1. /\ helper' \in [Runs -> [Helpers ->
           {"none", "called", "gathering", "stopping", "killing", "waiting", "ended"}]]
      /\ helper'[r][k] = "killing"
      /\ \A j \in Helpers : j # k => helper'[r][j] = helper[r][j]
      /\ \A s \in Runs : s # r => helper'[s] = helper[s]
  BY StepOK DEF StopActiveRun
<1>2. helper[r][k] = "stopping" /\ UNCHANGED <<kind, exec, interrupt, active, cleanups>>
  BY DEF StopActiveRun
<1>3. kind[r] = "container"
  BY <1>2 DEF BackendInv, Sound, TableEntry, HostTasks, Types
<1>4. /\ proc' \in [Runs -> {"none", "running", "dying", "exited", "gone"}]
      /\ box' \in [Runs -> {"none", "created", "running", "gone"}]
      /\ missed' \subseteq Runs /\ \A s \in Runs : s \in missed => s \in missed'
      /\ box'[r] = "gone" \/ r \in missed'
      /\ \A s \in Runs : ContainerTaken(s) \/ (box'[s] = box[s] /\ proc'[s] = proc[s])
  <2>1. CASE StopContainer(r)
    <3>1. PICK h \in Runs :
            /\ box[h] \in {"created", "running"}
            /\ box' = [box EXCEPT ![h] = "gone"]
            /\ \E part : Leave(h, part)
            /\ missed' = IF h = r \/ box[r] = "gone" THEN missed ELSE missed \cup {r}
      BY <2>1 DEF StopContainer, Holders, Exists
    <3>2. /\ proc' \in [Runs -> {"none", "running", "dying", "exited", "gone"}]
          /\ \A s \in Runs : s # h => proc'[s] = proc[s]
          /\ proc'[h] = proc[h] \/ (proc[h] = "running" /\ proc'[h] = "exited")
      BY <3>1, LeaveOK
    <3>3. /\ box' \in [Runs -> {"none", "created", "running", "gone"}]
          /\ box'[h] = "gone" /\ \A s \in Runs : s # h => box'[s] = box[s]
      BY <3>1 DEF Types
    <3>4. missed' \subseteq Runs /\ \A s \in Runs : s \in missed => s \in missed'
      BY <3>1 DEF Types
    <3>5. box'[r] = "gone" \/ r \in missed'
      BY <3>1, <3>3
    <3>6. \A s \in Runs : ContainerTaken(s) \/ (box'[s] = box[s] /\ proc'[s] = proc[s])
      BY <3>1, <3>2, <3>3 DEF ContainerTaken
    <3> QED BY <3>2, <3>3, <3>4, <3>5, <3>6
  <2>2. CASE StopContainerFails(r)
    BY <2>2 DEF StopContainerFails, Types
  <2> QED BY <2>1, <2>2 DEF StopActiveRun
<1>5. Types'
  BY <1>1, <1>2, <1>4 DEF Types
<1>6. ASSUME NEW s \in Runs PROVE Sound(s)'
  <2>1. GoesOn(s, r, k)
    BY <1>1, <1>2, <1>4 DEF GoesOn
  <2>2. Sound(s)
    BY DEF BackendInv
  <2> QED BY <1>2, <1>3, <1>4, <2>1, <2>2, TakenKeeps
<1> QED BY <1>5, <1>6 DEF BackendInv

-----------------------------------------------------------------------------
(***************************************************************************)
(* The theorems.                                                           *)
(***************************************************************************)
LEMMA KeptInv ==
  ASSUME BackendInv, NEW r \in Runs, Kept(r)
  PROVE  Types' /\ BackendInv'
<1>1. ASSUME NEW s \in Runs PROVE Sound(s)'
  <2>1. CASE s = r
    BY <2>1 DEF Kept
  <2>2. CASE s # r
    BY <2>2, AloneKeeps DEF Kept, BackendInv
  <2> QED BY <2>1, <2>2
<1> QED BY <1>1 DEF Kept, BackendInv

\* Every step keeps the invariant of every run.
LEMMA NextKeeps == Types /\ BackendInv /\ [Next]_vars => Types' /\ BackendInv'
<1> SUFFICES ASSUME Types, BackendInv, [Next]_vars PROVE Types' /\ BackendInv'
  OBVIOUS
<1>1. CASE UNCHANGED vars
  <2>1. Types'
    BY <1>1 DEF vars, Types
  <2>2. ASSUME NEW s \in Runs PROVE Sound(s)'
    <3>1. Sound(s) /\ Alone(s)
      BY <1>1 DEF BackendInv, Alone, vars
    <3> QED BY <3>1, AloneKeeps
  <2> QED BY <2>1, <2>2 DEF BackendInv
<1>2. ASSUME NEW r \in Runs, ExecuteRefused(r) \/ ExecuteStarts(r) \/ ExecuteRegisters(r)
      PROVE  Types' /\ BackendInv'
  <2>1. Sound(r)
    BY DEF BackendInv
  <2>2. Kept(r)
    BY <1>2, <2>1, ExecuteRefusedKeeps, ExecuteStartsKeeps, ExecuteRegistersKeeps
  <2> QED BY <2>2, KeptInv
<1>3. ASSUME NEW r \in Runs,
             HostTimesOut(r) \/ HostReaped(r) \/ WorkerStores(r) \/ Cancel(r) \/ TimerFires(r)
      PROVE  Types' /\ BackendInv'
  <2>1. Sound(r)
    BY DEF BackendInv
  <2>2. Kept(r)
    BY <1>3, <2>1, HostTimesOutKeeps, HostReapedKeeps, WorkerStoresKeeps, CancelKeeps,
       TimerFiresKeeps
  <2> QED BY <2>2, KeptInv
<1>4. ASSUME NEW r \in Runs, Unwinds(r) PROVE Types' /\ BackendInv'
  <2>1. Sound(r)
    BY DEF BackendInv
  <2>2. Kept(r)
    BY <1>4, <2>1, SpawnCancelledKeeps, SpawnClosedKeeps, CommunicateReturnsKeeps,
       ContainerCancelledKeeps, HostCancelledKeeps, HostReapCancelledKeeps DEF Unwinds
  <2> QED BY <2>2, KeptInv
<1>5. ASSUME NEW r \in Runs, HelperSteps(r) PROVE Types' /\ BackendInv'
  <2>1. Sound(r)
    BY DEF BackendInv
  <2>2. PICK k \in Helpers :
          \/ ContainerCancelCalled(r, k) \/ HostCancelCalled(r, k) \/ Gathered(r, k)
          \/ StopActiveRun(r, k) \/ KillClient(r, k) \/ WaitEnds(r, k)
    BY <1>5 DEF HelperSteps
  <2>3. CASE StopActiveRun(r, k)
    BY <2>3, StopActiveRunKeeps
  <2>4. CASE ~StopActiveRun(r, k)
    <3>1. Kept(r)
      BY <2>1, <2>2, <2>4, ContainerCancelCalledKeeps, HostCancelCalledKeeps, GatheredKeeps,
         KillClientKeeps, WaitEndsKeeps
    <3> QED BY <3>1, KeptInv
  <2> QED BY <2>3, <2>4
<1>6. ASSUME NEW r \in Runs, World(r) PROVE Types' /\ BackendInv'
  <2>1. Sound(r)
    BY DEF BackendInv
  <2>2. Kept(r)
    BY <1>6, <2>1, CliCreatesKeeps, CliStartsKeeps, ProcessMovesKeeps, RunnerEndsKeeps
       DEF World
  <2> QED BY <2>2, KeptInv
<1> QED BY <1>1, <1>2, <1>3, <1>4, <1>5, <1>6 DEF Next

\* The inductive invariant, and the types it needs, hold in every reachable state of
\* execute, cancel and the clean-up tasks.
THEOREM BackendInvariant == Spec => [](Types /\ BackendInv)
<1>1. Init => Types /\ BackendInv
  BY InitSound
<1>2. Types /\ BackendInv /\ [Next]_vars => (Types /\ BackendInv)'
  BY NextKeeps
<1> QED BY <1>1, <1>2, PTL DEF Spec

\* Whatever order execute, its clean-up task and the calls of cancel end in, a run they
\* are through with is in none of the backend's tables, unless a host process had gone
\* before kill could be called.
THEOREM TablesAreCleared == Spec => []TablesCleared
<1>1. Types /\ BackendInv => TablesCleared
  <2> SUFFICES ASSUME Types, BackendInv, NEW r \in Runs, Settled(r), r \in active \cup cleanups
               PROVE  kind[r] = "host" /\ proc[r] = "gone"
    BY DEF TablesCleared
  <2>1. Over(r) /\ \A k \in Helpers : helper[r][k] \in {"none", "ended"}
    BY DEF Settled, Live, Types
  <2>2. TasksOf(r) /\ Entries(r) /\ HostAwaited(r)
    BY DEF BackendInv, Sound, TableEntry
  <2>3. helper[r]["cleanup"] = "none" /\ r \in active
    BY <2>1, <2>2 DEF Entries, Helpers
  <2>4. kind[r] = "host"
    BY <2>1, <2>2, <2>3 DEF Entries, Types
  <2>5. proc[r] = "gone"
    BY <2>1, <2>2, <2>3, <2>4 DEF HostAwaited, WillClear, Over, Helpers
  <2> QED BY <2>4, <2>5
<1> QED BY <1>1, BackendInvariant, PTL

\* No child process and no container that was there to be stopped outlives its run,
\* although the clean-up tasks of other runs may act on the same container name.
THEOREM NothingRunsOn == Spec => []NothingLeftRunning
<1>1. Types /\ BackendInv => NothingLeftRunning
  <2> SUFFICES ASSUME Types, BackendInv, NEW r \in Runs
               PROVE  /\ (IF kind[r] = "host" THEN Over(r) ELSE Settled(r)) => proc[r] # "running"
                      /\ Settled(r) /\ Exists(r) => r \in missed
    BY DEF NothingLeftRunning, NoProcessLeft, NoContainerLeft
  <2>1. Remains(r)
    BY DEF BackendInv, Sound
  <2>2. Settled(r) => Over(r) /\ helper[r]["cleanup"] \in {"none", "ended"}
    BY DEF Settled, Live, Types, Helpers
  <2>3. kind[r] \in {"host", "container"}
    BY DEF Types
  <2>4. (IF kind[r] = "host" THEN Over(r) ELSE Settled(r)) => proc[r] # "running"
    BY <2>1, <2>2, <2>3 DEF Remains, ProcessEnds
  <2>5. Settled(r) /\ Exists(r) => r \in missed
    BY <2>1, <2>2, <2>3 DEF Remains, Nothing, ContainerEnds, Stopped, Exists
  <2> QED BY <2>4, <2>5
<1> QED BY <1>1, BackendInvariant, PTL

-----------------------------------------------------------------------------
(***************************************************************************)
(* Answers.                                                                *)
(***************************************************************************)
\* What a process can have written: tools print no success after the runner's own frame,
\* nor where the runner reports nothing; but one that was stopped may have printed any.
Fair(out) ==
  /\ out.before \in Seq(Tokens) /\ out.after \in Seq(Tokens)
  /\ out.status \in {"success", "error", "timeout", "nothing", "stopped"}
  /\ ~ForgesSuccess(out.after)
  /\ out.status \in {"nothing", "stopped"} => out.after = <<>>
  /\ out.status = "nothing" => ~SaysSuccess(out.before)

\* Nothing is read of a process before it has ended or is killed.
Heard(r) ==
  /\ Fair(stdout[r])
  /\ proc[r] \in {"none", "running"} => stdout[r] = Silence

\* The answer the output of a run deserves.
Deserved(r) == Outcome(Written(stdout[r]))

\* A run that nobody interrupted has the answer its output deserves, or that of the
\* executor's limit, or is still in the table, where no call of cancel touches it; it
\* is in the table while it communicates.
Uninterrupted(r) ==
  interrupt[r] = "none" =>
    /\ exec[r] = "communicating" => r \in active
    /\ exec[r] = "ended" =>
         \/ /\ r \in active /\ kind[r] = "host" /\ proc[r] = "gone"
            /\ \A k \in Helpers : helper[r][k] \in {"none", "called", "ended"}
         \/ /\ r \notin active
            /\ \/ answer[r] = "timeout" \/ proc[r] = "none"
               \/ Reaped(r) /\ answer[r] = Deserved(r)

Answered(r) ==
  /\ answer[r] # "none" => exec[r] = "ended"
  /\ answer[r] = "completed" => Reaped(r) /\ Deserved(r) = "completed"
  /\ Uninterrupted(r)

AnswerTypes ==
  /\ stdout = [r \in Runs |-> stdout[r]]
  /\ answer = [r \in Runs |-> answer[r]]

AnswerInv == AnswerTypes /\ \A r \in Runs : Heard(r) /\ Answered(r)

-----------------------------------------------------------------------------
\* A set of numbers up to n that is not empty has a greatest one.
LEMMA HasGreatest ==
  ASSUME NEW n \in Nat, NEW S \in SUBSET (0 .. n), S # {}
  PROVE  \E x \in S : \A y \in S : y <= x
<1> DEFINE T == {n - x : x \in S}
<1>1. T \in SUBSET Nat /\ T # {}
  <2>1. \A x \in S : n - x \in Nat
    OBVIOUS
  <2>2. PICK x \in S : TRUE
    OBVIOUS
  <2> QED BY <2>1, <2>2
<1>2. PICK t \in T : \A y \in T : ~(<<y, t>> \in OpToRel(<, Nat))
  BY <1>1, NatLessThanWellFounded, WFMin
<1>3. \A y \in T : t <= y
  <2> TAKE y \in T
  <2>1. <<y, t>> \in Nat \X Nat
    BY <1>1
  <2>2. ~(y < t)
    BY <1>2, <2>1 DEF OpToRel
  <2> QED BY <1>1, <2>2
<1>4. PICK x \in S : t = n - x
  BY <1>2
<1>5. \A y \in S : y <= x
  <2> TAKE y \in S
  <2>1. n - x <= n - y
    BY <1>3, <1>4
  <2> QED BY <2>1
<1> QED BY <1>5

\* stdout.rfind finds the last start marker.
LEMMA FrameStartIsLast ==
  ASSUME NEW text \in Seq(Tokens), Found(text, "start") # {}
  PROVE  /\ FrameStart(text) \in 1 .. Len(text) /\ text[FrameStart(text)] = "start"
         /\ \A j \in 1 .. Len(text) : text[j] = "start" => j <= FrameStart(text)
<1> DEFINE S == Found(text, "start")
<1>1. S \in SUBSET (0 .. Len(text)) /\ Len(text) \in Nat /\ DOMAIN text = 1 .. Len(text)
  BY DEF Found
<1>2. \E x \in S : \A y \in S : y <= x
  BY <1>1, HasGreatest
<1>3. FrameStart(text) \in S /\ \A y \in S : y <= FrameStart(text)
  BY <1>2 DEF FrameStart
<1> QED BY <1>1, <1>3 DEF Found

\* The end marker that closes a frame is the first one after its start.
LEMMA FirstEndAfter ==
  ASSUME NEW S \in SUBSET Nat, S # {}
  PROVE  LET e == CHOOSE i \in S : \A j \in S : i <= j IN e \in S /\ \A j \in S : e <= j
<1>1. PICK x \in S : \A y \in S : ~(<<y, x>> \in OpToRel(<, Nat))
  BY NatLessThanWellFounded, WFMin
<1>2. \A y \in S : x <= y
  <2> TAKE y \in S
  <2>1. <<y, x>> \in Nat \X Nat
    OBVIOUS
  <2>2. ~(y < x)
    BY <1>1, <2>1 DEF OpToRel
  <2> QED BY <2>2
<1> QED BY <1>2

\* What is cut out between two places is one token if one is there.
LEMMA OneBetween ==
  ASSUME NEW text \in Seq(Tokens), NEW k \in Nat, NEW e \in Nat, 1 <= k, k < e, e <= Len(text),
         SubSeq(text, k + 1, e - 1) = <<"success">>
  PROVE  e = k + 2 /\ text[k + 1] = "success"
<1>1. PICK n : n = Len(SubSeq(text, k + 1, e - 1))
  OBVIOUS
<1>2. n = e - 1 - k
  BY <1>1, SubSeqProperties
<1>3. n = 1
  BY <1>1
<1>4. e = k + 2
  BY <1>2, <1>3
<1>5. SubSeq(text, k + 1, k + 1)[1] = text[k + 1]
  <2>1. k + 1 <= Len(text) /\ Len(text) \in Nat
    BY <1>4
  <2> QED BY <2>1, SubSeqProperties
<1>6. e - 1 = k + 1
  BY <1>4
<1>7. SubSeq(text, k + 1, k + 1)[1] = "success"
  <2>1. <<"success">>[1] = "success"
    OBVIOUS
  <2>2. SubSeq(text, k + 1, e - 1)[1] = <<"success">>[1]
    BY Zenon
  <2> QED BY <1>6, <2>1, <2>2
<1>8. text[k + 1] = "success"
  BY <1>5, <1>7
<1> QED BY <1>4, <1>8

\* One token of a text
LEMMA OneToken ==
  ASSUME NEW text \in Seq(Tokens), NEW n \in 1 .. Len(text), text[n] = "success"
  PROVE  SubSeq(text, n, n) = <<"success">>
<1>1. Len(text) \in Nat /\ n \in Nat
  OBVIOUS
<1>2. PICK c : c = SubSeq(text, n, n)
  OBVIOUS
<1>3. c \in Seq(Tokens) /\ Len(c) = 1 /\ c[1] = text[n]
  BY <1>1, <1>2, SubSeqProperties
<1>4. c = <<"success">>
  BY <1>3
<1> QED BY <1>2, <1>4

\* A text is parsed as a success if its last frame holds one and nothing else, or if
\* there is no frame and it is a success.
LEMMA ParsedSuccess ==
  ASSUME NEW text \in Seq(Tokens), ParseRunnerOutput(text) = "completed"
  PROVE  \/ text = <<"success">>
         \/ \E i \in 1 .. Len(text) : /\ text[i] = "start" /\ i + 2 <= Len(text)
                                      /\ text[i + 1] = "success" /\ text[i + 2] = "end"
                                      /\ \A j \in 1 .. Len(text) : text[j] = "start" => j <= i
<1>1. ExtractRunnerOutput(text) = <<"success">>
  BY DEF ParseRunnerOutput
<1>2. CASE ~(Found(text, "start") # {} /\ Found(text, "end") # {})
  BY <1>1, <1>2 DEF ExtractRunnerOutput
<1>3. CASE Found(text, "start") # {} /\ Found(text, "end") # {}
  <2> DEFINE k == FrameStart(text)
             ends == {i \in Found(text, "end") : k < i}
             e == CHOOSE i \in ends : \A j \in ends : i <= j
  <2>1. /\ k \in 1 .. Len(text) /\ text[k] = "start"
        /\ \A j \in 1 .. Len(text) : text[j] = "start" => j <= k
    BY <1>3, FrameStartIsLast
  <2>2. ExtractRunnerOutput(text) = IF ends = {} THEN <<>> ELSE SubSeq(text, k + 1, e - 1)
    BY <1>3 DEF ExtractRunnerOutput
  <2>3. ends # {} /\ SubSeq(text, k + 1, e - 1) = <<"success">>
    <3>1. <<>> # <<"success">>
      OBVIOUS
    <3> QED BY <1>1, <2>2, <3>1
  <2>4. ends \in SUBSET Nat
    BY DEF Found
  <2>5. e \in ends
    BY <2>3, <2>4, FirstEndAfter
  <2>6. e \in 1 .. Len(text) /\ text[e] = "end" /\ k < e
    BY <2>5 DEF Found
  <2> HIDE DEF k, e, ends
  <2>7. Len(text) \in Nat
    OBVIOUS
  <2>8. k \in Nat /\ e \in Nat /\ k < e /\ e <= Len(text) /\ 1 <= k
    BY <2>1, <2>6, <2>7
  <2>9. e = k + 2 /\ text[k + 1] = "success"
    BY <2>3, <2>7, <2>8, OneBetween
  <2> QED BY <2>1, <2>6, <2>7, <2>8, <2>9
<1> QED BY <1>2, <1>3

\* A frame is taken for what it holds when no other one starts after it.
LEMMA LastFrameParsed ==
  ASSUME NEW t \in Seq(Tokens), NEW b \in Nat, b + 3 <= Len(t),
         t[b + 1] = "start", t[b + 2] = "success", t[b + 3] = "end",
         \A j \in 1 .. Len(t) : b + 3 < j => t[j] # "start"
  PROVE  ParseRunnerOutput(t) = "completed"
<1>1. DOMAIN t = 1 .. Len(t) /\ Len(t) \in Nat
  OBVIOUS
<1>2. b + 1 \in 1 .. Len(t) /\ b + 2 \in 1 .. Len(t) /\ b + 3 \in 1 .. Len(t)
  BY <1>1
<1>3. b + 1 \in Found(t, "start") /\ b + 3 \in Found(t, "end")
  BY <1>1, <1>2 DEF Found
<1>4. FrameStart(t) = b + 1
  <2>1. /\ FrameStart(t) \in 1 .. Len(t) /\ t[FrameStart(t)] = "start"
        /\ \A j \in 1 .. Len(t) : t[j] = "start" => j <= FrameStart(t)
    BY <1>3, FrameStartIsLast
  <2>2. b + 1 <= FrameStart(t)
    BY <1>2, <2>1
  <2>3. FrameStart(t) <= b + 3 /\ FrameStart(t) # b + 2 /\ FrameStart(t) # b + 3
    BY <1>1, <2>1
  <2> QED BY <1>1, <2>1, <2>2, <2>3
<1> DEFINE ends == {i \in Found(t, "end") : b + 1 < i}
           e == CHOOSE i \in ends : \A j \in ends : i <= j
<1>5. ExtractRunnerOutput(t) = IF ends = {} THEN <<>> ELSE SubSeq(t, b + 2, e - 1)
  <2>1. (b + 1) + 1 = b + 2
    OBVIOUS
  <2> QED BY <1>3, <1>4, <2>1 DEF ExtractRunnerOutput
<1>6. b + 3 \in ends
  BY <1>3
<1>7. ends \in SUBSET Nat /\ \A j \in ends : b + 1 < j /\ t[j] = "end"
  BY <1>1 DEF Found
<1>8. e \in ends /\ \A j \in ends : e <= j
  BY <1>6, <1>7, FirstEndAfter
<1> HIDE DEF ends, e
<1>9. e = b + 3
  <2>1. e <= b + 3 /\ b + 1 < e /\ e \in Nat /\ t[e] = "end"
    BY <1>6, <1>7, <1>8
  <2>2. e # b + 2
    BY <2>1
  <2> QED BY <2>1, <2>2
<1>10. SubSeq(t, b + 2, e - 1) = <<"success">>
  <2>1. e - 1 = b + 2
    BY <1>9
  <2> QED BY <1>2, <2>1, OneToken
<1> QED BY <1>5, <1>6, <1>10 DEF ParseRunnerOutput

\* Nothing printed after a frame turns it into a success except a frame that says so.
LEMMA OtherFrameNot ==
  ASSUME NEW t \in Seq(Tokens), NEW b \in Nat, NEW a \in Seq(Tokens), Len(t) = b + 3 + Len(a),
         t[b + 1] = "start", t[b + 2] \in {"error", "timeout"}, t[b + 3] = "end",
         \A i \in 1 .. Len(a) : t[b + 3 + i] = a[i],
         ~ForgesSuccess(a)
  PROVE  ParseRunnerOutput(t) # "completed"
<1> SUFFICES ASSUME ParseRunnerOutput(t) = "completed" PROVE FALSE
  OBVIOUS
<1>1. PICK m \in Nat : m = Len(a) /\ DOMAIN a = 1 .. m
  OBVIOUS
<1>2. Len(t) = b + 3 + m
  BY <1>1
<1>3. t # <<"success">>
  <2>1. Len(<<"success">>) = 1
    OBVIOUS
  <2> QED BY <1>2, <2>1
<1>4. PICK i \in 1 .. Len(t) : /\ t[i] = "start" /\ i + 2 <= Len(t)
                               /\ t[i + 1] = "success" /\ t[i + 2] = "end"
                               /\ \A j \in 1 .. Len(t) : t[j] = "start" => j <= i
  BY <1>3, ParsedSuccess
<1>5. i \in Nat /\ i + 2 <= b + 3 + m
  BY <1>2, <1>4
<1>6. b + 1 <= i
  <2>1. b + 1 \in 1 .. Len(t)
    BY <1>2
  <2> QED BY <1>4, <2>1
<1>7. i # b + 1
  <2>1. SUFFICES ASSUME i = b + 1 PROVE FALSE
    OBVIOUS
  <2>2. i + 1 = b + 2
    BY <2>1
  <2> QED BY <1>4, <2>2
<1>8. i # b + 2 /\ i # b + 3
  BY <1>4
<1>9. PICK j \in Nat : i = b + 3 + j /\ 1 <= j /\ j + 2 <= m
  <2>1. i - b - 3 \in Nat /\ i = b + 3 + (i - b - 3) /\ 1 <= i - b - 3 /\ (i - b - 3) + 2 <= m
    BY <1>5, <1>6, <1>7, <1>8
  <2> QED BY <2>1
<1>10. j \in 1 .. Len(a) /\ j + 1 \in 1 .. Len(a) /\ j + 2 \in 1 .. Len(a)
  BY <1>1, <1>9
<1>11. i = b + 3 + j /\ i + 1 = b + 3 + (j + 1) /\ i + 2 = b + 3 + (j + 2)
  BY <1>5, <1>9
<1>12. a[j] = "start" /\ a[j + 1] = "success" /\ a[j + 2] = "end"
  <2>1. t[i] = a[j] /\ t[i + 1] = a[j + 1] /\ t[i + 2] = a[j + 2]
    BY <1>10, <1>11
  <2> QED BY <1>4, <2>1
<1>13. ForgesSuccess(a)
  BY <1>1, <1>10, <1>12 DEF ForgesSuccess
<1> QED BY <1>13

\* Text t has a frame with this status after n tokens, and goes on with a.
FrameThere(t, n, status, a) ==
  /\ t \in Seq(Tokens) /\ n \in Nat /\ Len(t) = n + 3 + Len(a)
  /\ t[n + 1] = "start" /\ t[n + 2] = status /\ t[n + 3] = "end"
  /\ \A i \in 1 .. Len(a) : t[n + 3 + i] = a[i]

\* Where the frame is in a text.
LEMMA FrameAt ==
  ASSUME NEW b \in Seq(Tokens), NEW a \in Seq(Tokens), NEW status \in Tokens, NEW t,
         t = (b \o <<"start", status, "end">>) \o a
  PROVE  FrameThere(t, Len(b), status, a)
<1> DEFINE f == <<"start", status, "end">>
<1>1. f \in Seq(Tokens) /\ Len(f) = 3 /\ f[1] = "start" /\ f[2] = status /\ f[3] = "end"
  <2>1. "start" \in Tokens /\ "end" \in Tokens
    BY DEF Tokens
  <2>2. f \in Seq(Tokens)
    BY <2>1
  <2>3. Len(f) = 3
    OBVIOUS
  <2>4. f[1] = "start" /\ f[2] = status /\ f[3] = "end"
    OBVIOUS
  <2> QED BY <2>2, <2>3, <2>4
<1> HIDE DEF f
<1>2. Len(b) \in Nat /\ Len(a) \in Nat
  OBVIOUS
<1> DEFINE u == b \o f
<1>3. /\ u \in Seq(Tokens) /\ Len(u) = Len(b) + 3
      /\ u[Len(b) + 1] = f[1] /\ u[Len(b) + 2] = f[2] /\ u[Len(b) + 3] = f[3]
  <2>1. u \in Seq(Tokens) /\ Len(u) = Len(b) + Len(f)
    BY <1>1, ConcatProperties
  <2>2. \A i \in 1 .. Len(f) : u[Len(b) + i] = f[i]
    <3>1. \A i \in Len(b) + 1 .. Len(b) + Len(f) : u[i] = f[i - Len(b)]
      <4>1. \A i \in 1 .. Len(b) + Len(f) : u[i] = IF i <= Len(b) THEN b[i] ELSE f[i - Len(b)]
        BY <1>1, ConcatProperties
      <4> TAKE i \in Len(b) + 1 .. Len(b) + Len(f)
      <4>2. i \in 1 .. Len(b) + Len(f) /\ ~(i <= Len(b))
        BY <1>2
      <4> QED BY <4>1, <4>2
    <3> TAKE i \in 1 .. Len(f)
    <3>2. Len(b) + i \in Len(b) + 1 .. Len(b) + Len(f) /\ (Len(b) + i) - Len(b) = i
      BY <1>1, <1>2
    <3> QED BY <3>1, <3>2
  <2> QED BY <1>1, <2>1, <2>2
<1> HIDE DEF u
<1>4. t = u \o a
  BY DEF u, f
<1>5. t \in Seq(Tokens) /\ Len(t) = Len(u) + Len(a)
  BY <1>3, <1>4, ConcatProperties
<1>6. \A i \in 1 .. Len(u) : t[i] = u[i]
  BY <1>3, <1>4, ConcatProperties
<1>7. \A i \in 1 .. Len(a) : t[Len(u) + i] = a[i]
  BY <1>3, <1>4, ConcatProperties
<1>8. Len(b) + 1 \in 1 .. Len(u) /\ Len(b) + 2 \in 1 .. Len(u) /\ Len(b) + 3 \in 1 .. Len(u)
  BY <1>2, <1>3
<1> QED BY <1>1, <1>2, <1>3, <1>5, <1>6, <1>7, <1>8 DEF FrameThere

\* Where no runner has said anything, the text is what tools have printed.
LEMMA NoFrame ==
  ASSUME NEW out, Fair(out), out.status \in {"nothing", "stopped"}
  PROVE  Written(out) = out.before
<1>1. PICK b \in Seq(Tokens) : b = out.before
  BY DEF Fair
<1>2. b \o <<>> = b /\ (b \o <<>>) \o <<>> = b
  BY ConcatEmptySeq
<1> QED BY <1>1, <1>2 DEF Written, Frame, Fair

\* A text that is parsed as a success says so.
LEMMA ParsedSays ==
  ASSUME NEW t \in Seq(Tokens), ParseRunnerOutput(t) = "completed"
  PROVE  SaysSuccess(t)
<1>1. DOMAIN t = 1 .. Len(t) /\ Len(t) \in Nat
  OBVIOUS
<1>2. CASE t # <<"success">>
  <2>1. PICK i \in 1 .. Len(t) : /\ t[i] = "start" /\ i + 2 <= Len(t)
                                 /\ t[i + 1] = "success" /\ t[i + 2] = "end"
    BY <1>2, ParsedSuccess
  <2>2. i \in DOMAIN t /\ i + 2 \in DOMAIN t
    BY <1>1, <2>1
  <2> QED BY <2>1, <2>2 DEF SaysSuccess, ForgesSuccess
<1> QED BY <1>2 DEF SaysSuccess

\* The parser takes nobody's success for the runner's, if the runner said something.
LEMMA SuccessIsTheRunners ==
  ASSUME NEW out, Fair(out), ParseRunnerOutput(Written(out)) = "completed"
  PROVE  out.status = "success" \/ (out.status = "stopped" /\ SaysSuccess(out.before))
<1>1. /\ out.before \in Seq(Tokens) /\ out.after \in Seq(Tokens) /\ ~ForgesSuccess(out.after)
      /\ out.status \in {"success", "error", "timeout", "nothing", "stopped"}
  BY DEF Fair
<1>2. CASE out.status \in {"nothing", "stopped"}
  <2>1. SaysSuccess(out.before)
    BY <1>1, <1>2, NoFrame, ParsedSays
  <2> QED BY <1>2, <2>1 DEF Fair
<1>3. CASE out.status \in {"error", "timeout"}
  <2>1. PICK t : t = Written(out)
    OBVIOUS
  <2>2. t = (out.before \o <<"start", out.status, "end">>) \o out.after
    <3>1. Frame(out.status) = <<"start", out.status, "end">>
      BY <1>3 DEF Frame
    <3> QED BY <2>1, <3>1 DEF Written
  <2>3. PICK x \in Seq(Tokens), a \in Seq(Tokens), status \in Tokens :
          x = out.before /\ a = out.after /\ status = out.status
    <3>1. out.status \in Tokens
      BY <1>3 DEF Tokens
    <3> QED BY <1>1, <3>1
  <2>4. t = (x \o <<"start", status, "end">>) \o a
    BY <2>2, <2>3
  <2>5. FrameThere(t, Len(x), status, a)
    BY <2>4, FrameAt
  <2>6. PICK b \in Nat : /\ t \in Seq(Tokens) /\ Len(t) = b + 3 + Len(a)
                         /\ t[b + 1] = "start" /\ t[b + 2] = status /\ t[b + 3] = "end"
                         /\ \A i \in 1 .. Len(a) : t[b + 3 + i] = a[i]
    BY <2>5 DEF FrameThere
  <2>7. ~ForgesSuccess(a) /\ status \in {"error", "timeout"}
    BY <1>1, <1>3, <2>3
  <2>8. ParseRunnerOutput(t) # "completed"
    BY <2>6, <2>7, OtherFrameNot
  <2> QED BY <2>1, <2>8
<1> QED BY <1>1, <1>2, <1>3

\* The parser finds the runner's success unless a start marker follows it.
LEMMA SuccessIsFound ==
  ASSUME NEW p, Fair(p), p.status = "success", "start" \notin Range(p.after)
  PROVE  ParseRunnerOutput(Written(p)) = "completed"
<1>1. PICK a \in Seq(Tokens) : a = p.after
  BY DEF Fair
<1>2. PICK t : t = Written(p)
  OBVIOUS
<1>3. PICK b \in Nat : /\ t \in Seq(Tokens) /\ Len(t) = b + 3 + Len(a)
                       /\ t[b + 1] = "start" /\ t[b + 2] = "success" /\ t[b + 3] = "end"
                       /\ \A i \in 1 .. Len(a) : t[b + 3 + i] = a[i]
  <2>1. t = (p.before \o <<"start", "success", "end">>) \o a
    <3>1. Frame(p.status) = <<"start", "success", "end">>
      BY DEF Frame
    <3> QED BY <1>1, <1>2, <3>1 DEF Written
  <2>2. PICK x \in Seq(Tokens) : x = p.before
    BY DEF Fair
  <2>3. t = (x \o <<"start", "success", "end">>) \o a /\ "success" \in Tokens
    BY <2>1, <2>2 DEF Tokens
  <2>4. FrameThere(t, Len(x), "success", a)
    BY <2>3, FrameAt
  <2> QED BY <2>4 DEF FrameThere
<1>4. PICK m \in Nat : m = Len(a) /\ DOMAIN a = 1 .. m
  OBVIOUS
<1>5. \A i \in 1 .. m : a[i] # "start"
  BY <1>1, <1>4 DEF Range
<1>6. \A j \in 1 .. Len(t) : b + 3 < j => t[j] # "start"
  <2> SUFFICES ASSUME NEW j \in 1 .. Len(t), b + 3 < j PROVE t[j] # "start"
    OBVIOUS
  <2>1. Len(t) = b + 3 + m
    BY <1>3, <1>4
  <2>2. PICK i \in 1 .. m : j = b + 3 + i
    <3>1. j - b - 3 \in 1 .. m /\ j = b + 3 + (j - b - 3)
      BY <2>1
    <3> QED BY <3>1
  <2>3. t[b + 3 + i] = a[i]
    BY <1>3, <1>4
  <2> QED BY <1>5, <2>2, <2>3
<1>7. b + 3 <= Len(t)
  BY <1>3, <1>4
<1> QED BY <1>2, <1>3, <1>6, <1>7, LastFrameParsed

-----------------------------------------------------------------------------
(***************************************************************************)
(* What a process that is stopped has written.                             *)
(***************************************************************************)
\* A torn text has the tokens of the text up to some place, and a broken one at most.
LEMMA TornTokens ==
  ASSUME NEW t \in Seq(Tokens), NEW x \in Torn(t)
  PROVE  /\ x \in Seq(Tokens)
         /\ \E n \in 0 .. Len(t) : /\ Len(x) \in {n, n + 1}
                                   /\ \A i \in 1 .. n : x[i] = t[i]
                                   /\ Len(x) = n + 1 => x[n + 1] \in {"junk", "bytes"}
<1>. DEFINE Rests == {<<>>, <<"junk">>, <<"bytes">>}
<1>1. PICK n \in 0 .. Len(t) - 1, rest \in Rests : x = SubSeq(t, 1, n) \o rest
  BY DEF Torn
<1>. HIDE DEF Rests
<1>2. PICK h : h = SubSeq(t, 1, n)
  OBVIOUS
<1>3. Len(t) \in Nat /\ n \in Nat /\ n <= Len(t)
  BY <1>1
<1>4. h \in Seq(Tokens) /\ Len(h) = n /\ \A i \in 1 .. n : h[i] = t[i]
  <2>1. \A i \in 1 .. n : i \in 1 .. Len(t)
    BY <1>3
  <2>2. n = 0 \/ 1 <= n
    BY <1>3
  <2>3. CASE n = 0
    BY <1>2, <1>3, <2>3, SubSeqProperties
  <2>4. CASE 1 <= n
    BY <1>2, <1>3, <2>1, <2>4, SubSeqProperties
  <2> QED BY <2>2, <2>3, <2>4
<1>5. rest \in Seq(Tokens) /\ Len(rest) \in {0, 1} /\ (Len(rest) = 1 => rest[1] \in {"junk", "bytes"})
  <2>1. "junk" \in Tokens /\ "bytes" \in Tokens
    BY DEF Tokens
  <2>2. CASE rest = <<>>
    BY <2>2
  <2>3. CASE rest = <<"junk">>
    BY <2>1, <2>3
  <2>4. CASE rest = <<"bytes">>
    BY <2>1, <2>4
  <2> QED BY <1>1, <2>2, <2>3, <2>4 DEF Rests
<1>6. /\ x \in Seq(Tokens) /\ Len(x) = n + Len(rest)
      /\ \A i \in 1 .. n : x[i] = h[i]
      /\ \A i \in 1 .. Len(rest) : x[n + i] = rest[i]
  BY <1>1, <1>2, <1>4, <1>5, ConcatProperties
<1>7. Len(x) = n + 1 => x[n + 1] \in {"junk", "bytes"}
  <2>1. CASE Len(rest) = 0
    BY <1>3, <1>6, <2>1
  <2>2. CASE Len(rest) = 1
    BY <1>3, <1>5, <1>6, <2>2
  <2> QED BY <1>5, <2>1, <2>2
<1>8. /\ n \in 0 .. Len(t) /\ Len(x) \in {n, n + 1}
      /\ \A i \in 1 .. n : x[i] = t[i]
  BY <1>3, <1>4, <1>5, <1>6
<1> QED BY <1>6, <1>7, <1>8

\* Tearing a text makes no frame of it.
LEMMA TornForges ==
  ASSUME NEW t \in Seq(Tokens), NEW x \in Torn(t), ForgesSuccess(x)
  PROVE  ForgesSuccess(t)
<1>1. PICK n \in 0 .. Len(t) : /\ Len(x) \in {n, n + 1} /\ \A i \in 1 .. n : x[i] = t[i]
                               /\ Len(x) = n + 1 => x[n + 1] \in {"junk", "bytes"}
  BY TornTokens
<1>2. x \in Seq(Tokens)
  BY TornTokens
<1>3. PICK m \in Nat : m = Len(x) /\ DOMAIN x = 1 .. m
  BY <1>2
<1>4. DOMAIN t = 1 .. Len(t) /\ Len(t) \in Nat
  OBVIOUS
<1>5. PICK i \in 1 .. m : x[i] = "start" /\ i + 2 \in 1 .. m /\ x[i + 1] = "success" /\ x[i + 2] = "end"
  BY <1>3 DEF ForgesSuccess
<1>6. i + 2 # n + 1 \/ m # n + 1
  BY <1>1, <1>3, <1>5
<1>7. i + 2 <= n
  BY <1>1, <1>3, <1>5, <1>6
<1>8. i \in 1 .. n /\ i + 1 \in 1 .. n /\ i + 2 \in 1 .. n /\ i \in DOMAIN t /\ i + 2 \in DOMAIN t
  BY <1>4, <1>5, <1>7
<1> QED BY <1>1, <1>5, <1>8 DEF ForgesSuccess

\* No output is fair, and no success.
LEMMA SilenceIsFair == Fair(Silence)
<1>1. <<>> \in Seq(Tokens) /\ DOMAIN <<>> = {}
  OBVIOUS
<1>2. ~ForgesSuccess(<<>>)
  BY <1>1 DEF ForgesSuccess
<1>3. <<>> # <<"success">>
  OBVIOUS
<1> QED BY <1>1, <1>2, <1>3 DEF Fair, SaysSuccess, Silence

\* A report is fair when nobody forges.
LEMMA ReportIsFair ==
  ASSUME NobodyForges, NEW p \in Reports
  PROVE  Fair(p)
BY BackendAssumption DEF Fair, NobodyForges

\* And so is what was written of one that was cut short.
LEMMA CutIsFair ==
  ASSUME NobodyForges, NEW p \in Reports, NEW part \in CutShort(p)
  PROVE  Fair(part)
<1>1. Fair(p) /\ p.status # "stopped"
  BY ReportIsFair, BackendAssumption
<1>2. PICK b \in Seq(Tokens), a \in Seq(Tokens) : b = p.before /\ a = p.after /\ ~ForgesSuccess(a)
  BY <1>1 DEF Fair
<1>3. <<>> \in Seq(Tokens) /\ ~ForgesSuccess(<<>>)
  BY SilenceIsFair DEF Fair, Silence
<1>4. ASSUME NEW text \in Torn(p.before \o Frame(p.status)),
             part = [before |-> text, status |-> "stopped", after |-> <<>>]
      PROVE  Fair(part)
  <2>1. Frame(p.status) \in Seq(Tokens)
    <3>1. p.status \in {"success", "error", "timeout", "nothing"}
      BY <1>1 DEF Fair
    <3>2. p.status \in Tokens \/ p.status = "nothing"
      BY <3>1 DEF Tokens
    <3>3. "start" \in Tokens /\ "end" \in Tokens
      BY DEF Tokens
    <3>4. p.status \in Tokens => <<"start", p.status, "end">> \in Seq(Tokens)
      BY <3>3
    <3> QED BY <1>3, <3>1, <3>2, <3>4 DEF Frame
  <2>2. PICK t \in Seq(Tokens) : t = p.before \o Frame(p.status)
    BY <1>2, <2>1, ConcatProperties
  <2>3. text \in Seq(Tokens)
    BY <1>4, <2>2, TornTokens
  <2> QED BY <1>3, <1>4, <2>3 DEF Fair
<1>5. ASSUME NEW text \in Torn(p.after) \cup {p.after},
             part = [before |-> p.before, status |-> p.status, after |-> text]
      PROVE  Fair(part)
  <2>1. text \in Seq(Tokens) /\ ~ForgesSuccess(text)
    BY <1>2, <1>5, TornTokens, TornForges
  <2>2. p.after = <<>> => text = <<>>
    <3>1. Torn(<<>>) = {}
      BY DEF Torn
    <3> QED BY <1>5, <3>1
  <2>3. /\ part.before = p.before /\ part.status = p.status /\ part.after = text
    BY <1>5
  <2> QED BY <1>1, <2>1, <2>2, <2>3 DEF Fair
<1> QED BY <1>4, <1>5 DEF CutShort

-----------------------------------------------------------------------------
\* What a step of run r has to do, beside Kept(r).
Told(r) ==
  /\ AnswerTypes' /\ Heard(r)' /\ Answered(r)'
  /\ \A s \in Runs \ {r} : stdout'[s] = stdout[s] /\ answer'[s] = answer[s]

\* What is known of the answer of a run stays so in a step that leaves the run alone.
LEMMA AnswerAlone ==
  ASSUME NEW s \in Runs, Heard(s), Answered(s), Alone(s),
         stdout'[s] = stdout[s], answer'[s] = answer[s]
  PROVE  Heard(s)' /\ Answered(s)'
<1>1. Heard(s)'
  BY DEF Heard, Alone
<1>2. Deserved(s)' = Deserved(s)
  BY DEF Deserved
<1>3. Uninterrupted(s)'
  BY <1>2 DEF Answered, Uninterrupted, Alone, Reaped
<1> QED BY <1>1, <1>2, <1>3 DEF Answered, Alone, Reaped

\* So a step of one run keeps the invariant of all.
LEMMA ToldInv ==
  ASSUME AnswerInv, NEW r \in Runs, Kept(r), Told(r)
  PROVE  AnswerInv'
<1>1. ASSUME NEW s \in Runs PROVE Heard(s)' /\ Answered(s)'
  <2>1. CASE s = r
    BY <2>1 DEF Told
  <2>2. CASE s # r
    BY <2>2, AnswerAlone DEF Kept, Told, AnswerInv
  <2> QED BY <2>1, <2>2
<1> QED BY <1>1 DEF AnswerInv, Told

\* A process goes its way: it does not start again, and what has ended stays so.
MovesOn(r) ==
  /\ proc'[r] \in {"none", "running"} => proc[r] \in {"none", "running"}
  /\ Reaped(r) => Reaped(r)'
  /\ proc[r] = "gone" => proc'[r] = "gone"
  /\ exec[r] = "ended" /\ proc[r] = "none" => proc'[r] = "none"

\* What a step does to a run whose execute does not end, and of which nothing is written or
\* answered.
Silent(r) ==
  /\ kind'[r] = kind[r] /\ stdout'[r] = stdout[r] /\ answer'[r] = answer[r] /\ MovesOn(r)
  /\ exec[r] = "ended" <=> exec'[r] = "ended"

LEMMA SilentRun ==
  ASSUME NEW r \in Runs, Heard(r), Answered(r), Silent(r),
         interrupt'[r] = "none" =>
           /\ interrupt[r] = "none"
           /\ exec'[r] = "communicating" => r \in active'
           /\ exec[r] = "ended" => (r \in active' <=> r \in active)
           /\ exec[r] = "ended" /\ r \in active /\ proc[r] = "gone"
                /\ (\A k \in Helpers : helper[r][k] \in {"none", "called", "ended"}) =>
                \A k \in Helpers : helper'[r][k] \in {"none", "called", "ended"}
  PROVE  Heard(r)' /\ Answered(r)'
<1> USE DEF Silent
<1>1. Heard(r)'
  BY DEF Heard, MovesOn
<1>2. Deserved(r)' = Deserved(r)
  BY DEF Deserved
<1>3. Uninterrupted(r)'
  BY <1>2 DEF Answered, Uninterrupted, MovesOn
<1>4. Answered(r)'
  BY <1>2, <1>3 DEF Answered, MovesOn
<1> QED BY <1>1, <1>4

\* A step of one such run
LEMMA SilentStep ==
  ASSUME AnswerTypes, NEW r \in Runs, Heard(r), Answered(r),
         UNCHANGED <<kind, stdout, answer>>, MovesOn(r),
         exec[r] = "ended" <=> exec'[r] = "ended",
         interrupt'[r] = "none" =>
           /\ interrupt[r] = "none"
           /\ exec'[r] = "communicating" => r \in active'
           /\ exec[r] = "ended" => (r \in active' <=> r \in active)
           /\ exec[r] = "ended" /\ r \in active /\ proc[r] = "gone"
                /\ (\A k \in Helpers : helper[r][k] \in {"none", "called", "ended"}) =>
                \A k \in Helpers : helper'[r][k] \in {"none", "called", "ended"}
  PROVE  Told(r)
<1>1. AnswerTypes'
  BY DEF AnswerTypes
<1>2. Silent(r)
  BY DEF Silent
<1>3. Heard(r)' /\ Answered(r)'
  BY <1>2, SilentRun
<1> QED BY <1>1, <1>3 DEF Told

\* Until its process has been reaped a run has no answer that its output could change.
LEMMA WritesRun ==
  ASSUME NEW r \in Runs, Heard(r), Answered(r), proc[r] \in {"running", "dying"}, proc'[r] = "exited",
         Fair(stdout[r])', kind'[r] = kind[r], exec'[r] = exec[r], interrupt'[r] = interrupt[r],
         answer'[r] = answer[r], r \in active' <=> r \in active
  PROVE  Heard(r)' /\ Answered(r)'
<1>1. Heard(r)'
  BY DEF Heard
<1>2. answer[r] # "completed"
  BY DEF Answered, Reaped
<1>3. Uninterrupted(r)'
  BY DEF Answered, Uninterrupted, Reaped
<1>4. Answered(r)'
  BY <1>2, <1>3 DEF Answered
<1> QED BY <1>1, <1>4

\* A step in which execute ends, with what it answers.
LEMMA EndingStep ==
  ASSUME AnswerTypes, NEW r \in Runs, Heard(r), Answered(r), NEW outcome, Ended(r, outcome),
         UNCHANGED <<kind, stdout>>,
         proc'[r] \in {"none", "running"} => proc[r] \in {"none", "running"},
         outcome = "completed" => Reaped(r)' /\ Deserved(r) = "completed",
         interrupt'[r] = "none" =>
           \/ /\ r \in active' /\ kind[r] = "host" /\ proc'[r] = "gone"
              /\ \A k \in Helpers : helper'[r][k] \in {"none", "called", "ended"}
           \/ /\ r \notin active'
              /\ \/ outcome = "timeout" \/ proc'[r] = "none"
                 \/ Reaped(r)' /\ outcome = Deserved(r),
         exec'[r] = "ended"
  PROVE  Told(r)
<1>1. answer'[r] = outcome /\ \A s \in Runs \ {r} : answer'[s] = answer[s]
  BY DEF AnswerTypes, Ended
<1>2. AnswerTypes'
  BY DEF AnswerTypes, Ended
<1>3. Heard(r)'
  BY DEF Heard
<1>4. Deserved(r)' = Deserved(r)
  BY DEF Deserved
<1>5. Uninterrupted(r)'
  BY <1>1, <1>4 DEF Uninterrupted
<1>6. Answered(r)'
  BY <1>1, <1>4, <1>5 DEF Answered
<1> QED BY <1>1, <1>2, <1>3, <1>6 DEF Told

\* What is read of a process that leaves
LEMMA WritesTold ==
  ASSUME AnswerTypes, NEW r \in Runs, NEW part, Writes(r, part)
  PROVE  /\ stdout' = [s \in Runs |-> stdout'[s]]
         /\ \A s \in Runs \ {r} : stdout'[s] = stdout[s]
         /\ stdout'[r] = part \/ stdout'[r] = stdout[r]
BY DEF AnswerTypes, Writes

LEMMA LeaveTold ==
  ASSUME AnswerTypes, NEW r \in Runs, NEW part, Leave(r, part)
  PROVE  /\ stdout' = [s \in Runs |-> stdout'[s]]
         /\ \A s \in Runs \ {r} : stdout'[s] = stdout[s]
         /\ stdout'[r] = part \/ stdout'[r] = stdout[r]
         /\ proc[r] # "running" => stdout'[r] = stdout[r]
<1>1. CASE proc[r] = "running"
  BY <1>1, WritesTold DEF Leave
<1>2. CASE proc[r] # "running"
  BY <1>2 DEF Leave, AnswerTypes
<1> QED BY <1>1, <1>2

\* Nothing has been written by a process that leaves without a word.
LEMMA SilentLeave ==
  ASSUME AnswerTypes, NEW r \in Runs, Heard(r), Leave(r, Silence)
  PROVE  stdout' = stdout
<1>1. proc[r] = "running" => stdout[r] = Silence
  BY DEF Heard
<1>2. \A s \in Runs : stdout'[s] = stdout[s]
  BY <1>1, LeaveTold
<1> QED BY <1>2, LeaveTold DEF AnswerTypes

-----------------------------------------------------------------------------
\* The docker client creates its container, or ends without a word.
LEMMA CliCreatesTold ==
  ASSUME Types, AnswerTypes, NEW r \in Runs, Heard(r), Answered(r), CliCreates(r)
  PROVE  Told(r)
<1>1. UNCHANGED <<kind, exec, interrupt, active, helper, answer>> /\ proc[r] = "running"
  BY DEF CliCreates, Spawned
<1>2. stdout' = stdout
  BY SilentLeave DEF CliCreates
<1>3. MovesOn(r)
  BY <1>1 DEF MovesOn, Reaped
<1>4. interrupt[r] = "none" /\ exec[r] = "communicating" => r \in active
  BY DEF Answered, Uninterrupted
<1> QED BY <1>1, <1>2, <1>3, <1>4, SilentStep

\* The container of a client starts.
LEMMA CliStartsTold ==
  ASSUME Types, AnswerTypes, NEW r \in Runs, Heard(r), Answered(r), CliStarts(r)
  PROVE  Told(r)
<1>1. UNCHANGED <<kind, exec, interrupt, proc, active, helper, stdout, answer>>
  BY DEF CliStarts
<1>2. MovesOn(r)
  BY <1>1 DEF MovesOn, Reaped
<1>3. interrupt[r] = "none" /\ exec[r] = "communicating" => r \in active
  BY DEF Answered, Uninterrupted
<1> QED BY <1>1, <1>2, <1>3, SilentStep

\* A killed process is reaped, with what it had written.
LEMMA DiesTold ==
  ASSUME NobodyForges, Types, AnswerTypes, NEW r \in Runs, Heard(r), Answered(r),
         NEW report \in Reports, Dies(r, report)
  PROVE  Told(r)
<1>1. /\ UNCHANGED <<kind, exec, interrupt, active, helper, answer>>
      /\ proc[r] = "dying" /\ proc'[r] = "exited"
  BY DEF Dies, Types
<1>2. PICK part \in CutShort(report) : Writes(r, part)
  BY DEF Dies
<1>3. Fair(part) /\ Fair(stdout[r])
  BY CutIsFair DEF Heard
<1>4. /\ stdout' = [s \in Runs |-> stdout'[s]] /\ \A s \in Runs \ {r} : stdout'[s] = stdout[s]
      /\ stdout'[r] = part \/ stdout'[r] = stdout[r]
  BY <1>2, WritesTold
<1>5. Fair(stdout[r])'
  BY <1>3, <1>4
<1>6. Heard(r)' /\ Answered(r)'
  BY <1>1, <1>5, WritesRun
<1> QED BY <1>1, <1>4, <1>6 DEF Told, AnswerTypes

\* The transport of a dead process is closed.
LEMMA TransportClosesTold ==
  ASSUME Types, AnswerTypes, NEW r \in Runs, Heard(r), Answered(r), TransportCloses(r)
  PROVE  Told(r)
<1>1. UNCHANGED <<kind, exec, interrupt, active, helper, stdout, answer>>
  BY DEF TransportCloses
<1>2. MovesOn(r)
  BY DEF MovesOn, Reaped, TransportCloses, Types
<1>3. interrupt[r] = "none" /\ exec[r] = "communicating" => r \in active
  BY DEF Answered, Uninterrupted
<1> QED BY <1>1, <1>2, <1>3, SilentStep

\* The runner's report is on stdout when it has ended, unless its client was killed.
LEMMA RunnerEndsTold ==
  ASSUME NobodyForges, Types, AnswerTypes, NEW r \in Runs, Heard(r), Answered(r),
         NEW report \in Reports, RunnerEnds(r, report)
  PROVE  Told(r)
<1>1. UNCHANGED <<kind, exec, interrupt, active, helper, answer>> /\ Leave(r, report)
  BY DEF RunnerEnds
<1>2. Fair(report) /\ Fair(stdout[r])
  BY ReportIsFair DEF Heard
<1>3. /\ stdout' = [s \in Runs |-> stdout'[s]] /\ \A s \in Runs \ {r} : stdout'[s] = stdout[s]
      /\ stdout'[r] = report \/ stdout'[r] = stdout[r]
      /\ proc[r] # "running" => stdout'[r] = stdout[r]
  BY <1>1, LeaveTold
<1>4. /\ proc'[r] # "running" /\ (proc[r] # "running" => proc'[r] = proc[r])
      /\ proc[r] = "running" => proc'[r] = "exited"
  BY <1>1 DEF Leave, Types
<1>5. Heard(r)' /\ Answered(r)'
  <2>1. CASE proc[r] = "running"
    <3>1. Fair(stdout[r])'
      BY <1>2, <1>3
    <3> QED BY <1>1, <1>4, <2>1, <3>1, WritesRun
  <2>2. CASE proc[r] # "running"
    <3>1. Silent(r)
      BY <1>1, <1>3, <1>4, <2>2 DEF Silent, MovesOn, Reaped
    <3>2. interrupt[r] = "none" /\ exec[r] = "communicating" => r \in active
      BY DEF Answered, Uninterrupted
    <3> QED BY <1>1, <3>1, <3>2, SilentRun
  <2> QED BY <2>1, <2>2
<1> QED BY <1>1, <1>3, <1>5 DEF Told, AnswerTypes

-----------------------------------------------------------------------------
\* A refused run has no process.
LEMMA ExecuteRefusedTold ==
  ASSUME Types, AnswerTypes, NEW r \in Runs, Sound(r), Heard(r), Answered(r), ExecuteRefused(r)
  PROVE  Told(r)
<1>1. Ended(r, "failed") /\ exec[r] = "idle"
      /\ UNCHANGED <<kind, interrupt, proc, active, helper, stdout>>
  BY DEF ExecuteRefused, world
<1>2. proc[r] = "none" /\ r \notin active
  BY <1>1 DEF Sound, TableEntry, Entries, Remains, Nothing
<1>3. exec'[r] = "ended"
  BY <1>1, EndedOK
<1> QED BY <1>1, <1>2, <1>3, EndingStep

\* A new process has said nothing yet.
LEMMA ExecuteStartsTold ==
  ASSUME Types, AnswerTypes, NEW r \in Runs, Sound(r), Heard(r), Answered(r), ExecuteStarts(r)
  PROVE  Told(r)
<1>1. /\ exec[r] = "idle" /\ exec'[r] = "spawning" /\ proc'[r] = "running"
      /\ UNCHANGED <<kind, interrupt, active, helper, stdout, answer>>
  BY DEF ExecuteStarts, Types
<1>2. proc[r] = "none"
  BY <1>1 DEF Sound, Remains, Nothing
<1>3. MovesOn(r)
  BY <1>1, <1>2 DEF MovesOn, Reaped
<1> QED BY <1>1, <1>3, SilentStep

\* A run that communicates is in the table.
LEMMA ExecuteRegistersTold ==
  ASSUME Types, AnswerTypes, NEW r \in Runs, Heard(r), Answered(r), ExecuteRegisters(r)
  PROVE  Told(r)
<1>1. /\ exec[r] = "spawning" /\ exec'[r] = "communicating" /\ r \in active'
      /\ UNCHANGED <<kind, interrupt, proc, helper, stdout, answer>>
  BY DEF ExecuteRegisters, Types, world
<1>2. MovesOn(r)
  BY <1>1 DEF MovesOn, Reaped
<1> QED BY <1>1, <1>2, SilentStep

\* A cancelled execute answers nothing of what its process said.
LEMMA CancelledTold ==
  ASSUME Types, AnswerTypes, NEW r \in Runs, Heard(r), Answered(r),
         NEW outcome \in {"failed", "cancelled"}, Ended(r, outcome), interrupt[r] # "none",
         UNCHANGED <<kind, interrupt, stdout>>,
         proc' = proc \/ proc' = [proc EXCEPT ![r] = Killed(@)]
  PROVE  Told(r)
<1>1. proc'[r] \in {"none", "running"} => proc[r] \in {"none", "running"}
  BY DEF Types, Killed
<1>2. exec'[r] = "ended" /\ outcome # "completed" /\ interrupt'[r] # "none"
  BY EndedOK
<1> QED BY <1>1, <1>2, EndingStep

\* A cancelled spawn has no answer yet.
LEMMA SpawnCancelledTold ==
  ASSUME Types, AnswerTypes, NEW r \in Runs, Heard(r), Answered(r), SpawnCancelled(r)
  PROVE  Told(r)
<1>1. /\ exec[r] = "spawning" /\ exec'[r] = "closing" /\ interrupt'[r] # "none"
      /\ UNCHANGED <<kind, stdout, answer>>
  BY DEF SpawnCancelled, Types
<1>2. MovesOn(r)
  BY <1>1, KilledOK DEF MovesOn, Reaped, SpawnCancelled
<1> QED BY <1>1, <1>2, SilentStep

\* The four ways a cancelled execute ends.
LEMMA CancelsTold ==
  ASSUME Types, AnswerTypes, NEW r \in Runs, Sound(r), Heard(r), Answered(r),
         SpawnClosed(r) \/ ContainerCancelled(r) \/ HostCancelled(r) \/ HostReapCancelled(r)
  PROVE  Told(r)
<1>1. CASE SpawnClosed(r)
  <2>1. interrupt[r] # "none"
    BY <1>1 DEF Sound, TableEntry, TasksOf, SpawnClosed
  <2> QED BY <1>1, <2>1, CancelledTold DEF SpawnClosed, world
<1>2. CASE ContainerCancelled(r)
  BY <1>2, CancelledTold DEF ContainerCancelled, world
<1>3. CASE HostCancelled(r)
  <2>1. PICK outcome \in {"failed", "cancelled"} : Ended(r, outcome)
    BY <1>3 DEF HostCancelled
  <2> QED BY <1>3, <2>1, CancelledTold DEF HostCancelled, HostKilled
<1>4. CASE HostReapCancelled(r)
  BY <1>4, CancelledTold DEF HostReapCancelled, world
<1> QED BY <1>1, <1>2, <1>3, <1>4

\* communicate answers what the output deserves.
LEMMA CommunicateReturnsTold ==
  ASSUME Types, AnswerTypes, NEW r \in Runs, Heard(r), Answered(r), CommunicateReturns(r)
  PROVE  Told(r)
<1>1. PICK outcome : outcome = Deserved(r)
  OBVIOUS
<1>2. Ended(r, outcome) /\ Reaped(r) /\ UNCHANGED <<kind, interrupt, helper, proc, stdout>>
  BY <1>1 DEF CommunicateReturns, Deserved, world
<1>3. r \notin active' /\ exec'[r] = "ended"
  BY <1>2, ClearOK, EndedOK DEF CommunicateReturns
<1>4. Reaped(r)'
  BY <1>2 DEF Reaped
<1> QED BY <1>1, <1>2, <1>3, <1>4, EndingStep

\* The executor's own limit passes: the process is killed, or has gone.
LEMMA HostTimesOutTold ==
  ASSUME Types, AnswerTypes, NEW r \in Runs, Sound(r), Heard(r), Answered(r), HostTimesOut(r)
  PROVE  Told(r)
<1>1. /\ exec[r] = "communicating" /\ kind[r] = "host" /\ interrupt[r] = "none"
      /\ UNCHANGED <<kind, interrupt, active, helper, stdout>>
  BY DEF HostTimesOut
<1>2. r \in active
  BY <1>1 DEF Answered, Uninterrupted
<1>3. /\ proc'[r] # "running" /\ \/ proc'[r] = proc[r]
                                 \/ proc[r] = "running" /\ proc'[r] = "dying"
  BY KilledOK DEF HostTimesOut, HostKilled
<1>4. CASE proc[r] = "gone"
  <2>1. Ended(r, "failed") /\ exec'[r] = "ended"
    BY <1>4, EndedOK DEF HostTimesOut
  <2>2. \A k \in Helpers : helper'[r][k] = "none"
    BY <1>1 DEF Sound, TableEntry, TasksOf, Over, Helpers
  <2>3. proc'[r] = "gone" /\ r \in active' /\ kind[r] = "host"
    BY <1>1, <1>2, <1>3, <1>4
  <2> QED BY <1>1, <1>4, <2>1, <2>2, <2>3, EndingStep
<1>5. CASE proc[r] # "gone"
  <2>1. exec'[r] = "reaping" /\ UNCHANGED answer
    BY <1>5 DEF HostTimesOut, Types
  <2>2. MovesOn(r)
    BY <1>1, <1>3 DEF MovesOn, Reaped
  <2> QED BY <1>1, <2>1, <2>2, SilentStep
<1> QED BY <1>4, <1>5

\* The killed process is reaped.
LEMMA HostReapedTold ==
  ASSUME Types, AnswerTypes, NEW r \in Runs, Heard(r), Answered(r), HostReaped(r)
  PROVE  Told(r)
<1>1. Ended(r, "timeout") /\ UNCHANGED <<kind, interrupt, helper, proc, stdout>>
  BY DEF HostReaped, world
<1>2. r \notin active' /\ exec'[r] = "ended"
  BY <1>1, ClearOK, EndedOK DEF HostReaped
<1> QED BY <1>1, <1>2, EndingStep

\* What execute had read and answered is dropped with the run.
LEMMA WorkerStoresTold ==
  ASSUME Types, AnswerTypes, NEW r \in Runs, Sound(r), Heard(r), Answered(r), WorkerStores(r)
  PROVE  Told(r)
<1>1. /\ exec'[r] = "stored" /\ UNCHANGED <<kind, interrupt, proc, active, helper>>
      /\ stdout'[r] = Silence /\ answer'[r] = "none"
      /\ \A s \in Runs \ {r} : stdout'[s] = stdout[s] /\ answer'[s] = answer[s]
  BY DEF WorkerStores, Types, AnswerTypes
<1>2. AnswerTypes'
  BY DEF WorkerStores, AnswerTypes
<1>3. Heard(r)'
  BY <1>1, SilenceIsFair DEF Heard
<1>4. Answered(r)'
  BY <1>1 DEF Answered, Uninterrupted
<1> QED BY <1>1, <1>2, <1>3, <1>4 DEF Told

\* A cancel that comes when execute has ended only calls the backend.
LEMMA CancelTold ==
  ASSUME Types, AnswerTypes, NEW r \in Runs, Heard(r), Answered(r), Cancel(r)
  PROVE  Told(r)
<1>1. /\ UNCHANGED <<kind, exec, proc, active, stdout, answer>>
      /\ helper'[r]["cancel"] = "called"
      /\ \A k \in Helpers : k # "cancel" => helper'[r][k] = helper[r][k]
      /\ interrupt'[r] = "none" => exec[r] = "ended" /\ interrupt[r] = "none"
  BY DEF Cancel, Types, world, Helpers
<1>2. MovesOn(r)
  BY <1>1 DEF MovesOn, Reaped
<1> QED BY <1>1, <1>2, SilentStep

\* The timer interrupts an execute that has not ended.
LEMMA TimerFiresTold ==
  ASSUME Types, AnswerTypes, NEW r \in Runs, Heard(r), Answered(r), TimerFires(r)
  PROVE  Told(r)
<1>1. /\ UNCHANGED <<kind, exec, proc, active, helper, stdout, answer>>
      /\ interrupt'[r] # "none"
  BY DEF TimerFires, Types, world
<1>2. MovesOn(r)
  BY <1>1 DEF MovesOn, Reaped
<1> QED BY <1>1, <1>2, SilentStep

\* While a run that nobody interrupted communicates, no task is there to take it out of
\* the table; when it has ended with its process gone, none that does so.
LEMMA HelperRun ==
  ASSUME NEW r \in Runs, Sound(r), Heard(r), Answered(r), Silent(r),
         NEW k \in Helpers, helper[r][k] \notin {"none", "ended"},
         exec'[r] = exec[r], interrupt'[r] = interrupt[r],
         \A j \in Helpers : j # k => helper'[r][j] = helper[r][j],
         helper[r][k] = "called" /\ kind[r] = "host" /\ proc[r] = "gone" =>
           helper'[r][k] = "ended" /\ (r \in active' <=> r \in active),
         r \in active' => r \in active
  PROVE  Heard(r)' /\ Answered(r)'
<1>1. ~Over(r) => interrupt[r] # "none"
  BY DEF Sound, TableEntry, TasksOf, Helpers
<1>2. interrupt[r] = "none" => exec[r] # "communicating"
  BY <1>1 DEF Over
<1>3. CASE exec[r] = "ended" /\ interrupt[r] = "none" /\ r \in active
  <2>1. kind[r] = "host" /\ proc[r] = "gone" /\ helper[r][k] = "called"
    BY <1>3 DEF Answered, Uninterrupted
  <2>2. helper'[r][k] = "ended" /\ (r \in active' <=> r \in active)
    BY <2>1
  <2> QED BY <1>3, <2>2, SilentRun
<1>4. CASE ~(exec[r] = "ended" /\ interrupt[r] = "none" /\ r \in active)
  BY <1>2, <1>4, SilentRun
<1> QED BY <1>3, <1>4

\* A step of one such task
LEMMA HelperTold ==
  ASSUME Types, AnswerTypes, NEW r \in Runs, Sound(r), Heard(r), Answered(r),
         NEW k \in Helpers, helper[r][k] \notin {"none", "ended"},
         UNCHANGED <<kind, exec, interrupt, stdout, answer>>, MovesOn(r),
         \A j \in Helpers : j # k => helper'[r][j] = helper[r][j],
         helper[r][k] = "called" /\ kind[r] = "host" /\ proc[r] = "gone" =>
           helper'[r][k] = "ended" /\ active' = active,
         r \in active' => r \in active
  PROVE  Told(r)
<1>1. Silent(r)
  BY DEF Silent
<1>2. Heard(r)' /\ Answered(r)'
  BY <1>1, HelperRun
<1> QED BY <1>2 DEF Told, AnswerTypes

\* The calls of cancel and the clean-up task, except where they stop a container
LEMMA HelperStepsTold ==
  ASSUME Types, AnswerTypes, NEW r \in Runs, Sound(r), Heard(r), Answered(r), NEW k \in Helpers,
         \/ ContainerCancelCalled(r, k) \/ HostCancelCalled(r, k) \/ Gathered(r, k)
         \/ KillClient(r, k) \/ WaitEnds(r, k)
  PROVE  Told(r)
<1>1. CASE ContainerCancelCalled(r, k)
  <2>1. PICK to \in {"gathering", "stopping", "ended"} : Step(r, k, to)
    BY <1>1 DEF ContainerCancelCalled
  <2>2. /\ kind[r] = "container" /\ helper[r][k] = "called"
        /\ UNCHANGED <<kind, exec, interrupt, proc, stdout, answer>>
    BY <1>1 DEF ContainerCancelCalled, world
  <2>3. r \in active' => r \in active
    BY <1>1 DEF ContainerCancelCalled, ClearActiveRun
  <2>4. MovesOn(r)
    BY <2>2 DEF MovesOn, Reaped
  <2> QED BY <2>1, <2>2, <2>3, <2>4, StepOK, HelperTold
<1>2. CASE HostCancelCalled(r, k)
  <2>1. PICK to \in {"gathering", "waiting", "ended"} :
          Step(r, k, to) /\ (proc[r] = "gone" => to = "ended")
    BY <1>2 DEF HostCancelCalled
  <2>2. /\ helper[r][k] = "called"
        /\ UNCHANGED <<kind, exec, interrupt, active, stdout, answer>>
    BY <1>2 DEF HostCancelCalled
  <2>3. proc'[r] = proc[r] \/ (proc[r] = "running" /\ proc'[r] = "dying")
    BY <1>2, KilledOK DEF HostCancelCalled
  <2>4. MovesOn(r)
    BY <2>3 DEF MovesOn, Reaped
  <2>5. helper'[r][k] = to /\ \A j \in Helpers : j # k => helper'[r][j] = helper[r][j]
    BY <2>1, StepOK
  <2> QED BY <2>1, <2>2, <2>4, <2>5, HelperTold
<1>3. CASE Gathered(r, k)
  <2>1. /\ helper[r][k] = "gathering" /\ Step(r, k, "ended")
        /\ UNCHANGED <<kind, exec, interrupt, proc, active, stdout, answer>>
    BY <1>3 DEF Gathered, world
  <2>2. MovesOn(r)
    BY <2>1 DEF MovesOn, Reaped
  <2> QED BY <2>1, <2>2, StepOK, HelperTold
<1>4. CASE KillClient(r, k)
  <2>1. PICK to \in {"waiting", "ended"} : Step(r, k, to)
    BY <1>4 DEF KillClient
  <2>2. /\ helper[r][k] = "killing"
        /\ UNCHANGED <<kind, exec, interrupt, stdout, answer>>
    BY <1>4 DEF KillClient
  <2>3. proc'[r] = proc[r] \/ (proc[r] = "running" /\ proc'[r] = "dying")
    BY <1>4, KilledOK DEF KillClient
  <2>4. MovesOn(r)
    BY <2>3 DEF MovesOn, Reaped
  <2>5. r \in active' => r \in active
    BY <1>4 DEF KillClient, ClearActiveRun
  <2> QED BY <2>1, <2>2, <2>4, <2>5, StepOK, HelperTold
<1>5. CASE WaitEnds(r, k)
  <2>1. /\ helper[r][k] = "waiting" /\ Step(r, k, "ended")
        /\ UNCHANGED <<kind, exec, interrupt, proc, stdout, answer>>
    BY <1>5 DEF WaitEnds, world
  <2>2. MovesOn(r)
    BY <2>1 DEF MovesOn, Reaped
  <2>3. r \in active' => r \in active
    BY <1>5 DEF WaitEnds, ClearActiveRun
  <2> QED BY <2>1, <2>2, <2>3, StepOK, HelperTold
<1> QED BY <1>1, <1>2, <1>3, <1>4, <1>5

\* A container that is stopped takes its docker client with it, which has read what the
\* runner and its tools had written; the run whose task it was has been interrupted, or is
\* not in the table.
LEMMA StopActiveRunTold ==
  ASSUME NobodyForges, Types, BackendInv, AnswerInv, NEW r \in Runs, NEW k \in Helpers, StopActiveRun(r, k)
  PROVE  AnswerInv'
<1>1. helper[r][k] = "stopping" /\ UNCHANGED <<kind, exec, interrupt, active, answer>>
  BY DEF StopActiveRun
<1>2. /\ \A j \in Helpers : j # k => helper'[r][j] = helper[r][j]
      /\ \A s \in Runs : s # r => helper'[s] = helper[s]
  BY StepOK DEF StopActiveRun
<1>3. /\ stdout' = [s \in Runs |-> stdout'[s]]
      /\ \A s \in Runs : \/ /\ stdout'[s] = stdout[s]
                            /\ proc'[s] = proc[s] \/ (proc[s] = "running" /\ proc'[s] = "exited")
                         \/ proc[s] = "running" /\ proc'[s] = "exited" /\ Fair(stdout[s])'
  <2>1. CASE StopContainer(r)
    <3>. PICK h \in Runs : \E part : Leave(h, part) /\ Fair(part)
      BY <2>1, SilenceIsFair, CutIsFair DEF StopContainer, Holders
    <3>1. PICK part : Leave(h, part) /\ Fair(part)
      OBVIOUS
    <3>2. /\ \A s \in Runs : s # h => proc'[s] = proc[s]
          /\ proc'[h] = proc[h] \/ (proc[h] = "running" /\ proc'[h] = "exited")
      BY <3>1, LeaveOK
    <3>3. /\ stdout' = [s \in Runs |-> stdout'[s]]
          /\ \A s \in Runs \ {h} : stdout'[s] = stdout[s]
          /\ stdout'[h] = part \/ stdout'[h] = stdout[h]
          /\ proc[h] # "running" => stdout'[h] = stdout[h]
      BY <3>1, LeaveTold DEF AnswerInv
    <3>4. proc[h] = "running" => proc'[h] = "exited"
      BY <3>1 DEF Leave, Types
    <3>5. Fair(stdout[h]) => Fair(stdout[h])'
      BY <3>1, <3>3
    <3> QED BY <3>1, <3>2, <3>3, <3>4, <3>5
  <2>2. CASE StopContainerFails(r)
    BY <2>2 DEF StopContainerFails, AnswerInv, AnswerTypes
  <2> QED BY <2>1, <2>2 DEF StopActiveRun
<1>4. ASSUME NEW s \in Runs PROVE Heard(s)' /\ Answered(s)'
  <2>1. Heard(s) /\ Answered(s) /\ Sound(s)
    BY DEF AnswerInv, BackendInv
  <2>2. CASE stdout'[s] = stdout[s] /\ (proc'[s] = proc[s] \/ (proc[s] = "running" /\ proc'[s] = "exited"))
    <3>1. Silent(s)
      BY <1>1, <2>2 DEF Silent, MovesOn, Reaped
    <3>2. CASE s = r
      BY <1>1, <1>2, <2>1, <3>1, <3>2, HelperRun
    <3>3. CASE s # r
      <4>1. helper'[s] = helper[s]
        BY <1>2, <3>3
      <4>2. interrupt[s] = "none" /\ exec[s] = "communicating" => s \in active
        BY <2>1 DEF Answered, Uninterrupted
      <4> QED BY <1>1, <2>1, <3>1, <4>1, <4>2, SilentRun
    <3> QED BY <3>2, <3>3
  <2>3. CASE proc[s] = "running" /\ proc'[s] = "exited" /\ Fair(stdout[s])'
    BY <1>1, <2>1, <2>3, WritesRun
  <2> QED BY <1>3, <2>2, <2>3
<1>5. AnswerTypes'
  BY <1>1, <1>3 DEF AnswerInv, AnswerTypes
<1> QED BY <1>4, <1>5 DEF AnswerInv

-----------------------------------------------------------------------------
\* Before anything runs nothing has been said.
LEMMA InitAnswers == Init => AnswerInv
<1> SUFFICES ASSUME Init PROVE AnswerInv
  OBVIOUS
<1>1. AnswerTypes
  BY DEF Init, AnswerTypes
<1>2. ASSUME NEW r \in Runs PROVE Heard(r) /\ Answered(r)
  <2>1. Heard(r)
    BY SilenceIsFair DEF Init, Heard
  <2>2. Answered(r)
    BY DEF Init, Answered, Uninterrupted
  <2> QED BY <2>1, <2>2
<1> QED BY <1>1, <1>2 DEF AnswerInv

\* Every step keeps what is known of the answers.
LEMMA NextTold == NobodyForges /\ Types /\ BackendInv /\ AnswerInv /\ [Next]_vars => AnswerInv'
<1> SUFFICES ASSUME NobodyForges, Types, BackendInv, AnswerInv, [Next]_vars PROVE AnswerInv'
  OBVIOUS
<1>1. CASE UNCHANGED vars
  <2>1. ASSUME NEW s \in Runs PROVE Heard(s)' /\ Answered(s)'
    BY <1>1, AnswerAlone DEF AnswerInv, Alone, vars
  <2>2. AnswerTypes'
    BY <1>1 DEF AnswerInv, AnswerTypes, vars
  <2> QED BY <2>1, <2>2 DEF AnswerInv
<1>2. ASSUME NEW r \in Runs, NEW k \in Helpers, StopActiveRun(r, k) PROVE AnswerInv'
  BY <1>2, StopActiveRunTold
<1>3. ASSUME NEW r \in Runs,
             \/ ExecuteRefused(r) \/ ExecuteStarts(r) \/ ExecuteRegisters(r)
             \/ HostTimesOut(r) \/ HostReaped(r) \/ WorkerStores(r) \/ Cancel(r) \/ TimerFires(r)
      PROVE  AnswerInv'
  <2>1. Sound(r) /\ AnswerTypes /\ Heard(r) /\ Answered(r)
    BY DEF BackendInv, AnswerInv
  <2>2. Kept(r)
    BY <1>3, <2>1, ExecuteRefusedKeeps, ExecuteStartsKeeps, ExecuteRegistersKeeps,
       HostTimesOutKeeps, HostReapedKeeps, WorkerStoresKeeps, CancelKeeps, TimerFiresKeeps
  <2>3. Told(r)
    BY <1>3, <2>1, ExecuteRefusedTold, ExecuteStartsTold, ExecuteRegistersTold,
       HostTimesOutTold, HostReapedTold, WorkerStoresTold, CancelTold, TimerFiresTold
  <2> QED BY <2>2, <2>3, ToldInv
<1>4. ASSUME NEW r \in Runs, Unwinds(r) PROVE AnswerInv'
  <2>1. Sound(r) /\ AnswerTypes /\ Heard(r) /\ Answered(r)
    BY DEF BackendInv, AnswerInv
  <2>2. Kept(r)
    BY <1>4, <2>1, SpawnCancelledKeeps, SpawnClosedKeeps, CommunicateReturnsKeeps,
       ContainerCancelledKeeps, HostCancelledKeeps, HostReapCancelledKeeps DEF Unwinds
  <2>3. Told(r)
    BY <1>4, <2>1, SpawnCancelledTold, CommunicateReturnsTold, CancelsTold DEF Unwinds
  <2> QED BY <2>2, <2>3, ToldInv
<1>5. ASSUME NEW r \in Runs, NEW k \in Helpers,
             \/ ContainerCancelCalled(r, k) \/ HostCancelCalled(r, k) \/ Gathered(r, k)
             \/ KillClient(r, k) \/ WaitEnds(r, k)
      PROVE  AnswerInv'
  <2>1. Sound(r) /\ AnswerTypes /\ Heard(r) /\ Answered(r)
    BY DEF BackendInv, AnswerInv
  <2>2. Kept(r)
    BY <1>5, <2>1, ContainerCancelCalledKeeps, HostCancelCalledKeeps, GatheredKeeps,
       KillClientKeeps, WaitEndsKeeps
  <2>3. Told(r)
    BY <1>5, <2>1, HelperStepsTold
  <2> QED BY <2>2, <2>3, ToldInv
<1>6. ASSUME NEW r \in Runs, World(r) PROVE AnswerInv'
  <2>1. Sound(r) /\ AnswerTypes /\ Heard(r) /\ Answered(r)
    BY DEF BackendInv, AnswerInv
  <2>2. Kept(r)
    BY <1>6, <2>1, CliCreatesKeeps, CliStartsKeeps, ProcessMovesKeeps, RunnerEndsKeeps
       DEF World
  <2>3. Told(r)
    BY <1>6, <2>1, CliCreatesTold, CliStartsTold, DiesTold, TransportClosesTold, RunnerEndsTold DEF World
  <2> QED BY <2>2, <2>3, ToldInv
<1> QED BY <1>1, <1>2, <1>3, <1>4, <1>5, <1>6 DEF Next, HelperSteps

\* A run is reported completed only if its own runner said so, or it was stopped before its
\* runner had said anything when a tool had printed a success; and a runner's success is not
\* lost unless a start marker was printed after it, something printed is no text, or the
\* executor's own limit passed: execute returns what parse_runner_output makes of the output
\* of its own process, of which a clean-up task of another run may have cut the end.
THEOREM AnswersAreHonest ==
  ASSUME NobodyForges
  PROVE  Spec => []AnswerHonest
<1>1. Init => AnswerInv
  BY InitAnswers
<1>2. Types /\ BackendInv /\ AnswerInv /\ [Next]_vars => AnswerInv'
  BY NextTold
<1>3. AnswerInv => AnswerHonest
  <2> SUFFICES ASSUME AnswerInv, NEW r \in Runs
               PROVE  LET out == stdout[r] IN
                      /\ answer[r] = "completed" =>
                           \/ out.status = "success"
                           \/ out.status = "stopped" /\ SaysSuccess(out.before)
                      /\ /\ exec[r] = "ended" /\ r \notin active /\ interrupt[r] = "none"
                         /\ out.status = "success" /\ "start" \notin Range(out.after)
                         /\ "bytes" \notin Range(Written(out))
                         => answer[r] \in {"completed", "timeout"}
    BY DEF AnswerHonest
  <2>1. Heard(r) /\ Answered(r)
    BY DEF AnswerInv
  <2>2. PICK out : out = stdout[r] /\ Fair(out)
    BY <2>1 DEF Heard
  <2>3. ASSUME answer[r] = "completed"
        PROVE  out.status = "success" \/ (out.status = "stopped" /\ SaysSuccess(out.before))
    <3>1. ParseRunnerOutput(Written(out)) = "completed"
      BY <2>1, <2>2, <2>3 DEF Answered, Deserved, Outcome
    <3> QED BY <2>2, <3>1, SuccessIsTheRunners
  <2>4. ASSUME exec[r] = "ended", r \notin active, interrupt[r] = "none",
               out.status = "success", "start" \notin Range(out.after), "bytes" \notin Range(Written(out))
        PROVE  answer[r] \in {"completed", "timeout"}
    <3>1. Deserved(r) = "completed"
      BY <2>2, <2>4, SuccessIsFound DEF Deserved, Outcome
    <3>2. proc[r] # "none"
      BY <2>1, <2>2, <2>4 DEF Heard, Silence
    <3> QED BY <2>1, <2>4, <3>1, <3>2 DEF Answered, Uninterrupted
  <2> QED BY <2>2, <2>3, <2>4
<1> QED BY <1>1, <1>2, <1>3, BackendInvariant, PTL DEF Spec
=============================================================================
