--------------------- MODULE ExecutionCoordinatorProofs ---------------------
(***************************************************************************)
(* Proofs about ExecutionCoordinator, for every set of runs, groups, slots *)
(* and requests, every retention limit and every way a backend may end.    *)
(* The first part proves the types and that a group has one active run,    *)
(* from IInv. The second is about the tables: the maps a reader looks a    *)
(* run up in tell one story, the table of finished runs keeps its bound,   *)
(* nothing is left behind in the running maps, and a terminal status is    *)
(* final, all from one invariant, Books, on top of IInv. The third is      *)
(* about the workspace sessions, the fourth about the service a group      *)
(* gets: no queued run is left without a worker, no backend call starts    *)
(* for a run that has its result, the monitor shows what a group is doing, *)
(* and the coordinator implements RunQueue. Each of these holds under a    *)
(* hypothesis on the constants that it does not hold without: that no      *)
(* backend raises a CancelledError nobody asked for (it would end the      *)
(* group's worker), that no waiter is cancelled (it would cancel the       *)
(* shared future), that no OpenAI run with a coordinator timeout may       *)
(* resume a session (wait_for may swallow its cancellation).               *)
(***************************************************************************)
EXTENDS ExecutionCoordinator, SequenceTheorems, TLAPS

(***************************************************************************)
(* The inductive invariant. TypeOK is not inductive: that a stored result  *)
(* has a session and a status of its own needs to know which runs were     *)
(* submitted, which have a session and what a finished task returned.      *)
(***************************************************************************)

\* Whatever the coordinator holds about a run, the run was submitted.
Submitted ==
  /\ \A r \in Runs : status[r] # "none" \/ future[r] # "none" \/ r \in running
                       \/ task[r] # "none" => request[r] # None
  /\ \A g \in Groups : \A i \in 1..Len(queue[g]) :
       request[queue[g][i]] # None /\ request[queue[g][i]].group = g

\* A run in the running maps has a session, an unfinished task is in the
\* running maps, and what tasks and wait_for leave behind is well-formed.
TaskData ==
  /\ \A r \in running : sessionOf[r] # None
  /\ \A r \in Runs : task[r] \notin {"none", "done"} => r \in running
  /\ \A r \in Runs : task[r] = "done" =>
                       outcome[r] \in {"completed", "failed", "timeout", "cancelled_error"}
  /\ \A r \in Runs : task[r] = "returned" => outcome[r] \in AllOutcomes

\* The worker that holds the event loop is the one at its loop head, and a run
\* that occupies its group is the one its group's worker awaits.
WorkerData ==
  /\ \A g \in Groups : worker[g] = "loop" <=> onLoop = g
  /\ \A r \in Runs : Occupies(r) => worker[GroupOf(r)] = "awaiting" /\ current[GroupOf(r)] = r
  /\ \A g \in Groups : worker[g] = "awaiting" => current[g] \in running /\ GroupOf(current[g]) = g

IInv == TypeOK /\ Submitted /\ TaskData /\ WorkerData

-----------------------------------------------------------------------------
(***************************************************************************)
(* Lemmas about the operators.                                             *)
(***************************************************************************)

\* A submitted run has a well-formed request, workspace key and backend name.
LEMMA RequestFacts ==
  ASSUME TypeOK, NEW r \in Runs, request[r] # None
  PROVE  /\ request[r] \in RequestType
         /\ request[r].slot \in Slots
         /\ request[r].timed \in BOOLEAN
         /\ GroupOf(r) \in Groups
         /\ KeyOf(r) \in Keys
         /\ BackendOf(r) \in Names
<1>1. request[r] \in RequestType
  BY ConstantsAssumption DEF TypeOK
<1>2. QED
  BY <1>1 DEF RequestType, GroupOf, KeyOf, WorkspaceKey, Keys, BackendOf, SelectBackend, Names

\* Base and minted sessions are sessions.
LEMMA SessionConstructors ==
  ASSUME NEW k \in Keys, NEW r \in Runs, NEW use \in {"start", "retry", "peek"}
  PROVE  BaseSession(k) \in Sessions /\ NewSession(k, r, use) \in Sessions
  BY DEF BaseSession, NewSession, Sessions

\* _resolve_session_id always yields a session.
LEMMA ResolveType ==
  ASSUME TypeOK, NEW r \in Runs, request[r] # None, NEW use \in {"start", "retry", "peek"}
  PROVE  ResolveSessionId(r, use) \in Sessions
<1>1. KeyOf(r) \in Keys /\ store[KeyOf(r)] \in StoreType
  BY RequestFacts DEF TypeOK
<1>2. store[KeyOf(r)].session \in Sessions \cup {None}
  BY <1>1 DEF StoreType
<1>3. BaseSession(KeyOf(r)) \in Sessions /\ NewSession(KeyOf(r), r, use) \in Sessions
  BY <1>1, SessionConstructors
<1>4. QED
  BY <1>2, <1>3 DEF ResolveSessionId, PreviewSessionId

\* _store_terminal_result keeps the shape of everything it writes.
LEMMA StoreTerminalType ==
  ASSUME TypeOK, NEW r \in Runs, NEW res \in Results, StoreTerminalResult(r, res)
  PROVE  /\ future'   \in [Runs -> {"none", "pending", "abandoned", "lost"} \cup Terminal]
         /\ status'   \in [Runs -> {"none", "queued", "running"} \cup Terminal]
         /\ snapshot' \in [Runs -> SnapshotType \cup {None}]
         /\ results'  \in [Runs -> Results \cup {None}]
         /\ order'    \in Seq(Runs)
<1>1. res.status \in Terminal /\ res.backend \in Names /\ res.session \in Sessions
      /\ res.slot \in Slots \cup {MainSlot}
  BY DEF Results
<1>2. future' \in [Runs -> {"none", "pending", "abandoned", "lost"} \cup Terminal]
  BY <1>1 DEF StoreTerminalResult, TypeOK
<1>3. status' \in [Runs -> {"none", "queued", "running"} \cup Terminal]
  BY <1>1 DEF StoreTerminalResult, TypeOK
<1>4. results' \in [Runs -> Results \cup {None}]
  BY DEF StoreTerminalResult, TypeOK
<1>5. order' \in Seq(Runs)
  <2>1. Append(order, r) \in Seq(Runs) /\ Append(order, r) # <<>>
    <3>1. order \in Seq(Runs)
      BY DEF TypeOK
    <3>2. QED
      BY <3>1, AppendProperties
  <2>2. Tail(Append(order, r)) \in Seq(Runs)
    BY <2>1, HeadTailProperties
  <2>3. QED
    BY <2>1, <2>2 DEF StoreTerminalResult
<1>6. snapshot' \in [Runs -> SnapshotType \cup {None}]
  <2>1. ASSUME NEW x \in Runs, snapshot[x] # None
        PROVE  [snapshot[x] EXCEPT !.status = res.status, !.backend = res.backend,
                                   !.session = res.session, !.slot = res.slot] \in SnapshotType
    <3>1. snapshot[x] \in SnapshotType
      BY <2>1 DEF TypeOK
    <3>2. QED
      BY <3>1, <1>1 DEF SnapshotType
  <2>2. QED
    BY <2>1 DEF StoreTerminalResult, MarkTerminal, TypeOK
<1>7. QED
  BY <1>2, <1>3, <1>4, <1>5, <1>6

\* What _store_terminal_result does to the runs: it touches the future of r
\* only, and no status but that of r and of the evicted run.
LEMMA StoreTerminalEffect ==
  ASSUME TypeOK, NEW r \in Runs, NEW res \in Results, StoreTerminalResult(r, res)
  PROVE  \A x \in Runs :
           /\ x # r => future'[x] = future[x] /\ status'[x] \in {status[x], "none"}
           /\ status'[x] \in {status[x], "none", res.status}
           /\ future[x] = "none" <=> future'[x] = "none"
<1>1. res.status \in Terminal
  BY DEF Results
<1>2. QED
  BY <1>1 DEF StoreTerminalResult, TypeOK, Terminal

-----------------------------------------------------------------------------
(***************************************************************************)
(* IInv is inductive: one lemma per action, one step per conjunct.         *)
(***************************************************************************)

\* The invariant holds initially.
LEMMA InitIInv == Init => IInv
<1> SUFFICES ASSUME Init PROVE IInv
  OBVIOUS
<1> USE DEF Init
<1>1. TypeOK
  <2>1. \A k \in Keys : store[k] \in StoreType
    BY DEF FreshState, StoreType
  <2>2. QED
    BY <2>1, ConstantsAssumption DEF TypeOK
<1>2. Submitted
  BY DEF Submitted
<1>3. TaskData
  BY DEF TaskData
<1>4. WorkerData
  BY ConstantsAssumption DEF WorkerData, Occupies
<1>5. QED
  BY <1>1, <1>2, <1>3, <1>4 DEF IInv

\* submit_execution preserves the invariant.
LEMMA SubmitStep ==
  ASSUME IInv, NEW r \in Runs, NEW q \in Requests, SubmitExecution(r, q)
  PROVE  IInv'
<1> USE DEF IInv, SubmitExecution, Enqueue, taskVars, storeVars
<1>1. q \in RequestType /\ q.group \in Groups /\ q.slot \in Slots /\ q # None
  BY ConstantsAssumption DEF RequestType
<1>2. /\ Append(queue[q.group], r) \in Seq(Runs)
      /\ Len(Append(queue[q.group], r)) = Len(queue[q.group]) + 1
      /\ \A i \in 1..Len(queue[q.group]) : Append(queue[q.group], r)[i] = queue[q.group][i]
      /\ Append(queue[q.group], r)[Len(queue[q.group]) + 1] = r
  BY <1>1, AppendProperties DEF TypeOK
<1>3. TypeOK'
  <2>1. snapshot' \in [Runs -> SnapshotType \cup {None}]
    BY <1>1 DEF TypeOK, SnapshotType
  <2>2. QED
    BY <1>1, <1>2, <2>1 DEF TypeOK, EnsureWorker
<1>4. Submitted'
  <2>1. \A g \in Groups : \A i \in 1..Len(queue'[g]) :
          request'[queue'[g][i]] # None /\ request'[queue'[g][i]].group = g
    <3> SUFFICES ASSUME NEW g \in Groups, NEW i \in 1..Len(queue'[g])
                 PROVE  request'[queue'[g][i]] # None /\ request'[queue'[g][i]].group = g
      OBVIOUS
    <3>1. CASE g # q.group
      BY <3>1 DEF TypeOK, Submitted
    <3>2. CASE g = q.group /\ i = Len(queue[g]) + 1
      BY <1>1, <1>2, <3>2 DEF TypeOK
    <3>3. CASE g = q.group /\ i \in 1..Len(queue[g])
      <4>1. queue'[g][i] = queue[g][i] /\ queue[g][i] \in Runs
        BY <1>1, <1>2, <3>3 DEF TypeOK
      <4>2. QED
        BY <1>1, <4>1, <3>3 DEF TypeOK, Submitted
    <3>4. QED
      BY <1>1, <1>2, <3>1, <3>2, <3>3 DEF TypeOK
  <2>2. QED
    BY <1>1, <2>1 DEF TypeOK, Submitted
<1>5. TaskData'
  BY DEF TypeOK, TaskData
<1>6. WorkerData'
  <2>1. ~Occupies(r)
    BY DEF Submitted, Occupies, TypeOK
  <2>2. QED
    BY <2>1, <1>1, ConstantsAssumption DEF WorkerData, Occupies, GroupOf, TypeOK, EnsureWorker, LoopFree, Submitted
<1>7. QED
  BY <1>3, <1>4, <1>5, <1>6

\* Cancelling a queued run preserves the invariant.
LEMMA CancelQueuedStep ==
  ASSUME IInv, NEW r \in Runs, CancelQueued(r)
  PROVE  IInv'
<1> USE DEF IInv, CancelQueued, workerVars, taskVars, storeVars
<1>1. request[r] # None
  BY DEF Submitted
<1> DEFINE res == BuildResult("cancelled", BackendOf(r), ResolveSessionId(r, "peek"),
                              request[r].slot)
<1>2. res \in Results
  BY <1>1, RequestFacts, ResolveType DEF BuildResult, Results, Terminal
<1>3. StoreTerminalResult(r, res)
  OBVIOUS
<1> HIDE DEF res
<1>4. TypeOK'
  BY <1>2, <1>3, StoreTerminalType DEF TypeOK
<1>5. Submitted'
  BY <1>1, <1>2, <1>3, StoreTerminalEffect DEF Submitted, TypeOK
<1>6. TaskData' /\ WorkerData'
  BY DEF TaskData, WorkerData, Occupies, GroupOf
<1>7. QED
  BY <1>4, <1>5, <1>6

\* Cancelling a running run preserves the invariant.
LEMMA CancelRunningStep ==
  ASSUME IInv, NEW r \in Runs, CancelRunning(r)
  PROVE  IInv'
<1> USE DEF IInv, CancelRunning, storeVars
<1>1. request[r] # None /\ sessionOf[r] \in Sessions
  BY DEF Submitted, TaskData, TypeOK
<1> DEFINE res == BuildResult("cancelled", BackendOf(r), sessionOf[r], request[r].slot)
<1>2. res \in Results
  BY <1>1, RequestFacts DEF BuildResult, Results, Terminal
<1>3. StoreTerminalResult(r, res)
  OBVIOUS
<1> HIDE DEF res
<1>4. TypeOK'
  BY <1>2, <1>3, StoreTerminalType DEF TypeOK, CancelTask
<1>5. Submitted'
  BY <1>1, <1>2, <1>3, StoreTerminalEffect DEF Submitted, TypeOK, CancelTask
<1>6. TaskData'
  BY DEF TaskData, TypeOK, CancelTask
<1>7. WorkerData'
  BY DEF WorkerData, TypeOK, Occupies, GroupOf, CancelTask
<1>8. QED
  BY <1>4, <1>5, <1>6, <1>7

\* Cancelling a waiter preserves the invariant.
LEMMA CancelWaiterStep ==
  ASSUME IInv, NEW r \in Runs, CancelWaiter(r)
  PROVE  IInv'
<1> USE DEF IInv, CancelWaiter, workerVars, taskVars, storeVars
<1>1. TypeOK'
  BY DEF TypeOK
<1>2. Submitted'
  BY DEF TypeOK, Submitted
<1>3. TaskData' /\ WorkerData'
  BY DEF TaskData, WorkerData, Occupies, GroupOf
<1>4. QED
  BY <1>1, <1>2, <1>3

\* Where an entry of the tail of a sequence was before.
LEMMA TailIndex ==
  ASSUME NEW S, NEW s \in Seq(S), s # <<>>, NEW i \in 1..Len(Tail(s))
  PROVE  i + 1 \in 1..Len(s) /\ Tail(s)[i] = s[i + 1]
<1>1. Len(s) \in Nat /\ Len(Tail(s)) = Len(s) - 1 /\ Tail(s)[i] = s[i + 1]
  BY HeadTailProperties, LenProperties
<1>2. QED
  BY <1>1

\* The deque without its head still holds only submitted runs of its group.
LEMMA PopKeepsQueues ==
  ASSUME IInv, NEW g \in Groups, queue[g] # <<>>, queue' = [queue EXCEPT ![g] = Tail(@)]
  PROVE  /\ Head(queue[g]) \in Runs
         /\ request[Head(queue[g])] # None
         /\ GroupOf(Head(queue[g])) = g
         /\ queue' \in [Groups -> Seq(Runs)]
         /\ request' = request =>
              \A h \in Groups : \A i \in 1..Len(queue'[h]) :
                request'[queue'[h][i]] # None /\ request'[queue'[h][i]].group = h
<1> USE DEF IInv
<1>1. /\ Head(queue[g]) \in Runs
      /\ Tail(queue[g]) \in Seq(Runs)
      /\ Len(Tail(queue[g])) = Len(queue[g]) - 1
      /\ \A i \in 1..Len(Tail(queue[g])) : Tail(queue[g])[i] = queue[g][i + 1]
  BY HeadTailProperties DEF TypeOK
<1>2. Head(queue[g]) = queue[g][1] /\ 1 \in 1..Len(queue[g])
  BY EmptySeq, <1>1 DEF TypeOK
<1>3. request[Head(queue[g])] # None /\ GroupOf(Head(queue[g])) = g
  BY <1>2 DEF Submitted, GroupOf
<1>4. ASSUME request' = request, NEW h \in Groups, NEW i \in 1..Len(queue'[h])
      PROVE  request'[queue'[h][i]] # None /\ request'[queue'[h][i]].group = h
  <2>1. CASE h = g
    <3>1. queue'[h] = Tail(queue[g]) /\ Len(queue[g]) \in Nat
      BY <2>1 DEF TypeOK
    <3>2. i \in 1..Len(Tail(queue[g]))
      BY <1>4, <3>1
    <3>3. i + 1 \in 1..Len(queue[g]) /\ queue'[h][i] = queue[g][i + 1]
      <4>1. queue[g] \in Seq(Runs)
        BY DEF TypeOK
      <4>2. i + 1 \in 1..Len(queue[g]) /\ Tail(queue[g])[i] = queue[g][i + 1]
        BY ONLY <4>1, <3>2, queue[g] # <<>>, TailIndex
      <4>3. QED
        BY <3>1, <4>2
    <3>4. QED
      BY <1>4, <2>1, <3>3 DEF Submitted
  <2>2. CASE h # g
    BY <1>4, <2>2 DEF Submitted, TypeOK
  <2>3. QED
    BY <2>1, <2>2
<1>5. QED
  BY <1>1, <1>3, <1>4 DEF TypeOK

\* The first step of a worker preserves the invariant.
LEMMA WorkerStartStep ==
  ASSUME IInv, NEW g \in Groups, WorkerStart(g)
  PROVE  IInv'
<1> USE DEF IInv, WorkerStart, runVars, taskVars, storeVars
<1>1. TypeOK'
  BY DEF TypeOK
<1>2. Submitted' /\ TaskData'
  BY DEF Submitted, TaskData
<1>3. WorkerData'
  BY RequestFacts, ConstantsAssumption DEF WorkerData, TypeOK, Occupies, GroupOf, LoopFree
<1>4. QED
  BY <1>1, <1>2, <1>3

\* Skipping a settled entry preserves the invariant.
LEMMA WorkerSkipStep ==
  ASSUME IInv, NEW g \in Groups, WorkerSkip(g)
  PROVE  IInv'
<1> USE DEF IInv, WorkerSkip, runVars, taskVars, storeVars
<1>1. TypeOK'
  BY PopKeepsQueues DEF TypeOK
<1>2. Submitted'
  BY PopKeepsQueues DEF Submitted
<1>3. TaskData' /\ WorkerData'
  BY DEF TaskData, WorkerData, Occupies, GroupOf
<1>4. QED
  BY <1>1, <1>2, <1>3

\* Failing a run without a backend preserves the invariant.
LEMMA WorkerRejectStep ==
  ASSUME IInv, NEW g \in Groups, WorkerReject(g)
  PROVE  IInv'
<1> USE DEF IInv, WorkerReject, taskVars, storeVars
<1> DEFINE r == Head(queue[g])
           res == BuildResult("failed", BackendOf(r), ResolveSessionId(r, "peek"),
                    IF BackendOf(r) = Unknown THEN request[r].slot ELSE MainSlot)
<1>1. r \in Runs /\ request[r] # None
  BY PopKeepsQueues
<1>2. res \in Results
  BY <1>1, RequestFacts, ResolveType DEF BuildResult, Results, Terminal
<1>3. StoreTerminalResult(r, res)
  OBVIOUS
<1> HIDE DEF res, r
<1>4. TypeOK'
  BY <1>1, <1>2, <1>3, StoreTerminalType, PopKeepsQueues DEF TypeOK
<1>5. Submitted'
  <2>1. \A x \in Runs : x # r => /\ status[x] = "none" => status'[x] = "none"
                                 /\ future[x] = "none" => future'[x] = "none"
    BY <1>1, <1>2, <1>3, StoreTerminalEffect
  <2>2. \A h \in Groups : \A i \in 1..Len(queue'[h]) :
          request'[queue'[h][i]] # None /\ request'[queue'[h][i]].group = h
    BY PopKeepsQueues
  <2>3. \A x \in Runs : status'[x] # "none" \/ future'[x] # "none" \/ x \in running'
                           \/ task'[x] # "none" => request'[x] # None
    <3>1. running' = running /\ task' = task /\ request' = request
      OBVIOUS
    <3>2. QED
      BY ONLY <1>1, <2>1, <3>1, Submitted DEF Submitted
  <2>4. QED
    BY ONLY <2>2, <2>3 DEF Submitted
<1>6. TaskData' /\ WorkerData'
  BY DEF TaskData, WorkerData, Occupies, GroupOf
<1>7. QED
  BY <1>4, <1>5, <1>6

\* Starting a run preserves the invariant: its group was free.
LEMMA WorkerLaunchStep ==
  ASSUME IInv, NEW g \in Groups, WorkerLaunch(g)
  PROVE  IInv'
<1> USE DEF IInv, WorkerLaunch, storeVars
<1> DEFINE r == Head(queue[g])
           session == ResolveSessionId(r, "start")
<1>1. r \in Runs /\ request[r] # None /\ GroupOf(r) = g
  BY PopKeepsQueues
<1>2. session \in Sessions /\ session # None /\ BackendOf(r) \in Names
  BY <1>1, ConstantsAssumption, RequestFacts, ResolveType
<1> HIDE DEF session, r
<1>3. TypeOK'
  <2>1. snapshot' \in [Runs -> SnapshotType \cup {None}]
    <3>1. ASSUME snapshot[r] # None
          PROVE  [snapshot[r] EXCEPT !.status = "running", !.backend = BackendOf(r),
                                     !.session = session] \in SnapshotType
      <4>1. snapshot[r] \in SnapshotType
        BY <1>1, <3>1 DEF TypeOK
      <4>2. QED
        BY <4>1, <1>2 DEF SnapshotType
    <3>2. QED
      BY <1>1, <1>2, <3>1 DEF TypeOK, r, session
  <2>2. QED
    BY <1>1, <1>2, <2>1, PopKeepsQueues DEF TypeOK, r, session
<1>4. Submitted'
  BY <1>1, PopKeepsQueues DEF Submitted, TypeOK, r
<1>5. TaskData'
  BY <1>1, <1>2 DEF TaskData, TypeOK, r, session
<1>6. WorkerData'
  <2>1. worker[g] = "loop" /\ \A x \in Runs : Occupies(x) => GroupOf(x) # g
    BY DEF WorkerData
  <2>2. \A x \in Runs : Occupies(x)' => x = r \/ Occupies(x)
    BY DEF Occupies, TypeOK, r
  <2>3. \A h \in Groups : worker'[h] = "loop" <=> onLoop' = h
    BY ConstantsAssumption DEF WorkerData, TypeOK
  <2>4. worker'[g] = "awaiting" /\ current'[g] = r
    BY DEF TypeOK, r
  <2>5. \A h \in Groups : h # g => worker'[h] = worker[h] /\ current'[h] = current[h]
    BY DEF TypeOK
  <2>6. \A x \in Runs : Occupies(x) => request[x] # None
    BY DEF Occupies, Submitted
  <2>7. ASSUME NEW x \in Runs, Occupies(x)'
        PROVE  worker'[GroupOf(x)'] = "awaiting" /\ current'[GroupOf(x)'] = x
    <3>1. CASE x = r
      BY <3>1, <1>1, <2>4 DEF GroupOf
    <3>2. CASE x # r
      <4>1. Occupies(x) /\ GroupOf(x) # g /\ GroupOf(x) \in Groups
        BY <3>2, <2>7, <2>2, <2>1, <2>6, RequestFacts
      <4>2. QED
        BY <4>1, <2>5 DEF WorkerData, GroupOf
    <3>3. QED
      BY <3>1, <3>2
  <2>8. ASSUME NEW h \in Groups, worker'[h] = "awaiting"
        PROVE  current'[h] \in running' /\ request'[current'[h]].group = h
    <3>1. r \in running' /\ running \subseteq running' /\ request' = request
      BY DEF r
    <3>2. CASE h = g
      BY <3>1, <3>2, <1>1, <2>4 DEF GroupOf
    <3>3. CASE h # g
      <4>1. worker[h] = "awaiting" /\ current'[h] = current[h]
        BY <3>3, <2>5, <2>8
      <4>2. QED
        BY <3>1, <4>1 DEF WorkerData, GroupOf
    <3>4. QED
      BY <3>2, <3>3
  <2>9. QED
    BY ONLY <2>3, <2>7, <2>8 DEF WorkerData, GroupOf
<1>7. QED
  BY <1>3, <1>4, <1>5, <1>6

\* The end of a worker preserves the invariant.
LEMMA WorkerExitStep ==
  ASSUME IInv, NEW g \in Groups, WorkerExit(g)
  PROVE  IInv'
<1> USE DEF IInv, WorkerExit, runVars, taskVars, storeVars
<1>1. TypeOK'
  BY DEF TypeOK
<1>2. Submitted' /\ TaskData'
  BY DEF Submitted, TaskData
<1>3. WorkerData'
  BY RequestFacts, ConstantsAssumption DEF WorkerData, TypeOK, Occupies, GroupOf, Submitted
<1>4. QED
  BY <1>1, <1>2, <1>3

\* The three ways the worker goes on after its execution task is done.
LEMMA WorkerResumeStep ==
  ASSUME IInv, NEW g \in Groups, NEW r \in Runs,
         WorkerDrops(g, r) \/ WorkerStores(g, r) \/ WorkerDies(g, r)
  PROVE  IInv'
<1> USE DEF IInv, storeVars
<1>1. /\ WorkerWakes(g, r)
      /\ \/ worker' = [worker EXCEPT ![g] = "loop"] /\ onLoop' = g
         \/ worker' = [worker EXCEPT ![g] = "dead"] /\ onLoop' = onLoop
  BY DEF WorkerDrops, WorkerStores, WorkerDies
<1>2. request[r] # None /\ r \notin running' /\ task'[r] = "done"
  BY <1>1 DEF WorkerWakes, Submitted
<1>3. /\ cancelled' \subseteq Runs
      /\ future'   \in [Runs -> {"none", "pending", "abandoned", "lost"} \cup Terminal]
      /\ status'   \in [Runs -> {"none", "queued", "running"} \cup Terminal]
      /\ snapshot' \in [Runs -> SnapshotType \cup {None}]
      /\ results'  \in [Runs -> Results \cup {None}]
      /\ order'    \in Seq(Runs)
      /\ \A x \in Runs : x # r => /\ status[x] = "none" => status'[x] = "none"
                                  /\ future[x] = "none" => future'[x] = "none"
  <2>1. CASE WorkerDrops(g, r)
    BY <2>1 DEF WorkerDrops, TypeOK
  <2>2. CASE WorkerDies(g, r)
    BY <2>2 DEF WorkerDies, TypeOK
  <2>3. CASE WorkerStores(g, r)
    <3> DEFINE res == BuildResult(outcome[r], BackendOf(r), sessionOf[r], request[r].slot)
    <3>1. CASE sessionOf[r] \in Sessions
      <4>1. outcome[r] \in Terminal
        BY <2>3 DEF WorkerStores, WorkerWakes, TaskData, Terminal
      <4>2. res \in Results
        BY <1>2, <3>1, <4>1, RequestFacts DEF BuildResult, Results
      <4>3. StoreTerminalResult(r, res) /\ cancelled' = cancelled
        BY <2>3 DEF WorkerStores
      <4> HIDE DEF res
      <4>4. QED
        BY <4>2, <4>3, StoreTerminalType, StoreTerminalEffect DEF TypeOK
    <3>2. r \in running
      BY <2>3 DEF WorkerStores, WorkerWakes, WorkerData
    <3>3. QED
      BY <3>1, <3>2 DEF TaskData, TypeOK
  <2>4. QED
    BY <2>1, <2>2, <2>3
<1>4. TypeOK'
  BY <1>1, <1>3 DEF TypeOK, WorkerWakes
<1>5. Submitted'
  <2>1. request' = request /\ queue' = queue /\ task' = task /\ running' \subseteq running
    BY <1>1 DEF WorkerWakes
  <2>2. \A x \in Runs : x # r => /\ status[x] = "none" => status'[x] = "none"
                                 /\ future[x] = "none" => future'[x] = "none"
    BY <1>3
  <2>3. \A x \in Runs : status'[x] # "none" \/ future'[x] # "none" \/ x \in running'
                           \/ task'[x] # "none" => request'[x] # None
    BY ONLY Submitted, <1>2, <2>1, <2>2 DEF Submitted
  <2>4. QED
    BY ONLY Submitted, <2>1, <2>3 DEF Submitted
<1>6. TaskData'
  BY <1>1 DEF TaskData, TypeOK, WorkerWakes
<1>7. WorkerData'
  BY <1>1, <1>2, RequestFacts, ConstantsAssumption
     DEF WorkerData, TypeOK, Occupies, GroupOf, Submitted, WorkerWakes, LoopFree
<1>8. QED
  BY <1>4, <1>5, <1>6, <1>7

-----------------------------------------------------------------------------
(***************************************************************************)
(* The steps of an execution task.                                         *)
(***************************************************************************)

\* An unfinished task belongs to a submitted run with a session and a workspace.
LEMMA TaskFacts ==
  ASSUME IInv, NEW r \in Runs, task[r] \notin {"none", "done"}
  PROVE  /\ r \in running
         /\ request[r] # None
         /\ sessionOf[r] \in Sessions
         /\ KeyOf(r) \in Keys
         /\ request[r].timed \in BOOLEAN
<1>1. r \in running /\ request[r] # None
  BY DEF IInv, TaskData, Submitted
<1>2. sessionOf[r] \in Sessions
  BY <1>1 DEF IInv, TaskData, TypeOK
<1>3. QED
  BY <1>1, <1>2, RequestFacts DEF IInv

\* A step that keeps the running maps and the queues, and changes a task only
\* from one unfinished state to another or to "done" with a status, preserves
\* everything but the types.
LEMMA TaskKeepsRest ==
  ASSUME IInv, TypeOK', NEW r \in Runs, r \in running,
         UNCHANGED <<request, future, status, queue, worker, current, onLoop, running>>,
         sessionOf'[r] # None,
         \A x \in Runs : x # r => /\ task'[x] = task[x]
                                  /\ outcome'[x] = outcome[x]
                                  /\ sessionOf'[x] = sessionOf[x],
         task'[r] = "done" => outcome'[r] \in {"completed", "failed", "timeout", "cancelled_error"},
         task'[r] = "returned" => outcome'[r] \in AllOutcomes
  PROVE  IInv'
<1> USE DEF IInv
<1>1. request[r] # None
  BY DEF Submitted
<1>2. Submitted'
  BY <1>1 DEF Submitted
<1>3. TaskData'
  BY DEF TaskData, TypeOK
<1>4. WorkerData'
  BY DEF WorkerData, Occupies, GroupOf
<1>5. QED
  BY <1>2, <1>3, <1>4

\* TaskStart preserves the invariant.
LEMMA TaskStartStep ==
  ASSUME IInv, NEW r \in Runs, TaskStart(r)
  PROVE  IInv'
<1> USE DEF TaskStart, runVars, workerVars
<1>1. r \in running /\ sessionOf[r] \in Sessions /\ sessionOf[r] # None
  BY TaskFacts, ConstantsAssumption
<1>2. TypeOK'
  BY <1>1 DEF IInv, TypeOK
<1>3. task' = [task EXCEPT ![r] = "executing"] /\ task \in [Runs -> {"none", "created",
        "executing", "returned", "unwinding", "cancelling", "detaching", "done"}]
  BY DEF IInv, TypeOK
<1>4. QED
  BY <1>1, <1>2, <1>3, TaskKeepsRest

\* The fresh retry after a failed resume preserves the invariant.
LEMMA RetryStep ==
  ASSUME IInv, NEW r \in Runs, task[r] \notin {"none", "done"}, RetryFresh(r),
         UNCHANGED <<request, future, status, results, order, workerVars>>
  PROVE  IInv'
<1> DEFINE key   == KeyOf(r)
           reset == Invalidate(store[key])
           fresh == PreviewSessionId(reset, key, BackendOf(r), TRUE, NewSession(key, r, "retry"))
<1>1. r \in running /\ sessionOf[r] \in Sessions /\ key \in Keys
  BY TaskFacts
<1>2. reset \in StoreType
  BY DEF Invalidate, StoreType
<1>3. fresh \in Sessions /\ fresh # None
  <2>1. NewSession(key, r, "retry") \in Sessions
    BY <1>1, SessionConstructors
  <2>2. fresh = NewSession(key, r, "retry")
    BY DEF PreviewSessionId, Invalidate
  <2>3. QED
    BY <2>1, <2>2, ConstantsAssumption
<1>4. /\ snapshot'  = [snapshot EXCEPT ![r] =
                         IF @ = None THEN None
                         ELSE [@ EXCEPT !.attempted = TRUE, !.succeeded = "unknown"]]
      /\ store'     = [store EXCEPT ![key] = reset]
      /\ revoked'   = revoked \cup {sessionOf[r]}
      /\ heard'     = [heard EXCEPT ![key] = None]
      /\ sessionOf' = [sessionOf EXCEPT ![r] = fresh]
      /\ used'      = used \cup {fresh}
      /\ attempt'   = [attempt EXCEPT ![r] = 2]
      /\ task'      = [task EXCEPT ![r] = "executing"]
      /\ outcome'   = [outcome EXCEPT ![r] = "none"]
      /\ live'      = live \cup {r}
      /\ committer' = committer
  BY DEF RetryFresh
<1> HIDE DEF key, reset, fresh
<1>5. snapshot' \in [Runs -> SnapshotType \cup {None}]
  <2>1. ASSUME snapshot[r] # None
        PROVE  [snapshot[r] EXCEPT !.attempted = TRUE, !.succeeded = "unknown"] \in SnapshotType
    <3>1. snapshot[r] \in SnapshotType
      BY <2>1 DEF IInv, TypeOK
    <3>2. QED
      BY <3>1 DEF SnapshotType
  <2>2. QED
    BY <1>4, <2>1 DEF IInv, TypeOK
<1>6. TypeOK'
  BY <1>1, <1>2, <1>3, <1>4, <1>5 DEF IInv, TypeOK, workerVars
<1>7. sessionOf'[r] = fresh /\ task'[r] = "executing"
  BY <1>4 DEF IInv, TypeOK
<1>8. \A x \in Runs : x # r => /\ task'[x] = task[x]
                               /\ outcome'[x] = outcome[x]
                               /\ sessionOf'[x] = sessionOf[x]
  BY <1>4 DEF IInv, TypeOK
<1>9. QED
  BY <1>1, <1>3, <1>6, <1>7, <1>8, TaskKeepsRest DEF workerVars

\* The end of an execution task preserves the invariant.
LEMMA ReturnStep ==
  ASSUME IInv, NEW r \in Runs, task[r] \notin {"none", "done"}, NEW o \in AllOutcomes,
         Return(r, o), UNCHANGED <<request, future, status, results, order, workerVars>>
  PROVE  IInv'
<1> DEFINE key    == KeyOf(r)
           commit == Commits(r, o)
<1>1. r \in running /\ sessionOf[r] \in Sessions /\ sessionOf[r] # None /\ key \in Keys
  BY TaskFacts, ConstantsAssumption
<1>2. ReturnedStatus(o) \in {"completed", "failed", "timeout", "cancelled_error"}
  BY DEF ReturnedStatus, AllOutcomes
<1>3. RecoveryResult(o) \in {"yes", "no"}
  BY DEF RecoveryResult
<1>4. store' \in [Keys -> StoreType] /\ committer' \in [Keys -> Runs \cup {None}]
  <2>1. CASE commit
    <3>1. CommitSuccess(store[key], BackendOf(r), sessionOf[r]) \in StoreType
      BY <2>1, <1>1 DEF Commits, CommitSuccess, StoreType, UsesWorkspaceSession
    <3>2. QED
      BY <2>1, <3>1, <1>1 DEF Return, IInv, TypeOK
  <2>2. CASE ~commit
    BY <2>2 DEF Return, IInv, TypeOK
  <2>3. QED
    BY <2>1, <2>2
<1>5. snapshot' \in [Runs -> SnapshotType \cup {None}]
  <2>1. ASSUME snapshot[r] # None
        PROVE  [snapshot[r] EXCEPT !.succeeded = RecoveryResult(o)] \in SnapshotType
    <3>1. snapshot[r] \in SnapshotType
      BY <2>1 DEF IInv, TypeOK
    <3>2. QED
      BY <3>1, <1>3 DEF SnapshotType
  <2>2. snapshot' = [snapshot EXCEPT ![r] =
                       IF @ = None \/ attempt[r] # 2 \/ o = "cancelled_error" THEN @
                       ELSE [@ EXCEPT !.succeeded = RecoveryResult(o)]]
    BY DEF Return
  <2>3. QED
    BY <2>1, <2>2 DEF IInv, TypeOK
<1>6. /\ task'    = [task EXCEPT ![r] = "done"]
      /\ outcome' = [outcome EXCEPT ![r] = ReturnedStatus(o)]
      /\ live'    = live \ {r}
      /\ UNCHANGED <<attempt, sessionOf, used, revoked>>
  BY DEF Return
<1>7. TypeOK'
  <2>1. heard' \in [Keys -> Sessions \cup {None}]
    BY <1>1 DEF Return, IInv, TypeOK
  <2>2. QED
    BY <1>2, <1>4, <1>5, <1>6, <2>1 DEF IInv, TypeOK, workerVars, AllOutcomes
<1>8. /\ task'[r] = "done"
      /\ outcome'[r] = ReturnedStatus(o)
      /\ \A x \in Runs : x # r => task'[x] = task[x] /\ outcome'[x] = outcome[x]
  BY <1>6 DEF IInv, TypeOK
<1>9. QED
  BY <1>1, <1>2, <1>6, <1>7, <1>8, TaskKeepsRest DEF workerVars

\* Whatever follows the end of a backend call preserves the invariant.
LEMMA ConcludeStep ==
  ASSUME IInv, NEW r \in Runs, task[r] \notin {"none", "done"}, NEW o \in AllOutcomes,
         Conclude(r, o)
  PROVE  IInv'
  BY RetryStep, ReturnStep DEF Conclude

\* The steps of a task that do not go through Conclude.
LEMMA TaskMovesStep ==
  ASSUME IInv, NEW r \in Runs, task[r] \notin {"none", "done"},
         UNCHANGED <<runVars, workerVars, attempt, sessionOf, storeVars>>,
         live' = live \/ live' = live \ {r},
         \/ /\ task' = [task EXCEPT ![r] = "unwinding"]
            /\ outcome' = outcome
         \/ /\ task' = [task EXCEPT ![r] = "done"]
            /\ outcome' = [outcome EXCEPT ![r] = "cancelled_error"]
         \/ /\ task' = [task EXCEPT ![r] = "returned"]
            /\ \E o \in AllOutcomes : outcome' = [outcome EXCEPT ![r] = o]
  PROVE  IInv'
<1> USE DEF runVars, workerVars, storeVars
<1>1. r \in running /\ sessionOf[r] # None
  BY TaskFacts, ConstantsAssumption
<1>2. TypeOK'
  <2>1. task' \in [Runs -> {"none", "created", "executing", "returned", "unwinding",
                            "cancelling", "detaching", "done"}]
    BY DEF IInv, TypeOK
  <2>2. outcome' \in [Runs -> AllOutcomes \cup {"none"}]
    <3>1. outcome \in [Runs -> AllOutcomes \cup {"none"}] /\ "cancelled_error" \in AllOutcomes
      BY DEF IInv, TypeOK, AllOutcomes
    <3>2. QED
      BY <3>1
  <2>3. live' \subseteq Runs
    BY DEF IInv, TypeOK
  <2>4. QED
    BY <2>1, <2>2, <2>3 DEF IInv, TypeOK
<1>3. /\ \A x \in Runs : x # r => task'[x] = task[x] /\ outcome'[x] = outcome[x]
      /\ task'[r] = "done" => outcome'[r] = "cancelled_error"
      /\ task'[r] = "returned" => outcome'[r] \in AllOutcomes
  BY DEF IInv, TypeOK
<1>4. QED
  BY <1>1, <1>2, <1>3, TaskKeepsRest

\* Every step of an execution task preserves the invariant.
LEMMA TaskStepStep ==
  ASSUME IInv, NEW r \in Runs, TaskStep(r) \/ TimeoutFires(r)
  PROVE  IInv'
<1>1. CASE TaskStart(r)
  BY <1>1, TaskStartStep
<1>2. CASE WaitForReturns(r)
  <2>1. task[r] = "returned" /\ outcome[r] \in AllOutcomes /\ Conclude(r, outcome[r])
    BY <1>2 DEF WaitForReturns, IInv, TaskData
  <2>2. QED
    BY <2>1, ConcludeStep
<1>3. CASE Detach(r)
  BY <1>3, TaskMovesStep DEF Detach
<1>4. CASE OrphanEnds(r)
  <2> USE <1>4 DEF OrphanEnds, IInv, runVars, workerVars, storeVars
  <2>1. TypeOK'
    BY DEF TypeOK
  <2>2. Submitted' /\ TaskData' /\ WorkerData'
    BY DEF Submitted, TaskData, WorkerData, Occupies, GroupOf
  <2>3. QED
    BY <2>1, <2>2
<1>5. CASE TimeoutFires(r)
  BY <1>5, TaskMovesStep DEF TimeoutFires
<1>6. ASSUME NEW o \in AllOutcomes, BackendEnds(r, o)
      PROVE  IInv'
  BY <1>6, ConcludeStep, TaskMovesStep DEF BackendEnds
<1>7. ASSUME NEW o \in AllOutcomes, TimeoutUnwinds(r, o) \/ CancelUnwinds(r, o)
      PROVE  IInv'
  BY <1>7, ConcludeStep DEF TimeoutUnwinds, CancelUnwinds
<1>8. QED
  BY <1>1, <1>2, <1>3, <1>4, <1>5, <1>6, <1>7 DEF TaskStep

-----------------------------------------------------------------------------
(***************************************************************************)
(* The theorems.                                                           *)
(***************************************************************************)

\* The invariant is preserved by every step of the coordinator.
LEMMA NextIInv == IInv /\ [Next]_vars => IInv'
<1> SUFFICES ASSUME IInv, [Next]_vars PROVE IInv'
  OBVIOUS
<1>1. ASSUME NEW r \in Runs, NEW q \in Requests, SubmitExecution(r, q) PROVE IInv'
  BY <1>1, SubmitStep
<1>2. ASSUME NEW r \in Runs, CancelQueued(r) \/ CancelRunning(r) \/ CancelWaiter(r) PROVE IInv'
  BY <1>2, CancelQueuedStep, CancelRunningStep, CancelWaiterStep
<1>3. ASSUME NEW r \in Runs, TaskStep(r) \/ TimeoutFires(r) PROVE IInv'
  BY <1>3, TaskStepStep
<1>4. ASSUME NEW g \in Groups, WorkerStep(g) PROVE IInv'
  BY <1>4, WorkerStartStep, WorkerSkipStep, WorkerRejectStep, WorkerLaunchStep,
     WorkerExitStep, WorkerResumeStep DEF WorkerStep, WorkerResume
<1>5. CASE UNCHANGED vars
  <2> USE <1>5 DEF vars, runVars, workerVars, taskVars, storeVars
  <2>1. TypeOK'
    BY DEF IInv, TypeOK
  <2>2. Submitted' /\ TaskData' /\ WorkerData'
    BY DEF IInv, Submitted, TaskData, WorkerData, Occupies, GroupOf
  <2>3. QED
    BY <2>1, <2>2 DEF IInv
<1>6. CASE Idle
  BY <1>5, <1>6 DEF Idle
<1>7. QED
  BY <1>1, <1>2, <1>3, <1>4, <1>5, <1>6 DEF Next

\* The inductive invariant holds in every reachable state.
THEOREM Invariance == Spec => []IInv
<1>1. Init => IInv
  BY InitIInv
<1>2. IInv /\ [Next]_vars => IInv'
  BY NextIInv
<1>3. QED
  BY <1>1, <1>2, PTL DEF Spec

\* Every attribute of the coordinator and of the session store keeps its shape,
\* whatever callers submit and cancel and however backends end.
THEOREM TypeCorrect == Spec => []TypeOK
<1>1. IInv => TypeOK
  BY DEF IInv
<1>2. QED
  BY <1>1, Invariance, PTL

\* "Coordinate one active execution at a time per group": no interleaving of
\* submissions, cancellations, timeouts and dying workers lets two runs occupy
\* one group.
THEOREM OneActive == Spec => []OneActivePerGroup
<1>1. IInv => OneActivePerGroup
  BY DEF IInv, WorkerData, OneActivePerGroup
<1>2. QED
  BY <1>1, Invariance, PTL

-----------------------------------------------------------------------------
\* A run waits in at most one place of its group's deque, and has no execution
\* task while it does.
LinesDistinct ==
  \A g \in Groups : \A i \in 1..Len(queue[g]) :
    /\ task[queue[g][i]] = "none"
    /\ \A j \in 1..Len(queue[g]) : i # j => queue[g][i] # queue[g][j]

\* How far the execution task has come agrees with what _statuses says, and a
\* run whose task has not been collected is "running" unless it was cancelled.
StatusData ==
  \A r \in Runs :
    /\ status[r] = "queued" => task[r] = "none"
    /\ status[r] = "running" => task[r] # "none"
    /\ r \in running /\ r \notin cancelled => status[r] = "running"

\* Needed because ReadersAgree, RetentionBound and NoResidue are not inductive,
\* separately or together: that a worker stores a result for an unfinished run
\* only depends on what the deque and the running maps hold.
Books == ReadersAgree /\ RetentionBound /\ NoResidue /\ LinesDistinct /\ StatusData

\* A backend call that has not finished belongs to a task that waits for it, or
\* to one that was cancelled while its timed-out call was unwinding.
LiveTasks ==
  \A r \in live :
    /\ task[r] \in {"executing", "unwinding", "cancelling", "detaching", "done"}
    /\ task[r] \in {"unwinding", "detaching", "done"} => request[r].timed

-----------------------------------------------------------------------------
(***************************************************************************)
(* What _store_terminal_result does to the tables.                         *)
(***************************************************************************)

\* x has an entry in _completed_order.
Retained(x) == \E i \in 1..Len(order) : order[i] = x

\* _completed_order after a run that was not in it was appended and, past the
\* limit, the oldest entry evicted: still within the bound and without repeats.
LEMMA OrderAfterStore ==
  ASSUME TypeOK, RetentionBound, NEW r \in Runs, NEW res \in Results, ~Retained(r),
         StoreTerminalResult(r, res)
  PROVE  LET grown == Append(order, r)
             stale == IF OverLimit(Len(grown)) THEN {Head(grown)} ELSE {}
         IN /\ Len(order') <= MaxCompletedRuns
            /\ \A i, j \in 1..Len(order') : i # j => order'[i] # order'[j]
            /\ \A x \in Runs : Retained(x)' <=> (Retained(x) \/ x = r) /\ x \notin stale
            /\ \A x \in stale : Retained(x) \/ x = r
<1> DEFINE grown == Append(order, r)
           stale == IF OverLimit(Len(grown)) THEN {Head(grown)} ELSE {}
<1>1. /\ order \in Seq(Runs) /\ Len(order) \in Nat
      /\ grown \in Seq(Runs) /\ grown # <<>>
      /\ Len(grown) = Len(order) + 1
      /\ \A i \in 1..Len(order) : grown[i] = order[i]
      /\ grown[Len(order) + 1] = r
  <2>1. order \in Seq(Runs) /\ Len(order) \in Nat
    BY LenProperties DEF TypeOK
  <2>2. QED
    BY <2>1, AppendProperties
<1>2. \A i, j \in 1..Len(grown) : i # j => grown[i] # grown[j]
  BY <1>1 DEF RetentionBound, Retained
<1>3. order' = IF stale = {} THEN grown ELSE Tail(grown)
  BY DEF StoreTerminalResult
<1>4. Len(order) <= MaxCompletedRuns /\ MaxCompletedRuns \in Nat
  BY ConstantsAssumption DEF RetentionBound
<1>5. \A x \in Runs : (\E i \in 1..Len(grown) : grown[i] = x) <=> Retained(x) \/ x = r
  BY <1>1 DEF Retained
<1>6. CASE ~OverLimit(Len(grown))
  <2>1. stale = {} /\ order' = grown /\ Len(grown) <= MaxCompletedRuns
    BY <1>1, <1>3, <1>4, <1>6 DEF OverLimit
  <2>2. QED
    BY <2>1, <1>2, <1>5 DEF Retained
<1>7. CASE OverLimit(Len(grown))
  <2>1. stale = {Head(grown)} /\ order' = Tail(grown) /\ Head(grown) = grown[1]
    BY <1>1, <1>3, <1>7
  <2> HIDE DEF grown, stale
  <2>2. Len(Tail(grown)) = Len(order) /\ \A i \in 1..Len(order) : Tail(grown)[i] = grown[i + 1]
    BY <1>1, HeadTailProperties
  <2>3. Len(order') <= MaxCompletedRuns
    BY <2>1, <2>2, <1>4
  <2>4. \A i, j \in 1..Len(order') : i # j => order'[i] # order'[j]
    BY <2>1, <2>2, <1>1, <1>2
  <2>5. \A x \in Runs : Retained(x)' <=> \E i \in 1..Len(grown) : i # 1 /\ grown[i] = x
    <3> SUFFICES ASSUME NEW x \in Runs
                 PROVE  (\E i \in 1..Len(order) : grown[i + 1] = x)
                          <=> \E i \in 1..Len(grown) : i # 1 /\ grown[i] = x
      BY <2>1, <2>2 DEF Retained
    <3>1. ASSUME NEW i \in 1..Len(grown), i # 1, grown[i] = x
          PROVE  i - 1 \in 1..Len(order) /\ grown[(i - 1) + 1] = x
      BY <3>1, <1>1
    <3>2. ASSUME NEW i \in 1..Len(order), grown[i + 1] = x
          PROVE  i + 1 \in 1..Len(grown) /\ i + 1 # 1
      BY <1>1
    <3>3. QED
      BY <3>1, <3>2
  <2>6. \A x \in Runs : (\E i \in 1..Len(grown) : i # 1 /\ grown[i] = x)
                         <=> (\E i \in 1..Len(grown) : grown[i] = x) /\ x # grown[1]
    BY <1>1, <1>2
  <2>7. Head(grown) \in Runs /\ 1 \in 1..Len(grown)
    BY <1>1, <2>1, ElementOfSeq
  <2>8. \A x \in Runs : Retained(x)' <=> (Retained(x) \/ x = r) /\ x \notin stale
    BY <2>1, <2>5, <2>6, <1>5
  <2>9. \A x \in stale : Retained(x) \/ x = r
    BY <2>1, <2>7, <1>5
  <2>10. QED
    BY <2>3, <2>4, <2>8, <2>9 DEF grown, stale
<1>8. QED
  BY <1>6, <1>7

\* Storing the result of an unfinished run keeps the readers in agreement and
\* the bound, and ends no other run: at most it forgets one that had finished.
LEMMA StoreKeepsBooks ==
  ASSUME TypeOK, ReadersAgree, RetentionBound, NEW r \in Runs, NEW res \in Results,
         status[r] \in {"queued", "running"}, StoreTerminalResult(r, res)
  PROVE  /\ ReadersAgree'
         /\ RetentionBound'
         /\ status'[r] \in {res.status, "none"}
         /\ \A x \in Runs \ {r} :
              /\ future'[x] = future[x]
              /\ status'[x] = status[x] \/ (status[x] \in Terminal /\ status'[x] = "none")
<1> DEFINE grown == Append(order, r)
           stale == IF OverLimit(Len(grown)) THEN {Head(grown)} ELSE {}
<1>1. res.status \in Terminal /\ res # None
  BY ConstantsAssumption DEF Results
<1>2. future[r] \in {"pending", "abandoned"} /\ results[r] = None /\ snapshot[r] # None
  BY DEF ReadersAgree, Terminal
<1>3. \A x \in Runs : results[x] # None <=> Retained(x)
  BY DEF RetentionBound, Retained
<1>4. /\ Len(order') <= MaxCompletedRuns
      /\ \A i, j \in 1..Len(order') : i # j => order'[i] # order'[j]
      /\ \A x \in Runs : Retained(x)' <=> (Retained(x) \/ x = r) /\ x \notin stale
      /\ \A x \in stale : Retained(x) \/ x = r
  BY <1>2, <1>3, OrderAfterStore
<1>5. /\ status'   = [x \in Runs |-> IF x \in stale THEN "none"
                                     ELSE IF x = r THEN res.status ELSE status[x]]
      /\ results'  = [x \in Runs |-> IF x \in stale THEN None
                                     ELSE IF x = r THEN res ELSE results[x]]
      /\ snapshot' = [x \in Runs |->
                       IF x \in stale THEN None
                       ELSE IF x = r /\ snapshot[x] # None
                              THEN MarkTerminal(snapshot[x], res)
                              ELSE snapshot[x]]
      /\ future'   = [future EXCEPT ![r] = IF @ = "pending" THEN res.status
                                          ELSE IF @ = "abandoned" THEN "lost" ELSE @]
  BY DEF StoreTerminalResult
<1> HIDE DEF grown, stale
<1>6. \A x \in Runs : results'[x] # None <=> Retained(x)'
  BY <1>1, <1>3, <1>4, <1>5
<1>7. RetentionBound'
  BY <1>4, <1>6 DEF RetentionBound, Retained
<1>8. /\ future'[r] \in {res.status, "lost"}
      /\ \A x \in Runs \ {r} : future'[x] = future[x]
  BY <1>2, <1>5 DEF TypeOK
<1>9. \A x \in Runs \ {r} : x \in stale => status[x] \in Terminal
  BY <1>3, <1>4 DEF ReadersAgree
<1>10. MarkTerminal(snapshot[r], res) # None /\ MarkTerminal(snapshot[r], res).status = res.status
  <2>1. snapshot[r] \in SnapshotType
    BY <1>2 DEF TypeOK
  <2>2. res.backend \in Names /\ res.session \in Sessions /\ res.slot \in Slots \cup {MainSlot}
    BY DEF Results
  <2>3. MarkTerminal(snapshot[r], res) \in SnapshotType
        /\ MarkTerminal(snapshot[r], res).status = res.status
    BY <1>1, <2>1, <2>2 DEF MarkTerminal, SnapshotType
  <2>4. QED
    BY <2>3, ConstantsAssumption
<1>11. ReadersAgree'
  <2> SUFFICES ASSUME NEW x \in Runs
               PROVE  /\ status'[x] \in {"queued", "running"} <=> future'[x] \in {"pending", "abandoned"}
                      /\ results'[x] # None <=> status'[x] \in Terminal
                      /\ snapshot'[x] # None <=> status'[x] # "none"
                      /\ snapshot'[x] # None => snapshot'[x].status = status'[x]
                      /\ results'[x] # None => /\ results'[x].status = status'[x]
                                               /\ future'[x] \in {status'[x], "lost"}
    BY DEF ReadersAgree
  <2>1. CASE x = r
    <3>1. \/ status'[r] = "none" /\ results'[r] = None /\ snapshot'[r] = None
          \/ /\ status'[r] = res.status /\ results'[r] = res
             /\ snapshot'[r] = MarkTerminal(snapshot[r], res)
      BY <1>2, <1>5
    <3>2. QED
      BY <2>1, <3>1, <1>1, <1>8, <1>10 DEF Terminal
  <2>2. CASE x # r /\ x \in stale
    <3>1. status[x] \in Terminal /\ future'[x] = future[x]
      BY <2>2, <1>8, <1>9
    <3>2. QED
      BY <2>2, <3>1, <1>5 DEF ReadersAgree, Terminal
  <2>3. CASE x # r /\ x \notin stale
    <3>1. UNCHANGED <<status[x], results[x], snapshot[x], future[x]>>
      BY <2>3, <1>5, <1>8
    <3>2. QED
      BY <3>1 DEF ReadersAgree
  <2>4. QED
    BY <2>1, <2>2, <2>3
<1>12. /\ status'[r] \in {res.status, "none"}
       /\ \A x \in Runs \ {r} :
             status'[x] = status[x] \/ (status[x] \in Terminal /\ status'[x] = "none")
  BY <1>5, <1>9
<1>13. QED
  BY <1>7, <1>8, <1>11, <1>12

-----------------------------------------------------------------------------
(***************************************************************************)
(* Books is inductive, relative to IInv: one lemma per action.             *)
(***************************************************************************)

\* The part of NoResidue that does not follow from IInv.
Collected ==
  \A r \in Runs :
    /\ r \in cancelled => r \in running /\ status[r] \in {"cancelled", "none"}
    /\ r \notin running => sessionOf[r] = None

\* The entries of the running maps are what live workers wait for.
LEMMA CollectedSuffices ==
  ASSUME IInv, Collected
  PROVE  NoResidue
<1>1. ASSUME NEW r \in running PROVE \E g \in Groups : worker[g] = "awaiting" /\ current[g] = r
  <2>1. r \in Runs /\ request[r] # None
    BY DEF IInv, TypeOK, Submitted
  <2>2. GroupOf(r) \in Groups
    BY <2>1, RequestFacts DEF IInv
  <2>3. worker[GroupOf(r)] = "awaiting" /\ current[GroupOf(r)] = r
    BY <2>1 DEF IInv, WorkerData, Occupies
  <2>4. QED
    BY <2>2, <2>3
<1>2. \A g \in Groups : worker[g] = "awaiting" => current[g] \in running
  BY DEF IInv, WorkerData
<1>3. \A r \in running : sessionOf[r] # None
  BY DEF IInv, TaskData
<1>4. QED
  BY <1>1, <1>2, <1>3 DEF Collected, NoResidue

\* What is left to show of Books, before and after a step.
LEMMA BooksParts ==
  /\ IInv /\ ReadersAgree /\ RetentionBound /\ Collected /\ LinesDistinct /\ StatusData
       => Books
  /\ (IInv /\ ReadersAgree /\ RetentionBound /\ Collected /\ LinesDistinct /\ StatusData)'
       => Books'
<1>1. IInv /\ ReadersAgree /\ RetentionBound /\ Collected /\ LinesDistinct /\ StatusData => Books
  BY CollectedSuffices DEF Books
<1>2. QED
  BY <1>1, PTL

\* Nothing has been submitted yet.
LEMMA InitBooks == Init => Books
<1> SUFFICES ASSUME Init PROVE Books
  OBVIOUS
<1>1. IInv
  BY InitIInv
<1>2. ReadersAgree /\ Collected /\ StatusData
  BY DEF Init, ReadersAgree, Collected, StatusData, Terminal
<1>3. RetentionBound /\ LinesDistinct
  <2>1. order = <<>> /\ \A g \in Groups : queue[g] = <<>>
    BY DEF Init
  <2>2. Len(order) = 0 /\ \A g \in Groups : Len(queue[g]) = 0
    BY <2>1
  <2>3. QED
    BY <2>2, ConstantsAssumption DEF Init, RetentionBound, LinesDistinct
<1>4. QED
  BY <1>1, <1>2, <1>3, BooksParts

\* submit_execution: the run is new to every table.
LEMMA SubmitBooks ==
  ASSUME IInv, Books, NEW r \in Runs, NEW q \in Requests, SubmitExecution(r, q)
  PROVE  Books'
<1> USE DEF Books
<1>1. IInv'
  BY SubmitStep
<1>2. /\ status[r] = "none" /\ future[r] = "none" /\ task[r] = "none" /\ r \notin running
      /\ r \notin cancelled
  BY DEF SubmitExecution, IInv, Submitted, NoResidue
<1>3. /\ request' = [request EXCEPT ![r] = q]
      /\ future' = [future EXCEPT ![r] = "pending"]
      /\ status' = [status EXCEPT ![r] = "queued"]
      /\ snapshot' = [snapshot EXCEPT ![r] =
                    [status |-> "queued", backend |-> None, session |-> None,
                     slot |-> q.slot, attempted |-> FALSE, succeeded |-> "unknown"]]
      /\ UNCHANGED <<results, order, running, cancelled, task, sessionOf>>
  BY DEF SubmitExecution, taskVars
<1>4. ReadersAgree'
  <2>1. snapshot'[r] # None /\ snapshot'[r].status = "queued"
    <3>1. snapshot'[r] = [status |-> "queued", backend |-> None, session |-> None,
                          slot |-> q.slot, attempted |-> FALSE, succeeded |-> "unknown"]
      BY <1>3 DEF IInv, TypeOK
    <3>2. q.slot \in Slots
      BY ConstantsAssumption DEF RequestType
    <3>3. snapshot'[r] \in SnapshotType
      BY <3>1, <3>2 DEF SnapshotType
    <3>4. snapshot'[r] # None
      BY <3>3, ConstantsAssumption
    <3>5. snapshot'[r].status = "queued"
      BY <3>1
    <3>6. QED
      BY <3>4, <3>5
  <2>2. future'[r] = "pending" /\ status'[r] = "queued" /\ results'[r] = None
    BY <1>2, <1>3 DEF IInv, TypeOK, ReadersAgree, Terminal
  <2>3. \A x \in Runs \ {r} : UNCHANGED <<status[x], results[x], snapshot[x], future[x]>>
    BY <1>3 DEF IInv, TypeOK
  <2>4. ASSUME NEW x \in Runs
        PROVE  /\ status'[x] \in {"queued", "running"} <=> future'[x] \in {"pending", "abandoned"}
               /\ results'[x] # None <=> status'[x] \in Terminal
               /\ snapshot'[x] # None <=> status'[x] # "none"
               /\ snapshot'[x] # None => snapshot'[x].status = status'[x]
               /\ results'[x] # None => /\ results'[x].status = status'[x]
                                        /\ future'[x] \in {status'[x], "lost"}
    <3>1. CASE x = r
      BY <3>1, <2>1, <2>2 DEF Terminal
    <3>2. CASE x # r
      BY <3>2, <2>3 DEF ReadersAgree
    <3>3. QED
      BY <3>1, <3>2
  <2>5. QED
    BY <2>4 DEF ReadersAgree
<1>5. RetentionBound'
  BY <1>3 DEF RetentionBound
<1>6. Collected'
  BY <1>2, <1>3 DEF IInv, TypeOK, NoResidue, Collected
<1>7. LinesDistinct'
  <2>1. q.group \in Groups
    BY ConstantsAssumption DEF RequestType
  <2>2. queue' = [queue EXCEPT ![q.group] = Append(@, r)]
    BY DEF SubmitExecution, Enqueue
  <2>3. \A g \in Groups : \A i \in 1..Len(queue[g]) : queue[g][i] # r
    BY DEF SubmitExecution, IInv, Submitted
  <2>4. /\ queue[q.group] \in Seq(Runs) /\ Len(queue[q.group]) \in Nat
        /\ Len(Append(queue[q.group], r)) = Len(queue[q.group]) + 1
        /\ \A i \in 1..Len(queue[q.group]) : Append(queue[q.group], r)[i] = queue[q.group][i]
        /\ Append(queue[q.group], r)[Len(queue[q.group]) + 1] = r
    <3>1. queue[q.group] \in Seq(Runs)
      BY <2>1 DEF IInv, TypeOK
    <3>2. QED
      BY <3>1, AppendProperties, LenProperties
  <2> SUFFICES ASSUME NEW g \in Groups
               PROVE  \A i \in 1..Len(queue'[g]) :
                        /\ task[queue'[g][i]] = "none"
                        /\ \A j \in 1..Len(queue'[g]) : i # j => queue'[g][i] # queue'[g][j]
    BY <1>3 DEF LinesDistinct
  <2>5. CASE g # q.group
    <3>1. queue'[g] = queue[g]
      BY <2>2, <2>5 DEF IInv, TypeOK
    <3>2. QED
      BY <3>1 DEF LinesDistinct
  <2>6. CASE g = q.group
    <3>1. queue'[g] = Append(queue[g], r)
      BY <2>2, <2>6 DEF IInv, TypeOK
    <3>2. QED
      BY <3>1, <2>3, <2>4, <2>6, <1>2 DEF LinesDistinct
  <2>7. QED
    BY <2>5, <2>6
<1>8. StatusData'
  BY <1>2, <1>3 DEF IInv, TypeOK, StatusData
<1>9. QED
  BY <1>1, <1>4, <1>5, <1>6, <1>7, <1>8, BooksParts

\* What the four handlers that end a run store for it: cancel, of a queued run,
LEMMA CancelQueuedStores ==
  ASSUME IInv, NEW r \in Runs, CancelQueued(r)
  PROVE  \E res \in Results : res.status = "cancelled" /\ StoreTerminalResult(r, res)
<1> DEFINE res == BuildResult("cancelled", BackendOf(r), ResolveSessionId(r, "peek"),
                              request[r].slot)
<1>1. request[r] # None
  BY DEF CancelQueued, IInv, Submitted
<1>2. res \in Results /\ res.status = "cancelled"
  BY <1>1, RequestFacts, ResolveType DEF IInv, BuildResult, Results, Terminal
<1>3. StoreTerminalResult(r, res)
  BY DEF CancelQueued
<1> HIDE DEF res
<1>4. QED
  BY <1>2, <1>3

\* cancel, of a running run,
LEMMA CancelRunningStores ==
  ASSUME IInv, NEW r \in Runs, CancelRunning(r)
  PROVE  \E res \in Results : res.status = "cancelled" /\ StoreTerminalResult(r, res)
<1> DEFINE res == BuildResult("cancelled", BackendOf(r), sessionOf[r], request[r].slot)
<1>1. request[r] # None /\ sessionOf[r] \in Sessions
  BY DEF CancelRunning, IInv, Submitted, TaskData, TypeOK
<1>2. res \in Results /\ res.status = "cancelled"
  BY <1>1, RequestFacts DEF IInv, BuildResult, Results, Terminal
<1>3. StoreTerminalResult(r, res)
  BY DEF CancelRunning
<1> HIDE DEF res
<1>4. QED
  BY <1>2, <1>3

\* the worker, for a run without a backend,
LEMMA RejectStores ==
  ASSUME IInv, NEW g \in Groups, WorkerReject(g)
  PROVE  \E res \in Results : res.status = "failed" /\ StoreTerminalResult(Head(queue[g]), res)
<1> DEFINE r == Head(queue[g])
           res == BuildResult("failed", BackendOf(r), ResolveSessionId(r, "peek"),
                    IF BackendOf(r) = Unknown THEN request[r].slot ELSE MainSlot)
<1>1. r \in Runs /\ request[r] # None
  BY PopKeepsQueues DEF WorkerReject
<1>2. res \in Results /\ res.status = "failed"
  BY <1>1, RequestFacts, ResolveType DEF IInv, BuildResult, Results, Terminal
<1>3. StoreTerminalResult(r, res)
  BY DEF WorkerReject
<1> HIDE DEF res
<1>4. QED
  BY <1>2, <1>3

\* and the worker, for a run whose task returned a status.
LEMMA WorkerStoresStores ==
  ASSUME IInv, NEW g \in Groups, NEW r \in Runs, WorkerStores(g, r)
  PROVE  /\ outcome[r] \in {"completed", "failed", "timeout"}
         /\ \E res \in Results : res.status = outcome[r] /\ StoreTerminalResult(r, res)
<1> DEFINE res == BuildResult(outcome[r], BackendOf(r), sessionOf[r], request[r].slot)
<1>1. r \in running /\ task[r] = "done" /\ outcome[r] # "cancelled_error"
  BY DEF WorkerStores, WorkerWakes, IInv, WorkerData
<1>2. request[r] # None /\ sessionOf[r] \in Sessions
      /\ outcome[r] \in {"completed", "failed", "timeout"}
  BY <1>1 DEF IInv, Submitted, TaskData, TypeOK
<1>3. res \in Results /\ res.status = outcome[r]
  BY <1>2, RequestFacts DEF IInv, BuildResult, Results, Terminal
<1>4. StoreTerminalResult(r, res)
  BY DEF WorkerStores
<1> HIDE DEF res
<1>5. QED
  BY <1>2, <1>3, <1>4

\* cancel of a queued run.
LEMMA CancelQueuedBooks ==
  ASSUME IInv, Books, NEW r \in Runs, CancelQueued(r)
  PROVE  Books'
<1> USE DEF Books
<1>1. PICK res \in Results : res.status = "cancelled" /\ StoreTerminalResult(r, res)
  BY CancelQueuedStores
<1>2. /\ ReadersAgree' /\ RetentionBound'
      /\ status'[r] \in {res.status, "none"}
      /\ \A x \in Runs \ {r} : status'[x] = status[x] \/ (status[x] \in Terminal /\ status'[x] = "none")
  BY <1>1, StoreKeepsBooks DEF CancelQueued, IInv
<1>3. UNCHANGED <<queue, task, running, cancelled, sessionOf>> /\ status[r] = "queued"
  BY DEF CancelQueued, workerVars, taskVars
<1>4. Collected'
  BY <1>2, <1>3 DEF NoResidue, Collected
<1>5. LinesDistinct'
  BY <1>3 DEF LinesDistinct
<1>6. StatusData'
  BY <1>1, <1>2, <1>3 DEF StatusData, NoResidue, Terminal
<1>7. QED
  BY <1>2, <1>4, <1>5, <1>6, CancelQueuedStep, BooksParts

\* cancel of a running run.
LEMMA CancelRunningBooks ==
  ASSUME IInv, Books, NEW r \in Runs, CancelRunning(r)
  PROVE  Books'
<1> USE DEF Books
<1>1. PICK res \in Results : res.status = "cancelled" /\ StoreTerminalResult(r, res)
  BY CancelRunningStores
<1>2. /\ ReadersAgree' /\ RetentionBound'
      /\ status'[r] \in {res.status, "none"}
      /\ \A x \in Runs \ {r} : status'[x] = status[x] \/ (status[x] \in Terminal /\ status'[x] = "none")
  BY <1>1, StoreKeepsBooks DEF CancelRunning, IInv
<1>3. /\ UNCHANGED <<queue, running, sessionOf>>
      /\ status[r] = "running" /\ r \in running /\ cancelled' = cancelled \cup {r}
  BY DEF CancelRunning
<1>4. \A x \in Runs : task'[x] = "none" <=> task[x] = "none"
  BY DEF CancelRunning, CancelTask, IInv, TypeOK
<1>5. Collected'
  BY <1>1, <1>2, <1>3 DEF NoResidue, Collected
<1>6. LinesDistinct'
  <2>1. \A g \in Groups : \A i \in 1..Len(queue[g]) : queue[g][i] \in Runs
    BY ElementOfSeq DEF IInv, TypeOK
  <2>2. QED
    BY <1>3, <1>4, <2>1 DEF LinesDistinct
<1>7. StatusData'
  BY <1>1, <1>2, <1>3, <1>4 DEF StatusData, Terminal
<1>8. QED
  BY <1>2, <1>5, <1>6, <1>7, CancelRunningStep, BooksParts

\* A waiter is cancelled: the run stays unfinished.
LEMMA CancelWaiterBooks ==
  ASSUME IInv, Books, NEW r \in Runs, CancelWaiter(r)
  PROVE  Books'
<1> USE DEF Books
<1>1. /\ UNCHANGED <<status, snapshot, results, order, queue, running, cancelled, task, sessionOf>>
      /\ future[r] = "pending" /\ future' = [future EXCEPT ![r] = "abandoned"]
  BY DEF CancelWaiter, workerVars, taskVars
<1>2. ReadersAgree'
  BY <1>1 DEF ReadersAgree, IInv, TypeOK, Terminal
<1>3. RetentionBound' /\ Collected' /\ LinesDistinct' /\ StatusData'
  BY <1>1 DEF RetentionBound, NoResidue, Collected, LinesDistinct, StatusData
<1>4. QED
  BY <1>2, <1>3, CancelWaiterStep, BooksParts

\* The head that a worker pops has no task yet and waits nowhere else.
LEMMA PopKeepsLines ==
  ASSUME IInv, LinesDistinct, NEW g \in Groups, queue[g] # <<>>,
         queue' = [queue EXCEPT ![g] = Tail(@)],
         \A x \in Runs : x # Head(queue[g]) => task'[x] = task[x]
  PROVE  LinesDistinct' /\ task[Head(queue[g])] = "none"
<1>1. /\ queue[g] \in Seq(Runs) /\ Len(queue[g]) \in Nat
      /\ Head(queue[g]) = queue[g][1] /\ 1 \in 1..Len(queue[g])
  BY EmptySeq, LenProperties DEF IInv, TypeOK
<1>2. /\ Len(Tail(queue[g])) = Len(queue[g]) - 1
      /\ \A i \in 1..Len(Tail(queue[g])) : i + 1 \in 1..Len(queue[g]) /\ Tail(queue[g])[i] = queue[g][i + 1]
  BY <1>1, TailIndex, HeadTailProperties
<1>3. task[Head(queue[g])] = "none"
  BY <1>1 DEF LinesDistinct
<1>4. ASSUME NEW h \in Groups
      PROVE  \A i \in 1..Len(queue'[h]) :
               /\ task'[queue'[h][i]] = "none"
               /\ \A j \in 1..Len(queue'[h]) : i # j => queue'[h][i] # queue'[h][j]
  <2>1. CASE h # g
    <3>1. queue'[h] = queue[h] /\ queue[h] \in Seq(Runs)
      BY <2>1 DEF IInv, TypeOK
    <3>2. \A i \in 1..Len(queue[h]) : queue[h][i] \in Runs /\ queue[h][i] # Head(queue[g])
      BY <1>1, <2>1, <3>1, ElementOfSeq DEF IInv, Submitted
    <3>3. QED
      BY <3>1, <3>2 DEF LinesDistinct
  <2>2. CASE h = g
    <3>1. queue'[h] = Tail(queue[g])
      BY <2>2 DEF IInv, TypeOK
    <3>2. ASSUME NEW i \in 1..Len(Tail(queue[g]))
          PROVE  Tail(queue[g])[i] \in Runs /\ Tail(queue[g])[i] # Head(queue[g])
      <4>1. i + 1 \in 1..Len(queue[g]) /\ i + 1 # 1 /\ Tail(queue[g])[i] = queue[g][i + 1]
        BY <1>2
      <4>2. queue[g][i + 1] \in Runs /\ queue[g][i + 1] # queue[g][1]
        BY <4>1, <1>1, ElementOfSeq DEF LinesDistinct
      <4>3. QED
        BY <4>1, <4>2, <1>1
    <3>3. ASSUME NEW i \in 1..Len(Tail(queue[g]))
          PROVE  task'[Tail(queue[g])[i]] = "none"
      BY <1>2, <3>2 DEF LinesDistinct
    <3>4. ASSUME NEW i \in 1..Len(Tail(queue[g])), NEW j \in 1..Len(Tail(queue[g])), i # j
          PROVE  Tail(queue[g])[i] # Tail(queue[g])[j]
      <4>1. i + 1 \in 1..Len(queue[g]) /\ j + 1 \in 1..Len(queue[g]) /\ i + 1 # j + 1
        BY <1>2, <3>4
      <4>2. QED
        BY <4>1, <1>2 DEF LinesDistinct
    <3> DEFINE rest == Tail(queue[g])
    <3>5. /\ \A i \in 1..Len(rest) : task'[rest[i]] = "none"
          /\ \A i \in 1..Len(rest) : \A j \in 1..Len(rest) : i # j => rest[i] # rest[j]
      BY <3>3, <3>4
    <3>6. queue'[h] = rest
      BY <3>1
    <3> HIDE DEF rest
    <3>7. QED
      BY ONLY <3>5, <3>6
  <2>3. QED
    BY <2>1, <2>2
<1>5. QED
  BY <1>3, <1>4 DEF LinesDistinct

\* A worker starts, skips a settled entry or ends: no table changes.
LEMMA WorkerQuietBooks ==
  ASSUME IInv, Books, NEW g \in Groups, WorkerStart(g) \/ WorkerSkip(g) \/ WorkerExit(g)
  PROVE  Books'
<1> USE DEF Books
<1>1. IInv'
  BY WorkerStartStep, WorkerSkipStep, WorkerExitStep
<1>2. UNCHANGED <<future, status, snapshot, results, order, running, cancelled, task, sessionOf>>
  BY DEF WorkerStart, WorkerSkip, WorkerExit, runVars, taskVars
<1>3. LinesDistinct'
  <2>1. CASE queue' = queue
    BY <1>2, <2>1 DEF LinesDistinct
  <2>2. CASE queue[g] # <<>> /\ queue' = [queue EXCEPT ![g] = Tail(@)]
    BY <1>2, <2>2, PopKeepsLines
  <2>3. QED
    BY <2>1, <2>2 DEF WorkerStart, WorkerSkip, WorkerExit
<1>4. ReadersAgree' /\ RetentionBound' /\ Collected' /\ StatusData'
  BY <1>2 DEF ReadersAgree, RetentionBound, NoResidue, Collected, StatusData
<1>5. QED
  BY <1>1, <1>3, <1>4, BooksParts

\* The popped run has no backend: it fails without a task.
LEMMA WorkerRejectBooks ==
  ASSUME IInv, Books, NEW g \in Groups, WorkerReject(g)
  PROVE  Books'
<1> USE DEF Books
<1> DEFINE r == Head(queue[g])
<1>1. r \in Runs /\ queue[g] # <<>> /\ queue' = [queue EXCEPT ![g] = Tail(@)]
  BY PopKeepsQueues DEF WorkerReject
<1>2. PICK res \in Results : res.status = "failed" /\ StoreTerminalResult(r, res)
  BY RejectStores
<1>3. UNCHANGED <<running, cancelled, task, sessionOf>> /\ future[r] = "pending"
  BY DEF WorkerReject, taskVars, Settled
<1>4. LinesDistinct' /\ task[r] = "none"
  BY <1>1, <1>3, PopKeepsLines
<1> HIDE DEF r
<1>5. status[r] = "queued"
  BY <1>1, <1>3, <1>4 DEF ReadersAgree, StatusData
<1>6. /\ ReadersAgree' /\ RetentionBound'
      /\ status'[r] \in {res.status, "none"}
      /\ \A x \in Runs \ {r} : status'[x] = status[x] \/ (status[x] \in Terminal /\ status'[x] = "none")
  BY <1>1, <1>2, <1>5, StoreKeepsBooks DEF IInv
<1>7. Collected'
  BY <1>1, <1>3, <1>5, <1>6 DEF NoResidue, Collected
<1>8. StatusData'
  BY <1>1, <1>2, <1>3, <1>4, <1>5, <1>6 DEF StatusData, NoResidue, Terminal
<1>9. QED
  BY <1>4, <1>6, <1>7, <1>8, WorkerRejectStep, BooksParts

\* The popped run is started.
LEMMA WorkerLaunchBooks ==
  ASSUME IInv, Books, NEW g \in Groups, WorkerLaunch(g)
  PROVE  Books'
<1> USE DEF Books
<1> DEFINE r == Head(queue[g])
           session == ResolveSessionId(r, "start")
<1>1. r \in Runs /\ queue[g] # <<>> /\ queue' = [queue EXCEPT ![g] = Tail(@)]
  BY PopKeepsQueues DEF WorkerLaunch
<1>2. /\ future[r] = "pending"
      /\ sessionOf' = [sessionOf EXCEPT ![r] = session]
      /\ status'    = [status EXCEPT ![r] = "running"]
      /\ snapshot'  = [snapshot EXCEPT ![r] =
                         IF @ = None THEN None
                         ELSE [@ EXCEPT !.status = "running", !.backend = BackendOf(r),
                                        !.session = session]]
      /\ running'   = running \cup {r}
      /\ task'      = [task EXCEPT ![r] = "created"]
      /\ UNCHANGED <<future, results, order, cancelled>>
  BY DEF WorkerLaunch, Settled
<1>3. LinesDistinct' /\ task[r] = "none"
  <2>1. \A x \in Runs : x # r => task'[x] = task[x]
    BY <1>2 DEF IInv, TypeOK
  <2>2. QED
    BY <1>1, <2>1, PopKeepsLines
<1> HIDE DEF r, session
<1>4. status[r] = "queued" /\ snapshot[r] # None
  BY <1>1, <1>2, <1>3 DEF ReadersAgree, StatusData
<1>5. r \notin running
  <2>1. worker[g] = "loop" /\ GroupOf(r) = g
    BY PopKeepsQueues DEF IInv, WorkerData, WorkerLaunch, r
  <2>2. QED
    BY <1>1, <2>1 DEF IInv, WorkerData, Occupies
<1>6. ReadersAgree'
  <2>1. snapshot'[r] # None /\ snapshot'[r].status = "running"
    <3>1. snapshot[r] \in SnapshotType /\ snapshot'[r] =
            [snapshot[r] EXCEPT !.status = "running", !.backend = BackendOf(r), !.session = session]
      BY <1>1, <1>2, <1>4 DEF IInv, TypeOK
    <3>2. snapshot'[r].status = "running"
      BY <3>1 DEF SnapshotType
    <3>3. BackendOf(r) \in Names /\ session \in Sessions
      BY <1>1, RequestFacts, ResolveType, PopKeepsQueues DEF IInv, r, session
    <3>4. snapshot'[r] \in SnapshotType
      BY <3>1, <3>3 DEF SnapshotType
    <3>5. snapshot'[r] # None
      BY <3>4, ConstantsAssumption
    <3>6. QED
      BY <3>2, <3>5
  <2>2. future'[r] = "pending" /\ status'[r] = "running" /\ results'[r] = None
    BY <1>1, <1>2, <1>4 DEF IInv, TypeOK, ReadersAgree, Terminal
  <2>3. \A x \in Runs \ {r} : UNCHANGED <<status[x], results[x], snapshot[x], future[x]>>
    BY <1>1, <1>2 DEF IInv, TypeOK
  <2>4. ASSUME NEW x \in Runs
        PROVE  /\ status'[x] \in {"queued", "running"} <=> future'[x] \in {"pending", "abandoned"}
               /\ results'[x] # None <=> status'[x] \in Terminal
               /\ snapshot'[x] # None <=> status'[x] # "none"
               /\ snapshot'[x] # None => snapshot'[x].status = status'[x]
               /\ results'[x] # None => /\ results'[x].status = status'[x]
                                        /\ future'[x] \in {status'[x], "lost"}
    <3>1. CASE x = r
      BY <3>1, <2>1, <2>2 DEF Terminal
    <3>2. CASE x # r
      BY <3>2, <2>3 DEF ReadersAgree
    <3>3. QED
      BY <3>1, <3>2
  <2>5. QED
    BY <2>4 DEF ReadersAgree
<1>7. RetentionBound'
  BY <1>2 DEF RetentionBound
<1>8. Collected'
  BY <1>1, <1>2, <1>5 DEF IInv, TypeOK, NoResidue, Collected
<1>9. StatusData'
  BY <1>1, <1>2, <1>5 DEF IInv, TypeOK, StatusData
<1>10. QED
  BY <1>3, <1>6, <1>7, <1>8, <1>9, WorkerLaunchStep, BooksParts

\* The three ways the worker goes on after its execution task is done.
LEMMA WorkerResumeBooks ==
  ASSUME IInv, Books, NEW g \in Groups, NEW r \in Runs,
         WorkerDrops(g, r) \/ WorkerStores(g, r) \/ WorkerDies(g, r)
  PROVE  Books'
<1> USE DEF Books
<1>1. WorkerWakes(g, r) /\ IInv'
  BY WorkerResumeStep DEF WorkerDrops, WorkerStores, WorkerDies
<1>2. /\ r \in running /\ task[r] = "done"
      /\ running' = running \ {r} /\ sessionOf' = [sessionOf EXCEPT ![r] = None]
      /\ UNCHANGED <<queue, task>>
  BY <1>1 DEF WorkerWakes, IInv, WorkerData
<1>3. LinesDistinct'
  BY <1>2 DEF LinesDistinct
<1>4. CASE WorkerStores(g, r)
  <2>1. r \notin cancelled /\ cancelled' = cancelled /\ status[r] = "running"
    BY <1>2, <1>4 DEF WorkerStores, StatusData
  <2>2. PICK res \in Results : StoreTerminalResult(r, res)
    BY <1>4, WorkerStoresStores
  <2>3. /\ ReadersAgree' /\ RetentionBound'
        /\ status'[r] \in {res.status, "none"}
        /\ \A x \in Runs \ {r} : status'[x] = status[x] \/ (status[x] \in Terminal /\ status'[x] = "none")
    BY <2>1, <2>2, StoreKeepsBooks DEF IInv
  <2>4. Collected'
    BY <1>2, <2>1, <2>3 DEF IInv, TypeOK, NoResidue, Collected
  <2>5. res.status \in Terminal
    BY DEF Results
  <2>6. StatusData'
    BY <1>2, <2>1, <2>3, <2>5 DEF StatusData, NoResidue, Terminal
  <2>7. QED
    BY <1>1, <1>3, <2>3, <2>4, <2>6, BooksParts
<1>5. CASE WorkerDrops(g, r) \/ WorkerDies(g, r)
  <2>1. /\ UNCHANGED <<future, status, snapshot, results, order>>
        /\ r \notin cancelled' /\ cancelled' = cancelled \ {r}
    BY <1>5 DEF WorkerDrops, WorkerDies
  <2>2. ReadersAgree' /\ RetentionBound'
    BY <2>1 DEF ReadersAgree, RetentionBound
  <2>3. Collected' /\ StatusData'
    BY <1>2, <2>1 DEF IInv, TypeOK, NoResidue, Collected, StatusData
  <2>4. QED
    BY <1>1, <1>3, <2>2, <2>3, BooksParts
<1>6. QED
  BY <1>4, <1>5

\* The parts of a run's record that RetryFresh and Return leave alone.
LEMMA ConcludeFrame ==
  ASSUME IInv, NEW r \in Runs, NEW o, Conclude(r, o)
  PROVE  /\ UNCHANGED <<request, future, status, results, order, workerVars>>
         /\ \A x \in Runs \ {r} :
              UNCHANGED <<task[x], attempt[x], outcome[x], sessionOf[x], snapshot[x]>>
         /\ task'[r] # "none"
         /\ snapshot'[r] # None <=> snapshot[r] # None
         /\ snapshot[r] # None => snapshot'[r].status = snapshot[r].status
<1>1. UNCHANGED <<request, future, status, results, order, workerVars>>
  BY DEF Conclude
<1>2. task' = [task EXCEPT ![r] = "executing"] \/ task' = [task EXCEPT ![r] = "done"]
  BY DEF Conclude, RetryFresh, Return
<1>3. attempt' = attempt \/ attempt' = [attempt EXCEPT ![r] = 2]
  BY DEF Conclude, RetryFresh, Return
<1>4. \E v : outcome' = [outcome EXCEPT ![r] = v]
  BY DEF Conclude, RetryFresh, Return
<1>5. sessionOf' = sessionOf \/ \E v : sessionOf' = [sessionOf EXCEPT ![r] = v]
  BY DEF Conclude, RetryFresh, Return
<1>6. \/ snapshot' = [snapshot EXCEPT ![r] =
                       IF @ = None THEN None
                       ELSE [@ EXCEPT !.attempted = TRUE, !.succeeded = "unknown"]]
      \/ snapshot' = [snapshot EXCEPT ![r] =
                       IF @ = None \/ attempt[r] # 2 \/ o = "cancelled_error" THEN @
                       ELSE [@ EXCEPT !.succeeded = RecoveryResult(o)]]
  BY DEF Conclude, RetryFresh, Return
<1>7. \A x \in Runs \ {r} : UNCHANGED <<task[x], attempt[x], outcome[x], sessionOf[x]>>
  <2>1. \A x \in Runs \ {r} : task'[x] = task[x] /\ attempt'[x] = attempt[x]
    BY <1>2, <1>3 DEF IInv, TypeOK
  <2>2. \A x \in Runs \ {r} : outcome'[x] = outcome[x]
    BY <1>4 DEF IInv, TypeOK
  <2>3. \A x \in Runs \ {r} : sessionOf'[x] = sessionOf[x]
    BY <1>5 DEF IInv, TypeOK
  <2>4. QED
    BY <2>1, <2>2, <2>3
<1>8. \A x \in Runs \ {r} : snapshot'[x] = snapshot[x]
  BY <1>6 DEF IInv, TypeOK
<1>9. task'[r] # "none"
  BY <1>2 DEF IInv, TypeOK
<1>10. ASSUME snapshot[r] = None PROVE snapshot'[r] = None
  BY <1>6, <1>10 DEF IInv, TypeOK
<1>11. ASSUME snapshot[r] # None
       PROVE  snapshot'[r] # None /\ snapshot'[r].status = snapshot[r].status
  <2>1. snapshot[r] \in SnapshotType
    BY <1>11 DEF IInv, TypeOK
  <2>2. \/ snapshot'[r] = snapshot[r]
        \/ snapshot'[r] = [snapshot[r] EXCEPT !.attempted = TRUE, !.succeeded = "unknown"]
        \/ snapshot'[r] = [snapshot[r] EXCEPT !.succeeded = RecoveryResult(o)]
    BY <1>6, <1>11 DEF IInv, TypeOK
  <2>3. RecoveryResult(o) \in {"yes", "no"}
    BY DEF RecoveryResult
  <2>4. snapshot'[r] \in SnapshotType /\ snapshot'[r].status = snapshot[r].status
    BY <2>1, <2>2, <2>3 DEF SnapshotType
  <2>5. QED
    BY <2>4, ConstantsAssumption
<1>12. QED
  BY <1>1, <1>7, <1>8, <1>9, <1>10, <1>11

\* The steps of an execution task, apart from those that conclude a call.
TaskMoves(r) ==
  /\ UNCHANGED <<runVars, workerVars, sessionOf>>
  /\ \/ TaskStart(r) \/ Detach(r) \/ OrphanEnds(r) \/ TimeoutFires(r)
     \/ /\ task[r] = "executing"
        /\ task' = [task EXCEPT ![r] = "returned"]
        /\ UNCHANGED <<attempt, storeVars>>
        /\ live' = live \ {r}
        /\ \E o \in AllOutcomes : outcome' = [outcome EXCEPT ![r] = o]

\* A task step either moves the task or concludes a call of backend.execute.
LEMMA TaskCases ==
  ASSUME IInv, NEW r \in Runs, TaskStep(r) \/ TimeoutFires(r)
  PROVE  \/ TaskMoves(r)
         \/ task[r] \notin {"none", "created", "detaching", "done"}
            /\ \E o \in AllOutcomes : Conclude(r, o)
<1>1. ASSUME NEW o \in AllOutcomes, BackendEnds(r, o) \/ TimeoutUnwinds(r, o) \/ CancelUnwinds(r, o)
      PROVE  TaskMoves(r) \/ (task[r] \notin {"none", "created", "detaching", "done"} /\ Conclude(r, o))
  BY <1>1 DEF BackendEnds, TimeoutUnwinds, CancelUnwinds, TaskMoves
<1>2. CASE WaitForReturns(r)
  BY <1>2 DEF WaitForReturns, IInv, TaskData
<1>3. CASE TaskStart(r) \/ Detach(r) \/ OrphanEnds(r) \/ TimeoutFires(r)
  BY <1>3 DEF TaskMoves, TaskStart, Detach, OrphanEnds, TimeoutFires
<1>4. QED
  BY <1>1, <1>2, <1>3 DEF TaskStep

\* What a step of a run's execution task leaves alone: every table but the
\* recovery flags of the run's own snapshot, and every other run.
LEMMA TaskFrame ==
  ASSUME IInv, NEW r \in Runs, TaskStep(r) \/ TimeoutFires(r)
  PROVE  /\ UNCHANGED <<request, future, status, results, order, workerVars>>
         /\ \A x \in Runs \ {r} :
              UNCHANGED <<task[x], attempt[x], outcome[x], sessionOf[x], snapshot[x]>>
         /\ task[r] # "none" /\ task'[r] # "none"
         /\ task[r] = "done" => UNCHANGED <<task[r], attempt[r], outcome[r], sessionOf[r]>>
         /\ snapshot'[r] # None <=> snapshot[r] # None
         /\ snapshot[r] # None => snapshot'[r].status = snapshot[r].status
<1>1. CASE TaskMoves(r)
  <2>1. UNCHANGED <<request, future, status, snapshot, results, order, workerVars, sessionOf>>
    BY <1>1 DEF TaskMoves, runVars
  <2>2. \A x \in Runs \ {r} : UNCHANGED <<task[x], attempt[x], outcome[x]>>
    BY <1>1 DEF TaskMoves, TaskStart, Detach, OrphanEnds, TimeoutFires, IInv, TypeOK
  <2>3. /\ task[r] # "none" /\ task'[r] # "none"
        /\ task[r] = "done" => UNCHANGED <<task, attempt, outcome>>
    BY <1>1 DEF TaskMoves, TaskStart, Detach, OrphanEnds, TimeoutFires, IInv, TypeOK
  <2>4. QED
    BY <2>1, <2>2, <2>3
<1>2. ASSUME NEW o \in AllOutcomes, Conclude(r, o), task[r] \notin {"none", "done"}
      PROVE  /\ UNCHANGED <<request, future, status, results, order, workerVars>>
             /\ \A x \in Runs \ {r} :
                  UNCHANGED <<task[x], attempt[x], outcome[x], sessionOf[x], snapshot[x]>>
             /\ task'[r] # "none"
             /\ snapshot'[r] # None <=> snapshot[r] # None
             /\ snapshot[r] # None => snapshot'[r].status = snapshot[r].status
  BY <1>2, ConcludeFrame
<1>3. QED
  BY <1>1, <1>2, TaskCases

\* A step of an execution task keeps the books.
LEMMA TaskBooks ==
  ASSUME IInv, Books, NEW r \in Runs, TaskStep(r) \/ TimeoutFires(r)
  PROVE  Books'
<1> USE DEF Books
<1>1. IInv'
  BY TaskStepStep
<1>2. /\ UNCHANGED <<future, status, results, order, queue, running, cancelled>>
      /\ \A x \in Runs \ {r} : UNCHANGED <<task[x], sessionOf[x], snapshot[x]>>
      /\ task[r] # "none" /\ task'[r] # "none"
      /\ task[r] = "done" => sessionOf'[r] = sessionOf[r]
      /\ snapshot'[r] # None <=> snapshot[r] # None
      /\ snapshot[r] # None => snapshot'[r].status = snapshot[r].status
  BY TaskFrame DEF workerVars
<1>3. ReadersAgree' /\ RetentionBound'
  BY <1>2 DEF ReadersAgree, RetentionBound
<1>4. Collected'
  <2>1. r \notin running => task[r] = "done"
    BY <1>2 DEF IInv, TaskData
  <2>2. QED
    BY <1>2, <2>1 DEF NoResidue, Collected
<1>5. LinesDistinct'
  <2>1. \A g \in Groups : \A i \in 1..Len(queue[g]) : queue[g][i] \in Runs
    BY ElementOfSeq DEF IInv, TypeOK
  <2>2. QED
    BY <1>2, <2>1 DEF LinesDistinct
<1>6. StatusData'
  BY <1>2 DEF StatusData
<1>7. QED
  BY <1>1, <1>3, <1>4, <1>5, <1>6, BooksParts

\* Books is preserved by every step of the coordinator.
LEMMA NextBooks == IInv /\ Books /\ [Next]_vars => Books'
<1> SUFFICES ASSUME IInv, Books, [Next]_vars PROVE Books'
  OBVIOUS
<1>1. ASSUME NEW r \in Runs, NEW q \in Requests, SubmitExecution(r, q) PROVE Books'
  BY <1>1, SubmitBooks
<1>2. ASSUME NEW r \in Runs, CancelQueued(r) \/ CancelRunning(r) \/ CancelWaiter(r) PROVE Books'
  BY <1>2, CancelQueuedBooks, CancelRunningBooks, CancelWaiterBooks
<1>3. ASSUME NEW r \in Runs, TaskStep(r) \/ TimeoutFires(r) PROVE Books'
  BY <1>3, TaskBooks
<1>4. ASSUME NEW g \in Groups, WorkerStep(g) PROVE Books'
  BY <1>4, WorkerQuietBooks, WorkerRejectBooks, WorkerLaunchBooks, WorkerResumeBooks
     DEF WorkerStep, WorkerResume
<1>5. CASE UNCHANGED vars
  BY <1>5 DEF vars, runVars, workerVars, taskVars, storeVars, Books, ReadersAgree,
       RetentionBound, NoResidue, LinesDistinct, StatusData
<1>6. CASE Idle
  BY <1>5, <1>6 DEF Idle
<1>7. QED
  BY <1>1, <1>2, <1>3, <1>4, <1>5, <1>6 DEF Next

\* Books holds in every reachable state.
THEOREM BooksInvariant == Spec => []Books
<1>1. Init => Books
  BY InitBooks
<1>2. IInv /\ Books /\ [Next]_vars => Books'
  BY NextBooks
<1>3. QED
  BY <1>1, <1>2, Invariance, PTL DEF Spec

\* _statuses, _completed_results, _run_snapshots and the futures tell one story
\* about every run, whatever its waiters do and whichever handler ends it.
THEOREM ReadersAlwaysAgree == Spec => []ReadersAgree
<1>1. Books => ReadersAgree
  BY DEF Books
<1>2. QED
  BY <1>1, BooksInvariant, PTL

\* The table of finished runs never exceeds max_completed_runs, whatever that
\* limit is (zero included), and lists exactly the retained results, each once.
THEOREM RetentionBounded == Spec => []RetentionBound
<1>1. Books => RetentionBound
  BY DEF Books
<1>2. QED
  BY <1>1, BooksInvariant, PTL

\* Nothing is left behind in _running_backends, _running_tasks,
\* _run_session_ids or _cancelled_run_ids, dead workers included.
THEOREM NothingLeftBehind == Spec => []NoResidue
<1>1. Books => NoResidue
  BY DEF Books
<1>2. QED
  BY <1>1, BooksInvariant, PTL

-----------------------------------------------------------------------------
(***************************************************************************)
(* A terminal status is final.                                             *)
(***************************************************************************)

\* What TerminalIsFinal asks of one run in one step.
Final(r) ==
  /\ status[r] \in Terminal => status'[r] \in {status[r], "none"}
  /\ future[r] \in Terminal => future'[r] = future[r]
  /\ status[r] = "none" /\ request[r] # None => status'[r] = "none"

\* Storing the result of an unfinished run changes no result delivered before.
LEMMA StoreIsFinal ==
  ASSUME IInv, Books, NEW r \in Runs, NEW res \in Results,
         status[r] \in {"queued", "running"}, StoreTerminalResult(r, res)
  PROVE  \A x \in Runs : Final(x)
<1>1. future[r] \in {"pending", "abandoned"}
  BY DEF Books, ReadersAgree
<1>2. \A x \in Runs \ {r} :
        /\ future'[x] = future[x]
        /\ status'[x] = status[x] \/ (status[x] \in Terminal /\ status'[x] = "none")
  BY StoreKeepsBooks DEF IInv, Books
<1>3. QED
  BY <1>1, <1>2 DEF Final, Terminal

\* No step of the coordinator replaces a terminal status.
LEMMA NextFinal == IInv /\ Books /\ [Next]_vars => \A r \in Runs : Final(r)
<1> SUFFICES ASSUME IInv, Books, [Next]_vars PROVE \A r \in Runs : Final(r)
  OBVIOUS
<1>1. ASSUME UNCHANGED <<status, future>> PROVE \A r \in Runs : Final(r)
  BY <1>1 DEF Final
<1>2. ASSUME NEW r \in Runs, NEW q \in Requests, SubmitExecution(r, q)
      PROVE  \A x \in Runs : Final(x)
  <2>1. /\ request[r] = None /\ status[r] = "none" /\ future[r] = "none"
        /\ future' = [future EXCEPT ![r] = "pending"]
        /\ status' = [status EXCEPT ![r] = "queued"]
    BY <1>2 DEF SubmitExecution, IInv, Submitted
  <2>2. QED
    BY <2>1 DEF Final, IInv, TypeOK, Terminal
<1>3. ASSUME NEW r \in Runs, CancelQueued(r) PROVE \A x \in Runs : Final(x)
  BY <1>3, CancelQueuedStores, StoreIsFinal DEF CancelQueued
<1>4. ASSUME NEW r \in Runs, CancelRunning(r) PROVE \A x \in Runs : Final(x)
  BY <1>4, CancelRunningStores, StoreIsFinal DEF CancelRunning
<1>5. ASSUME NEW r \in Runs, CancelWaiter(r) PROVE \A x \in Runs : Final(x)
  BY <1>5 DEF CancelWaiter, Final, IInv, TypeOK, Terminal
<1>6. ASSUME NEW r \in Runs, TaskStep(r) \/ TimeoutFires(r) PROVE \A x \in Runs : Final(x)
  BY <1>1, <1>6, TaskFrame
<1>7. ASSUME NEW g \in Groups, WorkerReject(g) PROVE \A x \in Runs : Final(x)
  <2>1. /\ Head(queue[g]) \in Runs /\ task[Head(queue[g])] = "none"
        /\ future[Head(queue[g])] = "pending"
    BY <1>7, PopKeepsQueues, PopKeepsLines DEF WorkerReject, taskVars, Books, Settled
  <2>2. status[Head(queue[g])] = "queued"
    BY <2>1 DEF Books, ReadersAgree, StatusData
  <2>3. QED
    BY <1>7, <2>1, <2>2, RejectStores, StoreIsFinal
<1>8. ASSUME NEW g \in Groups, WorkerLaunch(g) PROVE \A x \in Runs : Final(x)
  <2>1. /\ Head(queue[g]) \in Runs /\ future[Head(queue[g])] = "pending"
        /\ future' = future /\ status' = [status EXCEPT ![Head(queue[g])] = "running"]
    BY <1>8, PopKeepsQueues DEF WorkerLaunch, Settled
  <2>2. status[Head(queue[g])] \in {"queued", "running"}
    BY <2>1 DEF Books, ReadersAgree
  <2>3. QED
    BY <2>1, <2>2 DEF Final, IInv, TypeOK, Terminal
<1>9. ASSUME NEW g \in Groups, NEW r \in Runs, WorkerStores(g, r) PROVE \A x \in Runs : Final(x)
  <2>1. r \in running /\ r \notin cancelled
    BY <1>9 DEF WorkerStores, WorkerWakes, IInv, WorkerData
  <2>2. status[r] = "running"
    BY <2>1 DEF Books, StatusData
  <2>3. QED
    BY <1>9, <2>2, WorkerStoresStores, StoreIsFinal
<1>10. ASSUME NEW g \in Groups, WorkerStep(g) PROVE \A x \in Runs : Final(x)
  <2>1. CASE WorkerStart(g) \/ WorkerSkip(g) \/ WorkerExit(g)
    BY <1>1, <2>1 DEF WorkerStart, WorkerSkip, WorkerExit, runVars
  <2>2. ASSUME NEW r \in Runs, WorkerDrops(g, r) \/ WorkerDies(g, r) PROVE \A x \in Runs : Final(x)
    BY <1>1, <2>2 DEF WorkerDrops, WorkerDies
  <2>3. QED
    BY <1>7, <1>8, <1>9, <1>10, <2>1, <2>2 DEF WorkerStep, WorkerResume
<1>11. CASE UNCHANGED vars
  BY <1>1, <1>11 DEF vars, runVars
<1>12. QED
  BY <1>2, <1>3, <1>4, <1>5, <1>6, <1>10, <1>11 DEF Next, Idle

\* A terminal status can only be forgotten, never replaced, and what a waiter
\* was told stays what it was told: late results of cancelled runs, evictions
\* and the two cancel paths included.
THEOREM FinalStatuses == Spec => TerminalIsFinal
<1>1. IInv /\ Books /\ [Next]_vars =>
        [\A r \in Runs :
           /\ status[r] \in Terminal => status'[r] \in {status[r], "none"}
           /\ future[r] \in Terminal => future'[r] = future[r]
           /\ status[r] = "none" /\ request[r] # None => status'[r] = "none"]_vars
  BY NextFinal DEF Final
<1>2. QED
  BY <1>1, Invariance, BooksInvariant, PTL DEF Spec, TerminalIsFinal

-----------------------------------------------------------------------------
(***************************************************************************)
(* Backend calls of one group overlap only behind a cancelled timeout.     *)
(***************************************************************************)

\* A call under way is one its task waits for, or was left behind by wait_for.
LEMMA NextLiveTasks == IInv /\ Books /\ LiveTasks /\ [Next]_vars => LiveTasks'
<1> SUFFICES ASSUME IInv, Books, LiveTasks, [Next]_vars PROVE LiveTasks'
  OBVIOUS
<1>1. \A x \in live : x \in Runs /\ task[x] # "none" /\ request[x] # None
  BY DEF IInv, TypeOK, Submitted, LiveTasks
<1>2. ASSUME UNCHANGED <<request, task, live>> PROVE LiveTasks'
  BY <1>2 DEF LiveTasks
<1>3. ASSUME NEW r \in Runs, NEW q \in Requests, SubmitExecution(r, q) PROVE LiveTasks'
  BY <1>1, <1>3 DEF SubmitExecution, LiveTasks, IInv, TypeOK, taskVars
<1>4. ASSUME NEW r \in Runs, CancelQueued(r) \/ CancelWaiter(r) PROVE LiveTasks'
  BY <1>2, <1>4 DEF CancelQueued, CancelWaiter, taskVars
<1>5. ASSUME NEW r \in Runs, CancelRunning(r) PROVE LiveTasks'
  BY <1>1, <1>5 DEF CancelRunning, CancelTask, LiveTasks, IInv, TypeOK
<1>6. ASSUME NEW r \in Runs, TaskStep(r) \/ TimeoutFires(r) PROVE LiveTasks'
  <2>1. /\ request' = request
        /\ \A x \in Runs \ {r} : task'[x] = task[x]
    BY <1>6, TaskFrame
  <2>2. CASE TaskMoves(r)
    <3>1. live' \subseteq live \cup {r}
      BY <2>2 DEF TaskMoves, TaskStart, Detach, OrphanEnds, TimeoutFires
    <3>2. r \in live' => /\ task'[r] \in {"executing", "unwinding", "cancelling", "detaching", "done"}
                         /\ task'[r] \in {"unwinding", "detaching", "done"} => request[r].timed
      BY <2>2 DEF TaskMoves, TaskStart, Detach, OrphanEnds, TimeoutFires, LiveTasks, IInv, TypeOK
    <3>3. QED
      BY <1>1, <2>1, <3>1, <3>2 DEF LiveTasks
  <2>3. ASSUME NEW o \in AllOutcomes, Conclude(r, o) PROVE LiveTasks'
    <3>1. \/ task' = [task EXCEPT ![r] = "executing"] /\ live' = live \cup {r}
          \/ live' = live \ {r}
      BY <2>3 DEF Conclude, RetryFresh, Return
    <3>2. QED
      BY <1>1, <2>1, <3>1 DEF LiveTasks, IInv, TypeOK
  <2>4. QED
    BY <1>6, <2>2, <2>3, TaskCases
<1>7. ASSUME NEW g \in Groups, WorkerLaunch(g) PROVE LiveTasks'
  <2>1. /\ Head(queue[g]) \in Runs /\ UNCHANGED <<request, live>>
        /\ task' = [task EXCEPT ![Head(queue[g])] = "created"]
    BY <1>7, PopKeepsQueues DEF WorkerLaunch
  <2>2. task[Head(queue[g])] = "none"
    <3>1. \A x \in Runs : x # Head(queue[g]) => task'[x] = task[x]
      BY <2>1 DEF IInv, TypeOK
    <3>2. QED
      BY <1>7, <3>1, PopKeepsLines DEF WorkerLaunch, Books
  <2>3. QED
    BY <1>1, <2>1, <2>2 DEF LiveTasks, IInv, TypeOK
<1>8. ASSUME NEW g \in Groups, WorkerStep(g) PROVE LiveTasks'
  BY <1>2, <1>7, <1>8 DEF WorkerStep, WorkerStart, WorkerSkip, WorkerReject, WorkerExit,
       WorkerResume, WorkerDrops, WorkerStores, WorkerDies, WorkerWakes, runVars, taskVars
<1>9. CASE UNCHANGED vars
  BY <1>2, <1>9 DEF vars, runVars, taskVars
<1>10. QED
  BY <1>3, <1>4, <1>5, <1>6, <1>8, <1>9 DEF Next, Idle

\* Two backend calls of one group overlap only if one of them had a timeout that
\* fired and was then cancelled while its backend was unwinding.
THEOREM OneBackendCall == Spec => []OneBackendCallPerGroup
<1>1. Init => LiveTasks
  BY DEF Init, LiveTasks
<1>2. IInv /\ Books /\ LiveTasks /\ [Next]_vars => LiveTasks'
  BY NextLiveTasks
<1>3. IInv /\ Books /\ LiveTasks => OneBackendCallPerGroup
  <2> SUFFICES ASSUME IInv, Books, LiveTasks, NEW r1 \in live, NEW r2 \in live,
                      GroupOf(r1) = GroupOf(r2), r1 # r2
               PROVE  \E r \in {r1, r2} : request[r].timed /\ cancelled \cap {r} = {} /\ task[r] = "done"
    BY DEF OneBackendCallPerGroup
  <2>1. r1 \in Runs /\ r2 \in Runs
    BY DEF IInv, TypeOK
  <2>2. PICK r \in {r1, r2} : ~Occupies(r)
    BY <2>1 DEF IInv, WorkerData
  <2>3. r \in live /\ r \notin running /\ task[r] = "done"
    BY <2>1, <2>2 DEF Occupies, LiveTasks
  <2>4. r \notin cancelled
    BY <2>1, <2>3 DEF Books, NoResidue
  <2>5. request[r].timed
    BY <2>3 DEF LiveTasks
  <2>6. QED
    BY <2>3, <2>4, <2>5
<1>4. QED
  BY <1>1, <1>2, <1>3, Invariance, BooksInvariant, PTL DEF Spec

-----------------------------------------------------------------------------
(***************************************************************************)
(* The workspace sessions the coordinator hands out: a session that failed *)
(* to resume is never used again, failed and timed-out runs commit         *)
(* nothing, and a follow-up resumes what its workspace last committed.     *)
(***************************************************************************)
\* A minted session exists only once its purpose came up: the one minted to
\* start a run when the run was launched, the one minted for its retry when the
\* retry was made. So a session minted now has never been seen before.
Minted(s) ==
  /\ s.use = "start" => s.by \in Runs /\ task[s.by] # "none"
  /\ s.use = "retry" => s.by \in Runs /\ attempt[s.by] = 2

\* Where every session in circulation comes from.
Provenance ==
  /\ \A s \in used \cup revoked : Minted(s)
  /\ \A r \in Runs : sessionOf[r] # None => Minted(sessionOf[r]) /\ sessionOf[r].key = KeyOf(r)
  /\ \A k \in Keys : store[k].session # None =>
       /\ Minted(store[k].session)
       /\ store[k].session.key = k
       /\ store[k].backend = OpenAI

\* A task that has not started has made no call, and once the bare workspace
\* key failed to resume, preview_session_id offers it no more.
Attempts ==
  /\ \A r \in Runs : task[r] \in {"none", "created"} => attempt[r] = 0
  /\ \A k \in Keys : BaseSession(k) \in revoked => store[k].everCommitted

\* What the run that committed a workspace last has come to, and which runs may
\* have been told that they failed.
Committers ==
  /\ \A k \in Keys : committer[k] # None =>
       task[committer[k]] = "done" /\ outcome[committer[k]] = "completed"
  /\ \A r \in Runs : future[r] \in {"failed", "timeout"} =>
       \/ task[r] = "none"
       \/ task[r] = "done" /\ outcome[r] = future[r]

SInv == Provenance /\ Attempts /\ Committers /\ RevokedSessionStaysDead

-----------------------------------------------------------------------------
(***************************************************************************)
(* SInv is inductive, relative to IInv and Books.                          *)
(***************************************************************************)

\* Nothing is in circulation yet.
LEMMA InitSInv == Init => SInv
<1> SUFFICES ASSUME Init PROVE SInv
  OBVIOUS
<1>1. \A k \in Keys : store[k].session = None
  BY DEF Init, FreshState
<1>2. QED
  BY <1>1 DEF Init, SInv, Provenance, Attempts, Committers, RevokedSessionStaysDead

\* Every handler outside the execution tasks, other than the launch of a run,
\* leaves the sessions in circulation as they are, or forgets one.
LEMMA OutsideTasks ==
  ASSUME IInv, Books, SInv,
         UNCHANGED <<attempt, outcome, storeVars>>,
         \A x \in Runs : \/ task'[x] = task[x]
                         \/ task[x] \notin {"none", "done"} /\ task'[x] \in {"cancelling", "detaching"},
         \A x \in Runs : sessionOf'[x] \in {sessionOf[x], None},
         \A x \in Runs : request[x] # None => request'[x] = request[x],
         \A x \in Runs : future'[x] \in {"failed", "timeout"} =>
                           \/ future'[x] = future[x]
                           \/ task[x] = "none"
                           \/ task[x] = "done" /\ outcome[x] = future'[x]
  PROVE  SInv'
<1> USE DEF SInv, storeVars
<1>1. \A x \in Runs : task[x] # "none" => task'[x] # "none"
  OBVIOUS
<1>2. \A x \in Runs : sessionOf'[x] # None => request'[x] = request[x] /\ sessionOf'[x] = sessionOf[x]
  BY DEF Books, NoResidue, IInv, Submitted
<1>3. Provenance'
  <2>1. \A s \in used' \cup revoked' : Minted(s)'
    BY <1>1 DEF Provenance, Minted
  <2>2. \A x \in Runs : sessionOf'[x] # None =>
                         Minted(sessionOf[x])' /\ sessionOf'[x].key = KeyOf(x)'
    <3>1. ASSUME NEW x \in Runs, sessionOf'[x] # None
          PROVE  Minted(sessionOf[x])' /\ sessionOf'[x].key = KeyOf(x)'
      <4>1. sessionOf'[x] = sessionOf[x] /\ request'[x] = request[x]
        BY <1>2, <3>1
      <4>2. Minted(sessionOf[x]) /\ sessionOf[x].key = KeyOf(x)
        BY <3>1, <4>1 DEF Provenance
      <4>3. QED
        BY <1>1, <4>1, <4>2 DEF Minted, KeyOf
    <3>2. QED
      BY <3>1
  <2>3. \A k \in Keys : store'[k].session # None =>
          Minted(store[k].session)' /\ store'[k].session.key = k /\ store'[k].backend = OpenAI
    BY <1>1 DEF Provenance, Minted
  <2>4. QED
    BY <2>1, <2>2, <2>3 DEF Provenance
<1>4. Attempts'
  BY DEF Attempts
<1>5. Committers'
  BY DEF Committers, IInv, TypeOK
<1>6. RevokedSessionStaysDead'
  <2>1. ASSUME NEW x \in Runs, task'[x] \in {"created", "executing", "unwinding", "returned"},
               BackendOf(x)' = OpenAI
        PROVE  sessionOf'[x] \notin revoked'
    <3>1. task[x] = task'[x] /\ request'[x] = request[x]
      BY <2>1 DEF IInv, Submitted
    <3>2. sessionOf[x] \notin revoked
      BY <2>1, <3>1 DEF RevokedSessionStaysDead, BackendOf
    <3>3. None \notin revoked
      BY ConstantsAssumption DEF IInv, TypeOK
    <3>4. QED
      BY <3>2, <3>3
  <2>2. QED
    BY <2>1 DEF RevokedSessionStaysDead
<1>7. QED
  BY <1>3, <1>4, <1>5, <1>6

\* submit_execution: the run has neither a session nor a task.
LEMMA SubmitSInv ==
  ASSUME IInv, Books, SInv, NEW r \in Runs, NEW q \in Requests, SubmitExecution(r, q)
  PROVE  SInv'
<1>1. /\ UNCHANGED <<attempt, outcome, storeVars, task, sessionOf>>
      /\ request[r] = None /\ request' = [request EXCEPT ![r] = q]
      /\ future' = [future EXCEPT ![r] = "pending"]
  BY DEF SubmitExecution, taskVars
<1>2. QED
  BY <1>1, OutsideTasks DEF IInv, TypeOK

\* What StoreTerminalResult tells the waiters of r, and nobody else.
LEMMA StoreTells ==
  ASSUME IInv, NEW r \in Runs, NEW res \in Results, StoreTerminalResult(r, res)
  PROVE  /\ future'[r] \in {res.status, "lost", future[r]}
         /\ \A x \in Runs \ {r} : future'[x] = future[x]
  BY DEF StoreTerminalResult, IInv, TypeOK

\* The two cancel paths and the cancelled waiter.
LEMMA CancelSInv ==
  ASSUME IInv, Books, SInv, NEW r \in Runs,
         CancelQueued(r) \/ CancelRunning(r) \/ CancelWaiter(r)
  PROVE  SInv'
<1>1. UNCHANGED <<request, attempt, outcome, storeVars, sessionOf>>
  BY DEF CancelQueued, CancelRunning, CancelWaiter, taskVars
<1>2. \A x \in Runs : \/ task'[x] = task[x]
                      \/ task[x] \notin {"none", "done"} /\ task'[x] \in {"cancelling", "detaching"}
  <2>1. task' = task \/ CancelTask(r)
    BY DEF CancelQueued, CancelRunning, CancelWaiter, taskVars
  <2>2. QED
    BY <2>1 DEF CancelTask, IInv, TypeOK
<1>3. \A x \in Runs : future'[x] \in {"failed", "timeout"} => future'[x] = future[x]
  <2>1. CASE CancelWaiter(r)
    BY <2>1 DEF CancelWaiter, IInv, TypeOK
  <2>2. CASE CancelQueued(r) \/ CancelRunning(r)
    <3>1. PICK res \in Results : res.status = "cancelled" /\ StoreTerminalResult(r, res)
      BY <2>2, CancelQueuedStores, CancelRunningStores
    <3>2. QED
      BY <3>1, StoreTells
  <2>3. QED
    BY <2>1, <2>2
<1>4. QED
  BY <1>1, <1>2, <1>3, OutsideTasks

\* Every step of a worker but the launch of a run.
LEMMA WorkerSInv ==
  ASSUME IInv, Books, SInv, NEW g \in Groups, WorkerStep(g), ~WorkerLaunch(g)
  PROVE  SInv'
<1>1. CASE WorkerStart(g) \/ WorkerSkip(g) \/ WorkerExit(g)
  <2>1. UNCHANGED <<attempt, outcome, storeVars, task, sessionOf, request, future>>
    BY <1>1 DEF WorkerStart, WorkerSkip, WorkerExit, taskVars, runVars
  <2>2. QED
    BY <2>1, OutsideTasks
<1>2. CASE WorkerReject(g)
  <2>1. UNCHANGED <<attempt, outcome, storeVars, task, sessionOf, request>>
    BY <1>2 DEF WorkerReject, taskVars
  <2>2. Head(queue[g]) \in Runs /\ task[Head(queue[g])] = "none"
    BY <1>2, <2>1, PopKeepsQueues, PopKeepsLines DEF WorkerReject, Books
  <2>3. \A x \in Runs : future'[x] = future[x] \/ task[x] = "none"
    BY <1>2, <2>2, RejectStores, StoreTells
  <2>4. QED
    BY <2>1, <2>3, OutsideTasks
<1>3. ASSUME NEW r \in Runs, WorkerDrops(g, r) \/ WorkerStores(g, r) \/ WorkerDies(g, r)
      PROVE  SInv'
  <2>1. WorkerWakes(g, r)
    BY <1>3 DEF WorkerDrops, WorkerStores, WorkerDies
  <2>2. /\ UNCHANGED <<attempt, outcome, storeVars, task, request>> /\ task[r] = "done"
        /\ sessionOf' = [sessionOf EXCEPT ![r] = None]
    BY <2>1 DEF WorkerWakes
  <2>3. \A x \in Runs : future'[x] \in {"failed", "timeout"} =>
          \/ future'[x] = future[x]
          \/ task[x] = "done" /\ outcome[x] = future'[x]
    <3>1. CASE WorkerStores(g, r)
      BY <2>2, <3>1, WorkerStoresStores, StoreTells
    <3>2. CASE WorkerDrops(g, r) \/ WorkerDies(g, r)
      BY <3>2 DEF WorkerDrops, WorkerDies
    <3>3. QED
      BY <1>3, <3>1, <3>2
  <2>4. \A x \in Runs : sessionOf'[x] \in {sessionOf[x], None}
    BY <2>2 DEF IInv, TypeOK
  <2>5. QED
    BY <2>2, <2>3, <2>4, OutsideTasks
<1>4. QED
  BY <1>1, <1>2, <1>3 DEF WorkerStep, WorkerResume

\* The session a run is started on belongs to its workspace, is the committed
\* one, the bare key or a new one, and is not one that failed to resume.
LEMMA StartSession ==
  ASSUME IInv, SInv, NEW r \in Runs, request[r] # None, task[r] = "none"
  PROVE  LET s == ResolveSessionId(r, "start")
         IN /\ s # None /\ s.key = KeyOf(r)
            /\ (s.use = "start" /\ s.by = r) \/ Minted(s)
            /\ BackendOf(r) = OpenAI => s \notin revoked
<1> DEFINE k == KeyOf(r)
           s == ResolveSessionId(r, "start")
           minted == NewSession(k, r, "start")
<1>1. k \in Keys /\ s \in Sessions
  BY RequestFacts, ResolveType DEF IInv
<1>2. minted.key = k /\ minted.use = "start" /\ minted.by = r
  BY DEF NewSession
<1>3. BaseSession(k).key = k /\ BaseSession(k).use = "base"
  BY DEF BaseSession
<1>4. minted \notin revoked
  <2>1. Minted(minted) => FALSE
    BY <1>2 DEF Minted
  <2>2. QED
    BY <2>1 DEF SInv, Provenance
<1>5. \/ s = minted
      \/ s = BaseSession(k) /\ (BackendOf(r) = OpenAI => ~store[k].everCommitted)
      \/ s = store[k].session /\ store[k].session # None
  BY DEF ResolveSessionId, PreviewSessionId, UsesWorkspaceSession
<1> HIDE DEF s, k, minted
<1>6. s # None
  BY <1>1, ConstantsAssumption
<1>7. CASE s = minted
  BY <1>2, <1>4, <1>6, <1>7 DEF s, k
<1>8. CASE s = BaseSession(k) /\ (BackendOf(r) = OpenAI => ~store[k].everCommitted)
  <2>1. Minted(s)
    BY <1>3, <1>8 DEF Minted
  <2>2. BackendOf(r) = OpenAI => s \notin revoked
    BY <1>1, <1>8 DEF SInv, Attempts
  <2>3. QED
    BY <1>3, <1>6, <1>8, <2>1, <2>2 DEF s, k
<1>9. CASE s = store[k].session /\ store[k].session # None
  <2>1. Minted(s) /\ s.key = k /\ s \notin revoked
    BY <1>1, <1>9 DEF SInv, Provenance, RevokedSessionStaysDead
  <2>2. QED
    BY <1>6, <2>1 DEF s, k
<1>10. QED
  BY <1>5, <1>7, <1>8, <1>9

\* What the launch of a run does, in the words of these proofs.
LEMMA LaunchFacts ==
  ASSUME IInv, Books, NEW g \in Groups, WorkerLaunch(g)
  PROVE  LET r == Head(queue[g])
         IN /\ r \in Runs /\ request[r] # None /\ task[r] = "none"
            /\ task' = [task EXCEPT ![r] = "created"]
            /\ sessionOf' = [sessionOf EXCEPT ![r] = ResolveSessionId(r, "start")]
            /\ UNCHANGED <<request, future, attempt, outcome, live, storeVars>>
<1> DEFINE r == Head(queue[g])
<1>1. /\ r \in Runs /\ request[r] # None
      /\ task' = [task EXCEPT ![r] = "created"]
      /\ sessionOf' = [sessionOf EXCEPT ![r] = ResolveSessionId(r, "start")]
      /\ UNCHANGED <<request, future, attempt, outcome, live, storeVars>>
  BY PopKeepsQueues DEF WorkerLaunch
<1>2. \A x \in Runs : x # r => task'[x] = task[x]
  BY <1>1 DEF IInv, TypeOK
<1>3. task[r] = "none"
  BY <1>2, PopKeepsLines DEF WorkerLaunch, Books
<1>4. QED
  BY <1>1, <1>3

\* The launch of a run.
LEMMA LaunchSInv ==
  ASSUME IInv, Books, SInv, NEW g \in Groups, WorkerLaunch(g)
  PROVE  SInv'
<1> DEFINE r == Head(queue[g])
           s == ResolveSessionId(r, "start")
<1>1. /\ r \in Runs /\ request[r] # None /\ task[r] = "none"
      /\ task' = [task EXCEPT ![r] = "created"]
      /\ sessionOf' = [sessionOf EXCEPT ![r] = s]
      /\ UNCHANGED <<request, future, attempt, outcome, store, used, revoked, committer>>
  BY LaunchFacts DEF storeVars
<1>2. /\ s # None /\ s.key = KeyOf(r)
      /\ (s.use = "start" /\ s.by = r) \/ Minted(s)
      /\ BackendOf(r) = OpenAI => s \notin revoked
  BY <1>1, StartSession
<1> HIDE DEF r, s
<1> USE DEF SInv
<1>3. /\ task'[r] = "created" /\ sessionOf'[r] = s
      /\ \A x \in Runs \ {r} : task'[x] = task[x] /\ sessionOf'[x] = sessionOf[x]
      /\ \A x \in Runs : task[x] # "none" => task'[x] # "none"
  BY <1>1 DEF IInv, TypeOK
<1>4. Provenance'
  <2>1. \A t \in used' \cup revoked' : Minted(t)'
    BY <1>1, <1>3 DEF Provenance, Minted
  <2>2. ASSUME NEW x \in Runs, sessionOf'[x] # None
        PROVE  Minted(sessionOf[x])' /\ sessionOf'[x].key = KeyOf(x)'
    <3>1. CASE x = r
      <4>1. sessionOf'[x] = s /\ KeyOf(x)' = KeyOf(r)
        BY <1>1, <1>3, <3>1 DEF KeyOf
      <4>2. QED
        BY <1>1, <1>2, <1>3, <4>1 DEF Minted
    <3>2. CASE x # r
      <4>1. sessionOf'[x] = sessionOf[x] /\ KeyOf(x)' = KeyOf(x)
        BY <1>1, <1>3, <3>2 DEF KeyOf
      <4>2. Minted(sessionOf[x]) /\ sessionOf[x].key = KeyOf(x)
        BY <2>2, <4>1 DEF Provenance
      <4>3. QED
        BY <1>1, <1>3, <4>1, <4>2 DEF Minted
    <3>3. QED
      BY <3>1, <3>2
  <2>3. \A k \in Keys : store'[k].session # None =>
          Minted(store[k].session)' /\ store'[k].session.key = k /\ store'[k].backend = OpenAI
    BY <1>1, <1>3 DEF Provenance, Minted
  <2>4. QED
    BY <2>1, <2>2, <2>3 DEF Provenance
<1>5. Attempts'
  BY <1>1, <1>3 DEF Attempts
<1>6. Committers'
  <2>1. \A k \in Keys : committer[k] \in Runs \cup {None}
    BY DEF IInv, TypeOK
  <2>2. future[r] \notin {"failed", "timeout"}
    BY DEF WorkerLaunch, Settled, r
  <2>3. QED
    BY <1>1, <1>3, <2>1, <2>2 DEF Committers
<1>7. RevokedSessionStaysDead'
  BY <1>1, <1>2, <1>3 DEF RevokedSessionStaysDead, BackendOf
<1>8. QED
  BY <1>4, <1>5, <1>6, <1>7

\* The moves of a task that do not conclude a call.
LEMMA MovesSInv ==
  ASSUME IInv, Books, SInv, NEW r \in Runs, TaskMoves(r)
  PROVE  SInv'
<1> USE DEF SInv
<1>1. UNCHANGED <<request, future, sessionOf, store, revoked, committer>>
  BY DEF TaskMoves, runVars, TaskStart, Detach, OrphanEnds, TimeoutFires, storeVars
<1>2. \A x \in Runs : /\ task[x] # "none" => task'[x] # "none"
                      /\ attempt[x] = 2 => attempt'[x] = 2
                      /\ task'[x] \in {"none", "created"} => task'[x] = task[x] /\ attempt'[x] = attempt[x]
                      /\ task[x] \in {"none", "done"} => task'[x] = task[x] /\ outcome'[x] = outcome[x]
                      /\ task'[x] \in {"executing", "unwinding", "returned"} =>
                           task[x] \in {"created", "executing", "unwinding", "returned"}
  BY DEF TaskMoves, TaskStart, Detach, OrphanEnds, TimeoutFires, SInv, Attempts, IInv, TypeOK
<1>3. used' \subseteq used \cup {sessionOf[r]} /\ (used' # used => sessionOf[r] # None)
  BY ConstantsAssumption, TaskFacts
     DEF TaskMoves, TaskStart, Detach, OrphanEnds, TimeoutFires, storeVars
<1>4. Provenance'
  <2>1. \A t \in used' \cup revoked' : Minted(t)'
    BY <1>1, <1>2, <1>3 DEF Provenance, Minted
  <2>2. \A x \in Runs : sessionOf'[x] # None => Minted(sessionOf[x])' /\ sessionOf'[x].key = KeyOf(x)'
    BY <1>1, <1>2 DEF Provenance, Minted, KeyOf
  <2>3. \A k \in Keys : store'[k].session # None =>
          Minted(store[k].session)' /\ store'[k].session.key = k /\ store'[k].backend = OpenAI
    BY <1>1, <1>2 DEF Provenance, Minted
  <2>4. QED
    BY <2>1, <2>2, <2>3 DEF Provenance
<1>5. Attempts'
  BY <1>1, <1>2 DEF Attempts
<1>6. Committers'
  BY <1>1, <1>2 DEF Committers, IInv, TypeOK
<1>7. RevokedSessionStaysDead'
  BY <1>1, <1>2 DEF RevokedSessionStaysDead, BackendOf
<1>8. QED
  BY <1>4, <1>5, <1>6, <1>7

\* An OpenAI call that completes, or that fails to resume, ends while its task
\* still waits for it: a cancelled or timed-out one ends in neither way.
LEMMA ConcludeOrigin ==
  ASSUME IInv, NEW r \in Runs, TaskStep(r) \/ TimeoutFires(r)
  PROVE  \/ TaskMoves(r)
         \/ /\ task[r] \notin {"none", "created", "detaching", "done"}
            /\ \E o \in AllOutcomes :
                 /\ Conclude(r, o)
                 /\ BackendOf(r) = OpenAI /\ o \in {"completed", "resume_error"}
                      => task[r] \in {"executing", "returned"}
<1>1. ASSUME NEW o \in AllOutcomes, TimeoutUnwinds(r, o) \/ CancelUnwinds(r, o)
      PROVE  /\ task[r] \notin {"none", "created", "detaching", "done"}
             /\ Conclude(r, o)
             /\ BackendOf(r) = OpenAI => o \notin {"completed", "resume_error"}
  <2>1. BackendOf(r) = OpenAI => SwallowedCancel(r) = {}
    BY DEF SwallowedCancel, OpenAI, Host
  <2>2. QED
    BY <1>1, <2>1 DEF TimeoutUnwinds, CancelUnwinds
<1>2. ASSUME NEW o \in AllOutcomes, BackendEnds(r, o)
      PROVE  TaskMoves(r) \/ (task[r] = "executing" /\ Conclude(r, o))
  BY <1>2 DEF BackendEnds, TaskMoves
<1>3. CASE WaitForReturns(r)
  BY <1>3 DEF WaitForReturns, IInv, TaskData
<1>4. CASE TaskStart(r) \/ Detach(r) \/ OrphanEnds(r) \/ TimeoutFires(r)
  BY <1>4 DEF TaskMoves, TaskStart, Detach, OrphanEnds, TimeoutFires
<1>5. QED
  BY <1>1, <1>2, <1>3, <1>4 DEF TaskStep

\* The fresh retry after a failed resume.
LEMMA RetrySInv ==
  ASSUME IInv, Books, SInv, NEW r \in Runs, NEW o, task[r] \in {"executing", "returned"},
         ShouldRetry(r, o), RetryFresh(r),
         UNCHANGED <<request, future, status, results, order, workerVars>>
  PROVE  SInv'
<1> DEFINE key   == KeyOf(r)
           fresh == NewSession(key, r, "retry")
<1>1. /\ request[r] # None /\ key \in Keys /\ sessionOf[r] \in Sessions /\ sessionOf[r] # None
      /\ sessionOf[r].key = key /\ Minted(sessionOf[r]) /\ attempt[r] = 1
  BY TaskFacts, ConstantsAssumption DEF ShouldRetry, SInv, Provenance
<1>2. fresh.key = key /\ fresh.by = r /\ fresh.use = "retry"
  BY DEF NewSession
<1>3. /\ store'     = [store EXCEPT ![key] = Invalidate(store[key])]
      /\ revoked'   = revoked \cup {sessionOf[r]}
      /\ sessionOf' = [sessionOf EXCEPT ![r] = fresh]
      /\ used'      = used \cup {fresh}
      /\ attempt'   = [attempt EXCEPT ![r] = 2]
      /\ task'      = [task EXCEPT ![r] = "executing"]
      /\ outcome'   = [outcome EXCEPT ![r] = "none"]
      /\ committer' = committer
  <2>1. PreviewSessionId(Invalidate(store[key]), key, BackendOf(r), TRUE, fresh) = fresh
    BY DEF PreviewSessionId, Invalidate
  <2>2. QED
    BY <2>1 DEF RetryFresh
<1>4. fresh # sessionOf[r] /\ fresh \notin revoked
  <2>1. ~Minted(fresh)
    BY <1>1, <1>2 DEF Minted
  <2>2. QED
    BY <1>1, <2>1 DEF SInv, Provenance
<1>5. Invalidate(store[key]).session = None /\ Invalidate(store[key]).everCommitted
  BY DEF Invalidate
<1> HIDE DEF key, fresh
<1> USE DEF SInv
<1>6. /\ task'[r] = "executing" /\ sessionOf'[r] = fresh /\ attempt'[r] = 2
      /\ \A x \in Runs \ {r} : /\ task'[x] = task[x] /\ sessionOf'[x] = sessionOf[x]
                               /\ attempt'[x] = attempt[x] /\ outcome'[x] = outcome[x]
      /\ store'[key].session = None /\ store'[key].everCommitted
      /\ \A k \in Keys \ {key} : store'[k] = store[k]
  BY <1>1, <1>3, <1>5 DEF IInv, TypeOK
<1>7. \A x \in Runs : KeyOf(x)' = KeyOf(x) /\ BackendOf(x)' = BackendOf(x)
  BY DEF KeyOf, BackendOf
<1>8. Provenance'
  <2>1. \A t : Minted(t) \/ t = fresh => Minted(t)'
    BY <1>1, <1>2, <1>6 DEF Minted
  <2>2. \A t \in used' \cup revoked' : Minted(t)'
    BY <1>1, <1>3, <2>1 DEF Provenance
  <2>3. ASSUME NEW x \in Runs, sessionOf'[x] # None
        PROVE  Minted(sessionOf[x])' /\ sessionOf'[x].key = KeyOf(x)'
    <3>1. CASE x = r
      BY <1>2, <1>6, <1>7, <3>1 DEF Minted, key
    <3>2. CASE x # r
      <4>1. sessionOf'[x] = sessionOf[x] /\ Minted(sessionOf[x]) /\ sessionOf[x].key = KeyOf(x)
        BY <1>6, <2>3, <3>2 DEF Provenance
      <4>2. QED
        BY <1>6, <1>7, <4>1 DEF Minted
    <3>3. QED
      BY <3>1, <3>2
  <2>4. ASSUME NEW k \in Keys, store'[k].session # None
        PROVE  Minted(store[k].session)' /\ store'[k].session.key = k /\ store'[k].backend = OpenAI
    <3>1. store'[k] = store[k]
      BY <1>6, <2>4
    <3>2. Minted(store[k].session) /\ store[k].session.key = k /\ store[k].backend = OpenAI
      BY <2>4, <3>1 DEF Provenance
    <3>3. QED
      BY <1>6, <3>1, <3>2 DEF Minted
  <2>5. QED
    BY <2>2, <2>3, <2>4 DEF Provenance
<1>9. Attempts'
  <2>1. \A x \in Runs : task'[x] \in {"none", "created"} => attempt'[x] = 0
    BY <1>6 DEF Attempts
  <2>2. ASSUME NEW k \in Keys, BaseSession(k) \in revoked' PROVE store'[k].everCommitted
    <3>1. CASE k = key
      BY <1>6, <3>1
    <3>2. CASE k # key
      <4>1. BaseSession(k).key = k
        BY DEF BaseSession
      <4>2. BaseSession(k) # sessionOf[r]
        BY <1>1, <3>2, <4>1
      <4>3. QED
        BY <1>3, <1>6, <2>2, <3>2, <4>2 DEF Attempts
    <3>3. QED
      BY <3>1, <3>2
  <2>3. QED
    BY <2>1, <2>2 DEF Attempts
<1>10. Committers'
  <2>1. \A k \in Keys : committer[k] # None => committer[k] \in Runs \ {r}
    BY DEF Committers, IInv, TypeOK
  <2>2. future[r] \notin {"failed", "timeout"}
    BY DEF Committers
  <2>3. QED
    BY <1>3, <1>6, <2>1, <2>2 DEF Committers
<1>11. RevokedSessionStaysDead'
  <2>1. ASSUME NEW x \in Runs, task'[x] \in {"created", "executing", "unwinding", "returned"},
               BackendOf(x)' = OpenAI
        PROVE  sessionOf'[x] \notin revoked'
    <3>1. CASE x = r
      BY <1>3, <1>4, <1>6, <3>1
    <3>2. CASE x # r
      <4>1. task[x] = task'[x] /\ sessionOf'[x] = sessionOf[x] /\ sessionOf[x] \notin revoked
        BY <1>6, <1>7, <2>1, <3>2 DEF RevokedSessionStaysDead
      <4>2. sessionOf[x] # None /\ sessionOf[x].key = KeyOf(x)
        BY <2>1, <4>1, TaskFacts, ConstantsAssumption DEF Provenance
      <4>3. GroupOf(x) # GroupOf(r)
        BY <2>1, <3>2, <4>1 DEF IInv, WorkerData, Occupies
      <4>4. KeyOf(x) # key
        BY <4>3 DEF KeyOf, WorkspaceKey, GroupOf, key
      <4>5. QED
        BY <1>1, <1>3, <4>1, <4>2, <4>4
    <3>3. QED
      BY <3>1, <3>2
  <2>2. ASSUME NEW k \in Keys PROVE store'[k].session \notin revoked'
    <3>1. None \notin revoked'
      BY <1>1, <1>3, ConstantsAssumption DEF IInv, TypeOK
    <3>2. CASE k = key
      BY <1>6, <3>1, <3>2
    <3>3. CASE k # key
      <4>1. store'[k] = store[k] /\ store[k].session \notin revoked
        BY <1>6, <3>3 DEF RevokedSessionStaysDead
      <4>2. store[k].session # sessionOf[r]
        BY <1>1, <3>3 DEF Provenance
      <4>3. QED
        BY <1>3, <4>1, <4>2
    <3>4. QED
      BY <3>2, <3>3
  <2>3. QED
    BY <2>1, <2>2 DEF RevokedSessionStaysDead
<1>12. QED
  BY <1>8, <1>9, <1>10, <1>11

\* The end of an execution task, with or without a commit.
LEMMA ReturnSInv ==
  ASSUME IInv, Books, SInv, NEW r \in Runs, NEW o \in AllOutcomes,
         task[r] \notin {"none", "created", "detaching", "done"},
         Commits(r, o) => task[r] \in {"executing", "returned"},
         Return(r, o), UNCHANGED <<request, future, status, results, order, workerVars>>
  PROVE  SInv'
<1> DEFINE key    == KeyOf(r)
           commit == Commits(r, o)
           state  == CommitSuccess(store[key], BackendOf(r), sessionOf[r])
<1>1. /\ key \in Keys /\ sessionOf[r] # None
      /\ sessionOf[r].key = key /\ Minted(sessionOf[r])
  BY TaskFacts, ConstantsAssumption DEF SInv, Provenance
<1>2. /\ store'     = IF commit THEN [store EXCEPT ![key] = state] ELSE store
      /\ committer' = IF commit THEN [committer EXCEPT ![key] = r] ELSE committer
      /\ task'      = [task EXCEPT ![r] = "done"]
      /\ outcome'   = [outcome EXCEPT ![r] = ReturnedStatus(o)]
      /\ UNCHANGED <<attempt, sessionOf, used, revoked>>
  BY DEF Return
<1>3. commit => /\ BackendOf(r) = OpenAI /\ ReturnedStatus(o) = "completed"
                /\ sessionOf[r] \notin revoked
  BY DEF Commits, UsesWorkspaceSession, ReturnedStatus, SInv, RevokedSessionStaysDead
<1>4. state.session = sessionOf[r] /\ state.backend = BackendOf(r) /\ state.everCommitted
  BY DEF CommitSuccess
<1> HIDE DEF key, commit, state
<1> USE DEF SInv
<1>5. /\ task'[r] = "done" /\ outcome'[r] = ReturnedStatus(o)
      /\ \A x \in Runs \ {r} : task'[x] = task[x] /\ outcome'[x] = outcome[x]
  BY <1>2 DEF IInv, TypeOK
<1>6. \A k \in Keys : \/ store'[k] = store[k] /\ committer'[k] = committer[k]
                      \/ commit /\ k = key /\ store'[k] = state /\ committer'[k] = r
  BY <1>1, <1>2 DEF IInv, TypeOK
<1>7. \A x \in Runs : KeyOf(x)' = KeyOf(x) /\ BackendOf(x)' = BackendOf(x)
  BY DEF KeyOf, BackendOf
<1>8. Provenance'
  <2>1. \A t \in used' \cup revoked' : Minted(t)'
    BY <1>2, <1>5 DEF Provenance, Minted
  <2>2. \A x \in Runs : sessionOf'[x] # None => Minted(sessionOf[x])' /\ sessionOf'[x].key = KeyOf(x)'
    BY <1>2, <1>5, <1>7 DEF Provenance, Minted
  <2>3. ASSUME NEW k \in Keys, store'[k].session # None
        PROVE  Minted(store[k].session)' /\ store'[k].session.key = k /\ store'[k].backend = OpenAI
    <3>1. CASE store'[k] = store[k]
      <4>1. Minted(store[k].session) /\ store[k].session.key = k /\ store[k].backend = OpenAI
        BY <2>3, <3>1 DEF Provenance
      <4>2. QED
        BY <1>2, <1>5, <3>1, <4>1 DEF Minted
    <3>2. CASE commit /\ k = key /\ store'[k] = state
      BY <1>1, <1>2, <1>3, <1>4, <1>5, <3>2 DEF Minted
    <3>3. QED
      BY <1>6, <3>1, <3>2
  <2>4. QED
    BY <2>1, <2>2, <2>3 DEF Provenance
<1>9. Attempts'
  <2>1. \A x \in Runs : task'[x] \in {"none", "created"} => attempt'[x] = 0
    BY <1>2, <1>5 DEF Attempts
  <2>2. \A k \in Keys : BaseSession(k) \in revoked' => store'[k].everCommitted
    BY <1>2, <1>4, <1>6 DEF Attempts
  <2>3. QED
    BY <2>1, <2>2 DEF Attempts
<1>10. Committers'
  <2>1. \A k \in Keys : committer[k] # None => committer[k] \in Runs \ {r}
    BY DEF Committers, IInv, TypeOK
  <2>2. future[r] \notin {"failed", "timeout"}
    BY DEF Committers
  <2>3. \A k \in Keys : committer'[k] # None =>
          task'[committer'[k]] = "done" /\ outcome'[committer'[k]] = "completed"
    BY <1>3, <1>5, <1>6, <2>1 DEF Committers
  <2>4. QED
    BY <1>5, <2>2, <2>3 DEF Committers
<1>11. RevokedSessionStaysDead'
  BY <1>2, <1>3, <1>4, <1>5, <1>6, <1>7 DEF RevokedSessionStaysDead
<1>12. QED
  BY <1>8, <1>9, <1>10, <1>11

\* Every step of an execution task.
LEMMA TaskSInv ==
  ASSUME IInv, Books, SInv, NEW r \in Runs, TaskStep(r) \/ TimeoutFires(r)
  PROVE  SInv'
<1>1. CASE TaskMoves(r)
  BY <1>1, MovesSInv
<1>2. ASSUME NEW o \in AllOutcomes, Conclude(r, o),
             task[r] \notin {"none", "created", "detaching", "done"},
             BackendOf(r) = OpenAI /\ o \in {"completed", "resume_error"}
               => task[r] \in {"executing", "returned"}
      PROVE  SInv'
  <2>1. CASE ShouldRetry(r, o)
    BY <1>2, <2>1, RetrySInv DEF Conclude, ShouldRetry, UsesWorkspaceSession
  <2>2. CASE ~ShouldRetry(r, o)
    BY <1>2, <2>2, ReturnSInv DEF Conclude, Commits, UsesWorkspaceSession
  <2>3. QED
    BY <2>1, <2>2
<1>3. QED
  BY <1>1, <1>2, ConcludeOrigin

\* SInv is preserved by every step of the coordinator.
LEMMA NextSInv == IInv /\ Books /\ SInv /\ [Next]_vars => SInv'
<1> SUFFICES ASSUME IInv, Books, SInv, [Next]_vars PROVE SInv'
  OBVIOUS
<1>1. ASSUME NEW r \in Runs, NEW q \in Requests, SubmitExecution(r, q) PROVE SInv'
  BY <1>1, SubmitSInv
<1>2. ASSUME NEW r \in Runs, CancelQueued(r) \/ CancelRunning(r) \/ CancelWaiter(r) PROVE SInv'
  BY <1>2, CancelSInv
<1>3. ASSUME NEW r \in Runs, TaskStep(r) \/ TimeoutFires(r) PROVE SInv'
  BY <1>3, TaskSInv
<1>4. ASSUME NEW g \in Groups, WorkerStep(g) PROVE SInv'
  BY <1>4, WorkerSInv, LaunchSInv
<1>5. CASE UNCHANGED vars
  <2>1. UNCHANGED <<attempt, outcome, storeVars, task, sessionOf, request, future>>
    BY <1>5 DEF vars, runVars, taskVars
  <2>2. QED
    BY <2>1, OutsideTasks
<1>6. QED
  BY <1>1, <1>2, <1>3, <1>4, <1>5 DEF Next, Idle

-----------------------------------------------------------------------------
(***************************************************************************)
(* The theorems.                                                           *)
(***************************************************************************)

\* SInv holds in every reachable state.
THEOREM SessionsInvariant == Spec => []SInv
<1>1. Init => SInv
  BY InitSInv
<1>2. IInv /\ Books /\ SInv /\ [Next]_vars => SInv'
  BY NextSInv
<1>3. QED
  BY <1>1, <1>2, Invariance, BooksInvariant, PTL DEF Spec

\* The session a workspace offers its next run is one that worked: no run that
\* ended failed or timed out has committed it, no OpenAI call is running on a
\* session whose resume failed, and none will be offered it again.
THEOREM SessionsStaySound == Spec => []SessionsSound
<1>1. IInv /\ SInv => SessionsSound
  <2> SUFFICES ASSUME IInv, SInv PROVE SessionsSound
    OBVIOUS
  <2>1. FailedRunNeverCommits
    BY DEF SInv, Committers, FailedRunNeverCommits, IInv, TypeOK
  <2>2. QED
    BY <2>1 DEF SInv, SessionsSound
<1>2. QED
  BY <1>1, Invariance, SessionsInvariant, PTL

\* The store remembers the conversation of every workspace: its session is the
\* one that gave the last answer and has not failed to resume since, and it
\* knows whether the bare workspace key has had its turn.
Remembers ==
  \A k \in Keys : /\ heard[k] = store[k].session
                  /\ HasPast(k) => store[k].everCommitted

\* Only the end of a call inside an execution task touches what Remembers is about.
LEMMA StoreTouched ==
  ASSUME IInv, [Next]_vars
  PROVE  \/ UNCHANGED <<store, revoked, committer, heard>>
         \/ \E r \in Runs, o \in AllOutcomes :
              task[r] \notin {"none", "created", "detaching", "done"} /\ Conclude(r, o)
<1>1. ASSUME NEW r \in Runs, TaskStep(r) \/ TimeoutFires(r)
      PROVE  \/ UNCHANGED <<store, revoked, committer, heard>>
             \/ \E o \in AllOutcomes :
                  task[r] \notin {"none", "created", "detaching", "done"} /\ Conclude(r, o)
  <2>1. CASE TaskMoves(r)
    BY <2>1 DEF TaskMoves, TaskStart, Detach, OrphanEnds, TimeoutFires, storeVars
  <2>2. QED
    BY <1>1, <2>1, ConcludeOrigin
<1>2. ASSUME NEW r \in Runs, NEW q \in Requests, SubmitExecution(r, q)
      PROVE  UNCHANGED <<store, revoked, committer, heard>>
  BY <1>2 DEF SubmitExecution, storeVars
<1>3. ASSUME NEW r \in Runs, CancelQueued(r) \/ CancelRunning(r) \/ CancelWaiter(r)
      PROVE  UNCHANGED <<store, revoked, committer, heard>>
  BY <1>3 DEF CancelQueued, CancelRunning, CancelWaiter, storeVars
<1>4. ASSUME NEW g \in Groups, WorkerStep(g) PROVE UNCHANGED storeVars
  BY <1>4 DEF WorkerStep, WorkerStart, WorkerSkip, WorkerReject, WorkerLaunch, WorkerExit,
       WorkerResume, WorkerDrops, WorkerStores, WorkerDies, WorkerWakes, storeVars
<1>5. CASE UNCHANGED vars
  BY <1>5 DEF vars, storeVars
<1>6. QED
  BY <1>1, <1>2, <1>3, <1>4, <1>5 DEF Next, Idle, storeVars

\* A failed resume takes the conversation away, and marks the bare key as used.
LEMMA RetryRemembers ==
  ASSUME IInv, SInv, Remembers, NEW r \in Runs, task[r] \notin {"none", "done"}, RetryFresh(r)
  PROVE  Remembers'
<1> DEFINE key == KeyOf(r)
<1>1. /\ key \in Keys /\ sessionOf[r].key = key
      /\ store'     = [store EXCEPT ![key] = Invalidate(store[key])]
      /\ revoked'   = revoked \cup {sessionOf[r]}
      /\ heard'     = [heard EXCEPT ![key] = None]
      /\ committer' = committer
  BY TaskFacts, ConstantsAssumption DEF RetryFresh, SInv, Provenance
<1> HIDE DEF key
<1>2. /\ store'[key].session = None /\ store'[key].everCommitted /\ heard'[key] = None
      /\ \A k \in Keys \ {key} : store'[k] = store[k] /\ heard'[k] = heard[k]
  BY <1>1 DEF Invalidate, IInv, TypeOK
<1>3. ASSUME NEW k \in Keys, k # key, HasPast(k)' PROVE HasPast(k)
  BY <1>1, <1>3 DEF HasPast
<1>4. QED
  BY <1>2, <1>3 DEF Remembers

\* A completed call of OpenAI is what the next run continues; nothing else is.
LEMMA ReturnRemembers ==
  ASSUME IInv, SInv, Remembers, NEW r \in Runs, NEW o \in AllOutcomes,
         task[r] \notin {"none", "done"}, Return(r, o)
  PROVE  Remembers'
<1> DEFINE key    == KeyOf(r)
           commit == BackendOf(r) = OpenAI /\ o = "completed"
           state  == CommitSuccess(store[key], BackendOf(r), sessionOf[r])
<1>1. /\ key \in Keys
      /\ store'     = IF commit THEN [store EXCEPT ![key] = state] ELSE store
      /\ committer' = IF commit THEN [committer EXCEPT ![key] = r] ELSE committer
      /\ heard'     = [heard EXCEPT ![key] = IF commit THEN sessionOf[r] ELSE heard[key]]
      /\ revoked'   = revoked
  BY TaskFacts DEF Return, Commits, UsesWorkspaceSession
<1>2. state.session = sessionOf[r] /\ state.everCommitted
  BY DEF CommitSuccess
<1> HIDE DEF key, commit, state
<1>3. CASE commit
  <2>1. /\ store'[key].session = sessionOf[r] /\ store'[key].everCommitted
        /\ heard'[key] = sessionOf[r]
        /\ \A k \in Keys \ {key} : /\ store'[k] = store[k] /\ heard'[k] = heard[k]
                                   /\ committer'[k] = committer[k]
    BY <1>1, <1>2, <1>3 DEF IInv, TypeOK
  <2>2. QED
    BY <1>1, <2>1 DEF Remembers, HasPast
<1>4. CASE ~commit
  <2>1. heard' = heard
    BY <1>1, <1>4 DEF IInv, TypeOK
  <2>2. QED
    BY <1>1, <1>4, <2>1 DEF Remembers, HasPast
<1>5. QED
  BY <1>3, <1>4

\* Remembers is preserved by every step of the coordinator.
LEMMA NextRemembers == IInv /\ SInv /\ Remembers /\ [Next]_vars => Remembers'
<1> SUFFICES ASSUME IInv, SInv, Remembers, [Next]_vars PROVE Remembers'
  OBVIOUS
<1>1. CASE UNCHANGED <<store, revoked, committer, heard>>
  BY <1>1 DEF Remembers, HasPast
<1>2. ASSUME NEW r \in Runs, NEW o \in AllOutcomes, Conclude(r, o),
             task[r] \notin {"none", "created", "detaching", "done"}
      PROVE  Remembers'
  BY <1>2, RetryRemembers, ReturnRemembers DEF Conclude
<1>3. QED
  BY <1>1, <1>2, StoreTouched

\* Remembers holds in every reachable state.
LEMMA Memory == Spec => []Remembers
<1>1. Init => Remembers
  <2> SUFFICES ASSUME Init, NEW k \in Keys
               PROVE  /\ heard[k] = store[k].session
                      /\ ~HasPast(k)
    BY DEF Remembers
  <2>1. store[k].session = None
    BY DEF Init, FreshState
  <2>2. QED
    BY <2>1 DEF Init, HasPast
<1>2. QED
  BY <1>1, NextRemembers, Invariance, SessionsInvariant, PTL DEF Spec

\* What FollowUpResumes asks of one run in one step.
Resumes(r) ==
  task[r] = "none" /\ task'[r] = "created" /\ BackendOf(r) = OpenAI =>
    LET k == KeyOf(r) IN
    /\ ~request[r].fresh /\ heard[k] # None => sessionOf'[r] = heard[k]
    /\ (request[r].fresh \/ heard[k] = None) /\ HasPast(k) => sessionOf'[r] \notin used

\* Only WorkerLaunch creates an execution task, and it resolves the session of
\* the workspace: the remembered one, or a new one.
LEMMA NextResumes == IInv /\ Books /\ SInv /\ Remembers /\ [Next]_vars => \A r \in Runs : Resumes(r)
<1> SUFFICES ASSUME IInv, Books, SInv, Remembers, [Next]_vars, NEW r \in Runs,
                    task[r] = "none", task'[r] = "created", BackendOf(r) = OpenAI
             PROVE  /\ ~request[r].fresh /\ heard[KeyOf(r)] # None
                          => sessionOf'[r] = heard[KeyOf(r)]
                    /\ (request[r].fresh \/ heard[KeyOf(r)] = None) /\ HasPast(KeyOf(r))
                          => sessionOf'[r] \notin used
  BY DEF Resumes
<1>1. PICK g \in Groups : WorkerLaunch(g)
  <2>1. ASSUME NEW x \in Runs, TaskStep(x) \/ TimeoutFires(x) PROVE FALSE
    BY <2>1, TaskFrame
  <2>2. ASSUME NEW x \in Runs, CancelRunning(x) PROVE FALSE
    BY <2>2 DEF CancelRunning, CancelTask, IInv, TypeOK
  <2>3. ASSUME NEW g \in Groups, WorkerStep(g) PROVE WorkerLaunch(g)
    BY <2>3 DEF WorkerStep, WorkerStart, WorkerSkip, WorkerReject, WorkerExit, WorkerResume,
         WorkerDrops, WorkerStores, WorkerDies, WorkerWakes, taskVars
  <2>4. task' # task
    OBVIOUS
  <2>5. ASSUME NEW x \in Runs, CancelQueued(x) \/ CancelWaiter(x) PROVE FALSE
    BY <2>4, <2>5 DEF CancelQueued, CancelWaiter, taskVars
  <2>6. ASSUME NEW x \in Runs, NEW q \in Requests, SubmitExecution(x, q) PROVE FALSE
    BY <2>4, <2>6 DEF SubmitExecution, taskVars
  <2>7. ~UNCHANGED vars
    BY <2>4 DEF vars, taskVars
  <2>8. QED
    BY <2>1, <2>2, <2>3, <2>5, <2>6, <2>7 DEF Next, Idle
<1>2. r = Head(queue[g]) /\ request[r] # None /\ sessionOf'[r] = ResolveSessionId(r, "start")
  BY <1>1, LaunchFacts DEF IInv, TypeOK
<1>3. KeyOf(r) \in Keys
  BY <1>2, RequestFacts DEF IInv
<1>4. /\ heard[KeyOf(r)] = store[KeyOf(r)].session
      /\ HasPast(KeyOf(r)) => store[KeyOf(r)].everCommitted
  BY <1>3 DEF Remembers
<1>5. ASSUME ~request[r].fresh, heard[KeyOf(r)] # None
      PROVE  sessionOf'[r] = heard[KeyOf(r)]
  <2>1. store[KeyOf(r)].backend = OpenAI
    BY <1>3, <1>4, <1>5 DEF SInv, Provenance
  <2>2. QED
    BY <1>2, <1>4, <1>5, <2>1 DEF ResolveSessionId, UsesWorkspaceSession, PreviewSessionId
<1>6. ASSUME request[r].fresh \/ heard[KeyOf(r)] = None, HasPast(KeyOf(r))
      PROVE  sessionOf'[r] \notin used
  <2>1. sessionOf'[r] = NewSession(KeyOf(r), r, "start")
    BY <1>2, <1>4, <1>6 DEF ResolveSessionId, UsesWorkspaceSession, PreviewSessionId
  <2>2. ~Minted(NewSession(KeyOf(r), r, "start"))
    BY DEF Minted, NewSession
  <2>3. QED
    BY <2>1, <2>2 DEF SInv, Provenance
<1>7. QED
  BY <1>5, <1>6

\* A follow-up starts on the session that gave its workspace the last answer,
\* whatever has failed since; a fresh one, or one whose workspace has lost its
\* session to a failed resume, on a session no call has seen.
THEOREM FollowUps == Spec => FollowUpResumes
<1>1. IInv /\ Books /\ SInv /\ Remembers /\ [Next]_vars =>
        [\A r \in Runs :
           task[r] = "none" /\ task'[r] = "created" /\ BackendOf(r) = OpenAI =>
             LET k == KeyOf(r) IN
             /\ ~request[r].fresh /\ heard[k] # None => sessionOf'[r] = heard[k]
             /\ (request[r].fresh \/ heard[k] = None) /\ HasPast(k)
                  => sessionOf'[r] \notin used]_vars
  BY NextResumes DEF Resumes
<1>2. QED
  BY <1>1, Invariance, BooksInvariant, SessionsInvariant, Memory, PTL DEF Spec, FollowUpResumes

-----------------------------------------------------------------------------
NoStrayCancel == "cancelled_error" \notin Outcomes

\* A task that ends, or is about to end, in a CancelledError was cancelled
\* through the coordinator, and a running run has not lost its worker.
Unwinding ==
  /\ \A r \in Runs : task[r] \in {"cancelling", "detaching"} => r \in cancelled
  /\ \A r \in running : task[r] = "done" /\ outcome[r] = "cancelled_error" => r \in cancelled
  /\ \A r \in Runs : task[r] = "returned" => outcome[r] \in Outcomes
  /\ \A r \in Runs : status[r] = "running" => r \in running

\* No worker dies, a worker that ends leaves an empty deque behind, and every
\* queued run somebody may still wait for is in the deque of its group.
Served ==
  /\ \A g \in Groups : worker[g] # "dead"
  /\ \A g \in Groups : worker[g] = "none" => queue[g] = <<>>
  /\ \A r \in Runs : status[r] = "queued" /\ future[r] = "pending" => InLine(r, GroupOf(r))

\* Every future still in the map is one its waiters wait for, and a cancelled
\* run's waiters know.
Awaited ==
  /\ \A r \in Runs : future[r] \notin {"abandoned", "lost"}
  /\ \A r \in cancelled : future[r] = "cancelled"

\* Only runs that have no result yet are about to call their backend.
CallsAllowed ==
  \A r \in Runs :
    /\ task[r] = "created" => future[r] \notin Terminal
    /\ task[r] \in {"executing", "unwinding", "cancelling"} => r \in live
    /\ task[r] \in {"returned", "unwinding"} => request[r].timed

-----------------------------------------------------------------------------
(***************************************************************************)
(* The deques.                                                             *)
(***************************************************************************)

\* The entries of a deque are submitted runs of its group.
LEMMA LineEntries ==
  ASSUME IInv, NEW g \in Groups, NEW r, InLine(r, g)
  PROVE  r \in Runs /\ request[r] # None /\ GroupOf(r) = g
<1>1. PICK i \in 1..Len(queue[g]) : queue[g][i] = r
  BY DEF InLine
<1>2. queue[g] \in Seq(Runs)
  BY DEF IInv, TypeOK
<1>3. QED
  BY <1>1, <1>2, ElementOfSeq DEF IInv, Submitted, GroupOf

\* group_queue.append puts a run behind every other run of its group.
LEMMA AppendLine ==
  ASSUME IInv, NEW r \in Runs, NEW g \in Groups, request[r] = None,
         queue' = [queue EXCEPT ![g] = Enqueue(@, r)]
  PROVE  /\ \A x \in Runs, h \in Groups : InLine(x, h)' <=> InLine(x, h) \/ (x = r /\ h = g)
         /\ \A x, y \in Runs : Before(x, y)' <=> Before(x, y) \/ (y = r /\ InLine(x, g))
<1>1. queue \in [Groups -> Seq(Runs)]
  BY DEF IInv, TypeOK
<1>2. queue'[g] = Append(queue[g], r) /\ \A h \in Groups : h # g => queue'[h] = queue[h]
  BY <1>1 DEF Enqueue
<1> DEFINE n == Len(queue[g])
<1>3. /\ n \in Nat /\ Len(queue'[g]) = n + 1 /\ queue'[g][n + 1] = r
      /\ \A i \in 1..n : queue'[g][i] = queue[g][i]
  BY <1>1, <1>2, AppendProperties, LenProperties
<1>4. \A h \in Groups : ~InLine(r, h)
  BY LineEntries
<1> HIDE DEF n
<1>5. ASSUME NEW x \in Runs, NEW h \in Groups
      PROVE  InLine(x, h)' <=> InLine(x, h) \/ (x = r /\ h = g)
  <2>1. CASE h # g
    BY <1>2, <2>1 DEF InLine
  <2>2. CASE h = g
    <3>1. \A i \in 1..(n + 1) : i \in 1..n \/ i = n + 1
      BY <1>3
    <3>2. n + 1 \in 1..(n + 1) /\ \A i \in 1..n : i \in 1..(n + 1)
      BY <1>3
    <3>3. (\E i \in 1..(n + 1) : queue'[g][i] = x) <=> (\E i \in 1..n : queue[g][i] = x) \/ x = r
      BY <1>3, <3>1, <3>2
    <3>4. QED
      BY <2>2, <3>3, <1>3 DEF InLine, n
  <2>3. QED
    BY <2>1, <2>2
<1>6. ASSUME NEW x \in Runs, NEW y \in Runs, Before(x, y)
      PROVE  Before(x, y)'
  <2>1. PICK h \in Groups : \E i, j \in 1..Len(queue[h]) : i < j /\ queue[h][i] = x /\ queue[h][j] = y
    BY <1>6 DEF Before
  <2>2. PICK i \in 1..Len(queue[h]), j \in 1..Len(queue[h]) : i < j /\ queue[h][i] = x /\ queue[h][j] = y
    BY <2>1
  <2>3. CASE h # g
    BY <2>2, <2>3, <1>2 DEF Before
  <2>4. CASE h = g
    <3>1. i \in 1..n /\ j \in 1..n /\ i \in 1..(n + 1) /\ j \in 1..(n + 1)
      BY <2>2, <2>4, <1>3 DEF n
    <3>2. i \in 1..Len(queue'[g]) /\ j \in 1..Len(queue'[g]) /\ queue'[g][i] = x /\ queue'[g][j] = y
      BY <3>1, <2>2, <2>4, <1>3
    <3>3. QED
      BY <3>2, <2>2 DEF Before
  <2>5. QED
    BY <2>3, <2>4
<1>7. ASSUME NEW x \in Runs, InLine(x, g) PROVE Before(x, r)'
  <2>1. PICK i \in 1..n : queue[g][i] = x
    BY <1>7 DEF InLine, n
  <2>2. i \in 1..(n + 1) /\ n + 1 \in 1..(n + 1) /\ i < n + 1
    BY <1>3
  <2>3. QED
    BY <2>1, <2>2, <1>3 DEF Before
<1>8. ASSUME NEW x \in Runs, NEW y \in Runs, Before(x, y)'
      PROVE  Before(x, y) \/ (y = r /\ InLine(x, g))
  <2>1. PICK h \in Groups : \E i, j \in 1..Len(queue'[h]) : i < j /\ queue'[h][i] = x /\ queue'[h][j] = y
    BY <1>8 DEF Before
  <2>2. PICK i \in 1..Len(queue'[h]), j \in 1..Len(queue'[h]) :
          i < j /\ queue'[h][i] = x /\ queue'[h][j] = y
    BY <2>1
  <2>3. CASE h # g
    BY <2>2, <2>3, <1>2 DEF Before
  <2>4. CASE h = g
    <3>1. i \in 1..n /\ (j \in 1..n \/ j = n + 1)
      BY <2>2, <2>4, <1>3
    <3>2. queue[g][i] = x /\ InLine(x, g)
      BY <3>1, <2>2, <2>4, <1>3 DEF InLine, n
    <3>3. CASE j = n + 1
      BY <3>2, <3>3, <2>2, <2>4, <1>3
    <3>4. CASE j \in 1..n
      BY <3>1, <3>2, <3>4, <2>2, <2>4, <1>3 DEF Before, n
    <3>5. QED
      BY <3>1, <3>3, <3>4
  <2>5. QED
    BY <2>3, <2>4
<1>9. QED
  BY <1>5, <1>6, <1>7, <1>8

\* group_queue.popleft takes the run nobody stands before, and nobody else.
LEMMA PopLine ==
  ASSUME IInv, LinesDistinct, NEW g \in Groups, queue[g] # <<>>,
         queue' = [queue EXCEPT ![g] = Tail(@)]
  PROVE  LET r == Head(queue[g]) IN
         /\ r \in Runs /\ InLine(r, g)
         /\ \A x \in Runs : ~Before(x, r)
         /\ \A x \in Runs, h \in Groups : InLine(x, h)' <=> InLine(x, h) /\ x # r
         /\ \A x, y \in Runs : Before(x, y)' <=> Before(x, y) /\ x # r
<1> DEFINE r == Head(queue[g])
           n == Len(queue[g])
<1>1. queue \in [Groups -> Seq(Runs)]
  BY DEF IInv, TypeOK
<1>2. queue'[g] = Tail(queue[g]) /\ \A h \in Groups : h # g => queue'[h] = queue[h]
  BY <1>1
<1>3. /\ n \in Nat /\ 1 \in 1..n /\ queue[g][1] = r /\ r \in Runs
  BY <1>1, EmptySeq, LenProperties, HeadTailProperties
<1>4. /\ Len(queue'[g]) = n - 1
      /\ \A i \in 1..(n - 1) : i + 1 \in 1..n /\ queue'[g][i] = queue[g][i + 1]
  BY <1>1, <1>2, TailIndex, HeadTailProperties
<1>5. InLine(r, g)
  BY <1>3 DEF InLine
<1>6. \A h \in Groups : InLine(r, h) => h = g
  BY <1>5, LineEntries
<1>7. \A i \in 1..n : queue[g][i] = r => i = 1
  BY <1>3 DEF LinesDistinct
<1> HIDE DEF r, n
<1>8. ASSUME NEW x \in Runs PROVE ~Before(x, r)
  <2>1. SUFFICES ASSUME NEW h \in Groups, NEW i \in 1..Len(queue[h]), NEW j \in 1..Len(queue[h]),
                        i < j, queue[h][j] = r
                 PROVE  FALSE
    BY DEF Before
  <2>2. h = g
    BY <2>1, <1>6 DEF InLine
  <2>3. j = 1
    BY <2>1, <2>2, <1>7 DEF n
  <2>4. QED
    BY <2>1, <2>3
<1>9. ASSUME NEW x \in Runs, NEW h \in Groups
      PROVE  InLine(x, h)' <=> InLine(x, h) /\ x # r
  <2>1. CASE h # g
    BY <1>2, <1>6, <2>1 DEF InLine
  <2>2. CASE h = g
    <3>1. ASSUME NEW i \in 1..(n - 1), queue'[g][i] = x PROVE InLine(x, g) /\ x # r
      <4>1. i + 1 \in 1..n /\ i + 1 # 1 /\ queue[g][i + 1] = x
        BY <3>1, <1>3, <1>4
      <4>2. QED
        BY <4>1, <1>7 DEF InLine, n
    <3>2. ASSUME NEW i \in 1..n, queue[g][i] = x, x # r PROVE \E j \in 1..(n - 1) : queue'[g][j] = x
      <4>1. i # 1
        BY <3>2, <1>3
      <4>2. i - 1 \in 1..(n - 1) /\ (i - 1) + 1 = i
        BY <4>1, <1>3
      <4>3. QED
        BY <4>2, <3>2, <1>4
    <3>3. QED
      BY <2>2, <3>1, <3>2, <1>4 DEF InLine, n
  <2>3. QED
    BY <2>1, <2>2
<1>10. ASSUME NEW x \in Runs, NEW y \in Runs, Before(x, y)'
       PROVE  Before(x, y) /\ x # r
  <2>1. PICK h \in Groups : \E i, j \in 1..Len(queue'[h]) : i < j /\ queue'[h][i] = x /\ queue'[h][j] = y
    BY <1>10 DEF Before
  <2>2. PICK i \in 1..Len(queue'[h]), j \in 1..Len(queue'[h]) :
          i < j /\ queue'[h][i] = x /\ queue'[h][j] = y
    BY <2>1
  <2>3. x # r
    BY <2>2, <1>9 DEF InLine
  <2>4. CASE h # g
    BY <2>2, <2>3, <2>4, <1>2 DEF Before
  <2>5. CASE h = g
    <3>1. i \in 1..(n - 1) /\ j \in 1..(n - 1)
      BY <2>2, <2>5, <1>4
    <3>2. i + 1 \in 1..n /\ j + 1 \in 1..n /\ i + 1 < j + 1
          /\ queue[g][i + 1] = x /\ queue[g][j + 1] = y
      BY <3>1, <2>2, <2>5, <1>3, <1>4
    <3>3. QED
      BY <3>2, <2>3 DEF Before, n
  <2>6. QED
    BY <2>4, <2>5
<1>11. ASSUME NEW x \in Runs, NEW y \in Runs, Before(x, y), x # r
       PROVE  Before(x, y)'
  <2>1. PICK h \in Groups : \E i, j \in 1..Len(queue[h]) : i < j /\ queue[h][i] = x /\ queue[h][j] = y
    BY <1>11 DEF Before
  <2>2. PICK i \in 1..Len(queue[h]), j \in 1..Len(queue[h]) : i < j /\ queue[h][i] = x /\ queue[h][j] = y
    BY <2>1
  <2>3. CASE h # g
    BY <2>2, <2>3, <1>2 DEF Before
  <2>4. CASE h = g
    <3>1. i \in 1..n /\ j \in 1..n /\ i # 1
      BY <2>2, <2>4, <1>3, <1>11 DEF n
    <3>2. i - 1 \in 1..(n - 1) /\ j - 1 \in 1..(n - 1) /\ i - 1 < j - 1
          /\ (i - 1) + 1 = i /\ (j - 1) + 1 = j
      BY <3>1, <2>2, <1>3
    <3>3. queue'[g][i - 1] = x /\ queue'[g][j - 1] = y
      BY <3>2, <2>2, <2>4, <1>4
    <3>4. QED
      BY <3>2, <3>3, <1>4 DEF Before
  <2>5. QED
    BY <2>3, <2>4
<1>12. QED
  BY <1>3, <1>5, <1>8, <1>9, <1>10, <1>11 DEF r

-----------------------------------------------------------------------------
(***************************************************************************)
(* Workers.                                                                *)
(***************************************************************************)

\* Storing the result of an unfinished run starts nothing, queues nothing and
\* leaves the futures of the other runs alone.
LEMMA StoreSettles ==
  ASSUME IInv, Books, NEW r \in Runs, NEW res \in Results,
         status[r] \in {"queued", "running"}, StoreTerminalResult(r, res)
  PROVE  /\ \A x \in Runs : status'[x] \in {"queued", "running"} => status'[x] = status[x] /\ x # r
         /\ \A x \in Runs \ {r} : future'[x] = future[x]
         /\ future[r] = "pending" => future'[r] = res.status
         /\ future[r] \in {"pending", "abandoned"}
<1>1. /\ status'[r] \in {res.status, "none"} /\ res.status \in Terminal
      /\ \A x \in Runs \ {r} :
           /\ future'[x] = future[x]
           /\ status'[x] = status[x] \/ (status[x] \in Terminal /\ status'[x] = "none")
  BY StoreKeepsBooks DEF IInv, Books, Results
<1>2. future[r] = "pending" => future'[r] = res.status
  BY DEF StoreTerminalResult, IInv, TypeOK
<1>3. future[r] \in {"pending", "abandoned"}
  BY DEF Books, ReadersAgree
<1>4. QED
  BY <1>1, <1>2, <1>3 DEF Terminal

\* The run a worker settles without a task was queued.
LEMMA HeadWasQueued ==
  ASSUME IInv, Books, NEW g \in Groups, queue[g] # <<>>,
         queue' = [queue EXCEPT ![g] = Tail(@)], ~Settled(Head(queue[g]))
  PROVE  LET r == Head(queue[g]) IN
         r \in Runs /\ GroupOf(r) = g /\ task[r] = "none" /\ status[r] = "queued"
<1> DEFINE r == Head(queue[g])
<1>1. r \in Runs /\ GroupOf(r) = g
  BY PopKeepsQueues
<1>2. InLine(r, g) /\ future[r] = "pending"
  BY PopLine DEF Books, Settled
<1> HIDE DEF r
<1>3. task[r] = "none"
  BY <1>2 DEF InLine, Books, LinesDistinct
<1>4. status[r] = "queued"
  BY <1>1, <1>2, <1>3 DEF Books, ReadersAgree, StatusData
<1>5. QED
  BY <1>1, <1>3, <1>4 DEF r

\* A CancelledError in an execution task comes from the coordinator's cancel.
LEMMA TaskUnwinding ==
  ASSUME NoStrayCancel, IInv, Books, Unwinding, NEW r \in Runs, TaskStep(r) \/ TimeoutFires(r)
  PROVE  Unwinding'
<1>1. /\ UNCHANGED <<status, running, cancelled>>
      /\ \A x \in Runs \ {r} : task'[x] = task[x] /\ outcome'[x] = outcome[x]
  BY TaskFrame DEF workerVars
<1>2. task \in [Runs -> {"none", "created", "executing", "returned", "unwinding",
                         "cancelling", "detaching", "done"}]
      /\ outcome \in [Runs -> AllOutcomes \cup {"none"}] /\ running \subseteq Runs
  BY DEF IInv, TypeOK
<1> DEFINE Good == /\ task'[r] \in {"cancelling", "detaching"} => r \in cancelled
                   /\ r \in running /\ task'[r] = "done" /\ outcome'[r] = "cancelled_error" => r \in cancelled
                   /\ task'[r] = "returned" => outcome'[r] \in Outcomes
<1>3. ASSUME NEW o, Conclude(r, o), o = "cancelled_error" => r \in cancelled
      PROVE  Good
  <2>1. CASE RetryFresh(r)
    BY <2>1, <1>2 DEF RetryFresh
  <2>2. CASE Return(r, o)
    BY <2>2, <1>2, <1>3 DEF Return, ReturnedStatus
  <2>3. QED
    BY <1>3, <2>1, <2>2 DEF Conclude
<1>4. ASSUME NEW o \in AllOutcomes, BackendEnds(r, o) PROVE Good
  <2>1. o \in Outcomes /\ o # "cancelled_error"
    BY <1>4 DEF BackendEnds, NoStrayCancel
  <2>2. CASE Conclude(r, o)
    BY <2>1, <2>2, <1>3
  <2>3. CASE task' = [task EXCEPT ![r] = "returned"] /\ outcome' = [outcome EXCEPT ![r] = o]
    BY <2>1, <2>3, <1>2
  <2>4. QED
    BY <1>4, <2>2, <2>3 DEF BackendEnds
<1>5. ASSUME NEW o \in AllOutcomes, TimeoutUnwinds(r, o) PROVE Good
  <2>1. Conclude(r, o) /\ o # "cancelled_error"
    BY <1>5 DEF TimeoutUnwinds, SwallowedCancel
  <2>2. QED
    BY <2>1, <1>3
<1>6. ASSUME NEW o \in AllOutcomes, CancelUnwinds(r, o) PROVE Good
  <2>1. Conclude(r, o) /\ r \in cancelled
    BY <1>6 DEF CancelUnwinds, Unwinding
  <2>2. QED
    BY <2>1, <1>3
<1>7. CASE WaitForReturns(r)
  <2>1. Conclude(r, outcome[r]) /\ outcome[r] # "cancelled_error"
    BY <1>7 DEF WaitForReturns, Unwinding, NoStrayCancel
  <2>2. QED
    BY <2>1, <1>3, <1>1, <1>2 DEF Unwinding
<1>8. CASE TaskStart(r) \/ TimeoutFires(r)
  <2>1. task'[r] \in {"executing", "unwinding"}
    BY <1>8, <1>2 DEF TaskStart, TimeoutFires
  <2>2. QED
    BY <2>1, <1>1, <1>2 DEF Unwinding
<1>9. CASE Detach(r)
  BY <1>9, <1>1, <1>2 DEF Detach, Unwinding
<1>10. CASE OrphanEnds(r)
  BY <1>10, <1>1, <1>2 DEF OrphanEnds, Unwinding
<1>11. Good => Unwinding'
  BY <1>1, <1>2 DEF Unwinding
<1> HIDE DEF Good
<1>12. QED
  BY <1>4, <1>5, <1>6, <1>7, <1>8, <1>9, <1>10, <1>11 DEF TaskStep

\* Unwinding is preserved by every step of the coordinator.
LEMMA NextUnwinding ==
  ASSUME NoStrayCancel, IInv, Books, Unwinding, [Next]_vars
  PROVE  Unwinding'
<1>1. /\ task \in [Runs -> {"none", "created", "executing", "returned", "unwinding",
                            "cancelling", "detaching", "done"}]
      /\ status \in [Runs -> {"none", "queued", "running"} \cup Terminal]
      /\ running \subseteq Runs /\ cancelled \subseteq Runs
  BY DEF IInv, TypeOK
<1>2. ASSUME UNCHANGED <<task, outcome, running, cancelled>>,
             \A x \in Runs : status'[x] = "running" => status[x] = "running"
      PROVE  Unwinding'
  BY <1>2 DEF Unwinding
<1>3. ASSUME NEW r \in Runs, NEW q \in Requests, SubmitExecution(r, q) PROVE Unwinding'
  <2>1. UNCHANGED <<task, outcome, running, cancelled>> /\ status' = [status EXCEPT ![r] = "queued"]
    BY <1>3 DEF SubmitExecution, taskVars
  <2>2. QED
    BY <2>1, <1>1, <1>2
<1>4. ASSUME NEW r \in Runs, CancelQueued(r) PROVE Unwinding'
  <2>1. UNCHANGED <<task, outcome, running, cancelled>> /\ status[r] = "queued"
    BY <1>4 DEF CancelQueued, workerVars, taskVars
  <2>2. QED
    BY <1>4, <2>1, <1>2, CancelQueuedStores, StoreSettles
<1>5. ASSUME NEW r \in Runs, CancelRunning(r) PROVE Unwinding'
  <2>1. /\ UNCHANGED <<outcome, running>> /\ status[r] = "running"
        /\ cancelled' = cancelled \cup {r} /\ CancelTask(r)
    BY <1>5 DEF CancelRunning
  <2>2. \A x \in Runs : status'[x] = "running" => status[x] = "running"
    BY <1>5, <2>1, CancelRunningStores, StoreSettles
  <2>3. \A x \in Runs \ {r} : task'[x] = task[x]
    BY <2>1, <1>1 DEF CancelTask
  <2>4. task'[r] = "returned" => task[r] = "returned"
    BY <2>1, <1>1 DEF CancelTask
  <2>5. QED
    BY <2>1, <2>2, <2>3, <2>4, <1>1 DEF Unwinding
<1>6. ASSUME NEW r \in Runs, CancelWaiter(r) PROVE Unwinding'
  BY <1>6, <1>2 DEF CancelWaiter, workerVars, taskVars
<1>7. ASSUME NEW r \in Runs, TaskStep(r) \/ TimeoutFires(r) PROVE Unwinding'
  BY <1>7, TaskUnwinding
<1>8. ASSUME NEW g \in Groups, WorkerStart(g) \/ WorkerSkip(g) \/ WorkerExit(g) PROVE Unwinding'
  BY <1>8, <1>2 DEF WorkerStart, WorkerSkip, WorkerExit, runVars, taskVars
<1>9. ASSUME NEW g \in Groups, WorkerReject(g) PROVE Unwinding'
  <2>1. /\ UNCHANGED <<task, outcome, running, cancelled>>
        /\ queue[g] # <<>> /\ queue' = [queue EXCEPT ![g] = Tail(@)] /\ ~Settled(Head(queue[g]))
    BY <1>9 DEF WorkerReject, taskVars
  <2>2. Head(queue[g]) \in Runs /\ status[Head(queue[g])] = "queued"
    BY <2>1, HeadWasQueued
  <2>3. QED
    BY <1>9, <2>1, <2>2, <1>2, RejectStores, StoreSettles
<1>10. ASSUME NEW g \in Groups, WorkerLaunch(g) PROVE Unwinding'
  <2> DEFINE r == Head(queue[g])
  <2>1. r \in Runs /\ task[r] = "none"
    BY <1>10, HeadWasQueued DEF WorkerLaunch
  <2>2. /\ task' = [task EXCEPT ![r] = "created"] /\ running' = running \cup {r}
        /\ status' = [status EXCEPT ![r] = "running"] /\ UNCHANGED <<outcome, cancelled>>
    BY <1>10 DEF WorkerLaunch
  <2> HIDE DEF r
  <2>3. QED
    BY <2>1, <2>2, <1>1 DEF Unwinding
<1>11. ASSUME NEW g \in Groups, NEW r \in Runs,
              WorkerDrops(g, r) \/ WorkerStores(g, r) \/ WorkerDies(g, r)
       PROVE  Unwinding'
  <2>1. /\ r \in running /\ task[r] = "done" /\ running' = running \ {r} /\ UNCHANGED <<task, outcome>>
        /\ cancelled' = cancelled \/ cancelled' = cancelled \ {r}
    BY <1>11 DEF WorkerDrops, WorkerStores, WorkerDies, WorkerWakes, IInv, WorkerData
  <2>2. \A x \in Runs : status'[x] = "running" => status[x] = "running" /\ x # r
    <3>1. CASE WorkerStores(g, r)
      <4>1. status[r] = "running"
        BY <2>1, <3>1 DEF WorkerStores, Books, StatusData
      <4>2. QED
        BY <3>1, <4>1, WorkerStoresStores, StoreSettles
    <3>2. CASE WorkerDrops(g, r)
      <4>1. status[r] # "running" /\ status' = status
        BY <3>2 DEF WorkerDrops, Books, NoResidue
      <4>2. QED
        BY <4>1
    <3>3. CASE WorkerDies(g, r)
      BY <2>1, <3>3 DEF WorkerDies, Unwinding
    <3>4. QED
      BY <1>11, <3>1, <3>2, <3>3
  <2>3. QED
    BY <2>1, <2>2 DEF Unwinding
<1>12. CASE UNCHANGED vars
  BY <1>2, <1>12 DEF vars, runVars, workerVars, taskVars
<1>13. ASSUME NEW g \in Groups, WorkerStep(g) PROVE Unwinding'
  BY <1>8, <1>9, <1>10, <1>11, <1>13 DEF WorkerStep, WorkerResume
<1>14. QED
  BY <1>3, <1>4, <1>5, <1>6, <1>7, <1>12, <1>13 DEF Next, Idle

\* Served is preserved by every step of the coordinator.
LEMMA NextServed ==
  ASSUME IInv, Books, Unwinding, Served, [Next]_vars
  PROVE  Served'
<1>1. /\ status \in [Runs -> {"none", "queued", "running"} \cup Terminal]
      /\ worker \in [Groups -> {"none", "created", "loop", "awaiting", "dead"}]
      /\ queue \in [Groups -> Seq(Runs)]
      /\ future \in [Runs -> {"none", "pending", "abandoned", "lost"} \cup Terminal]
  BY DEF IInv, TypeOK
<1> DEFINE Queued(x) == status[x] = "queued" /\ future[x] = "pending"
<1>2. ASSUME UNCHANGED <<request, queue>>,
             \A h \in Groups : worker'[h] # "dead" /\ (worker'[h] = "none" => worker[h] = "none"),
             \A x \in Runs : Queued(x)' => Queued(x)
      PROVE  Served'
  BY <1>2 DEF Served, InLine, GroupOf
<1>3. ASSUME NEW r \in Runs, NEW q \in Requests, SubmitExecution(r, q) PROVE Served'
  <2>1. /\ request[r] = None /\ request' = [request EXCEPT ![r] = q]
        /\ queue' = [queue EXCEPT ![q.group] = Enqueue(@, r)]
        /\ worker' = [worker EXCEPT ![q.group] = IF @ \in {"none", "dead"} THEN "created" ELSE @]
        /\ future' = [future EXCEPT ![r] = "pending"] /\ status' = [status EXCEPT ![r] = "queued"]
    BY <1>3 DEF SubmitExecution, EnsureWorker
  <2>2. q.group \in Groups /\ request \in [Runs -> Requests \cup {None}]
    BY ConstantsAssumption DEF RequestType, IInv, TypeOK
  <2>3. \A x \in Runs, h \in Groups : InLine(x, h)' <=> InLine(x, h) \/ (x = r /\ h = q.group)
    BY <2>1, <2>2, AppendLine
  <2>4. \A h \in Groups : /\ worker'[h] # "dead"
                          /\ worker'[h] = "none" => h # q.group /\ worker[h] = "none"
    BY <2>1, <2>2, <1>1 DEF Served
  <2>5. \A h \in Groups : h # q.group => queue'[h] = queue[h]
    BY <2>1, <1>1
  <2>6. ASSUME NEW x \in Runs, status'[x] = "queued", future'[x] = "pending"
        PROVE  InLine(x, GroupOf(x))'
    <3>1. CASE x = r
      <4>1. GroupOf(x)' = q.group
        BY <2>1, <2>2, <3>1 DEF GroupOf
      <4>2. InLine(r, q.group)'
        BY <2>2, <2>3
      <4>3. QED
        BY <4>1, <4>2, <3>1 DEF InLine
    <3>2. CASE x # r
      <4>1. GroupOf(x)' = GroupOf(x) /\ request[x] # None
        BY <2>1, <2>6, <3>2, <1>1 DEF GroupOf, IInv, TypeOK, Submitted
      <4>2. InLine(x, GroupOf(x)) /\ GroupOf(x) \in Groups
        BY <2>1, <2>6, <3>2, <4>1, <1>1, RequestFacts DEF Served, IInv
      <4> DEFINE h == GroupOf(x)
      <4>3. \E i \in 1..Len(queue'[h]) : queue'[h][i] = x
        BY <4>2, <2>3 DEF InLine
      <4>4. QED
        BY <4>1, <4>3 DEF InLine
    <3>3. QED
      BY <3>1, <3>2
  <2>7. QED
    BY <2>4, <2>5, <2>6 DEF Served
<1>4. ASSUME NEW r \in Runs, CancelQueued(r) \/ CancelRunning(r) PROVE Served'
  <2>1. UNCHANGED <<request, queue, worker>> /\ status[r] \in {"queued", "running"}
    BY <1>4 DEF CancelQueued, CancelRunning, workerVars
  <2>2. \A x \in Runs : Queued(x)' => Queued(x)
    BY <1>4, <2>1, CancelQueuedStores, CancelRunningStores, StoreSettles
  <2>3. QED
    BY <2>1, <2>2, <1>2 DEF Served
<1>5. ASSUME NEW r \in Runs, CancelWaiter(r) PROVE Served'
  BY <1>5, <1>1, <1>2 DEF CancelWaiter, workerVars, Served
<1>6. ASSUME NEW r \in Runs, TaskStep(r) \/ TimeoutFires(r) PROVE Served'
  BY <1>6, <1>2, TaskFrame DEF workerVars, Served
<1>7. ASSUME NEW g \in Groups, WorkerStart(g) PROVE Served'
  BY <1>7, <1>1, <1>2 DEF WorkerStart, runVars, Served
<1>8. ASSUME NEW g \in Groups, WorkerExit(g) PROVE Served'
  <2>1. /\ queue[g] = <<>> /\ UNCHANGED <<request, queue, status, future>>
        /\ worker' = [worker EXCEPT ![g] = "none"]
    BY <1>8 DEF WorkerExit, runVars
  <2>2. QED
    BY <2>1, <1>1 DEF Served, InLine, GroupOf
<1>9. ASSUME NEW g \in Groups, onLoop = g, queue[g] # <<>>,
             queue' = [queue EXCEPT ![g] = Tail(@)], request' = request,
             \A h \in Groups : worker'[h] # "dead" /\ (worker'[h] = "none" => worker[h] = "none"),
             \A x \in Runs : Queued(x)' => Queued(x) /\ x # Head(queue[g])
      PROVE  Served'
  <2>1. worker[g] = "loop"
    BY <1>9 DEF IInv, WorkerData
  <2>2. \A h \in Groups : worker'[h] = "none" => queue'[h] = <<>>
    BY <1>1, <1>9, <2>1 DEF Served
  <2>3. ASSUME NEW x \in Runs, Queued(x)' PROVE InLine(x, GroupOf(x))'
    <3> DEFINE h == GroupOf(x)
    <3>1. request[x] # None /\ InLine(x, h) /\ x # Head(queue[g])
      BY <1>9, <2>3 DEF Served, IInv, Submitted
    <3>2. h \in Groups
      BY <3>1, RequestFacts DEF IInv
    <3>3. \A y \in Runs, k \in Groups : InLine(y, k)' <=> InLine(y, k) /\ y # Head(queue[g])
      BY <1>9, PopLine DEF Books
    <3>4. \E i \in 1..Len(queue'[h]) : queue'[h][i] = x
      BY <3>1, <3>2, <3>3 DEF InLine
    <3>5. QED
      BY <1>9, <3>4 DEF InLine, GroupOf
  <2>4. QED
    BY <1>9, <2>2, <2>3 DEF Served
<1>10. ASSUME NEW g \in Groups, WorkerSkip(g) PROVE Served'
  <2>1. /\ onLoop = g /\ queue[g] # <<>> /\ future[Head(queue[g])] # "pending"
        /\ queue' = [queue EXCEPT ![g] = Tail(@)] /\ UNCHANGED <<request, worker, status, future>>
    BY <1>10 DEF WorkerSkip, runVars, Settled
  <2>2. QED
    BY <2>1, <1>9 DEF Served
<1>11. ASSUME NEW g \in Groups, WorkerReject(g) PROVE Served'
  <2>1. /\ onLoop = g /\ queue[g] # <<>> /\ UNCHANGED <<request, worker>>
        /\ queue' = [queue EXCEPT ![g] = Tail(@)] /\ ~Settled(Head(queue[g]))
    BY <1>11 DEF WorkerReject
  <2>2. Head(queue[g]) \in Runs /\ status[Head(queue[g])] = "queued"
    BY <2>1, HeadWasQueued
  <2>3. \A x \in Runs : Queued(x)' => Queued(x) /\ x # Head(queue[g])
    BY <1>11, <2>2, RejectStores, StoreSettles
  <2>4. QED
    BY <2>1, <2>3, <1>9 DEF Served
<1>12. ASSUME NEW g \in Groups, WorkerLaunch(g) PROVE Served'
  <2>1. /\ onLoop = g /\ queue[g] # <<>> /\ UNCHANGED <<request, future>>
        /\ queue' = [queue EXCEPT ![g] = Tail(@)]
        /\ worker' = [worker EXCEPT ![g] = "awaiting"]
        /\ status' = [status EXCEPT ![Head(queue[g])] = "running"]
    BY <1>12 DEF WorkerLaunch
  <2>2. Head(queue[g]) \in Runs
    BY <1>12, HeadWasQueued DEF WorkerLaunch
  <2>3. \A x \in Runs : Queued(x)' => Queued(x) /\ x # Head(queue[g])
    BY <2>1, <2>2, <1>1
  <2>4. \A h \in Groups : worker'[h] # "dead" /\ (worker'[h] = "none" => worker[h] = "none")
    BY <2>1, <1>1 DEF Served
  <2>5. QED
    BY <2>1, <2>3, <2>4, <1>9
<1>13. ASSUME NEW g \in Groups, NEW r \in Runs,
              WorkerDrops(g, r) \/ WorkerStores(g, r) \/ WorkerDies(g, r)
       PROVE  Served'
  <2>1. r \in running /\ task[r] = "done" /\ UNCHANGED <<request, queue>>
    BY <1>13 DEF WorkerDrops, WorkerStores, WorkerDies, WorkerWakes, IInv, WorkerData
  <2>2. ~WorkerDies(g, r)
    BY <2>1 DEF WorkerDies, Unwinding
  <2>3. worker' = [worker EXCEPT ![g] = "loop"]
    BY <1>13, <2>2 DEF WorkerDrops, WorkerStores
  <2>4. \A x \in Runs : Queued(x)' => Queued(x)
    <3>1. CASE WorkerStores(g, r)
      <4>1. status[r] = "running"
        BY <2>1, <3>1 DEF WorkerStores, Books, StatusData
      <4>2. QED
        BY <3>1, <4>1, WorkerStoresStores, StoreSettles
    <3>2. CASE WorkerDrops(g, r)
      BY <3>2 DEF WorkerDrops
    <3>3. QED
      BY <1>13, <2>2, <3>1, <3>2
  <2>5. QED
    BY <2>1, <2>3, <2>4, <1>1, <1>2 DEF Served
<1>14. CASE UNCHANGED vars
  BY <1>2, <1>14 DEF vars, runVars, workerVars, Served
<1>15. ASSUME NEW g \in Groups, WorkerStep(g) PROVE Served'
  BY <1>7, <1>8, <1>10, <1>11, <1>12, <1>13, <1>15 DEF WorkerStep, WorkerResume
<1>16. QED
  BY <1>3, <1>4, <1>5, <1>6, <1>14, <1>15 DEF Next, Idle

\* Unwinding and Served hold in every reachable state.
LEMMA ServiceInvariant ==
  ASSUME NoStrayCancel
  PROVE  Spec => [](Unwinding /\ Served)
<1>1. Init => Unwinding /\ Served
  BY DEF Init, Unwinding, Served
<1>2. IInv /\ Books /\ Unwinding /\ Served /\ [Next]_vars => (Unwinding /\ Served)'
  BY NextUnwinding, NextServed
<1>3. QED
  BY <1>1, <1>2, Invariance, BooksInvariant, PTL DEF Spec

\* No lost wake-up: however submissions, cancellations and the ends of workers
\* interleave, a run that waits in the queue has a worker that will get to it,
\* unless a backend raised a CancelledError nobody asked for.
THEOREM NoLostWakeUp ==
  ASSUME NoStrayCancel
  PROVE  Spec => []QueuedHasWorker
<1>1. IInv /\ Served => QueuedHasWorker
  <2> SUFFICES ASSUME IInv, Served, NEW r \in Runs, status[r] = "queued", future[r] = "pending"
               PROVE  /\ \E i \in 1..Len(queue[GroupOf(r)]) : queue[GroupOf(r)][i] = r
                      /\ worker[GroupOf(r)] \in {"created", "loop", "awaiting"}
    BY DEF QueuedHasWorker
  <2>1. GroupOf(r) \in Groups
    BY RequestFacts DEF IInv, Submitted
  <2>2. \E i \in 1..Len(queue[GroupOf(r)]) : queue[GroupOf(r)][i] = r
    BY DEF Served, InLine
  <2>3. queue[GroupOf(r)] # <<>>
    BY <2>2
  <2>4. worker[GroupOf(r)] \notin {"none", "dead"}
    BY <2>1, <2>3 DEF Served
  <2>5. worker[GroupOf(r)] \in {"none", "created", "loop", "awaiting", "dead"}
    BY <2>1 DEF IInv, TypeOK
  <2>6. QED
    BY <2>2, <2>4, <2>5
<1>2. QED
  BY <1>1, Invariance, ServiceInvariant, PTL

-----------------------------------------------------------------------------
(***************************************************************************)
(* No backend call for a run that has its result.                          *)
(***************************************************************************)

\* Sessions are resumed only by runs that the coordinator awaits directly.
NoTimedResume ==
  \A q \in Requests : q.timed /\ ~q.fresh => ~UsesWorkspaceSession(SelectBackend(q.mode))

\* CallsAllowed is preserved by every step of the coordinator.
LEMMA NextCallsAllowed ==
  ASSUME IInv, Books, CallsAllowed, [Next]_vars
  PROVE  CallsAllowed'
<1>1. /\ task \in [Runs -> {"none", "created", "executing", "returned", "unwinding",
                            "cancelling", "detaching", "done"}]
      /\ future \in [Runs -> {"none", "pending", "abandoned", "lost"} \cup Terminal]
      /\ request \in [Runs -> Requests \cup {None}]
  BY DEF IInv, TypeOK
<1>2. ASSUME UNCHANGED <<request, task, live>>,
             \A x \in Runs : task[x] = "created" /\ future'[x] \in Terminal => future[x] \in Terminal
      PROVE  CallsAllowed'
  BY <1>2 DEF CallsAllowed
<1>3. ASSUME NEW r \in Runs, NEW q \in Requests, SubmitExecution(r, q) PROVE CallsAllowed'
  <2>1. /\ request[r] = None /\ request' = [request EXCEPT ![r] = q] /\ UNCHANGED <<task, live>>
        /\ future' = [future EXCEPT ![r] = "pending"]
    BY <1>3 DEF SubmitExecution, taskVars
  <2>2. task[r] = "none"
    BY <2>1 DEF IInv, Submitted
  <2>3. QED
    BY <2>1, <2>2, <1>1 DEF CallsAllowed
<1>4. ASSUME NEW r \in Runs, CancelQueued(r) PROVE CallsAllowed'
  <2>1. UNCHANGED <<request, task, live>> /\ status[r] = "queued" /\ task[r] = "none"
    BY <1>4 DEF CancelQueued, taskVars, Books, StatusData
  <2>2. \A x \in Runs \ {r} : future'[x] = future[x]
    BY <1>4, <2>1, CancelQueuedStores, StoreSettles
  <2>3. QED
    BY <2>1, <2>2, <1>2
<1>5. ASSUME NEW r \in Runs, CancelRunning(r) PROVE CallsAllowed'
  <2>1. UNCHANGED <<request, live>> /\ status[r] = "running" /\ CancelTask(r)
    BY <1>5 DEF CancelRunning
  <2>2. \A x \in Runs \ {r} : future'[x] = future[x] /\ task'[x] = task[x]
    BY <1>5, <2>1, <1>1, CancelRunningStores, StoreSettles DEF CancelTask
  <2>3. /\ task'[r] \notin {"created", "executing", "unwinding"}
        /\ task'[r] = "cancelling" => task[r] \in {"executing", "cancelling"}
        /\ task'[r] = "returned" => task[r] = "returned"
    BY <2>1, <1>1 DEF CancelTask
  <2>4. QED
    BY <2>1, <2>2, <2>3 DEF CallsAllowed
<1>6. ASSUME NEW r \in Runs, CancelWaiter(r) PROVE CallsAllowed'
  BY <1>6, <1>1, <1>2 DEF CancelWaiter, taskVars, Terminal
<1>7. ASSUME NEW r \in Runs, TaskStep(r) \/ TimeoutFires(r) PROVE CallsAllowed'
  <2>1. /\ UNCHANGED <<request, future>>
        /\ \A x \in Runs \ {r} : task'[x] = task[x]
    BY <1>7, TaskFrame
  <2> DEFINE Good == /\ task'[r] # "created" /\ \A x \in Runs \ {r} : x \in live => x \in live'
                     /\ task'[r] \in {"executing", "unwinding", "cancelling"} => r \in live'
                     /\ task'[r] \in {"returned", "unwinding"} => request[r].timed
  <2>2. ASSUME NEW o, Conclude(r, o) PROVE Good
    BY <2>2, <1>1 DEF Conclude, RetryFresh, Return
  <2>3. ASSUME NEW o \in AllOutcomes, BackendEnds(r, o) PROVE Good
    <3>1. CASE Conclude(r, o)
      BY <2>2, <3>1
    <3>2. CASE request[r].timed /\ task' = [task EXCEPT ![r] = "returned"] /\ live' = live \ {r}
      BY <3>2, <1>1
    <3>3. QED
      BY <2>3, <3>1, <3>2 DEF BackendEnds
  <2>4. ASSUME NEW o \in AllOutcomes, TimeoutUnwinds(r, o) \/ CancelUnwinds(r, o) PROVE Good
    BY <2>2, <2>4 DEF TimeoutUnwinds, CancelUnwinds
  <2>5. ASSUME WaitForReturns(r) PROVE Good
    BY <2>2, <2>5 DEF WaitForReturns
  <2>6. ASSUME TaskStart(r) \/ TimeoutFires(r) \/ Detach(r) \/ OrphanEnds(r) PROVE Good
    BY <2>6, <1>1 DEF TaskStart, TimeoutFires, Detach, OrphanEnds, CallsAllowed
  <2>7. Good => CallsAllowed'
    BY <2>1 DEF CallsAllowed
  <2> HIDE DEF Good
  <2>8. QED
    BY <1>7, <2>3, <2>4, <2>5, <2>6, <2>7 DEF TaskStep
<1>8. ASSUME NEW g \in Groups, WorkerReject(g) PROVE CallsAllowed'
  <2>1. /\ UNCHANGED <<request, task, live>>
        /\ queue[g] # <<>> /\ queue' = [queue EXCEPT ![g] = Tail(@)] /\ ~Settled(Head(queue[g]))
    BY <1>8 DEF WorkerReject, taskVars
  <2>2. /\ Head(queue[g]) \in Runs /\ status[Head(queue[g])] = "queued"
        /\ task[Head(queue[g])] = "none"
    BY <2>1, HeadWasQueued
  <2>3. \A x \in Runs : x # Head(queue[g]) => future'[x] = future[x]
    BY <1>8, <2>2, RejectStores, StoreSettles
  <2>4. QED
    BY <2>1, <2>2, <2>3, <1>2
<1>9. ASSUME NEW g \in Groups, WorkerLaunch(g) PROVE CallsAllowed'
  <2>1. /\ Head(queue[g]) \in Runs /\ UNCHANGED <<request, future, live>>
        /\ task' = [task EXCEPT ![Head(queue[g])] = "created"] /\ future[Head(queue[g])] = "pending"
    BY <1>9, PopKeepsQueues DEF WorkerLaunch, Settled
  <2>2. QED
    BY <2>1, <1>1 DEF CallsAllowed, Terminal
<1>10. ASSUME NEW g \in Groups, NEW r \in Runs, WorkerStores(g, r) PROVE CallsAllowed'
  <2>1. task[r] = "done" /\ r \in running /\ r \notin cancelled /\ UNCHANGED <<request, task, live>>
    BY <1>10 DEF WorkerStores, WorkerWakes, IInv, WorkerData
  <2>2. status[r] = "running"
    BY <2>1 DEF Books, StatusData
  <2>3. \A x \in Runs \ {r} : future'[x] = future[x]
    BY <1>10, <2>2, WorkerStoresStores, StoreSettles
  <2>4. QED
    BY <2>1, <2>3, <1>2
<1>11. ASSUME NEW g \in Groups, WorkerStep(g) PROVE CallsAllowed'
  <2>1. CASE WorkerStart(g) \/ WorkerSkip(g) \/ WorkerExit(g)
    BY <2>1, <1>2 DEF WorkerStart, WorkerSkip, WorkerExit, runVars, taskVars
  <2>2. ASSUME NEW r \in Runs, WorkerDrops(g, r) \/ WorkerDies(g, r) PROVE CallsAllowed'
    BY <2>2, <1>2 DEF WorkerDrops, WorkerDies, WorkerWakes
  <2>3. QED
    BY <1>8, <1>9, <1>10, <1>11, <2>1, <2>2 DEF WorkerStep, WorkerResume
<1>12. CASE UNCHANGED vars
  BY <1>2, <1>12 DEF vars, runVars, taskVars
<1>13. QED
  BY <1>3, <1>4, <1>5, <1>6, <1>7, <1>11, <1>12 DEF Next, Idle

\* A backend call starts only for a run without a result.
LEMMA NextCalls ==
  ASSUME NoTimedResume, IInv, Books, CallsAllowed, [Next]_vars,
         NEW r \in Runs, future[r] \in Terminal, r \notin live
  PROVE  r \notin live'
<1>1. ASSUME live' \subseteq live PROVE r \notin live'
  BY <1>1
<1>2. ASSUME NEW x \in Runs, NEW o, Conclude(x, o), o = "resume_error" => task[x] \in {"executing", "returned"}
      PROVE  r \notin live'
  <2>1. CASE Return(x, o)
    BY <2>1, <1>1 DEF Return
  <2>2. CASE RetryFresh(x) /\ ShouldRetry(x, o)
    <3>1. live' = live \cup {x} /\ task[x] \in {"executing", "returned"}
      BY <1>2, <2>2 DEF RetryFresh, ShouldRetry
    <3>2. task[x] # "returned"
      <4>1. SUFFICES ASSUME task[x] = "returned" PROVE FALSE
        OBVIOUS
      <4>2. request[x].timed /\ ~request[x].fresh /\ UsesWorkspaceSession(SelectBackend(request[x].mode))
        BY <2>2, <4>1 DEF CallsAllowed, ShouldRetry, BackendOf
      <4>3. request[x] \in Requests
        BY <4>1 DEF IInv, TypeOK, Submitted
      <4>4. QED
        BY <4>2, <4>3 DEF NoTimedResume
    <3>3. x \in live
      BY <3>1, <3>2 DEF CallsAllowed
    <3>4. QED
      BY <3>1, <3>3
  <2>3. QED
    BY <1>2, <2>1, <2>2 DEF Conclude
<1>3. ASSUME NEW x \in Runs, NEW o \in AllOutcomes, BackendEnds(x, o) PROVE r \notin live'
  <2>1. CASE Conclude(x, o)
    BY <1>2, <1>3, <2>1 DEF BackendEnds
  <2>2. CASE live' = live \ {x}
    BY <2>2, <1>1
  <2>3. QED
    BY <1>3, <2>1, <2>2 DEF BackendEnds
<1>4. ASSUME NEW x \in Runs, NEW o \in AllOutcomes, TimeoutUnwinds(x, o) \/ CancelUnwinds(x, o)
      PROVE  r \notin live'
  <2>1. Conclude(x, o) /\ o # "resume_error"
    BY <1>4 DEF TimeoutUnwinds, CancelUnwinds, SwallowedCancel
  <2>2. QED
    BY <2>1, <1>2
<1>5. ASSUME NEW x \in Runs, WaitForReturns(x) PROVE r \notin live'
  BY <1>5, <1>2 DEF WaitForReturns
<1>6. ASSUME NEW x \in Runs, TaskStart(x) PROVE r \notin live'
  BY <1>6 DEF TaskStart, CallsAllowed
<1>7. ASSUME NEW x \in Runs, TimeoutFires(x) \/ Detach(x) \/ OrphanEnds(x) PROVE r \notin live'
  BY <1>7, <1>1 DEF TimeoutFires, Detach, OrphanEnds
<1>8. ASSUME NEW x \in Runs, NEW q \in Requests, SubmitExecution(x, q) PROVE r \notin live'
  BY <1>8 DEF SubmitExecution, taskVars
<1>9. ASSUME NEW x \in Runs, CancelQueued(x) \/ CancelRunning(x) \/ CancelWaiter(x) PROVE r \notin live'
  BY <1>9 DEF CancelQueued, CancelRunning, CancelWaiter, taskVars
<1>10. ASSUME NEW g \in Groups, WorkerStep(g) PROVE r \notin live'
  <2>1. CASE WorkerStart(g) \/ WorkerSkip(g) \/ WorkerReject(g) \/ WorkerLaunch(g) \/ WorkerExit(g)
    BY <2>1 DEF WorkerStart, WorkerSkip, WorkerReject, WorkerLaunch, WorkerExit, taskVars
  <2>2. CASE WorkerResume(g)
    BY <2>2 DEF WorkerResume, WorkerDrops, WorkerStores, WorkerDies, WorkerWakes
  <2>3. QED
    BY <1>10, <2>1, <2>2 DEF WorkerStep
<1>11. CASE UNCHANGED vars
  BY <1>11 DEF vars, taskVars
<1>12. QED
  BY <1>3, <1>4, <1>5, <1>6, <1>7, <1>8, <1>9, <1>10, <1>11 DEF Next, TaskStep, Idle

\* No backend call starts for a run whose result has been delivered, neither its
\* first one nor the retry with a fresh session, unless the run has both a
\* coordinator timeout and a session to resume: wait_for then swallows a
\* cancellation that finds the failed resume already finished.
THEOREM NoLateCalls ==
  ASSUME NoTimedResume
  PROVE  Spec => NoCallAfterTerminal
<1>1. Init => CallsAllowed
  BY DEF Init, CallsAllowed
<1>2. IInv /\ Books /\ CallsAllowed /\ [Next]_vars => CallsAllowed'
  BY NextCallsAllowed
<1>3. IInv /\ Books /\ CallsAllowed /\ [Next]_vars =>
        [\A r \in Runs : future[r] \in Terminal /\ r \notin live => r \notin live']_vars
  BY NextCalls
<1>4. QED
  BY <1>1, <1>2, <1>3, Invariance, BooksInvariant, PTL DEF Spec, NoCallAfterTerminal

-----------------------------------------------------------------------------
(***************************************************************************)
(* The monitor, when no waiter is cancelled.                               *)
(***************************************************************************)

\* Awaited is preserved by every step of the coordinator.
LEMMA NextAwaited ==
  ASSUME ~WaitersMayCancel, IInv, Books, Awaited, [Next]_vars
  PROVE  Awaited'
<1>1. /\ future \in [Runs -> {"none", "pending", "abandoned", "lost"} \cup Terminal]
      /\ running \subseteq Runs /\ cancelled \subseteq running
  BY DEF IInv, TypeOK, Books, NoResidue
<1>2. ASSUME NEW r \in Runs, NEW res \in Results, status[r] \in {"queued", "running"},
             StoreTerminalResult(r, res), cancelled' \subseteq cancelled \cup {r},
             r \in cancelled' => res.status = "cancelled"
      PROVE  Awaited'
  <2>1. /\ \A x \in Runs \ {r} : future'[x] = future[x]
        /\ future'[r] = res.status /\ res.status \in Terminal
    BY <1>2, StoreSettles DEF Awaited, Results
  <2>2. QED
    BY <1>1, <1>2, <2>1 DEF Awaited, Terminal
<1>3. ASSUME future' = future, cancelled' \subseteq cancelled PROVE Awaited'
  BY <1>3 DEF Awaited
<1>4. ASSUME NEW r \in Runs, NEW q \in Requests, SubmitExecution(r, q) PROVE Awaited'
  <2>1. request[r] = None /\ cancelled' = cancelled /\ future' = [future EXCEPT ![r] = "pending"]
    BY <1>4 DEF SubmitExecution
  <2>2. r \notin cancelled
    BY <2>1, <1>1 DEF IInv, Submitted
  <2>3. QED
    BY <2>1, <2>2, <1>1 DEF Awaited
<1>5. ASSUME NEW r \in Runs, CancelQueued(r) PROVE Awaited'
  <2>1. status[r] = "queued" /\ cancelled' = cancelled
    BY <1>5 DEF CancelQueued, workerVars
  <2>2. QED
    BY <2>1, <1>2, <1>5, CancelQueuedStores
<1>6. ASSUME NEW r \in Runs, CancelRunning(r) PROVE Awaited'
  <2>1. status[r] = "running" /\ cancelled' = cancelled \cup {r}
    BY <1>6 DEF CancelRunning
  <2>2. QED
    BY <2>1, <1>2, <1>6, CancelRunningStores
<1>7. ASSUME NEW r \in Runs, CancelWaiter(r) PROVE Awaited'
  BY <1>7 DEF CancelWaiter
<1>8. ASSUME NEW r \in Runs, TaskStep(r) \/ TimeoutFires(r) PROVE Awaited'
  BY <1>8, <1>3, TaskFrame DEF workerVars
<1>9. ASSUME NEW g \in Groups, WorkerReject(g) PROVE Awaited'
  <2>1. /\ cancelled' = cancelled
        /\ queue[g] # <<>> /\ queue' = [queue EXCEPT ![g] = Tail(@)] /\ ~Settled(Head(queue[g]))
    BY <1>9 DEF WorkerReject
  <2>2. Head(queue[g]) \in Runs /\ status[Head(queue[g])] = "queued"
    BY <2>1, HeadWasQueued
  <2>3. Head(queue[g]) \notin cancelled
    BY <2>2 DEF Books, NoResidue
  <2>4. QED
    BY <2>1, <2>2, <2>3, <1>2, <1>9, RejectStores
<1>10. ASSUME NEW g \in Groups, NEW r \in Runs, WorkerStores(g, r) PROVE Awaited'
  <2>1. r \in running /\ r \notin cancelled /\ cancelled' = cancelled
    BY <1>10 DEF WorkerStores, WorkerWakes, IInv, WorkerData
  <2>2. status[r] = "running"
    BY <2>1 DEF Books, StatusData
  <2>3. QED
    BY <2>1, <2>2, <1>2, <1>10, WorkerStoresStores
<1>11. ASSUME NEW g \in Groups, WorkerStep(g) PROVE Awaited'
  <2>1. CASE WorkerStart(g) \/ WorkerSkip(g) \/ WorkerExit(g) \/ WorkerLaunch(g)
    BY <2>1, <1>3 DEF WorkerStart, WorkerSkip, WorkerExit, WorkerLaunch, runVars
  <2>2. ASSUME NEW r \in Runs, WorkerDrops(g, r) \/ WorkerDies(g, r) PROVE Awaited'
    BY <2>2, <1>3 DEF WorkerDrops, WorkerDies
  <2>3. QED
    BY <1>9, <1>10, <1>11, <2>1, <2>2 DEF WorkerStep, WorkerResume
<1>12. CASE UNCHANGED vars
  BY <1>3, <1>12 DEF vars, runVars, workerVars
<1>13. QED
  BY <1>4, <1>5, <1>6, <1>7, <1>8, <1>11, <1>12 DEF Next, Idle

\* Awaited holds in every reachable state.
LEMMA AwaitedInvariant ==
  ASSUME ~WaitersMayCancel
  PROVE  Spec => []Awaited
<1>1. Init => Awaited
  BY DEF Init, Awaited
<1>2. IInv /\ Books /\ Awaited /\ [Next]_vars => Awaited'
  BY NextAwaited
<1>3. QED
  BY <1>1, <1>2, Invariance, BooksInvariant, PTL DEF Spec

\* An entry of a deque that is still to be served is queued and has no task.
LEMMA EntryIsQueued ==
  ASSUME IInv, Books, NEW r \in Runs, NEW g \in Groups, InLine(r, g)
  PROVE  task[r] = "none" /\ (future[r] = "pending" => status[r] = "queued")
<1>1. task[r] = "none"
  BY DEF InLine, Books, LinesDistinct
<1>2. QED
  BY <1>1 DEF Books, ReadersAgree, StatusData

\* get_monitor_queue_snapshot counts exactly the runs still to be served, and
\* shows no active run but the one the group's worker waits for, provided no
\* waiter is cancelled and no backend raises a stray CancelledError.
THEOREM MonitorShowsQueue ==
  ASSUME NoStrayCancel, ~WaitersMayCancel
  PROVE  Spec => []MonitorAgrees
<1>1. ASSUME IInv, Books, Unwinding, Served, Awaited PROVE MonitorAgrees
  <2> SUFFICES ASSUME NEW g \in Groups
               PROVE  /\ MonitorQueue(g).queued = Cardinality(AbstractLine[g])
                      /\ MonitorQueue(g).running \subseteq {AbstractBusy[g]}
    BY DEF MonitorAgrees
  <2> DEFINE held == {r \in Runs : future[r] \in {"pending", "abandoned"} /\ GroupOf(r) = g}
  <2>1. ASSUME NEW r \in Runs
        PROVE  r \in held /\ status[r] = "queued" <=> future[r] = "pending" /\ InLine(r, g)
    <3>1. CASE r \in held /\ status[r] = "queued"
      BY <1>1, <3>1 DEF Awaited, Served
    <3>2. CASE future[r] = "pending" /\ InLine(r, g)
      BY <1>1, <3>2, LineEntries, EntryIsQueued
    <3>3. QED
      BY <3>1, <3>2
  <2>2. {r \in held : status[r] = "queued"} = AbstractLine[g]
    BY <2>1 DEF AbstractLine
  <2>3. ASSUME NEW r \in held, status[r] = "running" PROVE r = AbstractBusy[g]
    BY <1>1, <2>3 DEF Unwinding, IInv, WorkerData, Occupies, AbstractBusy
  <2>4. QED
    BY <2>2, <2>3 DEF MonitorQueue
<1>2. QED
  BY <1>1, Invariance, BooksInvariant, ServiceInvariant, AwaitedInvariant, PTL

-----------------------------------------------------------------------------
(***************************************************************************)
(* The coordinator implements RunQueue.                                    *)
(***************************************************************************)

\* What the refinement needs to know of a state.
ServiceInv == IInv /\ Books /\ Unwinding /\ Served /\ Awaited

\* Runs that stand before each other stand in one deque.
LEMMA BeforeInLine ==
  ASSUME NEW x, NEW y, Before(x, y)
  PROVE  \E g \in Groups : InLine(x, g) /\ InLine(y, g)
BY DEF Before, InLine

\* The line stays what it is if neither the deques change nor the futures of
\* the runs in them.
LEMMA SameLine ==
  ASSUME queue' = queue,
         \A x \in Runs, g \in Groups : InLine(x, g) => (future'[x] = "pending" <=> future[x] = "pending")
  PROVE  UNCHANGED <<AbstractLine, AbstractAhead>>
<1>1. \A x, g : InLine(x, g)' <=> InLine(x, g)
  BY DEF InLine
<1>2. \A x, y : Before(x, y)' <=> Before(x, y)
  BY DEF Before
<1>3. AbstractLine' = AbstractLine
  BY <1>1 DEF AbstractLine
<1>4. \A x, y \in Runs : Before(x, y) => /\ future'[x] = "pending" <=> future[x] = "pending"
                                         /\ future'[y] = "pending" <=> future[y] = "pending"
  BY BeforeInLine
<1>5. AbstractAhead' = AbstractAhead
  BY <1>2, <1>4 DEF AbstractAhead
<1>6. QED
  BY <1>3, <1>5

\* What Leave of RunQueue asks of the coordinator's deques.
Left(r) ==
  /\ AbstractLine' = [g \in Groups |-> AbstractLine[g] \ {r}]
  /\ AbstractAhead' = [x \in Runs |-> IF x = r THEN {} ELSE AbstractAhead[x] \ {r}]

\* A run whose future is resolved while it waits has left the line.
LEMMA SettledLeaves ==
  ASSUME NEW r \in Runs, queue' = queue, future'[r] # "pending",
         \A x \in Runs \ {r} : future'[x] = future[x]
  PROVE  Left(r)
<1>1. \A x, g : InLine(x, g)' <=> InLine(x, g)
  BY DEF InLine
<1>2. \A x, y : Before(x, y)' <=> Before(x, y)
  BY DEF Before
<1>3. AbstractLine' = [g \in Groups |-> AbstractLine[g] \ {r}]
  BY <1>1 DEF AbstractLine
<1>4. AbstractAhead' = [x \in Runs |-> IF x = r THEN {} ELSE AbstractAhead[x] \ {r}]
  BY <1>2 DEF AbstractAhead
<1>5. QED
  BY <1>3, <1>4 DEF Left

\* A run that is popped has left the line, and nobody stood before it.
LEMMA PoppedLeaves ==
  ASSUME IInv, Books, NEW g \in Groups, queue[g] # <<>>, queue' = [queue EXCEPT ![g] = Tail(@)],
         \A x \in Runs : x # Head(queue[g]) => future'[x] = future[x]
  PROVE  Left(Head(queue[g])) /\ AbstractAhead[Head(queue[g])] = {}
<1> DEFINE r == Head(queue[g])
<1>1. /\ r \in Runs
      /\ \A x \in Runs : ~Before(x, r)
      /\ \A x \in Runs, h \in Groups : InLine(x, h)' <=> InLine(x, h) /\ x # r
      /\ \A x, y \in Runs : Before(x, y)' <=> Before(x, y) /\ x # r
  BY PopLine DEF Books
<1>2. \A x \in Runs : x # r => future'[x] = future[x]
  OBVIOUS
<1> HIDE DEF r
<1>3. AbstractLine' = [h \in Groups |-> AbstractLine[h] \ {r}]
  BY <1>1, <1>2 DEF AbstractLine
<1>4. AbstractAhead' = [x \in Runs |-> IF x = r THEN {} ELSE AbstractAhead[x] \ {r}]
  BY <1>1, <1>2 DEF AbstractAhead
<1>5. AbstractAhead[r] = {}
  BY <1>1 DEF AbstractAhead
<1>6. QED
  BY <1>3, <1>4, <1>5 DEF Left, r

\* The phases after a result was stored: the run has its terminal status, the
\* others keep theirs, evicted ones included.
LEMMA StoredPhase ==
  ASSUME ServiceInv, NEW r \in Runs, NEW res \in Results,
         status[r] \in {"queued", "running"}, StoreTerminalResult(r, res)
  PROVE  /\ AbstractPhase' = [AbstractPhase EXCEPT ![r] = res.status]
         /\ AbstractPhase[r] = status[r]
         /\ future'[r] \in Terminal
         /\ \A x \in Runs \ {r} : future'[x] = future[x]
<1> USE DEF ServiceInv
<1>1. /\ \A x \in Runs \ {r} : future'[x] = future[x]
      /\ future[r] = "pending" /\ future'[r] = res.status /\ res.status \in Terminal
  BY StoreSettles DEF Awaited, Results
<1>2. ASSUME NEW x \in Runs \ {r} PROVE future[x] \in Terminal \cup {"none"} \/ status'[x] = status[x]
  <2>1. status'[x] = status[x] \/ status[x] \in Terminal
    BY StoreKeepsBooks DEF IInv, Books
  <2>2. status[x] \in Terminal => future[x] \in Terminal
    BY DEF Books, ReadersAgree, Awaited, Terminal
  <2>3. QED
    BY <2>1, <2>2
<1>3. AbstractPhase[r] = status[r]
  BY <1>1 DEF AbstractPhase, Terminal
<1>4. AbstractPhase' = [AbstractPhase EXCEPT ![r] = res.status]
  BY <1>1, <1>2 DEF AbstractPhase, Terminal
<1>5. QED
  BY <1>1, <1>3, <1>4

\* submit_execution: the run enters its group's line, behind everyone in it.
LEMMA SubmitEnters ==
  ASSUME ServiceInv, NEW r \in Runs, NEW q \in Requests, SubmitExecution(r, q)
  PROVE  Abstract!Enter(r, q.group) /\ q.group \in Groups
<1> USE DEF ServiceInv
<1>1. /\ request[r] = None /\ queue' = [queue EXCEPT ![q.group] = Enqueue(@, r)]
      /\ worker' = [worker EXCEPT ![q.group] = IF @ \in {"none", "dead"} THEN "created" ELSE @]
      /\ future' = [future EXCEPT ![r] = "pending"] /\ status' = [status EXCEPT ![r] = "queued"]
      /\ current' = current
  BY DEF SubmitExecution, EnsureWorker
<1>2. /\ future \in [Runs -> {"none", "pending", "abandoned", "lost"} \cup Terminal]
      /\ status \in [Runs -> {"none", "queued", "running"} \cup Terminal]
      /\ worker \in [Groups -> {"none", "created", "loop", "awaiting", "dead"}]
  BY DEF IInv, TypeOK
<1>3. q.group \in Groups
  BY ConstantsAssumption DEF RequestType
<1>4. future[r] = "none"
  BY <1>1, <1>2 DEF IInv, Submitted
<1>5. AbstractPhase[r] = "new" /\ AbstractPhase' = [AbstractPhase EXCEPT ![r] = "queued"]
  BY <1>1, <1>2, <1>4 DEF AbstractPhase, Terminal
<1>6. /\ \A x \in Runs, h \in Groups : InLine(x, h)' <=> InLine(x, h) \/ (x = r /\ h = q.group)
      /\ \A x, y \in Runs : Before(x, y)' <=> Before(x, y) \/ (y = r /\ InLine(x, q.group))
  BY <1>1, <1>3, AppendLine
<1>7. \A h \in Groups : ~InLine(r, h)
  BY <1>1, LineEntries
<1>8. \A x \in Runs : ~Before(x, r) /\ ~Before(r, x)
  BY <1>7, BeforeInLine
<1>9. \A x \in Runs : future'[x] = "pending" <=> future[x] = "pending" \/ x = r
  BY <1>1, <1>2
<1>10. AbstractLine' = [AbstractLine EXCEPT ![q.group] = @ \cup {r}]
  <2>1. AbstractLine'[q.group] = AbstractLine[q.group] \cup {r}
    BY <1>3, <1>6, <1>9 DEF AbstractLine
  <2>2. ASSUME NEW h \in Groups, h # q.group PROVE AbstractLine'[h] = AbstractLine[h]
    BY <2>2, <1>6, <1>7, <1>9 DEF AbstractLine
  <2>3. DOMAIN AbstractLine = Groups /\ AbstractLine = [h \in Groups |-> AbstractLine[h]]
        /\ AbstractLine' = [h \in Groups |-> AbstractLine'[h]]
    BY DEF AbstractLine
  <2>4. QED
    BY ONLY <1>3, <2>1, <2>2, <2>3
<1>11. AbstractAhead' = [AbstractAhead EXCEPT ![r] = AbstractLine[q.group]]
  <2>1. AbstractAhead'[r] = AbstractLine[q.group]
    BY <1>3, <1>6, <1>7, <1>8, <1>9 DEF AbstractAhead, AbstractLine
  <2>2. \A y \in Runs \ {r} : AbstractAhead'[y] = AbstractAhead[y]
    BY <1>6, <1>8, <1>9 DEF AbstractAhead
  <2>3. DOMAIN AbstractAhead = Runs /\ AbstractAhead = [y \in Runs |-> AbstractAhead[y]]
        /\ AbstractAhead' = [y \in Runs |-> AbstractAhead'[y]]
    BY DEF AbstractAhead
  <2>4. QED
    BY ONLY <2>1, <2>2, <2>3
<1>12. AbstractBusy' = AbstractBusy
  BY <1>1, <1>2 DEF AbstractBusy
<1>13. QED
  BY <1>3, <1>5, <1>10, <1>11, <1>12 DEF Abstract!Enter

\* cancel: a queued run is withdrawn from the line, a running one is cancelled
\* but keeps its group busy.
LEMMA CancelRefines ==
  ASSUME ServiceInv, NEW r \in Runs
  PROVE  /\ CancelQueued(r) => Abstract!Withdraw(r)
         /\ CancelRunning(r) => Abstract!Cancel(r)
<1> USE DEF ServiceInv
<1>1. ASSUME CancelQueued(r) PROVE Abstract!Withdraw(r)
  <2>1. status[r] = "queued" /\ UNCHANGED <<queue, worker, current>>
    BY <1>1 DEF CancelQueued, workerVars
  <2>2. PICK res \in Results : res.status = "cancelled" /\ StoreTerminalResult(r, res)
    BY <1>1, CancelQueuedStores
  <2>3. /\ AbstractPhase' = [AbstractPhase EXCEPT ![r] = "cancelled"] /\ AbstractPhase[r] = "queued"
        /\ future'[r] \in Terminal /\ \A x \in Runs \ {r} : future'[x] = future[x]
    BY <2>1, <2>2, StoredPhase
  <2>4. Left(r)
    BY <2>1, <2>3, SettledLeaves DEF Terminal
  <2>5. AbstractBusy' = AbstractBusy
    BY <2>1 DEF AbstractBusy
  <2>6. QED
    BY <2>3, <2>4, <2>5 DEF Left, Abstract!Withdraw, Abstract!Leave
<1>2. ASSUME CancelRunning(r) PROVE Abstract!Cancel(r)
  <2>1. status[r] = "running" /\ UNCHANGED <<queue, worker, current>>
    BY <1>2 DEF CancelRunning
  <2>2. PICK res \in Results : res.status = "cancelled" /\ StoreTerminalResult(r, res)
    BY <1>2, CancelRunningStores
  <2>3. /\ AbstractPhase' = [AbstractPhase EXCEPT ![r] = "cancelled"] /\ AbstractPhase[r] = "running"
        /\ \A x \in Runs \ {r} : future'[x] = future[x]
    BY <2>1, <2>2, StoredPhase
  <2>4. task[r] # "none"
    BY <2>1 DEF Books, StatusData
  <2>5. \A g \in Groups : ~InLine(r, g)
    BY <2>4, EntryIsQueued
  <2>6. UNCHANGED <<AbstractLine, AbstractAhead>>
    BY <2>1, <2>3, <2>5, SameLine
  <2>7. AbstractBusy' = AbstractBusy
    BY <2>1 DEF AbstractBusy
  <2>8. QED
    BY <2>3, <2>6, <2>7 DEF Abstract!Cancel
<1>3. QED
  BY <1>1, <1>2

\* The worker between two runs: starting, skipping what was cancelled in the
\* deque and ending do not show; a run is taken out of the line in its turn.
LEMMA WorkerRefines ==
  ASSUME ServiceInv, NEW g \in Groups
  PROVE  /\ WorkerStart(g) \/ WorkerSkip(g) \/ WorkerExit(g) => UNCHANGED Abstract!vars
         /\ WorkerReject(g) => \E r \in Runs : Abstract!Refuse(r, g)
         /\ WorkerLaunch(g) => \E r \in Runs : Abstract!Start(r, g)
<1> USE DEF ServiceInv
<1>1. /\ worker \in [Groups -> {"none", "created", "loop", "awaiting", "dead"}]
      /\ current \in [Groups -> Runs \cup {None}]
      /\ future \in [Runs -> {"none", "pending", "abandoned", "lost"} \cup Terminal]
      /\ status \in [Runs -> {"none", "queued", "running"} \cup Terminal]
  BY DEF IInv, TypeOK
<1>2. onLoop = g => AbstractBusy[g] = None
  BY DEF AbstractBusy, IInv, WorkerData
<1>3. ASSUME WorkerStart(g) \/ WorkerExit(g) PROVE UNCHANGED Abstract!vars
  <2>1. /\ UNCHANGED <<future, status, queue, current>>
        /\ worker[g] \in {"created", "loop"}
        /\ worker' = [worker EXCEPT ![g] = "loop"] \/ worker' = [worker EXCEPT ![g] = "none"]
    BY <1>3 DEF WorkerStart, WorkerExit, runVars, IInv, WorkerData
  <2>2. UNCHANGED <<AbstractLine, AbstractAhead>>
    BY <2>1, SameLine
  <2>3. UNCHANGED <<AbstractPhase, AbstractBusy>>
    BY <2>1, <1>1 DEF AbstractPhase, AbstractBusy
  <2>4. QED
    BY <2>2, <2>3 DEF Abstract!vars
<1>4. ASSUME WorkerSkip(g) PROVE UNCHANGED Abstract!vars
  <2> DEFINE r == Head(queue[g])
  <2>1. /\ UNCHANGED <<future, status, worker, current>> /\ future[r] # "pending"
        /\ queue[g] # <<>> /\ queue' = [queue EXCEPT ![g] = Tail(@)]
    BY <1>4 DEF WorkerSkip, runVars, Settled
  <2>2. Left(r) /\ AbstractAhead[r] = {}
    BY <2>1, PoppedLeaves
  <2>3. r \in Runs
    BY <2>1, PopKeepsQueues
  <2> HIDE DEF r
  <2>4. AbstractLine' = AbstractLine
    <3>1. \A h \in Groups : r \notin AbstractLine[h]
      BY <2>1 DEF AbstractLine
    <3>2. \A h \in Groups : AbstractLine'[h] = AbstractLine[h]
      BY <2>2, <3>1 DEF Left
    <3>3. QED
      BY <3>2 DEF AbstractLine
  <2>5. AbstractAhead' = AbstractAhead
    <3>1. \A x \in Runs : r \notin AbstractAhead[x]
      BY <2>1 DEF AbstractAhead
    <3>2. \A x \in Runs : AbstractAhead'[x] = AbstractAhead[x]
      BY <2>2, <3>1 DEF Left
    <3>3. QED
      BY <3>2 DEF AbstractAhead
  <2>6. UNCHANGED <<AbstractPhase, AbstractBusy>>
    BY <2>1 DEF AbstractPhase, AbstractBusy
  <2>7. QED
    BY <2>4, <2>5, <2>6 DEF Abstract!vars
<1>5. ASSUME WorkerReject(g) PROVE \E r \in Runs : Abstract!Refuse(r, g)
  <2> DEFINE r == Head(queue[g])
  <2>1. /\ onLoop = g /\ ~Settled(r) /\ UNCHANGED <<worker, current>>
        /\ queue[g] # <<>> /\ queue' = [queue EXCEPT ![g] = Tail(@)]
    BY <1>5 DEF WorkerReject
  <2>2. r \in Runs /\ status[r] = "queued" /\ InLine(r, g) /\ future[r] = "pending"
    BY <2>1, HeadWasQueued, PopLine DEF Settled, Books
  <2>3. PICK res \in Results : res.status = "failed" /\ StoreTerminalResult(r, res)
    BY <1>5, RejectStores
  <2>4. /\ AbstractPhase' = [AbstractPhase EXCEPT ![r] = "failed"]
        /\ \A x \in Runs \ {r} : future'[x] = future[x]
    BY <2>2, <2>3, StoredPhase
  <2>5. Left(r) /\ AbstractAhead[r] = {}
    BY <2>1, <2>4, PoppedLeaves
  <2> HIDE DEF r
  <2>6. r \in AbstractLine[g]
    BY <2>2 DEF AbstractLine
  <2>7. AbstractBusy' = AbstractBusy
    BY <2>1 DEF AbstractBusy
  <2>8. Abstract!Refuse(r, g)
    BY <1>2, <2>1, <2>4, <2>5, <2>6, <2>7 DEF Left, Abstract!Refuse, Abstract!Turn, Abstract!Leave
  <2>9. QED
    BY <2>2, <2>8
<1>6. ASSUME WorkerLaunch(g) PROVE \E r \in Runs : Abstract!Start(r, g)
  <2> DEFINE r == Head(queue[g])
  <2>1. /\ onLoop = g /\ ~Settled(r) /\ future' = future
        /\ queue[g] # <<>> /\ queue' = [queue EXCEPT ![g] = Tail(@)]
        /\ status' = [status EXCEPT ![r] = "running"]
        /\ worker' = [worker EXCEPT ![g] = "awaiting"] /\ current' = [current EXCEPT ![g] = r]
    BY <1>6 DEF WorkerLaunch
  <2>2. r \in Runs /\ InLine(r, g) /\ future[r] = "pending"
    BY <2>1, PopLine DEF Settled, Books
  <2>3. Left(r) /\ AbstractAhead[r] = {}
    BY <2>1, PoppedLeaves
  <2> HIDE DEF r
  <2>4. AbstractPhase' = [AbstractPhase EXCEPT ![r] = "running"]
    BY <2>1, <2>2, <1>1 DEF AbstractPhase, Terminal
  <2>5. AbstractBusy' = [AbstractBusy EXCEPT ![g] = r]
    BY <2>1, <1>1 DEF AbstractBusy
  <2>6. r \in AbstractLine[g]
    BY <2>2 DEF AbstractLine
  <2>7. Abstract!Start(r, g)
    BY <1>2, <2>1, <2>3, <2>4, <2>5, <2>6 DEF Left, Abstract!Start, Abstract!Turn, Abstract!Leave
  <2>8. QED
    BY <2>2, <2>7
<1>7. QED
  BY <1>3, <1>4, <1>5, <1>6

\* The worker after a run: a result that is stored finishes the run and frees
\* the group, one that is dropped only frees it.
LEMMA ResumeRefines ==
  ASSUME ServiceInv, NEW g \in Groups, NEW r \in Runs,
         WorkerDrops(g, r) \/ WorkerStores(g, r) \/ WorkerDies(g, r)
  PROVE  Abstract!Release(g) \/ \E st \in Terminal \ {"cancelled"} : Abstract!Finish(g, st)
<1> USE DEF ServiceInv
<1>1. /\ worker \in [Groups -> {"none", "created", "loop", "awaiting", "dead"}]
      /\ current \in [Groups -> Runs \cup {None}]
  BY DEF IInv, TypeOK
<1>2. /\ r \in running /\ task[r] = "done" /\ queue' = queue
      /\ worker[g] = "awaiting" /\ current[g] = r /\ current' = [current EXCEPT ![g] = None]
  BY DEF WorkerDrops, WorkerStores, WorkerDies, WorkerWakes, IInv, WorkerData
<1>3. ~WorkerDies(g, r)
  BY <1>2 DEF WorkerDies, Unwinding
<1>4. worker' = [worker EXCEPT ![g] = "loop"]
  BY <1>3 DEF WorkerDrops, WorkerStores
<1>5. /\ AbstractBusy[g] = r /\ r # None
      /\ AbstractBusy' = [AbstractBusy EXCEPT ![g] = None]
  <2>1. AbstractBusy[g] = r /\ r # None
    BY <1>2, ConstantsAssumption DEF AbstractBusy
  <2>2. AbstractBusy' = [AbstractBusy EXCEPT ![g] = None]
    BY <1>1, <1>2, <1>4 DEF AbstractBusy
  <2>3. QED
    BY <2>1, <2>2
<1>6. \A h \in Groups : ~InLine(r, h)
  BY <1>2, EntryIsQueued
<1>7. CASE WorkerDrops(g, r)
  <2>1. UNCHANGED <<future, status>> /\ r \in cancelled
    BY <1>7 DEF WorkerDrops
  <2>2. UNCHANGED <<AbstractLine, AbstractAhead>>
    BY <1>2, <2>1, SameLine
  <2>3. AbstractPhase' = AbstractPhase /\ AbstractPhase[r] = "cancelled"
    BY <2>1 DEF AbstractPhase, Awaited, Terminal
  <2>4. Abstract!Release(g)
    BY <1>5, <2>2, <2>3 DEF Abstract!Release
  <2>5. QED
    BY <2>4
<1>8. CASE WorkerStores(g, r)
  <2>1. status[r] = "running"
    BY <1>2, <1>8 DEF WorkerStores, Books, StatusData
  <2>2. outcome[r] \in Terminal \ {"cancelled"}
    BY <1>8, WorkerStoresStores DEF Terminal
  <2>3. PICK res \in Results : res.status = outcome[r] /\ StoreTerminalResult(r, res)
    BY <1>8, WorkerStoresStores
  <2>4. /\ AbstractPhase' = [AbstractPhase EXCEPT ![r] = outcome[r]] /\ AbstractPhase[r] = "running"
        /\ \A x \in Runs \ {r} : future'[x] = future[x]
    BY <2>1, <2>3, StoredPhase
  <2>5. UNCHANGED <<AbstractLine, AbstractAhead>>
    BY <1>2, <1>6, <2>4, SameLine
  <2>6. Abstract!Finish(g, outcome[r])
    BY <1>5, <2>4, <2>5 DEF Abstract!Finish
  <2>7. QED
    BY <2>2, <2>6
<1>9. QED
  BY <1>3, <1>7, <1>8

\* Every step of the coordinator is a step of RunQueue, or does not show.
LEMMA NextRefines ==
  ASSUME ~WaitersMayCancel, ServiceInv, [Next]_vars
  PROVE  [Abstract!Next]_(Abstract!vars)
<1>1. ASSUME UNCHANGED <<future, status, queue, worker, current>> PROVE UNCHANGED Abstract!vars
  <2>1. UNCHANGED <<AbstractLine, AbstractAhead>>
    BY <1>1, SameLine
  <2>2. QED
    BY <1>1, <2>1 DEF AbstractPhase, AbstractBusy, Abstract!vars
<1>2. ASSUME NEW r \in Runs, NEW q \in Requests, SubmitExecution(r, q) PROVE Abstract!Next
  BY <1>2, SubmitEnters DEF Abstract!Next
<1>3. ASSUME NEW r \in Runs, CancelQueued(r) \/ CancelRunning(r) PROVE Abstract!Next
  BY <1>3, CancelRefines DEF Abstract!Next
<1>4. ASSUME NEW r \in Runs, CancelWaiter(r) PROVE FALSE
  BY <1>4 DEF CancelWaiter
<1>5. ASSUME NEW r \in Runs, TaskStep(r) \/ TimeoutFires(r) PROVE UNCHANGED Abstract!vars
  BY <1>5, <1>1, TaskFrame DEF ServiceInv, workerVars
<1>6. ASSUME NEW g \in Groups, WorkerStart(g) \/ WorkerSkip(g) \/ WorkerExit(g)
      PROVE  UNCHANGED Abstract!vars
  BY <1>6, WorkerRefines
<1>7. ASSUME NEW g \in Groups, WorkerReject(g) \/ WorkerLaunch(g) PROVE Abstract!Next
  BY <1>7, WorkerRefines DEF Abstract!Next
<1>8. ASSUME NEW g \in Groups, WorkerResume(g) PROVE Abstract!Next
  <2>1. PICK r \in Runs : WorkerDrops(g, r) \/ WorkerStores(g, r) \/ WorkerDies(g, r)
    BY <1>8 DEF WorkerResume
  <2>2. Abstract!Release(g) \/ \E st \in Terminal \ {"cancelled"} : Abstract!Finish(g, st)
    BY <2>1, ResumeRefines
  <2>3. QED
    BY <2>2 DEF Abstract!Next, Abstract!Terminal, Terminal
<1>9. CASE UNCHANGED vars
  BY <1>1, <1>9 DEF vars, runVars, workerVars
<1>10. QED
  BY <1>2, <1>3, <1>4, <1>5, <1>6, <1>7, <1>8, <1>9 DEF Next, WorkerStep, Idle

\* The coordinator implements RunQueue: per-group first-in first-out service, one
\* run at a time, one terminal status per run, for every number of runs and
\* groups and every interleaving of its tasks, provided no waiter is cancelled
\* and no backend raises a stray CancelledError.
THEOREM Refinement ==
  ASSUME NoStrayCancel, ~WaitersMayCancel
  PROVE  Spec => ImplementsRunQueue
<1>1. Init => Abstract!Init
  BY EmptySeq DEF Init, Abstract!Init, AbstractPhase, AbstractLine, AbstractAhead, AbstractBusy,
       InLine, Before, Terminal
<1>2. ServiceInv /\ [Next]_vars => [Abstract!Next]_(Abstract!vars)
  BY NextRefines
<1>3. Spec => []ServiceInv
  BY Invariance, BooksInvariant, ServiceInvariant, AwaitedInvariant, PTL DEF ServiceInv
<1>4. QED
  BY <1>1, <1>2, <1>3, PTL DEF Spec, ImplementsRunQueue, Abstract!Spec
=============================================================================
