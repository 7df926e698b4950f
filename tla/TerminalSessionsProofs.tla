----------------------- MODULE TerminalSessionsProofs -----------------------
(***************************************************************************)
(* Proofs about TerminalSessions, for any workspaces, sessions, clients    *)
(* and handlers, any history limit and any number of restarts.             *)
(* The first part proves the types and that a reconnect window has a       *)
(* timer, from IInv; the second, on top of it, is about the tables, the    *)
(* bridges, the clients and the histories: the two tables agree, a bridge  *)
(* is started by one handler at a time, an attached session has a client,  *)
(* and a history is the end of the output; the third, on top of these, is  *)
(* about what the clients are sent.                                        *)
(***************************************************************************)
EXTENDS TerminalSessions, SequenceTheorems, TLAPS

(***************************************************************************)
(* The inductive invariant. TypeOK is not inductive: a reconnect_task that *)
(* is no longer asleep must be an expiry of that session that has not      *)
(* ended, or cancelling it would turn some other job, or none, into a      *)
(* writer thread.                                                          *)
(***************************************************************************)
ExpiryOf(f, t, s) ==
  /\ f[t] # None
  /\ f[t].kind = "expire" /\ f[t].session = s
  /\ f[t].pc \notin {"start", "exec"}

TimerIsExpiry ==
  \A s \in Sessions : timer[s] \in Tasks => ExpiryOf(task, timer[s], s)

\* The jobs f are well-formed.
JobsOK(f) ==
  /\ f \in [Tasks -> JobType \cup {None}]
  /\ \A t \in Tasks : f[t] # None => HoldsSnapshot(f[t])

IInv == TypeOK /\ TimerIsExpiry /\ WindowHasTimer

-----------------------------------------------------------------------------
(***************************************************************************)
(* Lemmas about the operators.                                             *)
(***************************************************************************)

\* A snapshot of a well-formed record and history is well-formed.
LEMMA SnapshotType ==
  ASSUME NEW s \in Sessions, NEW r \in RecordType, NEW h \in HistoryType
  PROVE  BuildHistorySnapshot(s, r, h) \in SnapType
<1>1. h.head \in Seq(Nat) /\ h.tail \in Seq(Nat) /\ h.truncated \in BOOLEAN
  BY DEF HistoryType
<1>2. Output(h) \in Seq(Nat)
  BY <1>1, ConcatProperties DEF Output
<1>3. r.status \in Statuses \cup {"none"}
  BY DEF RecordType
<1>4. QED
  BY <1>1, <1>2, <1>3 DEF BuildHistorySnapshot, SnapType

\* A new job with a snapshot is well-formed.
LEMMA NewJob ==
  ASSUME NEW kind \in {"create", "attach", "failed", "detach", "close", "expire",
                       "output", "exit", "thread"},
         NEW s \in Sessions, NEW snap \in SnapType \cup {None}, NEW c \in Conns \cup {None},
         NEW pc \in {"start", "exec", "kill", "drain", "temp", "replace"}
  PROVE  /\ Job(kind, s, pc, snap, c) \in JobType
         /\ Job(kind, s, pc, snap, c) # None
         /\ snap # None => HoldsSnapshot(Job(kind, s, pc, snap, c))
<1>1. Job(kind, s, pc, snap, c) \in JobType
  BY DEF Job, JobType
<1>2. QED
  BY <1>1, TerminalAssumption DEF Job, HoldsSnapshot

\* The jobs of a well-typed state are well-formed.
LEMMA TypeJobs ==
  ASSUME TypeOK
  PROVE  JobsOK(task)
  BY DEF TypeOK, JobsOK, Working

\* _append_output_history keeps a history well-formed.
LEMMA AppendType ==
  ASSUME NEW h \in HistoryType, NEW n \in Nat
  PROVE  AppendOutputHistory(h, n) \in HistoryType
<1>1. h.head \in Seq(Nat) /\ h.tail \in Seq(Nat) /\ h.truncated \in BOOLEAN
  BY DEF HistoryType
<1>2. Append(h.tail, n) \in Seq(Nat) /\ Append(h.tail, n) # <<>>
  BY <1>1, AppendProperties
<1>3. Tail(Append(h.tail, n)) \in Seq(Nat)
  BY <1>2, HeadTailProperties
<1>4. <<>> \in Seq(Nat)
  OBVIOUS
<1>5. QED
  BY <1>1, <1>2, <1>3, <1>4 DEF AppendOutputHistory, HistoryType

\* _cancel_reconnect_task leaves well-formed jobs, no expiry of another session is
\* touched, and a free place stays free.
LEMMA CancelReconnectJobs ==
  ASSUME TypeOK, TimerIsExpiry, NEW s \in Sessions
  PROVE  /\ JobsOK(CancelReconnectTask(task, s))
         /\ \A x \in Sessions \ {s} : timer[x] \in Tasks =>
              ExpiryOf(CancelReconnectTask(task, s), timer[x], x)
<1> DEFINE f == CancelReconnectTask(task, s)
<1>1. JobsOK(task)
  BY TypeJobs
<1>2. CASE f = task
  BY <1>1, <1>2 DEF TimerIsExpiry
<1>3. CASE timer[s] \in Tasks /\ f = [task EXCEPT ![timer[s]] = None]
  <2>1. JobsOK(f)
    BY <1>1, <1>3 DEF JobsOK
  <2>2. ASSUME NEW x \in Sessions \ {s}, timer[x] \in Tasks
        PROVE  ExpiryOf(f, timer[x], x)
    BY <2>2, <1>1, <1>3 DEF TimerIsExpiry, ExpiryOf, JobsOK
  <2>3. QED
    BY <2>1, <2>2
<1>4. CASE timer[s] \in Tasks /\ f = [task EXCEPT ![timer[s]].kind = "thread"]
  <2>1. /\ task[timer[s]] \in JobType /\ HoldsSnapshot(task[timer[s]])
        /\ task[timer[s]].kind = "expire"
    BY <1>1, <1>4 DEF TimerIsExpiry, ExpiryOf, JobsOK
  <2>2. [task[timer[s]] EXCEPT !.kind = "thread"] \in JobType
    BY <2>1 DEF JobType
  <2>3. HoldsSnapshot([task[timer[s]] EXCEPT !.kind = "thread"])
    BY <2>1 DEF JobType, HoldsSnapshot
  <2>4. JobsOK(f)
    BY <1>1, <1>4, <2>2, <2>3 DEF JobsOK
  <2>5. ASSUME NEW x \in Sessions \ {s}, timer[x] \in Tasks
        PROVE  ExpiryOf(f, timer[x], x)
    BY <2>5, <1>1, <1>4 DEF TimerIsExpiry, ExpiryOf, JobsOK
  <2>6. QED
    BY <2>4, <2>5
<1>5. QED
  BY <1>2, <1>3, <1>4 DEF CancelReconnectTask

\* Cancelling the reader tasks leaves well-formed jobs and every expiry as it is.
LEMMA CancelReadersJobs ==
  ASSUME NEW f, JobsOK(f), NEW s \in Sessions
  PROVE  /\ JobsOK(CancelReaders(f, s))
         /\ \A t \in Tasks, x \in Sessions : ExpiryOf(f, t, x) => ExpiryOf(CancelReaders(f, s), t, x)
<1>1. ASSUME NEW t \in Tasks, f[t] # None, f[t].kind \in {"output", "exit"}
      PROVE  /\ [f[t] EXCEPT !.kind = "thread"] \in JobType
             /\ HoldsSnapshot([f[t] EXCEPT !.kind = "thread"])
  <2>1. f[t] \in JobType /\ HoldsSnapshot(f[t])
    BY <1>1 DEF JobsOK
  <2>2. QED
    BY <1>1, <2>1 DEF JobType, HoldsSnapshot
<1>2. JobsOK(CancelReaders(f, s))
  BY <1>1 DEF JobsOK, CancelReaders
<1>3. ASSUME NEW t \in Tasks, NEW x \in Sessions, ExpiryOf(f, t, x)
      PROVE  ExpiryOf(CancelReaders(f, s), t, x)
  BY <1>3 DEF ExpiryOf, CancelReaders
<1>4. QED
  BY <1>2, <1>3

\* Putting a well-formed job in place t.
LEMMA PutJob ==
  ASSUME NEW f, JobsOK(f), NEW t \in Tasks, NEW j \in JobType, HoldsSnapshot(j)
  PROVE  /\ JobsOK([f EXCEPT ![t] = j])
         /\ [f EXCEPT ![t] = j][t] = j
         /\ \A u \in Tasks \ {t}, x \in Sessions :
              ExpiryOf(f, u, x) => ExpiryOf([f EXCEPT ![t] = j], u, x)
  BY DEF JobsOK, ExpiryOf

\* Moving a job to another program counter.
LEMMA MoveJob ==
  ASSUME NEW j \in JobType, j.snap # None,
         NEW pc \in {"start", "exec", "kill", "drain", "temp", "replace"}
  PROVE  /\ [j EXCEPT !.pc = pc] \in JobType
         /\ HoldsSnapshot([j EXCEPT !.pc = pc])
         /\ [j EXCEPT !.pc = pc] # None
         /\ [j EXCEPT !.pc = pc].kind = j.kind
         /\ [j EXCEPT !.pc = pc].session = j.session
         /\ [j EXCEPT !.pc = pc].pc = pc
<1>1. [j EXCEPT !.pc = pc] \in JobType
  BY DEF JobType
<1>2. [j EXCEPT !.pc = pc] # None
  BY <1>1, TerminalAssumption
<1>3. QED
  BY <1>1, <1>2 DEF JobType, HoldsSnapshot

\* The second half of bridge.close() keeps the shell and the jobs well-formed.
LEMMA StopReadersOK ==
  ASSUME TypeShell, NEW f, JobsOK(f), NEW t \in Tasks, NEW j \in JobType, j.snap # None,
         StopReaders(f, t, j)
  PROVE  /\ TypeShell'
         /\ JobsOK(task')
         /\ j.kind = "expire" => ExpiryOf(task', t, j.session)
         /\ \A u \in Tasks \ {t}, x \in Sessions : ExpiryOf(f, u, x) => ExpiryOf(task', u, x)
<1> DEFINE s == j.session
<1>1. s \in Sessions
  BY DEF JobType
<1>2. CASE /\ bridge[s].listed
           /\ bridge' = [bridge EXCEPT ![s].handle = FALSE, ![s].reader = "off", ![s].watcher = "off"]
           /\ task' = [CancelReaders(f, s) EXCEPT ![t] = [j EXCEPT !.pc = "drain"]]
           /\ UNCHANGED box
  <2>1. TypeShell'
    <3>1. bridge[s] \in BridgeType
      BY <1>1 DEF TypeShell
    <3>2. [bridge[s] EXCEPT !.handle = FALSE, !.reader = "off", !.watcher = "off"] \in BridgeType
      BY <3>1 DEF BridgeType
    <3>3. QED
      BY <1>1, <1>2, <3>2 DEF TypeShell
  <2>2. /\ JobsOK(CancelReaders(f, s))
        /\ \A u \in Tasks, x \in Sessions : ExpiryOf(f, u, x) => ExpiryOf(CancelReaders(f, s), u, x)
    BY <1>1, CancelReadersJobs
  <2>3. /\ [j EXCEPT !.pc = "drain"] \in JobType
        /\ HoldsSnapshot([j EXCEPT !.pc = "drain"])
        /\ [j EXCEPT !.pc = "drain"] # None
        /\ [j EXCEPT !.pc = "drain"].kind = j.kind
        /\ [j EXCEPT !.pc = "drain"].session = j.session
        /\ [j EXCEPT !.pc = "drain"].pc = "drain"
    BY MoveJob
  <2>4. /\ JobsOK(task')
        /\ task'[t] = [j EXCEPT !.pc = "drain"]
        /\ \A u \in Tasks \ {t}, x \in Sessions :
             ExpiryOf(CancelReaders(f, s), u, x) => ExpiryOf(task', u, x)
    BY <1>2, <2>2, <2>3, PutJob
  <2>5. QED
    BY <2>1, <2>2, <2>3, <2>4 DEF ExpiryOf
<1>3. CASE /\ ~bridge[s].listed
           /\ bridge' = [bridge EXCEPT ![s].handle = FALSE]
           /\ task' = [f EXCEPT ![t] = [j EXCEPT !.pc = "temp"]]
           /\ GracefulShutdown(s)
  <2>1. TypeShell'
    BY <1>1, <1>3 DEF TypeShell, BridgeType, GracefulShutdown
  <2> DEFINE k == [j EXCEPT !.pc = "temp"]
  <2>3. /\ k \in JobType /\ HoldsSnapshot(k) /\ k # None
        /\ k.kind = j.kind /\ k.session = j.session /\ k.pc = "temp"
    BY MoveJob
  <2>t. task' = [f EXCEPT ![t] = k]
    BY <1>3
  <2> HIDE DEF k
  <2>4. /\ JobsOK(task')
        /\ task'[t] = k
        /\ \A u \in Tasks \ {t}, x \in Sessions : ExpiryOf(f, u, x) => ExpiryOf(task', u, x)
    BY <2>t, <2>3, PutJob
  <2>5. QED
    BY <2>1, <2>3, <2>4 DEF ExpiryOf
<1>4. QED
  BY <1>2, <1>3 DEF StopReaders

\* bridge.close(), up to where it waits, keeps the shell and the jobs well-formed.
LEMMA CloseBridgeOK ==
  ASSUME TypeShell, NEW f, JobsOK(f), NEW t \in Tasks, NEW j \in JobType, j.snap # None,
         CloseBridge(f, t, j)
  PROVE  /\ TypeShell'
         /\ JobsOK(task')
         /\ j.kind = "expire" => ExpiryOf(task', t, j.session)
         /\ \A u \in Tasks \ {t}, x \in Sessions : ExpiryOf(f, u, x) => ExpiryOf(task', u, x)
<1>1. j.session \in Sessions
  BY DEF JobType
<1>2. ASSUME NEW pc \in {"kill", "temp"}, task' = [f EXCEPT ![t] = [j EXCEPT !.pc = pc]]
      PROVE  /\ JobsOK(task')
             /\ j.kind = "expire" => ExpiryOf(task', t, j.session)
             /\ \A u \in Tasks \ {t}, x \in Sessions : ExpiryOf(f, u, x) => ExpiryOf(task', u, x)
  <2> DEFINE k == [j EXCEPT !.pc = pc]
  <2>0. pc \in {"start", "exec", "kill", "drain", "temp", "replace"}
    OBVIOUS
  <2>1. /\ k \in JobType /\ HoldsSnapshot(k) /\ k # None
        /\ k.kind = j.kind /\ k.session = j.session /\ k.pc = pc
    BY <2>0, MoveJob
  <2>t. task' = [f EXCEPT ![t] = k]
    BY <1>2
  <2> HIDE DEF k
  <2>2. /\ JobsOK(task')
        /\ task'[t] = k
        /\ \A u \in Tasks \ {t}, x \in Sessions : ExpiryOf(f, u, x) => ExpiryOf(task', u, x)
    BY <2>t, <2>1 DEF JobsOK, ExpiryOf
  <2>3. QED
    BY <1>2, <2>1, <2>2 DEF ExpiryOf
<1>3. CASE StopReaders(f, t, j)
  BY <1>3, StopReadersOK
<1>4. CASE task' = [f EXCEPT ![t] = [j EXCEPT !.pc = "temp"]] /\ UNCHANGED shell
  <2>1. TypeShell'
    BY <1>4 DEF TypeShell, shell
  <2>2. QED
    BY <2>1, <1>2, <1>4
<1>5. CASE /\ bridge' = [bridge EXCEPT ![j.session].handle = FALSE]
           /\ task' = [f EXCEPT ![t] = [j EXCEPT !.pc = "kill"]]
           /\ UNCHANGED box
  <2>1. TypeShell'
    BY <1>1, <1>5 DEF TypeShell, BridgeType
  <2>2. QED
    BY <2>1, <1>2, <1>5
<1>6. QED
  BY <1>3, <1>4, <1>5 DEF CloseBridge

\* What the conjuncts of TypeOK' are.
LEMMA AssembleType ==
  ASSUME TypeTables', TypeRecords', TypeShell', TypeDisk', conn' \in [Conns -> ConnType],
         JobsOK(task')
  PROVE  TypeOK'
  BY DEF TypeOK, JobsOK, Working

\* A handler that cancels the timer of s and puts its own job in a free place.
LEMMA CancelAndPut ==
  ASSUME TypeOK, TimerIsExpiry, NEW s \in Sessions, NEW t \in Tasks, Idle(t),
         NEW j \in JobType, HoldsSnapshot(j),
         task' = [CancelReconnectTask(task, s) EXCEPT ![t] = j],
         timer'[s] \notin Tasks, \A x \in Sessions \ {s} : timer'[x] = timer[x]
  PROVE  JobsOK(task') /\ TimerIsExpiry'
<1> DEFINE f == CancelReconnectTask(task, s)
<1>1. /\ JobsOK(f)
      /\ \A x \in Sessions \ {s} : timer[x] \in Tasks => ExpiryOf(f, timer[x], x)
  BY CancelReconnectJobs
<1>2. \A x \in Sessions : timer[x] # t
  BY DEF TimerIsExpiry, ExpiryOf, Idle
<1>3. task' = [f EXCEPT ![t] = j]
  OBVIOUS
<1> HIDE DEF f
<1>4. JobsOK(task')
  BY <1>1, <1>3 DEF JobsOK
<1>5. ASSUME NEW x \in Sessions, timer'[x] \in Tasks
      PROVE  ExpiryOf(task', timer'[x], x)
  <2>1. x # s /\ timer'[x] = timer[x] /\ timer[x] # t
    BY <1>2, <1>5
  <2>2. ExpiryOf(f, timer[x], x)
    BY <1>1, <1>5, <2>1
  <2>3. QED
    BY <1>1, <1>3, <1>5, <2>1, <2>2 DEF ExpiryOf, JobsOK
<1>6. QED
  BY <1>4, <1>5 DEF TimerIsExpiry

\* A handler that puts its job in a free place and leaves the timers alone.
LEMMA PutKeepsTimers ==
  ASSUME TypeOK, TimerIsExpiry, NEW t \in Tasks, Idle(t), NEW j \in JobType, HoldsSnapshot(j),
         task' = [task EXCEPT ![t] = j], UNCHANGED timer
  PROVE  JobsOK(task') /\ TimerIsExpiry'
<1>1. JobsOK(task)
  BY TypeJobs
<1>2. JobsOK(task')
  BY <1>1 DEF JobsOK
<1>3. ASSUME NEW x \in Sessions, timer'[x] \in Tasks
      PROVE  ExpiryOf(task', timer'[x], x)
  <2>1. ExpiryOf(task, timer[x], x) /\ timer[x] # t
    BY <1>3 DEF TimerIsExpiry, ExpiryOf, Idle
  <2>2. QED
    BY <1>1, <1>3, <2>1 DEF ExpiryOf, JobsOK
<1>4. QED
  BY <1>2, <1>3 DEF TimerIsExpiry

-----------------------------------------------------------------------------
(***************************************************************************)
(* One lemma per action.                                                   *)
(***************************************************************************)

\* The invariant holds when the service starts for the first time.
LEMMA InitIInv == Init => IInv
<1> SUFFICES ASSUME Init PROVE IInv
  OBVIOUS
<1>1. <<>> \in Seq(Nat)
  OBVIOUS
<1>2. NoRecord \in RecordType /\ NoBridge \in BridgeType
  BY DEF NoRecord, RecordType, NoBridge, BridgeType
<1>3. NoHistory \in HistoryType /\ NoConn \in ConnType
  BY <1>1 DEF NoHistory, HistoryType, NoConn, ConnType
<1>4. TypeTables /\ TypeRecords /\ TypeShell /\ TypeDisk /\ conn \in [Conns -> ConnType]
  BY <1>2, <1>3 DEF Init, TypeTables, TypeRecords, TypeShell, TypeDisk
<1>5. /\ task \in [Tasks -> JobType \cup {None}]
      /\ \A t \in Tasks : Working(t) => HoldsSnapshot(task[t])
  BY DEF Init, Working
<1>6. TimerIsExpiry /\ WindowHasTimer
  BY TerminalAssumption DEF Init, TimerIsExpiry, WindowHasTimer
<1>7. QED
  BY <1>4, <1>5, <1>6 DEF IInv, TypeOK

\* The records handlers write are well-formed.
LEMMA Records ==
  /\ \A st \in {"created", "attached", "detached", "closed", "exited"}, b \in BOOLEAN :
       [status |-> st, timed |-> b] \in RecordType
  /\ NoBridge \in BridgeType /\ NewBridge \in BridgeType
  /\ NoConn \in ConnType /\ Gone \in ConnType
<1>1. \A st \in {"created", "attached", "detached", "closed", "exited"}, b \in BOOLEAN :
       [status |-> st, timed |-> b] \in RecordType
  BY DEF RecordType, Statuses, Active, Final
<1>2. NoBridge \in BridgeType
  BY DEF NoBridge, BridgeType
<1>3. NewBridge \in BridgeType
  BY <1>2 DEF NewBridge, BridgeType
<1>4. NoConn \in ConnType
  BY DEF NoConn, ConnType
<1>5. Gone \in ConnType
  BY <1>4 DEF Gone, ConnType
<1>6. QED
  BY <1>1, <1>2, <1>3, <1>4, <1>5

\* create_session: the new session has no deadline, and the dropped one leaves the
\* tables together with its timer.
LEMMA CreateStep ==
  ASSUME IInv, NEW g \in Groups, NEW s \in Sessions, NEW t \in Tasks, CreateSession(g, s, t)
  PROVE  IInv'
<1> USE DEF IInv
<1> DEFINE old == byGroup[g]
           j == Job("create", s, "start", None, None)
<1>1. old \in Sessions \cup {None}
  BY DEF TypeOK, TypeTables
<1>2. j \in JobType /\ HoldsSnapshot(j)
  BY NewJob DEF HoldsSnapshot, Job
<1>3. TypeTables'
  BY DEF CreateSession, TypeOK, TypeTables, DropSession
<1>4. TypeRecords'
  BY Records DEF CreateSession, TypeOK, TypeRecords
<1>5. TypeShell'
  BY Records DEF CreateSession, TypeOK, TypeShell
<1>6. TypeDisk' /\ conn' \in [Conns -> ConnType]
  BY DEF CreateSession, TypeOK, TypeDisk, disk
<1>7. JobsOK(task') /\ TimerIsExpiry'
  <2> HIDE DEF j
  <2>0. Idle(t)
    BY DEF CreateSession
  <2>1. CASE old = None
    <3>1. task' = [task EXCEPT ![t] = j]
      BY <2>1 DEF CreateSession, j
    <3>2. timer' = timer
      BY <2>1, TerminalAssumption DEF CreateSession, TypeOK, TypeRecords
    <3>3. QED
      BY <1>2, <2>0, <3>1, <3>2, PutKeepsTimers
  <2>2. CASE old \in Sessions
    <3>1. task' = [CancelReconnectTask(task, old) EXCEPT ![t] = j]
      BY <2>2, TerminalAssumption DEF CreateSession, j
    <3>2. timer'[old] \notin Tasks /\ \A x \in Sessions \ {old} : timer'[x] = timer[x]
      BY <2>2, TerminalAssumption DEF CreateSession, TypeOK, TypeRecords
    <3>3. QED
      BY <1>2, <2>0, <2>2, <3>1, <3>2, CancelAndPut
  <2>3. QED
    BY <1>1, <2>1, <2>2
<1>8. WindowHasTimer'
  <2>1. ASSUME NEW x \in byId', rec'[x].timed
        PROVE  rec'[x].status = "detached" /\ timer'[x] = "asleep"
    <3>1. x \in Sessions /\ x # s
      BY <1>3, <2>1 DEF TypeTables, CreateSession, TypeOK, TypeRecords
    <3>2. x \in byId /\ rec'[x] = rec[x] /\ x # old
      BY <2>1, <3>1 DEF CreateSession, TypeOK, TypeRecords, DropSession
    <3>3. QED
      BY <2>1, <3>1, <3>2 DEF WindowHasTimer, CreateSession
  <2>2. QED
    BY <2>1 DEF WindowHasTimer
<1>9. QED
  BY <1>3, <1>4, <1>5, <1>6, <1>7, <1>8, AssembleType

\* A handler that gives session s a record without a deadline, or a detached one
\* together with a timer.
LEMMA WindowAfterRecord ==
  ASSUME TypeOK, WindowHasTimer, NEW s \in Sessions, NEW r, NEW w,
         rec' = [rec EXCEPT ![s] = r], timer' = [timer EXCEPT ![s] = w], byId' = byId,
         r.timed => r.status = "detached" /\ w = "asleep"
  PROVE  WindowHasTimer'
<1>1. ASSUME NEW x \in byId', rec'[x].timed
      PROVE  rec'[x].status = "detached" /\ timer'[x] = "asleep"
  <2>1. x \in byId /\ x \in Sessions
    BY DEF TypeOK, TypeTables
  <2>2. CASE x = s
    BY <1>1, <2>1, <2>2 DEF TypeOK, TypeRecords
  <2>3. CASE x # s
    BY <1>1, <2>1, <2>3 DEF TypeOK, TypeRecords, WindowHasTimer
  <2>4. QED
    BY <2>2, <2>3
<1>2. QED
  BY <1>1 DEF WindowHasTimer

\* attach_session: the deadline and its timer go together.
LEMMA AttachStep ==
  ASSUME IInv, NEW c \in Conns, NEW s \in Sessions, NEW t \in Tasks, AttachSession(c, s, t)
  PROVE  IInv'
<1> USE DEF IInv
<1> DEFINE r == [status |-> "attached", timed |-> FALSE]
           pc == IF bridge[s].object THEN "temp" ELSE "start"
           snap == BuildHistorySnapshot(s, r, hist[s])
           j == Job("attach", s, pc, snap, c)
<1>1. r \in RecordType
  BY Records
<1>2. hist[s] \in HistoryType
  BY DEF TypeOK, TypeRecords
<1>3. snap \in SnapType /\ snap # None
  BY <1>1, <1>2, SnapshotType, TerminalAssumption
<1>4. j \in JobType /\ HoldsSnapshot(j)
  <2>1. pc \in {"start", "exec", "kill", "drain", "temp", "replace"}
    OBVIOUS
  <2> HIDE DEF snap, pc
  <2>2. QED
    BY <1>3, <2>1, NewJob
<1>5. TypeTables' /\ TypeDisk'
  BY DEF AttachSession, TypeOK, TypeTables, TypeDisk, tables, disk
<1>6. TypeRecords'
  BY <1>1 DEF AttachSession, TypeOK, TypeRecords
<1>7. TypeShell'
  BY Records DEF AttachSession, TypeOK, TypeShell
<1>8. conn' \in [Conns -> ConnType]
  <2>1. Output(hist[s]) \in Seq(Nat)
    BY <1>2, ConcatProperties DEF Output, HistoryType
  <2>2. [pc |-> "attaching", session |-> s, stream |-> Output(hist[s])] \in ConnType
    BY <2>1 DEF ConnType
  <2>3. QED
    BY <2>2 DEF AttachSession, TypeOK
<1>9. JobsOK(task') /\ TimerIsExpiry'
  <2>1. Idle(t) /\ task' = [CancelReconnectTask(task, s) EXCEPT ![t] = j]
    BY DEF AttachSession
  <2>2. timer'[s] \notin Tasks /\ \A x \in Sessions \ {s} : timer'[x] = timer[x]
    BY TerminalAssumption DEF AttachSession, TypeOK, TypeRecords
  <2> HIDE DEF j
  <2>3. QED
    BY <1>4, <2>1, <2>2, CancelAndPut
<1>10. WindowHasTimer'
  <2>1. rec' = [rec EXCEPT ![s] = r] /\ timer' = [timer EXCEPT ![s] = None] /\ byId' = byId
    BY DEF AttachSession, tables
  <2>2. ~r.timed
    OBVIOUS
  <2> HIDE DEF r
  <2>3. QED
    BY <2>1, <2>2, WindowAfterRecord
<1>11. QED
  BY <1>5, <1>6, <1>7, <1>8, <1>9, <1>10, AssembleType

\* Closing a session, in whichever handler: what it does to the jobs, the shell and
\* the timers.
LEMMA CloseSessionOK ==
  ASSUME IInv, NEW s \in Sessions, NEW t \in Tasks, Idle(t), NEW c \in Conns \cup {None},
         CloseSession(s, t, c), byId' = byId, hist' = hist, seen' = seen
  PROVE  TypeRecords' /\ TypeShell' /\ JobsOK(task') /\ TimerIsExpiry' /\ WindowHasTimer'
<1> USE DEF IInv
<1> DEFINE r == [status |-> "closed", timed |-> FALSE]
           snap == BuildHistorySnapshot(s, r, hist[s])
           j == Job("close", s, "kill", snap, c)
           f == CancelReconnectTask(task, s)
<1>1. r \in RecordType /\ hist[s] \in HistoryType
  BY Records DEF TypeOK, TypeRecords
<1>2. snap \in SnapType /\ snap # None
  BY <1>1, SnapshotType, TerminalAssumption
<1>3. j \in JobType /\ j.snap # None /\ j.kind = "close"
  <2> HIDE DEF snap
  <2>1. j \in JobType
    BY <1>2, NewJob
  <2>2. QED
    BY <1>2, <2>1 DEF Job
<1>4. TypeRecords'
  BY <1>1 DEF CloseSession, TypeOK, TypeRecords
<1>5. /\ JobsOK(f)
      /\ \A x \in Sessions \ {s} : timer[x] \in Tasks => ExpiryOf(f, timer[x], x)
  BY CancelReconnectJobs
<1>6. CloseBridge(f, t, j)
  BY DEF CloseSession
<1>7. TypeShell
  BY DEF TypeOK
<1>8. timer'[s] \notin Tasks /\ \A x \in Sessions \ {s} : timer'[x] = timer[x]
  BY TerminalAssumption DEF CloseSession, TypeOK, TypeRecords
<1>9. \A x \in Sessions : timer[x] # t
  BY DEF TimerIsExpiry, ExpiryOf, Idle
<1>10. WindowHasTimer'
  <2>1. rec' = [rec EXCEPT ![s] = r] /\ timer' = [timer EXCEPT ![s] = None]
    BY DEF CloseSession
  <2>2. ~r.timed
    OBVIOUS
  <2> HIDE DEF r
  <2>3. QED
    BY <2>1, <2>2, WindowAfterRecord
<1> HIDE DEF f, j
<1>11. /\ TypeShell' /\ JobsOK(task')
       /\ \A u \in Tasks \ {t}, x \in Sessions : ExpiryOf(f, u, x) => ExpiryOf(task', u, x)
  BY <1>3, <1>5, <1>6, <1>7, CloseBridgeOK
<1>12. ASSUME NEW x \in Sessions, timer'[x] \in Tasks
       PROVE  ExpiryOf(task', timer'[x], x)
  <2>1. x # s /\ timer'[x] = timer[x] /\ timer[x] # t
    BY <1>8, <1>9, <1>12
  <2>2. QED
    BY <1>5, <1>11, <1>12, <2>1
<1>13. QED
  BY <1>4, <1>10, <1>11, <1>12 DEF TimerIsExpiry

\* DELETE of a workspace's session.
LEMMA CloseByGroupStep ==
  ASSUME IInv, NEW g \in Groups, NEW t \in Tasks, CloseSessionByGroup(g, t)
  PROVE  IInv'
<1>1. byGroup[g] \in Sessions /\ Idle(t) /\ CloseSession(byGroup[g], t, None)
  BY DEF IInv, TypeOK, TypeTables, CloseSessionByGroup
<1>2. byId' = byId /\ hist' = hist /\ seen' = seen
  BY DEF CloseSessionByGroup, tables
<1>3. TypeRecords' /\ TypeShell' /\ JobsOK(task') /\ TimerIsExpiry' /\ WindowHasTimer'
  BY <1>1, <1>2, CloseSessionOK
<1>4. TypeTables' /\ TypeDisk' /\ conn' \in [Conns -> ConnType]
  BY DEF CloseSessionByGroup, IInv, TypeOK, TypeTables, TypeDisk, tables, disk
<1>5. QED
  BY <1>3, <1>4, AssembleType DEF IInv

\* terminal.close on a connection.
LEMMA CloseMessageStep ==
  ASSUME IInv, NEW c \in Conns, NEW t \in Tasks, CloseMessage(c, t)
  PROVE  IInv'
<1> DEFINE s == conn[c].session
<1>1. TypeTables' /\ TypeDisk'
  BY DEF CloseMessage, IInv, TypeOK, TypeTables, TypeDisk, tables, disk
<1>2. conn[c] \in ConnType
  BY DEF IInv, TypeOK
<1>3. CASE s \in byId
  <2>1. s \in Sessions /\ Idle(t) /\ CloseSession(s, t, c)
    BY <1>3 DEF CloseMessage, IInv, TypeOK, TypeTables
  <2>2. byId' = byId /\ hist' = hist /\ seen' = seen
    BY DEF CloseMessage, tables
  <2>3. TypeRecords' /\ TypeShell' /\ JobsOK(task') /\ TimerIsExpiry' /\ WindowHasTimer'
    BY <2>1, <2>2, CloseSessionOK
  <2>4. conn' \in [Conns -> ConnType]
    <3>1. [conn[c] EXCEPT !.pc = "closing"] \in ConnType
      BY <1>2 DEF ConnType
    <3>2. QED
      BY <1>3, <3>1 DEF CloseMessage, IInv, TypeOK
  <2>5. QED
    BY <1>1, <2>3, <2>4, AssembleType DEF IInv
<1>4. CASE s \notin byId
  <2>1. conn' \in [Conns -> ConnType]
    BY <1>4, Records DEF CloseMessage, IInv, TypeOK
  <2>2. UNCHANGED <<rec, hist, seen, outq, timer, shell, task, byId>>
    BY <1>4 DEF CloseMessage, tables
  <2>3. TypeRecords' /\ TypeShell' /\ JobsOK(task')
    BY <2>2, TypeJobs DEF IInv, TypeOK, TypeRecords, TypeShell, JobsOK, shell
  <2>4. TimerIsExpiry' /\ WindowHasTimer'
    BY <2>2 DEF IInv, TimerIsExpiry, ExpiryOf, WindowHasTimer
  <2>5. QED
    BY <1>1, <2>1, <2>3, <2>4, AssembleType DEF IInv
<1>5. QED
  BY <1>3, <1>4

\* The endpoint's detach_session sets a deadline and starts its timer.
LEMMA LeaveStep ==
  ASSUME IInv, NEW c \in Conns, NEW t \in Tasks, Leave(c, t)
  PROVE  IInv'
<1> USE DEF IInv
<1> DEFINE s == conn[c].session
<1>1. TypeTables' /\ TypeDisk' /\ TypeShell'
  BY DEF Leave, TypeOK, TypeTables, TypeDisk, TypeShell, tables, disk, shell
<1>2. conn' \in [Conns -> ConnType]
  BY Records DEF Leave, TypeOK
<1>3. CASE s \in byId
  <2> DEFINE r == [status |-> "detached", timed |-> TRUE]
             snap == BuildHistorySnapshot(s, r, hist[s])
             j == Job("detach", s, "temp", snap, None)
  <2>1. s \in Sessions /\ Idle(t) /\ DetachSession(s, t)
    BY <1>3 DEF Leave, TypeOK, TypeTables
  <2>2. r \in RecordType /\ hist[s] \in HistoryType
    BY <2>1, Records DEF TypeOK, TypeRecords
  <2>3. snap \in SnapType /\ snap # None
    BY <2>1, <2>2, SnapshotType, TerminalAssumption
  <2>4. j \in JobType /\ HoldsSnapshot(j)
    <3> HIDE DEF snap
    <3>1. QED
      BY <2>1, <2>3, NewJob
  <2>5. TypeRecords'
    BY <2>1, <2>2 DEF DetachSession, Leave, TypeOK, TypeRecords
  <2>6. task' = [CancelReconnectTask(task, s) EXCEPT ![t] = j]
    BY <2>1 DEF DetachSession
  <2>7. timer'[s] \notin Tasks /\ \A x \in Sessions \ {s} : timer'[x] = timer[x]
    BY <2>1, TerminalAssumption DEF DetachSession, TypeOK, TypeRecords
  <2>8. WindowHasTimer'
    <3>1. rec' = [rec EXCEPT ![s] = r] /\ timer' = [timer EXCEPT ![s] = "asleep"] /\ byId' = byId
      BY <2>1 DEF DetachSession, Leave, tables
    <3>2. r.status = "detached"
      OBVIOUS
    <3> HIDE DEF r
    <3>3. QED
      BY <2>1, <3>1, <3>2, WindowAfterRecord
  <2> HIDE DEF j
  <2>9. JobsOK(task') /\ TimerIsExpiry'
    BY <2>1, <2>4, <2>6, <2>7, CancelAndPut
  <2>10. QED
    BY <1>1, <1>2, <2>5, <2>8, <2>9, AssembleType
<1>4. CASE s \notin byId
  <2>1. UNCHANGED <<rec, hist, seen, outq, timer, task, byId>>
    BY <1>4 DEF Leave, tables
  <2>2. TypeRecords' /\ JobsOK(task')
    BY <2>1, TypeJobs DEF TypeOK, TypeRecords, JobsOK
  <2>3. TimerIsExpiry' /\ WindowHasTimer'
    BY <2>1 DEF TimerIsExpiry, ExpiryOf, WindowHasTimer
  <2>4. QED
    BY <1>1, <1>2, <2>2, <2>3, AssembleType
<1>5. QED
  BY <1>3, <1>4

\* A job under way goes on, or ends while no timer can be it.
LEMMA ReplaceJob ==
  ASSUME TypeOK, TimerIsExpiry, NEW t \in Tasks, Working(t),
         NEW j \in JobType \cup {None}, j # None => HoldsSnapshot(j),
         task' = [task EXCEPT ![t] = j], UNCHANGED timer,
         task[t].pc \notin {"start", "exec"} =>
           /\ j # None /\ j.kind = task[t].kind /\ j.session = task[t].session
           /\ j.pc \notin {"start", "exec"}
  PROVE  JobsOK(task') /\ TimerIsExpiry'
<1>1. JobsOK(task)
  BY TypeJobs
<1>2. JobsOK(task')
  BY <1>1 DEF JobsOK
<1>3. ASSUME NEW x \in Sessions, timer'[x] \in Tasks
      PROVE  ExpiryOf(task', timer'[x], x)
  <2>1. ExpiryOf(task, timer[x], x)
    BY <1>3 DEF TimerIsExpiry
  <2>2. CASE timer[x] = t
    BY <1>1, <2>1, <2>2 DEF ExpiryOf, JobsOK
  <2>3. CASE timer[x] # t
    BY <1>1, <1>3, <2>1, <2>3 DEF ExpiryOf, JobsOK
  <2>4. QED
    BY <2>2, <2>3
<1>4. QED
  BY <1>2, <1>3 DEF TimerIsExpiry

\* _expire_detached_session: the timer becomes the job that closes the session, or
\* ends; either way no deadline is left.
LEMMA ExpireStep ==
  ASSUME IInv, NEW s \in Sessions, NEW t \in Tasks, ExpireDetachedSession(s, t)
  PROVE  IInv'
<1> USE DEF IInv
<1>1. TypeTables' /\ TypeDisk' /\ conn' \in [Conns -> ConnType]
  BY DEF ExpireDetachedSession, TypeOK, TypeTables, TypeDisk, tables, disk
<1>2. Idle(t) /\ timer[s] = "asleep" /\ byId' = byId
  BY DEF ExpireDetachedSession, tables
<1>3. JobsOK(task) /\ TypeShell
  BY TypeJobs DEF TypeOK
<1>4. \A x \in Sessions : timer[x] # t
  BY <1>2 DEF TimerIsExpiry, ExpiryOf, Idle
<1>5. CASE WindowDue(s)
  <2> DEFINE r == [status |-> "closed", timed |-> FALSE]
             snap == BuildHistorySnapshot(s, r, hist[s])
             j == Job("expire", s, "kill", snap, None)
  <2>1. r \in RecordType /\ hist[s] \in HistoryType
    BY Records DEF TypeOK, TypeRecords
  <2>2. snap \in SnapType /\ snap # None
    BY <2>1, SnapshotType, TerminalAssumption
  <2>3. j \in JobType /\ j.snap # None /\ j.kind = "expire" /\ j.session = s
    <3> HIDE DEF snap
    <3>1. j \in JobType
      BY <2>2, NewJob
    <3>2. QED
      BY <2>2, <3>1 DEF Job
  <2>4. /\ rec' = [rec EXCEPT ![s] = r] /\ timer' = [timer EXCEPT ![s] = t]
        /\ CloseBridge(task, t, j) /\ UNCHANGED <<hist, seen, outq>>
    BY <1>5 DEF ExpireDetachedSession
  <2>5. TypeRecords'
    BY <2>1, <2>4 DEF TypeOK, TypeRecords
  <2>6. WindowHasTimer'
    <3>1. ~r.timed
      OBVIOUS
    <3> HIDE DEF r
    <3>2. QED
      BY <1>2, <2>4, <3>1, WindowAfterRecord
  <2> HIDE DEF j
  <2>7. /\ TypeShell' /\ JobsOK(task') /\ ExpiryOf(task', t, s)
        /\ \A u \in Tasks \ {t}, x \in Sessions : ExpiryOf(task, u, x) => ExpiryOf(task', u, x)
    BY <1>3, <2>3, <2>4, CloseBridgeOK
  <2>8. ASSUME NEW x \in Sessions, timer'[x] \in Tasks
        PROVE  ExpiryOf(task', timer'[x], x)
    <3>1. CASE x = s
      BY <2>4, <2>7, <3>1 DEF TypeOK, TypeRecords
    <3>2. CASE x # s
      <4>1. timer'[x] = timer[x] /\ timer[x] # t
        BY <1>4, <2>4, <3>2 DEF TypeOK, TypeRecords
      <4>2. ExpiryOf(task, timer[x], x)
        BY <2>8, <4>1 DEF TimerIsExpiry
      <4>3. QED
        BY <2>7, <2>8, <4>1, <4>2
    <3>3. QED
      BY <3>1, <3>2
  <2>9. TimerIsExpiry'
    BY <2>8 DEF TimerIsExpiry
  <2>10. QED
    BY <1>1, <2>5, <2>6, <2>7, <2>9, AssembleType
<1>6. CASE ~WindowDue(s)
  <2>1. timer' = [timer EXCEPT ![s] = None] /\ UNCHANGED <<rec, hist, seen, outq, bridge, box, task>>
    BY <1>6 DEF ExpireDetachedSession, shell
  <2>2. TypeRecords' /\ TypeShell' /\ JobsOK(task')
    BY <1>3, <2>1 DEF TypeOK, TypeRecords, TypeShell, JobsOK
  <2>3. TimerIsExpiry'
    BY <2>1, TerminalAssumption DEF TimerIsExpiry, ExpiryOf, TypeOK, TypeRecords
  <2>4. ASSUME NEW x \in byId', rec'[x].timed
        PROVE  rec'[x].status = "detached" /\ timer'[x] = "asleep"
    <3>1. x \in byId /\ x \in Sessions /\ rec[x].timed
      BY <1>2, <2>1, <2>4 DEF TypeOK, TypeTables
    <3>2. rec[x].status = "detached" /\ timer[x] = "asleep"
      BY <3>1 DEF WindowHasTimer
    <3>3. x # s
      BY <1>6, <3>1, <3>2 DEF WindowDue
    <3>4. QED
      BY <2>1, <3>1, <3>2, <3>3 DEF TypeOK, TypeRecords
  <2>5. WindowHasTimer'
    BY <2>4 DEF WindowHasTimer
  <2>6. QED
    BY <1>1, <2>2, <2>3, <2>5, AssembleType
<1>7. QED
  BY <1>5, <1>6

\* run_container.
LEMMA RunContainerStep ==
  ASSUME IInv, NEW t \in Tasks, RunContainer(t)
  PROVE  IInv'
<1> USE DEF IInv
<1> DEFINE j == [task[t] EXCEPT !.pc = "exec"]
<1>1. Working(t) /\ task[t].pc = "start" /\ task' = [task EXCEPT ![t] = j] /\ timer' = timer
  BY DEF RunContainer
<1>2. task[t] \in JobType
  BY <1>1 DEF TypeOK, Working
<1>3. j \in JobType /\ HoldsSnapshot(j)
  <2>1. HoldsSnapshot(task[t])
    BY <1>1 DEF TypeOK
  <2>2. QED
    BY <1>1, <1>2, <2>1 DEF JobType, HoldsSnapshot
<1>4. TypeTables' /\ TypeRecords' /\ TypeDisk' /\ conn' \in [Conns -> ConnType]
  BY DEF RunContainer, TypeOK, TypeTables, TypeRecords, TypeDisk, tables, disk
<1>5. TypeShell'
  BY <1>2 DEF RunContainer, TypeOK, TypeShell, JobType
<1>6. WindowHasTimer'
  BY DEF RunContainer, WindowHasTimer, tables
<1> HIDE DEF j
<1>7. JobsOK(task') /\ TimerIsExpiry'
  BY <1>1, <1>3, ReplaceJob
<1>8. QED
  BY <1>4, <1>5, <1>6, <1>7, AssembleType

\* docker exec starts.
LEMMA ExecStartsStep ==
  ASSUME IInv, NEW t \in Tasks, ExecStarts(t)
  PROVE  IInv'
<1> USE DEF IInv
<1> DEFINE s == task[t].session
           snap == CreatedSnapshot(s)
           j == IF task[t].kind = "attach" THEN [task[t] EXCEPT !.pc = "temp"]
                ELSE IF s \in byId THEN [task[t] EXCEPT !.pc = "temp", !.snap = snap]
                ELSE None
<1>1. Working(t) /\ task[t].pc = "exec" /\ task' = [task EXCEPT ![t] = j] /\ timer' = timer
  BY DEF ExecStarts
<1>2. task[t] \in JobType /\ s \in Sessions
  BY <1>1 DEF TypeOK, Working, JobType
<1>3. snap \in SnapType /\ snap # None
  <2>1. rec[s] \in RecordType /\ hist[s] \in HistoryType
    BY <1>2 DEF TypeOK, TypeRecords
  <2>2. QED
    BY <1>2, <2>1, SnapshotType, TerminalAssumption DEF CreatedSnapshot
<1>4. TypeTables' /\ TypeRecords' /\ TypeDisk' /\ conn' \in [Conns -> ConnType]
  BY DEF ExecStarts, TypeOK, TypeTables, TypeRecords, TypeDisk, tables, disk
<1>5. TypeShell'
  <2>1. bridge[s] \in BridgeType
    BY <1>2 DEF TypeOK, TypeShell
  <2>2. [bridge[s] EXCEPT !.handle = TRUE, !.proc = "running", !.listed = TRUE,
                          !.reader = "reading", !.watcher = "waiting"] \in BridgeType
    BY <2>1 DEF BridgeType
  <2>3. QED
    BY <1>2, <2>2 DEF ExecStarts, TypeOK, TypeShell
<1>6. WindowHasTimer'
  BY DEF ExecStarts, WindowHasTimer, tables
<1> HIDE DEF snap
<1>7. j \in JobType \cup {None} /\ (j # None => HoldsSnapshot(j))
  <2>1. CASE task[t].kind = "attach"
    <3>1. task[t].snap # None
      BY <1>1, <2>1 DEF TypeOK, HoldsSnapshot
    <3>2. QED
      BY <1>2, <2>1, <3>1, MoveJob
  <2>2. CASE task[t].kind # "attach"
    <3>1. [task[t] EXCEPT !.pc = "temp", !.snap = snap] \in JobType
      BY <1>2, <1>3 DEF JobType
    <3>2. HoldsSnapshot([task[t] EXCEPT !.pc = "temp", !.snap = snap])
      BY <1>2, <1>3 DEF JobType, HoldsSnapshot
    <3>3. QED
      BY <2>2, <3>1, <3>2
  <2>3. QED
    BY <2>1, <2>2
<1> HIDE DEF j
<1>8. JobsOK(task') /\ TimerIsExpiry'
  BY <1>1, <1>7, ReplaceJob
<1>9. QED
  BY <1>4, <1>5, <1>6, <1>8, AssembleType

\* A start that raises: the clean-up of attach_session leaves no deadline behind.
LEMMA StartRaisesOK ==
  ASSUME IInv, NEW t \in Tasks, Working(t), task[t].pc \in {"start", "exec"}, StartRaises(t),
         box' \subseteq Sessions
  PROVE  IInv'
<1> USE DEF IInv
<1> DEFINE s == task[t].session
           r == [status |-> "closed", timed |-> FALSE]
           cleanup == task[t].kind = "attach" /\ s \in byId
           snap == BuildHistorySnapshot(s, r, hist[s])
           k == Job("failed", s, "temp", snap, task[t].conn)
           j == IF cleanup THEN k ELSE None
<1>1. task[t] \in JobType /\ s \in Sessions /\ task[t].conn \in Conns \cup {None}
  BY DEF TypeOK, Working, JobType
<1>2. r \in RecordType /\ hist[s] \in HistoryType
  BY <1>1, Records DEF TypeOK, TypeRecords
<1>3. snap \in SnapType /\ snap # None
  BY <1>1, <1>2, SnapshotType, TerminalAssumption
<1>4. k \in JobType /\ HoldsSnapshot(k)
  <2> HIDE DEF snap
  <2>1. QED
    BY <1>1, <1>3, NewJob
<1>5. TypeTables' /\ TypeDisk'
  BY DEF StartRaises, TypeOK, TypeTables, TypeDisk, tables, disk
<1>6. TypeRecords'
  BY <1>1, <1>2 DEF StartRaises, TypeOK, TypeRecords
<1>7. TypeShell'
  BY <1>1, Records DEF StartRaises, TypeOK, TypeShell
<1>8. conn' \in [Conns -> ConnType]
  BY Records DEF StartRaises, TypeOK
<1>9. WindowHasTimer'
  <2>1. ASSUME NEW x \in byId', rec'[x].timed
        PROVE  rec'[x].status = "detached" /\ timer'[x] = "asleep"
    <3>1. x \in byId /\ x \in Sessions /\ timer' = timer
      BY DEF StartRaises, tables, TypeOK, TypeTables
    <3>2. rec'[x] = rec[x]
      BY <1>1, <2>1, <3>1 DEF StartRaises, TypeOK, TypeRecords
    <3>3. QED
      BY <2>1, <3>1, <3>2 DEF WindowHasTimer
  <2>2. QED
    BY <2>1 DEF WindowHasTimer
<1>10. task' = [task EXCEPT ![t] = j] /\ timer' = timer
  BY DEF StartRaises
<1> HIDE DEF k
<1>11. j \in JobType \cup {None} /\ (j # None => HoldsSnapshot(j))
  BY <1>4
<1> HIDE DEF j
<1>12. JobsOK(task') /\ TimerIsExpiry'
  BY <1>10, <1>11, ReplaceJob
<1>13. QED
  BY <1>5, <1>6, <1>7, <1>8, <1>9, <1>12, AssembleType

\* run_container fails.
LEMMA RunContainerFailsStep ==
  ASSUME IInv, NEW t \in Tasks, RunContainerFails(t)
  PROVE  IInv'
<1>1. Working(t) /\ task[t].pc \in {"start", "exec"} /\ StartRaises(t)
  BY DEF RunContainerFails
<1>2. box' \subseteq Sessions
  BY DEF RunContainerFails, IInv, TypeOK, TypeShell
<1>3. QED
  BY <1>1, <1>2, StartRaisesOK

\* docker exec fails.
LEMMA ExecFailsStep ==
  ASSUME IInv, NEW t \in Tasks, ExecFails(t)
  PROVE  IInv'
<1>1. Working(t) /\ task[t].pc \in {"start", "exec"} /\ StartRaises(t)
  BY DEF ExecFails
<1>2. box' \subseteq Sessions
  BY DEF ExecFails, GracefulShutdown, IInv, TypeOK, TypeShell
<1>3. QED
  BY <1>1, <1>2, StartRaisesOK

\* bridge.close() goes on after its wait for the killed process.
LEMMA KillWaitedStep ==
  ASSUME IInv, NEW t \in Tasks, KillWaited(t)
  PROVE  IInv'
<1> USE DEF IInv
<1>1. Working(t) /\ task[t].pc = "kill" /\ StopReaders(task, t, task[t]) /\ timer' = timer
  BY DEF KillWaited
<1>2. task[t] \in JobType /\ task[t].snap # None
  BY <1>1 DEF TypeOK, Working, HoldsSnapshot
<1>3. JobsOK(task) /\ TypeShell
  BY TypeJobs DEF TypeOK
<1>4. /\ TypeShell' /\ JobsOK(task')
      /\ task[t].kind = "expire" => ExpiryOf(task', t, task[t].session)
      /\ \A u \in Tasks \ {t}, x \in Sessions : ExpiryOf(task, u, x) => ExpiryOf(task', u, x)
  BY <1>1, <1>2, <1>3, StopReadersOK
<1>5. TypeTables' /\ TypeRecords' /\ TypeDisk' /\ conn' \in [Conns -> ConnType]
  BY DEF KillWaited, TypeOK, TypeTables, TypeRecords, TypeDisk, tables, disk
<1>6. WindowHasTimer'
  BY DEF KillWaited, WindowHasTimer, tables
<1>7. ASSUME NEW x \in Sessions, timer'[x] \in Tasks
      PROVE  ExpiryOf(task', timer'[x], x)
  <2>1. ExpiryOf(task, timer[x], x) /\ timer'[x] = timer[x]
    BY <1>1, <1>7 DEF TimerIsExpiry
  <2>2. CASE timer[x] = t
    BY <1>4, <2>1, <2>2 DEF ExpiryOf
  <2>3. CASE timer[x] # t
    BY <1>4, <1>7, <2>1, <2>3
  <2>4. QED
    BY <2>2, <2>3
<1>8. TimerIsExpiry'
  BY <1>7 DEF TimerIsExpiry
<1>9. QED
  BY <1>4, <1>5, <1>6, <1>8, AssembleType

\* The reader tasks have ended and the container is shut down.
LEMMA ReadersGoneStep ==
  ASSUME IInv, NEW t \in Tasks, ReadersGone(t)
  PROVE  IInv'
<1> USE DEF IInv
<1> DEFINE j == [task[t] EXCEPT !.pc = "temp"]
<1>1. Working(t) /\ task[t].pc = "drain" /\ task' = [task EXCEPT ![t] = j] /\ timer' = timer
  BY DEF ReadersGone
<1>2. task[t] \in JobType /\ task[t].snap # None /\ task[t].session \in Sessions
  BY <1>1 DEF TypeOK, Working, HoldsSnapshot, JobType
<1>3. /\ j \in JobType /\ HoldsSnapshot(j) /\ j # None
      /\ j.kind = task[t].kind /\ j.session = task[t].session /\ j.pc = "temp"
  BY <1>2, MoveJob
<1>4. TypeTables' /\ TypeRecords' /\ TypeDisk' /\ conn' \in [Conns -> ConnType]
  BY DEF ReadersGone, TypeOK, TypeTables, TypeRecords, TypeDisk, tables, disk
<1>5. TypeShell'
  BY <1>2 DEF ReadersGone, TypeOK, TypeShell, BridgeType, GracefulShutdown
<1>6. WindowHasTimer'
  BY DEF ReadersGone, WindowHasTimer, tables
<1> HIDE DEF j
<1>7. JobsOK(task') /\ TimerIsExpiry'
  BY <1>1, <1>3, ReplaceJob
<1>8. QED
  BY <1>4, <1>5, <1>6, <1>7, AssembleType

\* The process dies, or its output ends: only the bridge changes.
LEMMA BridgeStep ==
  ASSUME IInv, NEW s \in Sessions, ProcessExits(s) \/ ReadEof(s)
  PROVE  IInv'
<1> USE DEF IInv
<1>1. TypeTables' /\ TypeRecords' /\ TypeDisk' /\ conn' \in [Conns -> ConnType]
  BY DEF ProcessExits, ReadEof, TypeOK, TypeTables, TypeRecords, TypeDisk, tables, disk
<1>2. TypeShell'
  <2>1. bridge[s] \in BridgeType
    BY DEF TypeOK, TypeShell
  <2>2. [bridge[s] EXCEPT !.proc = "dead"] \in BridgeType
    BY <2>1 DEF BridgeType
  <2>3. [bridge[s] EXCEPT !.reader = "off"] \in BridgeType
    BY <2>1 DEF BridgeType
  <2>4. QED
    BY <2>2, <2>3 DEF ProcessExits, ReadEof, TypeOK, TypeShell
<1>3. UNCHANGED <<byId, rec, timer, task>>
  BY DEF ProcessExits, ReadEof, tables
<1>4. JobsOK(task') /\ TimerIsExpiry' /\ WindowHasTimer'
  BY <1>3, TypeJobs DEF JobsOK, TimerIsExpiry, ExpiryOf, WindowHasTimer
<1>5. QED
  BY <1>1, <1>2, <1>4, AssembleType

\* An output event: the history grows within its type.
LEMMA HandleOutputStep ==
  ASSUME IInv, NEW s \in Sessions, NEW t \in Tasks, HandleOutput(s, t)
  PROVE  IInv'
<1> USE DEF IInv
<1> DEFINE n == seen[s] + 1
           h == AppendOutputHistory(hist[s], n)
           snap == BuildHistorySnapshot(s, rec[s], h)
           k == Job("output", s, "temp", snap, outq[s])
           j == [k EXCEPT !.item = n]
<1>1. n \in Nat /\ hist[s] \in HistoryType /\ rec[s] \in RecordType /\ outq[s] \in Conns \cup {None}
  BY DEF TypeOK, TypeRecords
<1>2. Idle(t) /\ task' = [task EXCEPT ![t] = j] /\ timer' = timer
  BY DEF HandleOutput
<1>3. bridge[s] \in BridgeType
  BY DEF TypeOK, TypeShell
<1>4. seen' = [seen EXCEPT ![s] = n] /\ hist' = [hist EXCEPT ![s] = h]
  BY DEF HandleOutput
<1> HIDE DEF n
<1>5. h \in HistoryType
  BY <1>1, AppendType
<1> HIDE DEF h
<1>6. snap \in SnapType /\ snap # None
  BY <1>1, <1>5, SnapshotType, TerminalAssumption
<1> HIDE DEF snap
<1>7. k \in JobType /\ HoldsSnapshot(k)
  BY <1>1, <1>6, NewJob
<1> HIDE DEF k
<1>8. j \in JobType /\ HoldsSnapshot(j)
  BY <1>1, <1>7 DEF JobType, HoldsSnapshot
<1> HIDE DEF j
<1>9. TypeTables' /\ TypeDisk' /\ conn' \in [Conns -> ConnType]
  BY DEF HandleOutput, TypeOK, TypeTables, TypeDisk, tables, disk
<1>10. TypeRecords'
  <2>1. UNCHANGED <<rec, outq, timer>>
    BY DEF HandleOutput
  <2>2. QED
    BY <1>1, <1>4, <1>5, <2>1 DEF TypeOK, TypeRecords
<1>11. TypeShell'
  <2>1. [bridge[s] EXCEPT !.reader = "busy"] \in BridgeType
    BY <1>3 DEF BridgeType
  <2>2. QED
    BY <2>1 DEF HandleOutput, TypeOK, TypeShell
<1>12. WindowHasTimer'
  BY DEF HandleOutput, WindowHasTimer, tables
<1>13. JobsOK(task') /\ TimerIsExpiry'
  BY <1>2, <1>8, PutKeepsTimers
<1>14. QED
  BY <1>9, <1>10, <1>11, <1>12, <1>13, AssembleType

\* An exit event ends the session and its reconnect window together.
LEMMA HandleExitStep ==
  ASSUME IInv, NEW s \in Sessions, NEW t \in Tasks, HandleExit(s, t)
  PROVE  IInv'
<1> USE DEF IInv
<1>1. TypeTables' /\ TypeDisk' /\ conn' \in [Conns -> ConnType]
  BY DEF HandleExit, TypeOK, TypeTables, TypeDisk, tables, disk
<1>2. bridge[s] \in BridgeType
  BY DEF TypeOK, TypeShell
<1>3. CASE s \in byId
  <2> DEFINE r == [status |-> "exited", timed |-> FALSE]
             snap == BuildHistorySnapshot(s, r, hist[s])
             j == Job("exit", s, "temp", snap, outq[s])
  <2>1. r \in RecordType /\ hist[s] \in HistoryType /\ outq[s] \in Conns \cup {None}
    BY Records DEF TypeOK, TypeRecords
  <2>2. snap \in SnapType /\ snap # None
    BY <2>1, SnapshotType, TerminalAssumption
  <2>3. j \in JobType /\ HoldsSnapshot(j)
    <3> HIDE DEF snap
    <3>1. QED
      BY <2>1, <2>2, NewJob
  <2>4. /\ Idle(t) /\ rec' = [rec EXCEPT ![s] = r] /\ timer' = [timer EXCEPT ![s] = None]
        /\ byId' = byId /\ task' = [CancelReconnectTask(task, s) EXCEPT ![t] = j]
    BY <1>3 DEF HandleExit, tables
  <2>5. TypeRecords'
    BY <2>1, <2>4 DEF HandleExit, TypeOK, TypeRecords
  <2>6. TypeShell'
    <3>1. [bridge[s] EXCEPT !.watcher = "busy"] \in BridgeType
      BY <1>2 DEF BridgeType
    <3>2. QED
      BY <1>3, <3>1 DEF HandleExit, TypeOK, TypeShell
  <2>7. timer'[s] \notin Tasks /\ \A x \in Sessions \ {s} : timer'[x] = timer[x]
    BY <2>4, TerminalAssumption DEF TypeOK, TypeRecords
  <2>8. WindowHasTimer'
    <3>1. ~r.timed
      OBVIOUS
    <3> HIDE DEF r
    <3>2. QED
      BY <2>4, <3>1, WindowAfterRecord
  <2> HIDE DEF j
  <2>9. JobsOK(task') /\ TimerIsExpiry'
    BY <2>3, <2>4, <2>7, CancelAndPut
  <2>10. QED
    BY <1>1, <2>5, <2>6, <2>8, <2>9, AssembleType
<1>4. CASE s \notin byId
  <2>1. UNCHANGED <<rec, hist, seen, outq, timer, task, byId>>
    BY <1>4 DEF HandleExit, tables
  <2>2. TypeShell'
    <3>1. [bridge[s] EXCEPT !.watcher = "off"] \in BridgeType
      BY <1>2 DEF BridgeType
    <3>2. QED
      BY <1>4, <3>1 DEF HandleExit, TypeOK, TypeShell
  <2>3. TypeRecords' /\ JobsOK(task')
    BY <2>1, TypeJobs DEF TypeOK, TypeRecords, JobsOK
  <2>4. TimerIsExpiry' /\ WindowHasTimer'
    BY <2>1 DEF TimerIsExpiry, ExpiryOf, WindowHasTimer
  <2>5. QED
    BY <1>1, <2>2, <2>3, <2>4, AssembleType
<1>5. QED
  BY <1>3, <1>4

\* The rest of a handler: an expiry that ends is no longer anybody's timer.
LEMMA ResumeOK ==
  ASSUME IInv, NEW t \in Tasks, Working(t), task[t].pc \notin {"start", "exec"}, Resume(t),
         UNCHANGED <<tables, rec, hist, seen, box, outq>>
  PROVE  /\ TypeTables' /\ TypeRecords' /\ TypeShell' /\ conn' \in [Conns -> ConnType]
         /\ JobsOK(task') /\ TimerIsExpiry' /\ WindowHasTimer'
<1> USE DEF IInv
<1> DEFINE s == task[t].session
<1>1. task[t] \in JobType /\ s \in Sessions /\ bridge[s] \in BridgeType /\ task[t].item \in Nat
  BY DEF TypeOK, Working, JobType, TypeShell
<1>2. TypeTables'
  BY DEF TypeOK, TypeTables, tables
<1>3. TypeRecords'
  BY <1>1 DEF Resume, TypeOK, TypeRecords
<1>4. TypeShell'
  <2>1. [bridge[s] EXCEPT !.reader = "reading"] \in BridgeType
    BY <1>1 DEF BridgeType
  <2>2. [bridge[s] EXCEPT !.watcher = "off"] \in BridgeType
    BY <1>1 DEF BridgeType
  <2>3. QED
    BY <1>1, <2>1, <2>2 DEF Resume, TypeOK, TypeShell
<1>5. conn' \in [Conns -> ConnType]
  <2>1. ASSUME NEW c \in Conns, NEW n \in Nat
        PROVE  [conn EXCEPT ![c].stream = Append(@, n)] \in [Conns -> ConnType]
    <3>1. conn[c] \in ConnType /\ conn[c].stream \in Seq(Nat)
      BY DEF TypeOK, ConnType
    <3>2. Append(conn[c].stream, n) \in Seq(Nat)
      BY <3>1, AppendProperties
    <3>3. [conn[c] EXCEPT !.stream = Append(conn[c].stream, n)] \in ConnType
      BY <3>1, <3>2 DEF ConnType
    <3>4. QED
      BY <3>3 DEF TypeOK
  <2>2. ASSUME NEW c
        PROVE  [conn EXCEPT ![c].pc = "accepting"] \in [Conns -> ConnType]
    <3>1. CASE c \in Conns
      <4>1. [conn[c] EXCEPT !.pc = "accepting"] \in ConnType
        BY <3>1 DEF TypeOK, ConnType
      <4>2. QED
        BY <4>1 DEF TypeOK
    <3>2. QED
      BY <3>1 DEF TypeOK
  <2>3. \A c : [conn EXCEPT ![c] = Gone] \in [Conns -> ConnType]
    BY Records DEF TypeOK
  <2>4. task[t].conn \in Conns \cup {None} /\ conn \in [Conns -> ConnType]
    BY <1>1 DEF JobType, TypeOK
  <2>5. CASE task[t].kind = "output"
    BY <1>1, <2>1, <2>4, <2>5 DEF Resume, EventQueue
  <2>6. CASE task[t].kind = "exit"
    <3>1. ExitMark \in Nat
      BY DEF ExitMark
    <3>2. QED
      BY <2>1, <2>4, <2>6, <3>1 DEF Resume, EventQueue
  <2>7. CASE task[t].kind = "attach"
    BY <2>2, <2>7 DEF Resume
  <2>8. CASE task[t].kind \notin {"output", "exit", "attach"}
    BY <2>3, <2>4, <2>8 DEF Resume
  <2>9. QED
    BY <2>5, <2>6, <2>7, <2>8
<1>6. JobsOK(task) /\ task' = [task EXCEPT ![t] = None]
  BY TypeJobs DEF Resume
<1>7. JobsOK(task')
  BY <1>6 DEF JobsOK
<1>8. timer' = IF timer[s] = t THEN [timer EXCEPT ![s] = None] ELSE timer
  BY DEF Resume
<1>9. TimerIsExpiry'
  <2>1. ASSUME NEW x \in Sessions, timer'[x] \in Tasks
        PROVE  ExpiryOf(task', timer'[x], x)
    <3>1. timer'[x] = timer[x]
      BY <1>1, <1>8, <2>1, TerminalAssumption DEF TypeOK, TypeRecords
    <3>2. ExpiryOf(task, timer[x], x)
      BY <2>1, <3>1 DEF TimerIsExpiry
    <3>3. timer[x] # t
      <4>1. ASSUME timer[x] = t PROVE FALSE
        <5>1. x = s
          BY <3>2, <4>1 DEF ExpiryOf
        <5>2. timer'[x] = None
          BY <1>1, <1>8, <4>1, <5>1 DEF TypeOK, TypeRecords
        <5>3. QED
          BY <2>1, <5>2, TerminalAssumption
      <4>2. QED
        BY <4>1
    <3>4. QED
      BY <1>6, <2>1, <3>1, <3>2, <3>3 DEF ExpiryOf, JobsOK
  <2>2. QED
    BY <2>1 DEF TimerIsExpiry
<1>10. WindowHasTimer'
  <2>1. ASSUME NEW x \in byId', rec'[x].timed
        PROVE  rec'[x].status = "detached" /\ timer'[x] = "asleep"
    <3>1. x \in Sessions /\ rec[x].status = "detached" /\ timer[x] = "asleep" /\ rec' = rec
      BY <2>1 DEF tables, WindowHasTimer, TypeOK, TypeTables
    <3>2. timer'[x] = timer[x]
      BY <1>1, <1>8, <3>1, TerminalAssumption DEF TypeOK, TypeRecords
    <3>3. QED
      BY <3>1, <3>2
  <2>2. QED
    BY <2>1 DEF WindowHasTimer
<1>11. QED
  BY <1>2, <1>3, <1>4, <1>5, <1>7, <1>9, <1>10

\* A snapshot goes to the temporary file.
LEMMA WriteTempStep ==
  ASSUME IInv, NEW t \in Tasks, WriteTemp(t)
  PROVE  IInv'
<1> USE DEF IInv
<1> DEFINE j == [task[t] EXCEPT !.pc = "replace"]
<1>1. Working(t) /\ task[t].pc = "temp" /\ task' = [task EXCEPT ![t] = j] /\ timer' = timer
  BY DEF WriteTemp
<1>2. task[t] \in JobType /\ task[t].snap # None /\ task[t].snap \in SnapType \cup {None}
  BY <1>1 DEF TypeOK, Working, HoldsSnapshot, JobType
<1>3. /\ j \in JobType /\ HoldsSnapshot(j) /\ j # None
      /\ j.kind = task[t].kind /\ j.session = task[t].session /\ j.pc = "replace"
  BY <1>2, MoveJob
<1>4. TypeTables' /\ TypeRecords' /\ TypeShell' /\ conn' \in [Conns -> ConnType]
  BY DEF WriteTemp, TypeOK, TypeTables, TypeRecords, TypeShell, tables, shell
<1>5. TypeDisk'
  BY <1>2 DEF WriteTemp, TypeOK, TypeDisk
<1>6. WindowHasTimer'
  BY DEF WriteTemp, WindowHasTimer, tables
<1> HIDE DEF j
<1>7. JobsOK(task') /\ TimerIsExpiry'
  BY <1>1, <1>3, ReplaceJob
<1>8. QED
  BY <1>4, <1>5, <1>6, <1>7, AssembleType

\* The temporary file is renamed, or was renamed by another writer.
LEMMA ReplaceLatestStep ==
  ASSUME IInv, NEW t \in Tasks, ReplaceLatest(t)
  PROVE  IInv'
<1>1. /\ Working(t) /\ task[t].pc \notin {"start", "exec"} /\ Resume(t)
      /\ UNCHANGED <<tables, rec, hist, seen, box, outq>>
  BY DEF ReplaceLatest
<1>2. /\ TypeTables' /\ TypeRecords' /\ TypeShell' /\ conn' \in [Conns -> ConnType]
      /\ JobsOK(task') /\ TimerIsExpiry' /\ WindowHasTimer'
  BY <1>1, ResumeOK
<1>3. TypeDisk'
  <2>1. task[t].snap \in SnapType \cup {None} /\ task[t].session \in Sessions
    BY <1>1 DEF IInv, TypeOK, Working, JobType
  <2>2. TypeDisk
    BY DEF IInv, TypeOK
  <2>3. CASE UNCHANGED disk
    BY <2>2, <2>3 DEF ReplaceLatest, TypeDisk, disk
  <2>4. CASE ~UNCHANGED disk
    <3> DEFINE g == groupOf[task[t].session]
    <3>1. /\ latest' = [latest EXCEPT ![g] = temp[g]]
          /\ temp' = [temp EXCEPT ![g] = None]
          /\ archive' = IF task[t].snap.status \in Final
                        THEN [archive EXCEPT ![task[t].session] = task[t].snap] ELSE archive
          /\ restarts' = restarts
      BY <2>4 DEF ReplaceLatest
    <3>2. QED
      BY <2>1, <2>2, <3>1 DEF TypeDisk
  <2>5. QED
    BY <2>3, <2>4
<1>4. QED
  BY <1>2, <1>3, AssembleType DEF IInv

\* A write is given up.
LEMMA PersistFailsStep ==
  ASSUME IInv, NEW t \in Tasks, PersistFails(t)
  PROVE  IInv'
<1>1. /\ Working(t) /\ task[t].pc \notin {"start", "exec"} /\ Resume(t)
      /\ UNCHANGED <<tables, rec, hist, seen, box, outq>>
  BY DEF PersistFails
<1>2. /\ TypeTables' /\ TypeRecords' /\ TypeShell' /\ conn' \in [Conns -> ConnType]
      /\ JobsOK(task') /\ TimerIsExpiry' /\ WindowHasTimer'
  BY <1>1, ResumeOK
<1>3. TypeDisk'
  BY DEF PersistFails, IInv, TypeOK, TypeDisk, disk
<1>4. QED
  BY <1>2, <1>3, AssembleType DEF IInv

\* Steps of an endpoint that change nothing but its connection.
LEMMA SocketStep ==
  ASSUME IInv, NEW c \in Conns, AcceptSocket(c) \/ HandshakeFails(c) \/ Disconnect(c)
  PROVE  IInv'
<1> USE DEF IInv
<1>1. UNCHANGED <<tables, rec, hist, seen, shell, outq, timer, task, disk, restarts>>
  BY DEF AcceptSocket, HandshakeFails, Disconnect
<1>2. TypeTables' /\ TypeRecords' /\ TypeShell' /\ TypeDisk'
  BY <1>1 DEF TypeOK, TypeTables, TypeRecords, TypeShell, TypeDisk, tables, shell, disk
<1>3. JobsOK(task') /\ TimerIsExpiry' /\ WindowHasTimer'
  BY <1>1, TypeJobs DEF JobsOK, TimerIsExpiry, ExpiryOf, WindowHasTimer, tables
<1>4. conn' \in [Conns -> ConnType]
  <2>1. conn[c] \in ConnType
    BY DEF TypeOK
  <2>2. [conn[c] EXCEPT !.pc = "open"] \in ConnType /\ [conn[c] EXCEPT !.pc = "leaving"] \in ConnType
    BY <2>1 DEF ConnType
  <2>3. QED
    BY <2>2, Records DEF AcceptSocket, HandshakeFails, Disconnect, TypeOK
<1>5. QED
  BY <1>2, <1>3, <1>4, AssembleType

\* A restart recovers what latest.json holds, without deadlines.
LEMMA RestartStep ==
  ASSUME IInv, Restart
  PROVE  IInv'
<1> USE DEF IInv, RecoveredIds
<1> DEFINE back == {g \in Groups : Recovered(g)}
           ids == {latest[g].session : g \in back}
           pick(s) == CHOOSE g \in back : latest[g].session = s
           snap(s) == latest[pick(s)]
<1>1. \A g \in back : g \in Groups /\ latest[g] \in SnapType
  BY DEF Recovered, TypeOK, TypeDisk
<1>2. \A g \in back : latest[g].session \in Sessions
  BY <1>1 DEF SnapType
<1>3. ids \subseteq Sessions
  BY <1>2
<1>4. ASSUME NEW s \in ids
      PROVE  /\ snap(s).output \in Seq(Nat) /\ snap(s).truncated \in BOOLEAN
             /\ snap(s).output # <<>> => snap(s).output[Len(snap(s).output)] \in Nat
  <2>1. pick(s) \in back
    OBVIOUS
  <2>2. snap(s) \in SnapType
    BY <1>1, <2>1
  <2>3. snap(s).output \in Seq(Nat) /\ snap(s).truncated \in BOOLEAN
    BY <2>2 DEF SnapType
  <2> HIDE DEF snap
  <2>4. snap(s).output # <<>> => Len(snap(s).output) \in 1..Len(snap(s).output)
    BY <2>3, EmptySeq, LenProperties
  <2>5. QED
    BY <2>3, <2>4, ElementOfSeq
<1>5. TypeTables'
  BY <1>2, <1>3 DEF Restart, TypeOK, TypeTables
<1>6. TypeRecords'
  <2>1. rec' \in [Sessions -> RecordType]
    BY Records DEF Restart, TypeOK, TypeRecords
  <2>2. hist' \in [Sessions -> HistoryType]
    <3>1. hist' = [s \in Sessions |->
                     IF s \in ids THEN [head |-> snap(s).output, tail |-> <<>>,
                                        truncated |-> snap(s).truncated]
                     ELSE NoHistory]
      BY DEF Restart
    <3>2. NoHistory \in HistoryType
      BY DEF NoHistory, HistoryType
    <3> HIDE DEF snap, ids
    <3>3. \A s \in ids : [head |-> snap(s).output, tail |-> <<>>, truncated |-> snap(s).truncated]
                           \in HistoryType
      BY <1>4 DEF HistoryType
    <3>4. QED
      BY <3>1, <3>2, <3>3
  <2>3. seen' \in [Sessions -> Nat]
    <3>1. seen' = [s \in Sessions |->
                     IF s \in ids /\ snap(s).output # <<>>
                     THEN snap(s).output[Len(snap(s).output)] ELSE 0]
      BY DEF Restart
    <3> HIDE DEF snap, ids
    <3>2. QED
      BY <1>4, <3>1
  <2>4. outq' \in [Sessions -> Conns \cup {None}] /\ timer' \in [Sessions -> Tasks \cup {None, "asleep"}]
    BY DEF Restart
  <2>5. QED
    BY <2>1, <2>2, <2>3, <2>4 DEF TypeRecords
<1>7. TypeShell'
  BY Records DEF Restart, TypeOK, TypeShell
<1>8. TypeDisk'
  BY DEF Restart, TypeOK, TypeDisk, disk
<1>9. conn' \in [Conns -> ConnType]
  BY Records DEF Restart, TypeOK
<1>10. JobsOK(task')
  BY DEF Restart, JobsOK
<1>11. TimerIsExpiry'
  BY TerminalAssumption DEF Restart, TimerIsExpiry
<1>12. WindowHasTimer'
  <2>1. \A s \in byId' : s \in Sessions /\ rec'[s] = [status |-> "detached", timed |-> FALSE]
    BY <1>3 DEF Restart
  <2>2. QED
    BY <2>1 DEF WindowHasTimer
<1>13. QED
  BY <1>5, <1>6, <1>7, <1>8, <1>9, <1>10, <1>11, <1>12, AssembleType

-----------------------------------------------------------------------------
(***************************************************************************)
(* The theorems.                                                           *)
(***************************************************************************)

\* Every step of the system keeps the inductive invariant.
LEMMA NextStep ==
  ASSUME IInv, [Next]_vars
  PROVE  IInv'
<1>1. ASSUME NEW t \in Tasks, JobStep(t) PROVE IInv'
  BY <1>1, RunContainerStep, RunContainerFailsStep, ExecStartsStep, ExecFailsStep, KillWaitedStep,
     ReadersGoneStep, WriteTempStep, ReplaceLatestStep, PersistFailsStep DEF JobStep
<1>2. CASE UNCHANGED vars
  <2>1. TypeTables' /\ TypeRecords' /\ TypeShell' /\ TypeDisk' /\ conn' \in [Conns -> ConnType]
    BY <1>2 DEF vars, tables, shell, disk, IInv, TypeOK, TypeTables, TypeRecords, TypeShell, TypeDisk
  <2>2. UNCHANGED <<byId, rec, timer, task>>
    BY <1>2 DEF vars, tables
  <2>3. JobsOK(task') /\ TimerIsExpiry' /\ WindowHasTimer'
    BY <2>2, TypeJobs DEF JobsOK, IInv, TimerIsExpiry, ExpiryOf, WindowHasTimer
  <2>4. QED
    BY <2>1, <2>3, AssembleType DEF IInv
<1>3. CASE \E g \in Groups, s \in Sessions, t \in Tasks : CreateSession(g, s, t)
  BY <1>3, CreateStep
<1>4. CASE \E c \in Conns, s \in Sessions, t \in Tasks : AttachSession(c, s, t)
  BY <1>4, AttachStep
<1>5. CASE \E g \in Groups, t \in Tasks : CloseSessionByGroup(g, t)
  BY <1>5, CloseByGroupStep
<1>6. CASE \E s \in Sessions, t \in Tasks : ExpireDetachedSession(s, t)
  BY <1>6, ExpireStep
<1>7. CASE \E s \in Sessions, t \in Tasks : HandleOutput(s, t) \/ HandleExit(s, t)
  BY <1>7, HandleOutputStep, HandleExitStep
<1>8. CASE \E s \in Sessions : ProcessExits(s) \/ ReadEof(s)
  BY <1>8, BridgeStep
<1>9. CASE \E c \in Conns : AcceptSocket(c) \/ HandshakeFails(c) \/ Disconnect(c)
  BY <1>9, SocketStep
<1>10. CASE \E c \in Conns, t \in Tasks : Leave(c, t) \/ CloseMessage(c, t)
  BY <1>10, LeaveStep, CloseMessageStep
<1>11. CASE Restart
  BY <1>11, RestartStep
<1>12. QED
  BY <1>1, <1>2, <1>3, <1>4, <1>5, <1>6, <1>7, <1>8, <1>9, <1>10, <1>11 DEF Next

\* The inductive invariant holds in every reachable state.
THEOREM Invariance == Spec => []IInv
<1>1. Init => IInv
  BY InitIInv
<1>2. IInv /\ [Next]_vars => IInv'
  BY NextStep
<1>3. QED
  BY <1>1, <1>2, PTL DEF Spec

\* Type correctness, with the fact that no handler reaches the write of its snapshot
\* without one (_persist_history_snapshot_best_effort is never called with nothing).
THEOREM TypeCorrect == Spec => []TypeOK
<1>1. IInv => TypeOK
  BY DEF IInv
<1>2. QED
  BY <1>1, Invariance, PTL

\* A session with a reconnect deadline is detached and its timer runs, whatever
\* attach, detach, exit, expiry, close and restart do in whatever order.
THEOREM WindowTimed == Spec => []WindowHasTimer
<1>1. IInv => WindowHasTimer
  BY DEF IInv
<1>2. QED
  BY <1>1, Invariance, PTL

-----------------------------------------------------------------------------
\* Every job is about a session that was created, and every snapshot, held by a
\* job or on disk, is filed under the session and the workspace it was taken of.
Named ==
  /\ \A t \in Tasks : Working(t) =>
       /\ groupOf[task[t].session] # None
       /\ task[t].snap # None => task[t].snap.session = task[t].session
  /\ \A g \in Groups : /\ temp[g] # None => groupOf[temp[g].session] = g
                       /\ latest[g] # None => groupOf[latest[g].session] = g

\* Job j is on its way through bridge.start().
Starting(j) == j # None /\ j.pc \in {"start", "exec"}

\* A bridge that is being started is the one the session remembers: a client
\* that attaches meanwhile does not make another.
StartedBridges ==
  \A t \in Tasks : Starting(task[t]) => /\ task[t].kind \in {"create", "attach"}
                                       /\ bridge[task[t].session].object

\* Job j will tell its connection how it ended.
Reports(j) == j # None /\ j.conn # None /\ j.kind \in {"attach", "failed", "close"}

\* Such a job is the only one of its connection, which waits for it; and once
\* the session is closed its output no longer goes there.
Clients ==
  /\ \A t \in Tasks : Reports(task[t]) =>
       /\ conn[task[t].conn].session = task[t].session
       /\ conn[task[t].conn].pc = IF task[t].kind = "close" THEN "closing" ELSE "attaching"
       /\ task[t].kind # "attach" => outq[task[t].session] # task[t].conn
  /\ \A t, u \in Tasks : Reports(task[t]) /\ Reports(task[u]) /\ t # u => task[t].conn # task[u].conn

\* q is the end of an output of n chunks, complete unless tr says otherwise.
SuffixOf(q, n, tr) ==
  /\ Len(q) <= MaxHistory /\ Len(q) <= n
  /\ Len(q) = 0 => n = 0
  /\ \A i \in 1..Len(q) : q[i] = n - Len(q) + i
  /\ tr <=> Len(q) < n

\* The number of the last chunk in q.
LastOf(q) == IF q = <<>> THEN 0 ELSE q[Len(q)]

\* The output in a snapshot is such a suffix, so that recovery from it is.
SnapshotSound(snap) == snap # None => SuffixOf(snap.output, LastOf(snap.output), snap.truncated)

Histories ==
  /\ \A s \in Sessions : SuffixOf(Output(hist[s]), seen[s], hist[s].truncated)
  /\ \A t \in Tasks : Working(t) => SnapshotSound(task[t].snap)
  /\ \A g \in Groups : SnapshotSound(temp[g]) /\ SnapshotSound(latest[g])

-----------------------------------------------------------------------------
(***************************************************************************)
(* What a step does to the jobs of other handlers: nothing, or it ends     *)
(* them, or only the thread that writes their snapshot goes on.            *)
(***************************************************************************)
Derived(k, j) ==
  \/ k = None
  \/ j # None /\ k = j
  \/ j # None /\ j.kind \in {"expire", "output", "exit"} /\ k = [j EXCEPT !.kind = "thread"]

OthersDerived(f, t) == \A u \in Tasks \ {t} : Derived(f[u], task[u])

\* A job that comes of job j is about the same session and connection, and has the
\* same snapshot and program counter.
LEMMA DerivedJob ==
  ASSUME NEW j \in JobType \cup {None}, NEW k, Derived(k, j), k # None
  PROVE  /\ j \in JobType /\ j # None
         /\ k.session = j.session /\ k.conn = j.conn /\ k.snap = j.snap /\ k.pc = j.pc
         /\ k.kind = j.kind \/ (k.kind = "thread" /\ j.kind \in {"expire", "output", "exit"})
         /\ Starting(k) <=> Starting(j)
<1>1. j \in JobType /\ j # None
  BY DEF Derived
<1>2. CASE k = j
  BY <1>1, <1>2 DEF Starting
<1>3. CASE j.kind \in {"expire", "output", "exit"} /\ k = [j EXCEPT !.kind = "thread"]
  <2>1. /\ k.session = j.session /\ k.conn = j.conn /\ k.snap = j.snap /\ k.pc = j.pc
        /\ k.kind = "thread"
    BY <1>1, <1>3 DEF JobType
  <2>2. QED
    BY <1>1, <1>3, <2>1 DEF Starting
<1>4. QED
  BY <1>2, <1>3 DEF Derived

\* _cancel_reconnect_task ends an expiry or leaves its thread.
LEMMA CancelReconnectDerives ==
  ASSUME IInv, NEW s \in Sessions, NEW u \in Tasks
  PROVE  Derived(CancelReconnectTask(task, s)[u], task[u])
<1> DEFINE f == CancelReconnectTask(task, s)
<1>1. task \in [Tasks -> JobType \cup {None}]
  BY DEF IInv, TypeOK
<1>2. CASE f = task
  BY <1>2 DEF Derived
<1>3. CASE timer[s] \in Tasks /\ f = [task EXCEPT ![timer[s]] = None]
  BY <1>1, <1>3 DEF Derived
<1>4. CASE timer[s] \in Tasks /\ f = [task EXCEPT ![timer[s]].kind = "thread"]
  <2>1. task[timer[s]] # None /\ task[timer[s]].kind = "expire"
    BY <1>4 DEF IInv, TimerIsExpiry, ExpiryOf
  <2>2. CASE u = timer[s]
    BY <1>1, <1>4, <2>1, <2>2 DEF Derived
  <2>3. CASE u # timer[s]
    BY <1>1, <1>4, <2>3 DEF Derived
  <2>4. QED
    BY <2>2, <2>3
<1>5. QED
  BY <1>2, <1>3, <1>4 DEF CancelReconnectTask

\* Cancelling the reader tasks leaves the threads of their handlers.
LEMMA CancelReadersDerives ==
  ASSUME JobsOK(task), NEW f, NEW s, NEW u \in Tasks, Derived(f[u], task[u])
  PROVE  Derived(CancelReaders(f, s)[u], task[u])
<1> DEFINE k == f[u]
           m == CancelReaders(f, s)[u]
<1>1. \/ m = k
      \/ k # None /\ k.kind \in {"output", "exit"} /\ m = [k EXCEPT !.kind = "thread"]
  BY DEF CancelReaders
<1>2. task[u] \in JobType \cup {None} /\ Derived(k, task[u])
  BY DEF JobsOK
<1>3. Derived(m, task[u])
  <2> HIDE DEF m, k
  <2>1. CASE m = k
    BY <1>2, <2>1
  <2>2. CASE k # None /\ k.kind \in {"output", "exit"} /\ m = [k EXCEPT !.kind = "thread"]
    <3>1. task[u] # None /\ (k.kind = task[u].kind \/ k.kind = "thread")
      BY <1>2, <2>2, DerivedJob
    <3>2. k = task[u]
      BY <1>2, <2>2, <3>1 DEF Derived, JobType
    <3>3. QED
      BY <2>2, <3>1, <3>2 DEF Derived
  <2>3. QED
    BY <1>1, <2>1, <2>2
<1>4. QED
  BY <1>3

\* Putting a job in place t.
LEMMA PutDerives ==
  ASSUME NEW f, DOMAIN f = Tasks, NEW t \in Tasks, NEW j, OthersDerived(f, t)
  PROVE  /\ [f EXCEPT ![t] = j][t] = j
         /\ OthersDerived([f EXCEPT ![t] = j], t)
  BY DEF OthersDerived

\* Bridges are neither made, started nor forgotten.
BridgesKept ==
  \A x \in Sessions : /\ bridge'[x].object = bridge[x].object
                      /\ bridge'[x].handle => bridge[x].handle

\* bridge.close() moves the job that called it and leaves the bridge object.
LEMMA StopReadersMoves ==
  ASSUME JobsOK(task), TypeShell, NEW f, DOMAIN f = Tasks, NEW t \in Tasks, OthersDerived(f, t),
         NEW j \in JobType, StopReaders(f, t, j)
  PROVE  /\ \E pc \in {"kill", "drain", "temp"} : task'[t] = [j EXCEPT !.pc = pc]
         /\ OthersDerived(task', t)
         /\ BridgesKept
<1>1. j.session \in Sessions
  BY DEF JobType
<1>2. /\ DOMAIN CancelReaders(f, j.session) = Tasks
      /\ OthersDerived(CancelReaders(f, j.session), t)
  <2>1. DOMAIN CancelReaders(f, j.session) = Tasks
    BY DEF CancelReaders
  <2>2. ASSUME NEW u \in Tasks \ {t} PROVE Derived(CancelReaders(f, j.session)[u], task[u])
    BY CancelReadersDerives DEF OthersDerived
  <2>3. QED
    BY <2>1, <2>2 DEF OthersDerived
<1>3. BridgesKept
  BY <1>1 DEF StopReaders, BridgesKept, TypeShell, BridgeType
<1>4. CASE task' = [CancelReaders(f, j.session) EXCEPT ![t] = [j EXCEPT !.pc = "drain"]]
  BY <1>2, <1>3, <1>4, PutDerives
<1>5. CASE task' = [f EXCEPT ![t] = [j EXCEPT !.pc = "temp"]]
  BY <1>3, <1>5, PutDerives
<1>6. QED
  BY <1>4, <1>5 DEF StopReaders

\* Closing a bridge makes the job of the task that does it go on with the kill, the
\* drain or the save.
LEMMA CloseBridgeMoves ==
  ASSUME JobsOK(task), TypeShell, NEW f, DOMAIN f = Tasks, NEW t \in Tasks, OthersDerived(f, t),
         NEW j \in JobType, CloseBridge(f, t, j)
  PROVE  /\ \E pc \in {"kill", "drain", "temp"} : task'[t] = [j EXCEPT !.pc = pc]
         /\ OthersDerived(task', t)
         /\ BridgesKept
<1>1. j.session \in Sessions
  BY DEF JobType
<1>2. CASE StopReaders(f, t, j)
  BY <1>2, StopReadersMoves
<1>3. CASE task' = [f EXCEPT ![t] = [j EXCEPT !.pc = "temp"]] /\ UNCHANGED shell
  <2>1. BridgesKept
    BY <1>3 DEF BridgesKept, shell
  <2>2. QED
    BY <1>3, <2>1, PutDerives
<1>4. CASE /\ bridge' = [bridge EXCEPT ![j.session].handle = FALSE]
           /\ task' = [f EXCEPT ![t] = [j EXCEPT !.pc = "kill"]]
  <2>1. BridgesKept
    BY <1>1, <1>4 DEF BridgesKept, TypeShell, BridgeType
  <2>2. QED
    BY <1>4, <2>1, PutDerives
<1>5. QED
  BY <1>2, <1>3, <1>4 DEF CloseBridge

-----------------------------------------------------------------------------
(***************************************************************************)
(* The job that a step starts or moves.                                    *)
(***************************************************************************)
IsJob(k, kind, s, snap, c) ==
  k # None /\ k.kind = kind /\ k.session = s /\ k.snap = snap /\ k.conn = c

\* The snapshot that a handler builds at the end of its critical section.
Fresh(s) == BuildHistorySnapshot(s, rec'[s], hist'[s])

\* What a well-typed state says of the jobs and the shell.
LEMMA Typed ==
  ASSUME IInv
  PROVE  /\ JobsOK(task) /\ TypeShell /\ DOMAIN task = Tasks
         /\ byId \subseteq Sessions
         /\ \A g \in Groups : byGroup[g] \in Sessions \cup {None}
         /\ \A s \in Sessions : rec[s] \in RecordType /\ hist[s] \in HistoryType
         /\ \A t \in Tasks : OthersDerived(task, t)
<1>1. JobsOK(task)
  BY TypeJobs DEF IInv
<1>2. DOMAIN task = Tasks
  BY <1>1 DEF JobsOK
<1>3. \A t \in Tasks : OthersDerived(task, t)
  BY DEF OthersDerived, Derived
<1>4. QED
  BY <1>1, <1>2, <1>3 DEF IInv, TypeOK, TypeTables, TypeRecords

\* The fields of a new job, wherever it has got to.
LEMMA JobFields ==
  ASSUME NEW kind \in {"create", "attach", "failed", "detach", "close", "expire",
                       "output", "exit", "thread"},
         NEW s \in Sessions, NEW snap \in SnapType \cup {None}, NEW c \in Conns \cup {None},
         NEW pc \in {"start", "exec", "kill", "drain", "temp", "replace"}
  PROVE  IsJob(Job(kind, s, pc, snap, c), kind, s, snap, c) /\ Job(kind, s, pc, snap, c).pc = pc
<1> DEFINE j == Job(kind, s, pc, snap, c)
<1>1. j \in JobType
  BY NewJob
<1>2. j.kind = kind /\ j.session = s /\ j.snap = snap /\ j.conn = c /\ j.pc = pc
  BY DEF Job
<1>3. j # None
  BY <1>1, TerminalAssumption
<1>4. QED
  BY <1>2, <1>3 DEF IsJob

\* The same once it has moved on.
LEMMA MovedJob ==
  ASSUME NEW j \in JobType, NEW pc \in {"start", "exec", "kill", "drain", "temp", "replace"}
  PROVE  /\ IsJob([j EXCEPT !.pc = pc], j.kind, j.session, j.snap, j.conn)
         /\ [j EXCEPT !.pc = pc].pc = pc
<1>1. [j EXCEPT !.pc = pc] \in JobType
  BY DEF JobType
<1>2. [j EXCEPT !.pc = pc] # None
  BY <1>1, TerminalAssumption
<1>3. QED
  BY <1>2 DEF IsJob, JobType

\* create_session leaves its task a job that starts the bridge.
LEMMA CreateJobs ==
  ASSUME IInv, NEW g \in Groups, NEW s \in Sessions, NEW t \in Tasks, CreateSession(g, s, t)
  PROVE  /\ IsJob(task'[t], "create", s, None, None) /\ task'[t].pc = "start"
         /\ OthersDerived(task', t)
<1> DEFINE old == byGroup[g]
           f == IF old = None THEN task ELSE CancelReconnectTask(task, old)
           j == Job("create", s, "start", None, None)
<1>1. task' = [f EXCEPT ![t] = j]
  BY DEF CreateSession
<1>2. DOMAIN f = Tasks /\ OthersDerived(f, t)
  <2>1. CASE old = None
    BY <2>1, Typed
  <2>2. CASE old # None
    <3>1. old \in Sessions
      BY <2>2, Typed
    <3>2. DOMAIN f = Tasks
      BY <2>2, <3>1, CancelReconnectJobs DEF IInv, JobsOK
    <3>3. OthersDerived(f, t)
      BY <2>2, <3>1, CancelReconnectDerives DEF OthersDerived
    <3>4. QED
      BY <3>2, <3>3
  <2>3. QED
    BY <2>1, <2>2
<1>3. IsJob(j, "create", s, None, None) /\ j.pc = "start"
  BY JobFields
<1> HIDE DEF f, j
<1>4. QED
  BY <1>1, <1>2, <1>3, PutDerives

\* A handler that cancels the timer of s and puts its own job in place t.
LEMMA CancelAndPutJobs ==
  ASSUME IInv, NEW s \in Sessions, NEW t \in Tasks, NEW j,
         task' = [CancelReconnectTask(task, s) EXCEPT ![t] = j]
  PROVE  task'[t] = j /\ OthersDerived(task', t)
<1> DEFINE f == CancelReconnectTask(task, s)
<1>1. DOMAIN f = Tasks
  BY CancelReconnectJobs DEF IInv, JobsOK
<1>2. OthersDerived(f, t)
  BY CancelReconnectDerives DEF OthersDerived
<1>3. task' = [f EXCEPT ![t] = j]
  OBVIOUS
<1> HIDE DEF f
<1>4. QED
  BY ONLY <1>1, <1>2, <1>3, t \in Tasks, PutDerives

\* attach leaves its task a job for the client it has attached.
LEMMA AttachJobs ==
  ASSUME IInv, NEW c \in Conns, NEW s \in Sessions, NEW t \in Tasks, AttachSession(c, s, t)
  PROVE  /\ IsJob(task'[t], "attach", s, Fresh(s), c)
         /\ task'[t].pc = IF bridge[s].object THEN "temp" ELSE "start"
         /\ OthersDerived(task', t)
<1> DEFINE r == [status |-> "attached", timed |-> FALSE]
           pc == IF bridge[s].object THEN "temp" ELSE "start"
           b == BuildHistorySnapshot(s, r, hist[s])
           j == Job("attach", s, pc, b, c)
<1>1. rec'[s] = r /\ hist' = hist
  BY DEF AttachSession, IInv, TypeOK, TypeRecords
<1>2. b = Fresh(s)
  BY <1>1 DEF Fresh
<1>3. b \in SnapType
  BY Typed, Records, SnapshotType
<1>4. task' = [CancelReconnectTask(task, s) EXCEPT ![t] = j]
  BY DEF AttachSession
<1>5. pc \in {"start", "exec", "kill", "drain", "temp", "replace"}
  OBVIOUS
<1> HIDE DEF b, pc
<1>6. IsJob(j, "attach", s, b, c) /\ j.pc = pc
  BY <1>3, <1>5, JobFields
<1> HIDE DEF j
<1>7. task'[t] = j /\ OthersDerived(task', t)
  BY <1>4, CancelAndPutJobs
<1>8. QED
  BY <1>2, <1>6, <1>7 DEF pc

\* detach leaves its task a job that saves the detached session.
LEMMA DetachJobs ==
  ASSUME IInv, NEW s \in Sessions, NEW t \in Tasks, DetachSession(s, t), UNCHANGED hist
  PROVE  /\ IsJob(task'[t], "detach", s, Fresh(s), None) /\ task'[t].pc = "temp"
         /\ OthersDerived(task', t)
<1> DEFINE r == [status |-> "detached", timed |-> TRUE]
           b == BuildHistorySnapshot(s, r, hist[s])
           j == Job("detach", s, "temp", b, None)
<1>1. rec'[s] = r
  BY DEF DetachSession, IInv, TypeOK, TypeRecords
<1>2. b = Fresh(s)
  BY <1>1 DEF Fresh
<1>3. b \in SnapType
  BY Typed, Records, SnapshotType
<1>4. task' = [CancelReconnectTask(task, s) EXCEPT ![t] = j]
  BY DEF DetachSession
<1> HIDE DEF b
<1>6. IsJob(j, "detach", s, b, None) /\ j.pc = "temp"
  BY <1>3, JobFields
<1> HIDE DEF j
<1>7. task'[t] = j /\ OthersDerived(task', t)
  BY <1>4, CancelAndPutJobs
<1>8. QED
  BY <1>2, <1>6, <1>7

\* close leaves its task a job that ends the bridge it has taken.
LEMMA CloseJobs ==
  ASSUME IInv, NEW s \in Sessions, NEW t \in Tasks, NEW c \in Conns \cup {None},
         CloseSession(s, t, c), UNCHANGED hist
  PROVE  /\ IsJob(task'[t], "close", s, Fresh(s), c) /\ task'[t].pc \in {"kill", "drain", "temp"}
         /\ OthersDerived(task', t)
         /\ BridgesKept
<1> DEFINE r == [status |-> "closed", timed |-> FALSE]
           b == BuildHistorySnapshot(s, r, hist[s])
           j == Job("close", s, "kill", b, c)
           f == CancelReconnectTask(task, s)
<1>1. rec'[s] = r
  BY DEF CloseSession, IInv, TypeOK, TypeRecords
<1>2. b = Fresh(s)
  BY <1>1 DEF Fresh
<1>3. b \in SnapType
  BY Typed, Records, SnapshotType
<1>4. CloseBridge(f, t, j)
  BY DEF CloseSession
<1>5. DOMAIN f = Tasks /\ OthersDerived(f, t)
  BY CancelReconnectJobs, CancelReconnectDerives DEF IInv, JobsOK, OthersDerived
<1> HIDE DEF b, f
<1>6. j \in JobType
  BY <1>3, NewJob
<1>7. j.kind = "close" /\ j.session = s /\ j.snap = b /\ j.conn = c
  BY DEF Job
<1> HIDE DEF j
<1>8. /\ \E p \in {"kill", "drain", "temp"} : task'[t] = [j EXCEPT !.pc = p]
      /\ OthersDerived(task', t) /\ BridgesKept
  BY <1>4, <1>5, <1>6, Typed, CloseBridgeMoves
<1>9. PICK p \in {"kill", "drain", "temp"} : task'[t] = [j EXCEPT !.pc = p]
  BY <1>8
<1>10. IsJob([j EXCEPT !.pc = p], "close", s, b, c) /\ [j EXCEPT !.pc = p].pc = p
  BY <1>6, <1>7, MovedJob
<1>11. QED
  BY <1>2, <1>8, <1>9, <1>10

\* An expiry whose window is not due leaves the jobs alone.
LEMMA ExpireJobs ==
  ASSUME IInv, NEW s \in Sessions, NEW t \in Tasks, ExpireDetachedSession(s, t)
  PROVE  /\ \/ /\ s \in byId /\ IsJob(task'[t], "expire", s, Fresh(s), None)
               /\ task'[t].pc \in {"kill", "drain", "temp"}
            \/ task' = task
         /\ OthersDerived(task', t)
         /\ BridgesKept
<1>1. CASE ~WindowDue(s)
  <2>1. task' = task /\ bridge' = bridge
    BY <1>1 DEF ExpireDetachedSession, shell
  <2>2. QED
    BY <2>1, Typed DEF BridgesKept
<1>2. CASE WindowDue(s)
  <2> DEFINE r == [status |-> "closed", timed |-> FALSE]
             b == BuildHistorySnapshot(s, r, hist[s])
             j == Job("expire", s, "kill", b, None)
  <2>1. rec'[s] = r /\ hist' = hist
    BY <1>2 DEF ExpireDetachedSession, IInv, TypeOK, TypeRecords
  <2>2. b = Fresh(s)
    BY <2>1 DEF Fresh
  <2>3. b \in SnapType
    BY Typed, Records, SnapshotType
  <2>4. CloseBridge(task, t, j) /\ s \in byId
    BY <1>2 DEF ExpireDetachedSession, WindowDue
  <2> HIDE DEF b
  <2>6. j \in JobType
    BY <2>3, NewJob
  <2>7. j.kind = "expire" /\ j.session = s /\ j.snap = b /\ j.conn = None
    BY DEF Job
  <2> HIDE DEF j
  <2>8. /\ \E p \in {"kill", "drain", "temp"} : task'[t] = [j EXCEPT !.pc = p]
        /\ OthersDerived(task', t) /\ BridgesKept
    BY <2>4, <2>6, Typed, CloseBridgeMoves
  <2>9. PICK p \in {"kill", "drain", "temp"} : task'[t] = [j EXCEPT !.pc = p]
    BY <2>8
  <2>10. IsJob([j EXCEPT !.pc = p], "expire", s, b, None) /\ [j EXCEPT !.pc = p].pc = p
    BY <2>6, <2>7, MovedJob
  <2>11. QED
    BY <2>2, <2>4, <2>8, <2>9, <2>10
<1>3. QED
  BY <1>1, <1>2

\* A handled output leaves its task a job for the client of the session then.
LEMMA OutputJobs ==
  ASSUME IInv, NEW s \in Sessions, NEW t \in Tasks, HandleOutput(s, t)
  PROVE  /\ IsJob(task'[t], "output", s, Fresh(s), outq[s]) /\ task'[t].pc = "temp"
         /\ OthersDerived(task', t)
<1> DEFINE n == seen[s] + 1
           h == AppendOutputHistory(hist[s], n)
           b == BuildHistorySnapshot(s, rec[s], h)
           j == Job("output", s, "temp", b, outq[s])
<1>1. n \in Nat /\ outq[s] \in Conns \cup {None}
  BY DEF IInv, TypeOK, TypeRecords
<1>2. h \in HistoryType
  BY <1>1, Typed, AppendType
<1>3. b \in SnapType
  BY <1>2, Typed, SnapshotType
<1>4. rec' = rec /\ hist'[s] = h
  BY DEF HandleOutput, IInv, TypeOK, TypeRecords
<1>5. b = Fresh(s)
  BY <1>4 DEF Fresh
<1>6. task' = [task EXCEPT ![t] = [j EXCEPT !.item = n]]
  BY DEF HandleOutput
<1> HIDE DEF n, b
<1>7. j \in JobType /\ IsJob(j, "output", s, b, outq[s]) /\ j.pc = "temp"
  BY <1>1, <1>3, NewJob, JobFields
<1> HIDE DEF j
<1>8. [j EXCEPT !.item = n] \in JobType
  BY <1>1, <1>7 DEF JobType
<1>9. IsJob([j EXCEPT !.item = n], "output", s, b, outq[s]) /\ [j EXCEPT !.item = n].pc = "temp"
  BY <1>7, <1>8, TerminalAssumption DEF IsJob, JobType
<1>10. QED
  BY <1>5, <1>6, <1>9, Typed, PutDerives

\* A handled exit leaves a job only if the session is in the table.
LEMMA ExitJobs ==
  ASSUME IInv, NEW s \in Sessions, NEW t \in Tasks, HandleExit(s, t)
  PROVE  /\ \/ s \in byId /\ IsJob(task'[t], "exit", s, Fresh(s), outq[s]) /\ task'[t].pc = "temp"
            \/ task' = task
         /\ OthersDerived(task', t)
<1>1. CASE s \notin byId
  BY <1>1, Typed DEF HandleExit
<1>2. CASE s \in byId
  <2> DEFINE r == [status |-> "exited", timed |-> FALSE]
             b == BuildHistorySnapshot(s, r, hist[s])
             j == Job("exit", s, "temp", b, outq[s])
  <2>1. rec'[s] = r /\ hist' = hist /\ outq[s] \in Conns \cup {None}
    BY <1>2 DEF HandleExit, IInv, TypeOK, TypeRecords
  <2>2. b = Fresh(s)
    BY <2>1 DEF Fresh
  <2>3. b \in SnapType
    BY Typed, Records, SnapshotType
  <2>4. task' = [CancelReconnectTask(task, s) EXCEPT ![t] = j]
    BY <1>2 DEF HandleExit
  <2> HIDE DEF b
  <2>6. IsJob(j, "exit", s, b, outq[s]) /\ j.pc = "temp"
    BY <2>1, <2>3, JobFields
  <2> HIDE DEF j
  <2>7. task'[t] = j /\ OthersDerived(task', t)
    BY <2>4, CancelAndPutJobs
  <2>8. QED
    BY <1>2, <2>2, <2>6, <2>7
<1>3. QED
  BY <1>1, <1>2

\* A step of job t moves it, ends it, or gives it another snapshot.
LEMMA JobStepJobs ==
  ASSUME IInv, NEW t \in Tasks, JobStep(t)
  PROVE  /\ task[t] \in JobType /\ task[t] # None
         /\ OthersDerived(task', t)
         /\ \/ task'[t] = None
            \/ /\ IsJob(task'[t], task[t].kind, task[t].session, task[t].snap, task[t].conn)
               /\ Starting(task'[t]) => RunContainer(t)
            \/ /\ IsJob(task'[t], task[t].kind, task[t].session, Fresh(task[t].session), task[t].conn)
               /\ task[t].session \in byId /\ ~Starting(task'[t])
            \/ /\ IsJob(task'[t], "failed", task[t].session, Fresh(task[t].session), task[t].conn)
               /\ task[t].session \in byId /\ ~Starting(task'[t]) /\ task[t].kind = "attach"
<1> DEFINE j == task[t]
           s == j.session
<1>1. task[t] \in JobType /\ task[t] # None
  <2>1. task[t] # None
    BY DEF JobStep, RunContainer, RunContainerFails, ExecStarts, ExecFails, KillWaited,
           ReadersGone, WriteTemp, ReplaceLatest, PersistFails, Working
  <2>2. QED
    BY <2>1, Typed DEF JobsOK
<1>2. s \in Sessions /\ j.snap \in SnapType \cup {None} /\ j.conn \in Conns \cup {None}
  BY <1>1 DEF JobType
<1>3. DOMAIN task = Tasks /\ OthersDerived(task, t)
  BY Typed
<1>4. ASSUME NEW k, task' = [task EXCEPT ![t] = k]
      PROVE  task'[t] = k /\ OthersDerived(task', t)
  BY ONLY <1>3, <1>4, t \in Tasks, PutDerives
<1>5. ASSUME NEW pc \in {"exec", "kill", "drain", "temp", "replace"}, task' = [task EXCEPT ![t].pc = pc]
      PROVE  /\ OthersDerived(task', t)
             /\ IsJob(task'[t], j.kind, s, j.snap, j.conn) /\ task'[t].pc = pc
  <2>1. task' = [task EXCEPT ![t] = [task[t] EXCEPT !.pc = pc]]
    BY <1>3, <1>5
  <2>2. task'[t] = [j EXCEPT !.pc = pc] /\ OthersDerived(task', t)
    BY ONLY <2>1, <1>4
  <2>3. IsJob([j EXCEPT !.pc = pc], j.kind, s, j.snap, j.conn) /\ [j EXCEPT !.pc = pc].pc = pc
    BY ONLY <1>1, <1>5, pc \in {"exec", "kill", "drain", "temp", "replace"}, MovedJob
  <2>4. QED
    BY <2>2, <2>3
<1>6. CASE RunContainer(t)
  BY <1>1, <1>5, <1>6 DEF RunContainer
<1>7. CASE ReadersGone(t)
  BY <1>1, <1>5, <1>7 DEF ReadersGone, Starting
<1>8. CASE WriteTemp(t)
  BY <1>1, <1>5, <1>8 DEF WriteTemp, Starting
<1>9. CASE ReplaceLatest(t) \/ PersistFails(t)
  <2>1. task' = [task EXCEPT ![t] = None]
    BY <1>9 DEF ReplaceLatest, PersistFails, Resume
  <2>2. QED
    BY <1>1, <1>4, <2>1
<1>10. CASE KillWaited(t)
  <2>1. StopReaders(task, t, j)
    BY <1>10 DEF KillWaited
  <2>2. /\ \E pc \in {"kill", "drain", "temp"} : task'[t] = [j EXCEPT !.pc = pc]
        /\ OthersDerived(task', t)
    BY <1>1, <1>3, <2>1, Typed, StopReadersMoves
  <2>3. PICK pc \in {"kill", "drain", "temp"} : task'[t] = [j EXCEPT !.pc = pc]
    BY <2>2
  <2>4. IsJob([j EXCEPT !.pc = pc], j.kind, s, j.snap, j.conn) /\ [j EXCEPT !.pc = pc].pc = pc
    BY <1>1, MovedJob
  <2>5. QED
    BY <1>1, <2>2, <2>3, <2>4 DEF Starting
<1>11. CASE ExecStarts(t)
  <2> DEFINE b == CreatedSnapshot(s)
             k == IF j.kind = "attach" THEN [j EXCEPT !.pc = "temp"]
                  ELSE IF s \in byId THEN [j EXCEPT !.pc = "temp", !.snap = b] ELSE None
  <2>1. task' = [task EXCEPT ![t] = k] /\ rec' = rec /\ hist' = hist
    BY <1>11 DEF ExecStarts
  <2>2. b \in SnapType /\ b = Fresh(s)
    BY <1>2, <2>1, Typed, SnapshotType DEF CreatedSnapshot, Fresh
  <2>3. task'[t] = k /\ OthersDerived(task', t)
    BY <1>4, <2>1
  <2>4. CASE j.kind = "attach"
    <3>1. IsJob([j EXCEPT !.pc = "temp"], j.kind, s, j.snap, j.conn) /\ [j EXCEPT !.pc = "temp"].pc = "temp"
      BY <1>1, MovedJob
    <3>2. QED
      BY <1>1, <2>3, <2>4, <3>1 DEF Starting
  <2>5. CASE j.kind # "attach" /\ s \in byId
    <3> HIDE DEF b
    <3>1. [j EXCEPT !.pc = "temp", !.snap = b] \in JobType
      BY <1>1, <2>2 DEF JobType
    <3>2. [j EXCEPT !.pc = "temp", !.snap = b] # None
      BY <3>1, TerminalAssumption
    <3>3. /\ IsJob([j EXCEPT !.pc = "temp", !.snap = b], j.kind, s, b, j.conn)
          /\ [j EXCEPT !.pc = "temp", !.snap = b].pc = "temp"
      BY <1>1, <3>2 DEF IsJob, JobType
    <3>4. QED
      BY <1>1, <2>2, <2>3, <2>5, <3>3 DEF Starting
  <2>6. CASE j.kind # "attach" /\ s \notin byId
    BY <1>1, <2>3, <2>6
  <2>7. QED
    BY <2>4, <2>5, <2>6
<1>12. CASE RunContainerFails(t) \/ ExecFails(t)
  <2> DEFINE r == [status |-> "closed", timed |-> FALSE]
             cleanup == j.kind = "attach" /\ s \in byId
             b == BuildHistorySnapshot(s, r, hist[s])
             m == Job("failed", s, "temp", b, j.conn)
  <2>1. StartRaises(t)
    BY <1>12 DEF RunContainerFails, ExecFails
  <2>2. task' = [task EXCEPT ![t] = IF cleanup THEN m ELSE None]
    BY <2>1 DEF StartRaises
  <2>3. task'[t] = (IF cleanup THEN m ELSE None) /\ OthersDerived(task', t)
    BY <1>4, <2>2
  <2>4. CASE cleanup
    <3>1. rec'[s] = r /\ hist' = hist
      BY <1>2, <2>1, <2>4 DEF StartRaises, IInv, TypeOK, TypeRecords
    <3>2. b = Fresh(s)
      BY <3>1 DEF Fresh
    <3>3. b \in SnapType
      BY <1>2, Typed, Records, SnapshotType
    <3> HIDE DEF b
    <3>4. IsJob(m, "failed", s, b, j.conn) /\ m.pc = "temp"
      BY <1>2, <3>3, JobFields
    <3> HIDE DEF m
    <3>5. QED
      BY <1>1, <2>3, <2>4, <3>2, <3>4 DEF Starting
  <2>5. CASE ~cleanup
    BY <1>1, <2>3, <2>5
  <2>6. QED
    BY <2>4, <2>5
<1>13. QED
  BY <1>6, <1>7, <1>8, <1>9, <1>10, <1>11, <1>12 DEF JobStep

-----------------------------------------------------------------------------
(***************************************************************************)
(* Where the jobs of the next state come from.                             *)
(***************************************************************************)
Source(u) ==
  \/ task'[u] = None
  \/ /\ task[u] # None
     /\ task'[u].session = task[u].session /\ task'[u].snap = task[u].snap
  \/ /\ task'[u].session \in byId'
     /\ task'[u].snap \in {None, Fresh(task'[u].session)}

\* The jobs of the other tasks keep their sources.
LEMMA OthersSources ==
  ASSUME IInv, NEW t \in Tasks, OthersDerived(task', t), Source(t)
  PROVE  \A u \in Tasks : Source(u)
<1> SUFFICES ASSUME NEW u \in Tasks \ {t}, task'[u] # None PROVE Source(u)
  BY DEF Source
<1>1. task[u] \in JobType \cup {None} /\ Derived(task'[u], task[u])
  BY Typed DEF JobsOK, OthersDerived
<1>2. QED
  BY <1>1, DerivedJob DEF Source

\* A job of the next state is an old one, with its session and its snapshot, or is
\* about a session in the tables, whose present history it holds.
LEMMA Sources ==
  ASSUME IInv, TablesAgree, Next
  PROVE  \A u \in Tasks : Source(u)
<1>0. ASSUME UNCHANGED task PROVE \A u \in Tasks : Source(u)
  BY <1>0 DEF Source
<1>1. ASSUME NEW g \in Groups, NEW s \in Sessions, NEW t \in Tasks, CreateSession(g, s, t)
      PROVE  \A u \in Tasks : Source(u)
  <2>1. IsJob(task'[t], "create", s, None, None) /\ OthersDerived(task', t)
    BY <1>1, CreateJobs
  <2>2. s \in byId'
    BY <1>1 DEF CreateSession
  <2>3. Source(t)
    BY <2>1, <2>2 DEF Source, IsJob
  <2>4. QED
    BY <2>1, <2>3, OthersSources
<1>2. ASSUME NEW s \in Sessions, NEW t \in Tasks, NEW kind, NEW c, s \in byId',
             IsJob(task'[t], kind, s, Fresh(s), c), OthersDerived(task', t)
      PROVE  \A u \in Tasks : Source(u)
  <2>1. task'[t].session = s /\ task'[t].snap = Fresh(s)
    BY <1>2 DEF IsJob
  <2>2. Source(t)
    BY <1>2, <2>1 DEF Source
  <2>3. QED
    BY <1>2, <2>2, OthersSources
<1>3. ASSUME NEW c \in Conns, NEW s \in Sessions, NEW t \in Tasks, AttachSession(c, s, t)
      PROVE  \A u \in Tasks : Source(u)
  <2>1. s \in byId'
    BY <1>3 DEF AttachSession, tables
  <2>2. IsJob(task'[t], "attach", s, Fresh(s), c) /\ OthersDerived(task', t)
    BY <1>3, AttachJobs
  <2>3. QED
    BY <2>1, <2>2, <1>2
<1>4. ASSUME NEW g \in Groups, NEW t \in Tasks, CloseSessionByGroup(g, t)
      PROVE  \A u \in Tasks : Source(u)
  <2>1. byGroup[g] \in Sessions /\ byGroup[g] \in byId
    BY <1>4, Typed DEF CloseSessionByGroup, TablesAgree
  <2>2. CloseSession(byGroup[g], t, None) /\ hist' = hist /\ byId' = byId
    BY <1>4 DEF CloseSessionByGroup, tables
  <2>3. IsJob(task'[t], "close", byGroup[g], Fresh(byGroup[g]), None) /\ OthersDerived(task', t)
    BY <2>1, <2>2, CloseJobs
  <2>4. QED
    BY <2>1, <2>2, <2>3, <1>2
<1>5. ASSUME NEW s \in Sessions, NEW t \in Tasks, ExpireDetachedSession(s, t)
      PROVE  \A u \in Tasks : Source(u)
  <2>1. byId' = byId
    BY <1>5 DEF ExpireDetachedSession, tables
  <2>2. /\ \/ s \in byId /\ IsJob(task'[t], "expire", s, Fresh(s), None)
           \/ task' = task
        /\ OthersDerived(task', t)
    BY <1>5, ExpireJobs
  <2>3. QED
    BY <2>1, <2>2, <1>0, <1>2
<1>6. ASSUME NEW s \in Sessions, NEW t \in Tasks, HandleOutput(s, t)
      PROVE  \A u \in Tasks : Source(u)
  <2>1. s \in byId'
    BY <1>6 DEF HandleOutput, tables
  <2>2. IsJob(task'[t], "output", s, Fresh(s), outq[s]) /\ OthersDerived(task', t)
    BY <1>6, OutputJobs
  <2>3. QED
    BY <2>1, <2>2, <1>2
<1>7. ASSUME NEW s \in Sessions, NEW t \in Tasks, HandleExit(s, t)
      PROVE  \A u \in Tasks : Source(u)
  <2>1. byId' = byId
    BY <1>7 DEF HandleExit, tables
  <2>2. /\ \/ s \in byId /\ IsJob(task'[t], "exit", s, Fresh(s), outq[s])
           \/ task' = task
        /\ OthersDerived(task', t)
    BY <1>7, ExitJobs
  <2>3. QED
    BY <2>1, <2>2, <1>0, <1>2
<1>8. ASSUME NEW c \in Conns, NEW t \in Tasks, Leave(c, t)
      PROVE  \A u \in Tasks : Source(u)
  <2> DEFINE s == conn[c].session
  <2>1. CASE s \in byId
    <3>1. s \in Sessions /\ DetachSession(s, t) /\ hist' = hist /\ byId' = byId
      BY <1>8, <2>1, Typed DEF Leave, tables
    <3>2. IsJob(task'[t], "detach", s, Fresh(s), None) /\ OthersDerived(task', t)
      BY <3>1, DetachJobs
    <3>3. QED
      BY <2>1, <3>1, <3>2, <1>2
  <2>2. CASE s \notin byId
    BY <1>0, <1>8, <2>2 DEF Leave
  <2>3. QED
    BY <2>1, <2>2
<1>9. ASSUME NEW c \in Conns, NEW t \in Tasks, CloseMessage(c, t)
      PROVE  \A u \in Tasks : Source(u)
  <2> DEFINE s == conn[c].session
  <2>1. CASE s \in byId
    <3>1. s \in Sessions /\ CloseSession(s, t, c) /\ hist' = hist /\ byId' = byId
      BY <1>9, <2>1, Typed DEF CloseMessage, tables
    <3>2. IsJob(task'[t], "close", s, Fresh(s), c) /\ OthersDerived(task', t)
      BY <3>1, CloseJobs
    <3>3. QED
      BY <2>1, <3>1, <3>2, <1>2
  <2>2. CASE s \notin byId
    BY <1>0, <1>9, <2>2 DEF CloseMessage
  <2>3. QED
    BY <2>1, <2>2
<1>10. ASSUME NEW t \in Tasks, JobStep(t)
       PROVE  \A u \in Tasks : Source(u)
  <2>1. byId' = byId
    BY <1>10 DEF JobStep, RunContainer, RunContainerFails, ExecStarts, ExecFails, KillWaited,
           ReadersGone, WriteTemp, ReplaceLatest, PersistFails, StartRaises, tables
  <2>2. Source(t) /\ OthersDerived(task', t)
    BY <1>10, <2>1, JobStepJobs DEF Source, IsJob
  <2>3. QED
    BY <2>2, OthersSources
<1>11. CASE Restart
  BY <1>11 DEF Restart, Source
<1>12. ASSUME NEW s \in Sessions, ProcessExits(s) \/ ReadEof(s) PROVE UNCHANGED task
  BY <1>12 DEF ProcessExits, ReadEof
<1>13. ASSUME NEW c \in Conns, AcceptSocket(c) \/ HandshakeFails(c) \/ Disconnect(c)
       PROVE  UNCHANGED task
  BY <1>13 DEF AcceptSocket, HandshakeFails, Disconnect
<1>14. QED
  BY <1>0, <1>1, <1>3, <1>4, <1>5, <1>6, <1>7, <1>8, <1>9, <1>10, <1>11, <1>12, <1>13 DEF Next

-----------------------------------------------------------------------------
(***************************************************************************)
(* The tables.                                                             *)
(***************************************************************************)

\* Only create_session and recovery change the tables.
LEMMA TablesFrame ==
  ASSUME Next
  PROVE  \/ \E g \in Groups, s \in Sessions, t \in Tasks : CreateSession(g, s, t)
         \/ Restart
         \/ UNCHANGED tables
  BY DEF Next, AttachSession, CloseSessionByGroup, ExpireDetachedSession, HandleOutput,
         HandleExit, ProcessExits, ReadEof, AcceptSocket, HandshakeFails, Disconnect, Leave,
         CloseMessage, JobStep, RunContainer, RunContainerFails, ExecStarts, ExecFails,
         StartRaises, KillWaited, ReadersGone, WriteTemp, ReplaceLatest, PersistFails

\* Only a thread that writes a snapshot changes the files.
LEMMA DiskFrame ==
  ASSUME Next
  PROVE  \/ \E t \in Tasks : WriteTemp(t) \/ ReplaceLatest(t)
         \/ UNCHANGED disk
  BY DEF Next, CreateSession, AttachSession, CloseSessionByGroup, ExpireDetachedSession,
         HandleOutput, HandleExit, ProcessExits, ReadEof, AcceptSocket, HandshakeFails,
         Disconnect, Leave, CloseMessage, JobStep, RunContainer, RunContainerFails, ExecStarts,
         ExecFails, StartRaises, KillWaited, ReadersGone, PersistFails, Restart

\* Every step keeps the tables in agreement.
LEMMA TablesStep ==
  ASSUME IInv, TablesAgree, Named, Next
  PROVE  TablesAgree'
<1>0. /\ byGroup \in [Groups -> Sessions \cup {None}] /\ groupOf \in [Sessions -> Groups \cup {None}]
      /\ None \notin Sessions /\ None \notin Groups
  BY TerminalAssumption DEF IInv, TypeOK, TypeTables
<1>1. ASSUME NEW g \in Groups, NEW s \in Sessions, NEW t \in Tasks, CreateSession(g, s, t)
      PROVE  TablesAgree'
  <2>1. /\ groupOf[s] = None /\ byGroup' = [byGroup EXCEPT ![g] = s]
        /\ groupOf' = [groupOf EXCEPT ![s] = g]
        /\ byId' = (byId \ {byGroup[g]}) \cup {s}
    BY <1>1 DEF CreateSession, DropSession
  <2>2. ASSUME NEW x \in Groups \ {g}, byGroup[x] # None
        PROVE  byGroup[x] # s /\ byGroup[x] # byGroup[g] /\ groupOf'[byGroup[x]] = x
    BY <1>0, <2>1, <2>2 DEF TablesAgree
  <2>3. ASSUME NEW x \in Groups, byGroup'[x] # None PROVE groupOf'[byGroup'[x]] = x
    BY <1>0, <2>1, <2>2, <2>3
  <2>4. byId' = {byGroup'[x] : x \in Groups} \ {None}
    <3>1. ASSUME NEW y \in byId' PROVE \E x \in Groups : byGroup'[x] = y /\ y # None
      <4>1. CASE y = s
        BY <1>0, <2>1, <4>1
      <4>2. CASE y \in byId /\ y # byGroup[g]
        <5>1. PICK x \in Groups : byGroup[x] = y /\ y # None
          BY <4>2 DEF TablesAgree
        <5>2. x # g /\ byGroup'[x] = y
          BY <1>0, <2>1, <4>2, <5>1
        <5>3. QED
          BY <5>1, <5>2
      <4>3. QED
        BY <2>1, <4>1, <4>2
    <3>2. ASSUME NEW x \in Groups, byGroup'[x] # None PROVE byGroup'[x] \in byId'
      <4>1. CASE x = g
        BY <1>0, <2>1, <4>1
      <4>2. CASE x # g
        <5>1. byGroup'[x] = byGroup[x] /\ byGroup[x] # byGroup[g] /\ byGroup[x] \in byId
          BY <1>0, <2>1, <2>2, <3>2, <4>2 DEF TablesAgree
        <5>2. QED
          BY <2>1, <5>1
      <4>3. QED
        BY <4>1, <4>2
    <3>3. QED
      BY <3>1, <3>2
  <2>5. QED
    BY <2>3, <2>4 DEF TablesAgree
<1>2. CASE Restart
  <2> DEFINE back == {g \in Groups : Recovered(g)}
  <2>1. /\ byGroup' = [g \in Groups |-> IF g \in back THEN latest[g].session ELSE None]
        /\ byId' = {latest[g].session : g \in back}
        /\ groupOf' = groupOf
    BY <1>2 DEF Restart, RecoveredIds
  <2>2. ASSUME NEW g \in back
        PROVE  latest[g].session \in Sessions /\ groupOf[latest[g].session] = g
    <3>1. latest[g] # None /\ latest[g] \in SnapType \cup {None}
      BY DEF Recovered, IInv, TypeOK, TypeDisk
    <3>2. QED
      BY <3>1 DEF Named, SnapType
  <2>3. byId' = {byGroup'[x] : x \in Groups} \ {None}
    BY <1>0, <2>1, <2>2
  <2>4. ASSUME NEW x \in Groups, byGroup'[x] # None PROVE groupOf'[byGroup'[x]] = x
    BY <2>1, <2>2, <2>4
  <2>5. QED
    BY <2>3, <2>4 DEF TablesAgree
<1>3. CASE UNCHANGED tables
  BY <1>3 DEF tables, TablesAgree
<1>4. QED
  BY <1>1, <1>2, <1>3, TablesFrame

\* A session keeps its workspace.
LEMMA GroupsKept ==
  ASSUME IInv, Next, NEW s \in Sessions, groupOf[s] # None
  PROVE  groupOf'[s] = groupOf[s]
<1>0. groupOf \in [Sessions -> Groups \cup {None}]
  BY DEF IInv, TypeOK, TypeTables
<1>1. ASSUME NEW g \in Groups, NEW x \in Sessions, NEW t \in Tasks, CreateSession(g, x, t)
      PROVE  groupOf'[s] = groupOf[s]
  BY <1>0, <1>1 DEF CreateSession
<1>2. CASE Restart
  BY <1>2 DEF Restart
<1>3. CASE UNCHANGED tables
  BY <1>3 DEF tables
<1>4. QED
  BY <1>1, <1>2, <1>3, TablesFrame

\* Jobs and snapshots go on naming a session of the group they were made for.
LEMMA NamedStep ==
  ASSUME IInv, TablesAgree, Named, Next
  PROVE  Named'
<1>0. /\ groupOf \in [Sessions -> Groups \cup {None}]
      /\ temp \in [Groups -> SnapType \cup {None}] /\ latest \in [Groups -> SnapType \cup {None}]
      /\ task \in [Tasks -> JobType \cup {None}]
      /\ None \notin Sessions /\ None \notin Groups
  BY TerminalAssumption DEF IInv, TypeOK, TypeTables, TypeDisk
<1>1. ASSUME NEW t \in Tasks, task'[t] # None
      PROVE  /\ groupOf'[task'[t].session] # None
             /\ task'[t].snap # None => task'[t].snap.session = task'[t].session
  <2>1. Source(t)
    BY Sources
  <2>2. CASE /\ task[t] # None
             /\ task'[t].session = task[t].session /\ task'[t].snap = task[t].snap
    <3>1. task[t].session \in Sessions
      BY <1>0, <2>2 DEF JobType
    <3>2. /\ groupOf[task[t].session] # None
          /\ task[t].snap # None => task[t].snap.session = task[t].session
      BY <2>2 DEF Named, Working
    <3>3. groupOf'[task[t].session] = groupOf[task[t].session]
      BY <3>1, <3>2, GroupsKept
    <3>4. QED
      BY <2>2, <3>2, <3>3
  <2>3. CASE /\ task'[t].session \in byId'
             /\ task'[t].snap \in {None, Fresh(task'[t].session)}
    <3>1. TablesAgree'
      BY TablesStep
    <3>2. groupOf'[task'[t].session] # None
      BY <1>0, <2>3, <3>1 DEF TablesAgree
    <3>3. task'[t].snap # None => task'[t].snap.session = task'[t].session
      BY <2>3 DEF Fresh, BuildHistorySnapshot
    <3>4. QED
      BY <3>2, <3>3
  <2>4. QED
    BY <1>1, <2>1, <2>2, <2>3 DEF Source
<1>2. ASSUME NEW g \in Groups
      PROVE  /\ temp[g] # None => groupOf'[temp[g].session] = g
             /\ latest[g] # None => groupOf'[latest[g].session] = g
  <2>1. ASSUME NEW p \in SnapType, groupOf[p.session] = g PROVE groupOf'[p.session] = g
    BY <1>0, <2>1, GroupsKept DEF SnapType
  <2>2. QED
    BY <1>0, <2>1 DEF Named
<1>3. ASSUME NEW g \in Groups
      PROVE  /\ temp'[g] # None => groupOf'[temp'[g].session] = g
             /\ latest'[g] # None => groupOf'[latest'[g].session] = g
  <2>1. CASE UNCHANGED disk
    BY <1>2, <2>1 DEF disk
  <2>2. ASSUME NEW t \in Tasks, WriteTemp(t)
        PROVE  /\ temp'[g] # None => groupOf'[temp'[g].session] = g
               /\ latest'[g] # None => groupOf'[latest'[g].session] = g
    <3>1. /\ task[t] # None /\ task[t].pc = "temp" /\ latest' = latest /\ groupOf' = groupOf
          /\ temp' = [temp EXCEPT ![groupOf[task[t].session]] = task[t].snap]
      BY <2>2 DEF WriteTemp, Working, tables
    <3>2. HoldsSnapshot(task[t])
      BY <3>1 DEF IInv, TypeOK, Working
    <3>3. task[t].snap # None
      BY <3>1, <3>2 DEF HoldsSnapshot
    <3>4. task[t].snap.session = task[t].session
      BY <3>1, <3>3 DEF Named, Working
    <3>5. CASE g = groupOf[task[t].session]
      BY <1>0, <1>2, <3>1, <3>4, <3>5
    <3>6. CASE g # groupOf[task[t].session]
      BY <1>0, <1>2, <3>1, <3>6
    <3>7. QED
      BY <3>5, <3>6
  <2>3. ASSUME NEW t \in Tasks, ReplaceLatest(t)
        PROVE  /\ temp'[g] # None => groupOf'[temp'[g].session] = g
               /\ latest'[g] # None => groupOf'[latest'[g].session] = g
    <3> DEFINE x == groupOf[task[t].session]
    <3>1. CASE temp[x] # None
      <4>1. latest' = [latest EXCEPT ![x] = temp[x]] /\ temp' = [temp EXCEPT ![x] = None]
        BY <2>3, <3>1 DEF ReplaceLatest, disk
      <4>2. CASE g = x
        BY <1>0, <1>2, <4>1, <4>2
      <4>3. CASE g # x
        BY <1>0, <1>2, <4>1, <4>3
      <4>4. QED
        BY <4>2, <4>3
    <3>2. CASE temp[x] = None
      BY <1>2, <2>3, <3>2 DEF ReplaceLatest, disk
    <3>3. QED
      BY <3>1, <3>2
  <2>4. QED
    BY <2>1, <2>2, <2>3, DiskFrame
<1>4. QED
  BY <1>1, <1>3 DEF Named, Working

\* Nothing changes when nothing happens.
LEMMA StutterNamed ==
  ASSUME TablesAgree, Named, UNCHANGED vars
  PROVE  TablesAgree' /\ Named'
  BY DEF vars, tables, disk, TablesAgree, Named, Working

\* The tables agree at first.
LEMMA TablesInit ==
  ASSUME Init
  PROVE  IInv /\ TablesAgree /\ Named
<1>1. IInv
  BY InitIInv
<1>2. TablesAgree /\ Named
  BY DEF Init, TablesAgree, Named, Working
<1>3. QED
  BY <1>1, <1>2

\* The tables and the files, with the invariant they need.
TablesInv == IInv /\ TablesAgree /\ Named

\* The two tables hold the same sessions, each under its own workspace, through
\* any creations, drops and recoveries: a snapshot left by any handler or writer
\* thread is filed under the workspace its session was created in, so recovery
\* registers every session where it belongs.
THEOREM TablesInvariant == Spec => []TablesInv
<1>1. Init => TablesInv
  BY TablesInit DEF TablesInv
<1>2. TablesInv /\ [Next]_vars => TablesInv'
  <2> SUFFICES ASSUME TablesInv, [Next]_vars PROVE TablesInv'
    OBVIOUS
  <2>1. IInv'
    BY NextStep DEF TablesInv
  <2>2. CASE Next
    BY <2>1, <2>2, TablesStep, NamedStep DEF TablesInv
  <2>3. CASE UNCHANGED vars
    BY <2>1, <2>3, StutterNamed DEF TablesInv
  <2>4. QED
    BY <2>2, <2>3
<1>3. QED
  BY <1>1, <1>2, PTL DEF Spec

\* In every reachable state the tables by id and by workspace hold the same sessions,
\* whatever create, attach, detach, close, exit, expiry and restart overlap.
THEOREM TablesAlwaysAgree == Spec => []TablesAgree
<1>1. TablesInv => TablesAgree
  BY DEF TablesInv
<1>2. QED
  BY <1>1, TablesInvariant, PTL

-----------------------------------------------------------------------------
(***************************************************************************)
(* The start of a bridge.                                                  *)
(***************************************************************************)

\* Handler u is still starting the bridge it was starting.
StillStarting(u) ==
  /\ Starting(task[u])
  /\ task'[u].session = task[u].session /\ task'[u].kind = task[u].kind

\* A task that is about to start a bridge is not disturbed by a step of another.
LEMMA OthersStarting ==
  ASSUME IInv, StartedBridges, NEW t \in Tasks, OthersDerived(task', t),
         NEW u \in Tasks \ {t}, Starting(task'[u])
  PROVE  StillStarting(u)
<1>1. task[u] \in JobType \cup {None} /\ Derived(task'[u], task[u])
  BY Typed DEF JobsOK, OthersDerived
<1>2. /\ Starting(task[u]) /\ task'[u].session = task[u].session
      /\ task'[u].kind = task[u].kind \/ task[u].kind \in {"expire", "output", "exit"}
  BY <1>1, DerivedJob DEF Starting
<1>3. task[u].kind \in {"create", "attach"}
  BY <1>2 DEF StartedBridges
<1>4. QED
  BY <1>2, <1>3 DEF StillStarting

\* A step that starts no bridge and forgets none.
LEMMA StartsKept ==
  ASSUME IInv, StartedBridges, OneStart, BridgesKept,
         \A u \in Tasks : Starting(task'[u]) => StillStarting(u)
  PROVE  StartedBridges' /\ OneStart'
<1>1. \A u \in Tasks : Starting(task[u]) => task[u].session \in Sessions
  BY Typed DEF JobsOK, JobType, Starting
<1>2. \A u \in Tasks : Starting(task'[u]) <=> Working(u)' /\ task'[u].pc \in {"start", "exec"}
  BY DEF Starting, Working
<1>3. \A u \in Tasks : Starting(task[u]) <=> Working(u) /\ task[u].pc \in {"start", "exec"}
  BY DEF Starting, Working
<1>4. ASSUME NEW u \in Tasks, Starting(task'[u])
      PROVE  /\ task'[u].kind \in {"create", "attach"} /\ bridge'[task'[u].session].object
             /\ ~bridge'[task'[u].session].handle
  <2>1. StillStarting(u)
    BY <1>4
  <2>2. /\ task[u].kind \in {"create", "attach"} /\ bridge[task[u].session].object
        /\ ~bridge[task[u].session].handle
    BY <1>3, <2>1 DEF StillStarting, StartedBridges, OneStart
  <2>3. QED
    BY <1>1, <2>1, <2>2 DEF StillStarting, BridgesKept
<1>5. ASSUME NEW u \in Tasks, NEW v \in Tasks \ {u}, Starting(task'[u]), Starting(task'[v])
      PROVE  task'[v].session # task'[u].session
  <2>1. StillStarting(u) /\ StillStarting(v)
    BY <1>5
  <2>2. task[v].session # task[u].session
    BY <1>3, <2>1 DEF StillStarting, OneStart
  <2>3. QED
    BY <2>1, <2>2 DEF StillStarting
<1>6. StartedBridges'
  BY <1>4 DEF StartedBridges
<1>7. OneStart'
  BY <1>2, <1>4, <1>5 DEF OneStart
<1>8. QED
  BY <1>6, <1>7

\* A step of handler t about session s, whose bridge no other handler is starting.
LEMMA StartsOfSession ==
  ASSUME IInv, StartedBridges, OneStart, NEW s \in Sessions, NEW t \in Tasks,
         OthersDerived(task', t),
         \A u \in Tasks \ {t} : Starting(task[u]) => task[u].session # s,
         \A x \in Sessions \ {s} : bridge'[x] = bridge[x],
         Starting(task'[t]) => /\ task'[t].session = s /\ task'[t].kind \in {"create", "attach"}
                               /\ bridge'[s].object /\ ~bridge'[s].handle
  PROVE  StartedBridges' /\ OneStart'
<1>1. \A u \in Tasks : Starting(task[u]) => task[u].session \in Sessions
  BY Typed DEF JobsOK, JobType, Starting
<1>2. \A u \in Tasks : Starting(task'[u]) <=> Working(u)' /\ task'[u].pc \in {"start", "exec"}
  BY DEF Starting, Working
<1>3. \A u \in Tasks : Starting(task[u]) <=> Working(u) /\ task[u].pc \in {"start", "exec"}
  BY DEF Starting, Working
<1>4. ASSUME NEW u \in Tasks \ {t}, Starting(task'[u])
      PROVE  /\ StillStarting(u) /\ task'[u].session # s
             /\ task'[u].kind \in {"create", "attach"} /\ bridge'[task'[u].session].object
             /\ ~bridge'[task'[u].session].handle
  <2>1. StillStarting(u)
    BY <1>4, OthersStarting
  <2>2. /\ task[u].kind \in {"create", "attach"} /\ bridge[task[u].session].object
        /\ ~bridge[task[u].session].handle
    BY <1>3, <2>1 DEF StillStarting, StartedBridges, OneStart
  <2>3. QED
    BY <1>1, <2>1, <2>2 DEF StillStarting
<1>5. ASSUME NEW u \in Tasks, NEW v \in Tasks \ {u}, Starting(task'[u]), Starting(task'[v])
      PROVE  task'[v].session # task'[u].session
  <2>1. CASE u = t \/ v = t
    BY <1>4, <1>5, <2>1
  <2>2. CASE u # t /\ v # t
    <3>1. StillStarting(u) /\ StillStarting(v)
      BY <1>4, <1>5, <2>2
    <3>2. task[v].session # task[u].session
      BY <1>3, <3>1 DEF StillStarting, OneStart
    <3>3. QED
      BY <3>1, <3>2 DEF StillStarting
  <2>3. QED
    BY <2>1, <2>2
<1>6. StartedBridges'
  BY <1>4 DEF StartedBridges
<1>7. OneStart'
  BY <1>2, <1>4, <1>5 DEF OneStart
<1>8. QED
  BY <1>6, <1>7

\* A job that has got past the start of its bridge.
LEMMA PastStart ==
  ASSUME NEW k, k.pc \in {"kill", "drain", "temp"}
  PROVE  ~Starting(k)
  BY DEF Starting

\* Every step keeps starts and bridges apart.
LEMMA StartsStep ==
  ASSUME IInv, TablesAgree, Named, StartedBridges, OneStart, Next
  PROVE  StartedBridges' /\ OneStart'
<1>0. bridge \in [Sessions -> BridgeType]
  BY DEF IInv, TypeOK, TypeShell
<1>a. ASSUME NEW t \in Tasks, OthersDerived(task', t), ~Starting(task'[t]), BridgesKept
      PROVE  StartedBridges' /\ OneStart'
  <2>1. \A u \in Tasks : Starting(task'[u]) => StillStarting(u)
    BY <1>a, OthersStarting
  <2>2. QED
    BY <1>a, <2>1, StartsKept
<1>b. ASSUME UNCHANGED task, BridgesKept PROVE StartedBridges' /\ OneStart'
  BY <1>b, StartsKept DEF StillStarting
<1>1. ASSUME NEW g \in Groups, NEW s \in Sessions, NEW t \in Tasks, CreateSession(g, s, t)
      PROVE  StartedBridges' /\ OneStart'
  <2>1. IsJob(task'[t], "create", s, None, None) /\ OthersDerived(task', t)
    BY <1>1, CreateJobs
  <2>2. groupOf[s] = None /\ bridge' = [bridge EXCEPT ![s] = NewBridge]
    BY <1>1 DEF CreateSession
  <2>3. \A u \in Tasks \ {t} : Starting(task[u]) => task[u].session # s
    BY <2>2 DEF Named, Working, Starting
  <2>4. \A x \in Sessions \ {s} : bridge'[x] = bridge[x]
    BY <1>0, <2>2
  <2>5. bridge'[s].object /\ ~bridge'[s].handle
    BY <1>0, <2>2 DEF NewBridge, NoBridge
  <2>6. task'[t].session = s /\ task'[t].kind \in {"create", "attach"}
    BY <2>1 DEF IsJob
  <2>7. QED
    BY <2>1, <2>3, <2>4, <2>5, <2>6, StartsOfSession
<1>2. ASSUME NEW c \in Conns, NEW s \in Sessions, NEW t \in Tasks, AttachSession(c, s, t)
      PROVE  StartedBridges' /\ OneStart'
  <2>1. /\ IsJob(task'[t], "attach", s, Fresh(s), c) /\ OthersDerived(task', t)
        /\ task'[t].pc = IF bridge[s].object THEN "temp" ELSE "start"
    BY <1>2, AttachJobs
  <2>2. bridge' = [bridge EXCEPT ![s] = IF @.object THEN @ ELSE NewBridge]
    BY <1>2 DEF AttachSession
  <2>3. CASE bridge[s].object
    <3>1. BridgesKept
      BY <1>0, <2>2, <2>3 DEF BridgesKept
    <3>2. QED
      BY <2>1, <2>3, <3>1, <1>a, PastStart
  <2>4. CASE ~bridge[s].object
    <3>1. \A u \in Tasks \ {t} : Starting(task[u]) => task[u].session # s
      BY <2>4 DEF StartedBridges
    <3>2. \A x \in Sessions \ {s} : bridge'[x] = bridge[x]
      BY <1>0, <2>2
    <3>3. bridge'[s].object /\ ~bridge'[s].handle
      BY <1>0, <2>2, <2>4 DEF NewBridge, NoBridge
    <3>4. task'[t].session = s /\ task'[t].kind \in {"create", "attach"}
      BY <2>1 DEF IsJob
    <3>5. QED
      BY <2>1, <3>1, <3>2, <3>3, <3>4, StartsOfSession
  <2>5. QED
    BY <2>3, <2>4
<1>3. ASSUME NEW s \in Sessions, NEW t \in Tasks, NEW c \in Conns \cup {None},
             CloseSession(s, t, c), UNCHANGED hist
      PROVE  StartedBridges' /\ OneStart'
  BY <1>3, <1>a, CloseJobs, PastStart
<1>4. ASSUME NEW g \in Groups, NEW t \in Tasks, CloseSessionByGroup(g, t)
      PROVE  StartedBridges' /\ OneStart'
  <2>1. byGroup[g] \in Sessions /\ CloseSession(byGroup[g], t, None) /\ hist' = hist
    BY <1>4, Typed DEF CloseSessionByGroup
  <2>2. QED
    BY <2>1, <1>3
<1>5. ASSUME NEW s \in Sessions, NEW t \in Tasks, ExpireDetachedSession(s, t)
      PROVE  StartedBridges' /\ OneStart'
  <2>1. /\ OthersDerived(task', t) /\ BridgesKept
        /\ task' = task \/ task'[t].pc \in {"kill", "drain", "temp"}
    BY <1>5, ExpireJobs
  <2>2. QED
    BY <2>1, <1>a, <1>b, PastStart
<1>6. ASSUME NEW s \in Sessions, NEW t \in Tasks, HandleOutput(s, t)
      PROVE  StartedBridges' /\ OneStart'
  <2>1. BridgesKept
    BY <1>0, <1>6 DEF HandleOutput, BridgesKept, BridgeType
  <2>2. QED
    BY <1>6, <2>1, <1>a, OutputJobs, PastStart
<1>7. ASSUME NEW s \in Sessions, NEW t \in Tasks, HandleExit(s, t)
      PROVE  StartedBridges' /\ OneStart'
  <2>1. BridgesKept
    BY <1>0, <1>7 DEF HandleExit, BridgesKept, BridgeType
  <2>2. /\ OthersDerived(task', t)
        /\ task' = task \/ task'[t].pc = "temp"
    BY <1>7, ExitJobs
  <2>3. QED
    BY <2>1, <2>2, <1>a, <1>b, PastStart
<1>8. ASSUME NEW c \in Conns, NEW t \in Tasks, Leave(c, t)
      PROVE  StartedBridges' /\ OneStart'
  <2>1. BridgesKept
    BY <1>8 DEF Leave, BridgesKept, shell
  <2>2. CASE conn[c].session \in byId
    <3>1. conn[c].session \in Sessions /\ DetachSession(conn[c].session, t) /\ hist' = hist
      BY <1>8, <2>2, Typed DEF Leave
    <3>2. QED
      BY <2>1, <3>1, <1>a, DetachJobs, PastStart
  <2>3. CASE conn[c].session \notin byId
    BY <1>8, <2>1, <2>3, <1>b DEF Leave
  <2>4. QED
    BY <2>2, <2>3
<1>9. ASSUME NEW c \in Conns, NEW t \in Tasks, CloseMessage(c, t)
      PROVE  StartedBridges' /\ OneStart'
  <2>1. CASE conn[c].session \in byId
    <3>1. conn[c].session \in Sessions /\ CloseSession(conn[c].session, t, c) /\ hist' = hist
      BY <1>9, <2>1, Typed DEF CloseMessage
    <3>2. QED
      BY <3>1, <1>3
  <2>2. CASE conn[c].session \notin byId
    BY <1>9, <2>2, <1>b DEF CloseMessage, BridgesKept, shell
  <2>3. QED
    BY <2>1, <2>2
<1>10. ASSUME NEW s \in Sessions, ProcessExits(s) \/ ReadEof(s) PROVE StartedBridges' /\ OneStart'
  <2>1. BridgesKept
    BY <1>0, <1>10 DEF ProcessExits, ReadEof, BridgesKept, BridgeType
  <2>2. UNCHANGED task
    BY <1>10 DEF ProcessExits, ReadEof
  <2>3. QED
    BY <2>1, <2>2, <1>b
<1>11. ASSUME NEW c \in Conns, AcceptSocket(c) \/ HandshakeFails(c) \/ Disconnect(c)
       PROVE  StartedBridges' /\ OneStart'
  BY <1>11, <1>b DEF AcceptSocket, HandshakeFails, Disconnect, BridgesKept, shell
<1>12. CASE Restart
  <2>1. \A u \in Tasks : task'[u] = None
    BY <1>12 DEF Restart
  <2>2. QED
    BY <2>1 DEF StartedBridges, OneStart, Starting, Working
<1>13. ASSUME NEW t \in Tasks, JobStep(t) PROVE StartedBridges' /\ OneStart'
  <2> DEFINE s == task[t].session
  <2>1. /\ task[t] \in JobType /\ task[t] # None /\ OthersDerived(task', t)
        /\ Starting(task'[t]) => RunContainer(t)
    BY <1>13, JobStepJobs DEF Starting
  <2>2. s \in Sessions
    BY <2>1 DEF JobType
  <2>3. CASE RunContainer(t)
    <3>1. BridgesKept /\ Starting(task[t]) /\ task' = [task EXCEPT ![t].pc = "exec"]
      BY <2>3 DEF RunContainer, BridgesKept, Starting, Working
    <3>2. task'[t].session = task[t].session /\ task'[t].kind = task[t].kind
      BY <2>1, <3>1, Typed DEF JobsOK, JobType
    <3>3. \A u \in Tasks : Starting(task'[u]) => StillStarting(u)
      BY <2>1, <3>1, <3>2, OthersStarting DEF StillStarting
    <3>4. QED
      BY <3>1, <3>3, StartsKept
  <2>4. CASE ~RunContainer(t) /\ Starting(task[t]) /\ \A x \in Sessions \ {s} : bridge'[x] = bridge[x]
    <3>1. \A u \in Tasks \ {t} : Starting(task[u]) => task[u].session # s
      BY <2>4 DEF OneStart, Starting, Working
    <3>2. QED
      BY <2>1, <2>2, <2>4, <3>1, StartsOfSession
  <2>5. CASE ExecStarts(t) \/ RunContainerFails(t) \/ ExecFails(t)
    <3>1. Starting(task[t]) /\ \A x \in Sessions \ {s} : bridge'[x] = bridge[x]
      BY <1>0, <2>2, <2>5 DEF ExecStarts, RunContainerFails, ExecFails, StartRaises, Starting, Working
    <3>2. QED
      BY <2>3, <2>4, <3>1
  <2>6. CASE KillWaited(t)
    <3>1. StopReaders(task, t, task[t])
      BY <2>6 DEF KillWaited
    <3>2. BridgesKept
      BY <2>1, <3>1, Typed, StopReadersMoves
    <3>3. QED
      BY <2>1, <2>3, <3>2, <1>a
  <2>7. CASE ReadersGone(t) \/ WriteTemp(t) \/ ReplaceLatest(t) \/ PersistFails(t)
    <3>1. BridgesKept
      BY <1>0, <2>2, <2>7 DEF ReadersGone, WriteTemp, ReplaceLatest, PersistFails, Resume,
                              BridgesKept, BridgeType, shell
    <3>2. QED
      BY <2>1, <2>3, <3>1, <1>a
  <2>8. QED
    BY <1>13, <2>3, <2>5, <2>6, <2>7 DEF JobStep
<1>14. QED
  BY <1>1, <1>2, <1>4, <1>5, <1>6, <1>7, <1>8, <1>9, <1>10, <1>11, <1>12, <1>13 DEF Next

\* The start of a bridge, with the invariant it needs.
StartsInv == TablesInv /\ StartedBridges /\ OneStart

\* A bridge is started by one handler at a time and never while it runs: what
\* attach_session decided inside its critical section (there is no bridge, so this
\* call makes and starts one) still holds when it does it afterwards.
THEOREM StartsInvariant == Spec => []StartsInv
<1>1. Init => StartsInv
  BY TablesInit DEF StartsInv, TablesInv, Init, StartedBridges, OneStart, Starting, Working
<1>2. StartsInv /\ TablesInv' /\ [Next]_vars => StartsInv'
  <2> SUFFICES ASSUME StartsInv, TablesInv', [Next]_vars PROVE StartsInv'
    OBVIOUS
  <2>1. CASE Next
    BY <2>1, StartsStep DEF StartsInv, TablesInv
  <2>2. CASE UNCHANGED vars
    BY <2>2 DEF vars, shell, StartsInv, StartedBridges, OneStart, Starting, Working
  <2>3. QED
    BY <2>1, <2>2
<1>3. QED
  BY <1>1, <1>2, TablesInvariant, PTL DEF Spec

\* In every reachable state at most one task starts the bridge of a session, and none
\* when it has been started, although bridges are started outside the lock.
THEOREM StartedOnce == Spec => []OneStart
<1>1. StartsInv => OneStart
  BY DEF StartsInv
<1>2. QED
  BY <1>1, StartsInvariant, PTL

-----------------------------------------------------------------------------
(***************************************************************************)
(* The client of an attached session.                                      *)
(***************************************************************************)

\* Handler u, which has not run, still has the same to report.
StillReporting(u) ==
  /\ Reports(task[u])
  /\ task'[u].session = task[u].session /\ task'[u].kind = task[u].kind
  /\ task'[u].conn = task[u].conn

\* A task that reports to a client is not disturbed by a step of another.
LEMMA OthersReporting ==
  ASSUME IInv, NEW t \in Tasks, OthersDerived(task', t), NEW u \in Tasks \ {t}, Reports(task'[u])
  PROVE  StillReporting(u)
<1>1. task[u] \in JobType \cup {None} /\ Derived(task'[u], task[u])
  BY Typed DEF JobsOK, OthersDerived
<1>2. task'[u] # None /\ task'[u].kind \in {"attach", "failed", "close"}
  BY DEF Reports
<1>3. QED
  BY <1>1, <1>2, DerivedJob DEF Reports, StillReporting

\* The state of connection c for a job of kind k.
WaitsIn(k) == IF k = "close" THEN "closing" ELSE "attaching"

\* The reporting jobs of a well-typed state.
LEMMA Reporting ==
  ASSUME IInv, Clients, NEW u \in Tasks, Reports(task[u])
  PROVE  /\ task[u].conn \in Conns /\ task[u].session \in Sessions
         /\ conn[task[u].conn].session = task[u].session
         /\ conn[task[u].conn].pc = WaitsIn(task[u].kind)
         /\ task[u].kind # "attach" => outq[task[u].session] # task[u].conn
<1>1. task[u] \in JobType /\ task[u].conn # None
  BY Typed DEF JobsOK, Reports
<1>2. QED
  BY <1>1 DEF Clients, WaitsIn, JobType

\* A step of handler t that leaves the connections of the others alone.
LEMMA ClientsKept ==
  ASSUME IInv, Clients, NEW t \in Tasks, OthersDerived(task', t),
         \A u \in Tasks \ {t} : Reports(task[u]) =>
           /\ conn'[task[u].conn].session = conn[task[u].conn].session
           /\ conn'[task[u].conn].pc = conn[task[u].conn].pc
           /\ task[u].kind # "attach" => outq'[task[u].session] # task[u].conn,
         Reports(task'[t]) =>
           /\ conn'[task'[t].conn].session = task'[t].session
           /\ conn'[task'[t].conn].pc = WaitsIn(task'[t].kind)
           /\ task'[t].kind # "attach" => outq'[task'[t].session] # task'[t].conn
           /\ \A u \in Tasks \ {t} : Reports(task[u]) => task[u].conn # task'[t].conn
  PROVE  Clients'
<1>1. ASSUME NEW u \in Tasks, Reports(task'[u])
      PROVE  /\ conn'[task'[u].conn].session = task'[u].session
             /\ conn'[task'[u].conn].pc = WaitsIn(task'[u].kind)
             /\ task'[u].kind # "attach" => outq'[task'[u].session] # task'[u].conn
  <2>1. CASE u = t
    BY <1>1, <2>1
  <2>2. CASE u # t
    <3>1. StillReporting(u)
      BY <1>1, <2>2, OthersReporting
    <3>2. /\ conn[task[u].conn].session = task[u].session
          /\ conn[task[u].conn].pc = WaitsIn(task[u].kind)
      BY <3>1, Reporting DEF StillReporting
    <3>3. QED
      BY <2>2, <3>1, <3>2 DEF StillReporting
  <2>3. QED
    BY <2>1, <2>2
<1>2. ASSUME NEW u \in Tasks, NEW v \in Tasks, Reports(task'[u]), Reports(task'[v]), u # v
      PROVE  task'[u].conn # task'[v].conn
  <2>1. CASE u = t
    <3>1. StillReporting(v)
      BY <1>2, <2>1, OthersReporting
    <3>2. QED
      BY <1>2, <2>1, <3>1 DEF StillReporting
  <2>2. CASE v = t
    <3>1. StillReporting(u)
      BY <1>2, <2>2, OthersReporting
    <3>2. QED
      BY <1>2, <2>2, <3>1 DEF StillReporting
  <2>3. CASE u # t /\ v # t
    <3>1. StillReporting(u) /\ StillReporting(v)
      BY <1>2, <2>3, OthersReporting
    <3>2. QED
      BY <1>2, <3>1 DEF StillReporting, Clients
  <2>4. QED
    BY <2>1, <2>2, <2>3
<1>3. QED
  BY <1>1, <1>2 DEF Clients, WaitsIn

\* A step that leaves the connections in which the handlers T wait alone.
WaitersKept(T) ==
  \A u \in T : Reports(task[u]) =>
    /\ conn'[task[u].conn].session = conn[task[u].conn].session
    /\ conn'[task[u].conn].pc = conn[task[u].conn].pc

\* No output goes to a connection it did not go to before.
QueuesKept ==
  \A x \in Sessions : outq'[x] \in {outq[x], None}

\* A report finds the queue of the client it was made for when the queues were kept.
LEMMA WaitersQueues ==
  ASSUME IInv, Clients, NEW T \in SUBSET Tasks, WaitersKept(T), QueuesKept,
         NEW u \in T, Reports(task[u])
  PROVE  /\ conn'[task[u].conn].session = conn[task[u].conn].session
         /\ conn'[task[u].conn].pc = conn[task[u].conn].pc
         /\ task[u].kind # "attach" => outq'[task[u].session] # task[u].conn
<1>1. task[u].conn \in Conns /\ task[u].conn # None /\ task[u].session \in Sessions
  BY Reporting, TerminalAssumption
<1>2. task[u].kind # "attach" => outq[task[u].session] # task[u].conn
  BY Reporting
<1>3. outq'[task[u].session] \in {outq[task[u].session], None}
  BY <1>1 DEF QueuesKept
<1>4. QED
  BY <1>1, <1>2, <1>3 DEF WaitersKept

\* A handler that tells nobody.
LEMMA ClientsQuiet ==
  ASSUME IInv, Clients, NEW t \in Tasks, OthersDerived(task', t),
         WaitersKept(Tasks \ {t}), QueuesKept, ~Reports(task'[t])
  PROVE  Clients'
<1>1. \A u \in Tasks \ {t} : Reports(task[u]) =>
           /\ conn'[task[u].conn].session = conn[task[u].conn].session
           /\ conn'[task[u].conn].pc = conn[task[u].conn].pc
           /\ task[u].kind # "attach" => outq'[task[u].session] # task[u].conn
  BY WaitersQueues
<1>2. QED
  BY <1>1, ClientsKept

\* A step that leaves jobs and queues alone keeps the clients.
LEMMA ClientsSame ==
  ASSUME IInv, Clients, UNCHANGED task, WaitersKept(Tasks), QueuesKept
  PROVE  Clients'
<1>1. ASSUME NEW u \in Tasks, Reports(task[u])
      PROVE  /\ conn'[task[u].conn].session = task[u].session
             /\ conn'[task[u].conn].pc = WaitsIn(task[u].kind)
             /\ task[u].kind # "attach" => outq'[task[u].session] # task[u].conn
  BY <1>1, WaitersQueues, Reporting
<1>2. QED
  BY <1>1 DEF Clients, WaitsIn

\* A connection in which no handler waits moves.
LEMMA ConnMoves ==
  ASSUME IInv, Clients, NEW c \in Conns, conn[c].pc \notin {"attaching", "closing"},
         \A d \in Conns \ {c} : conn'[d] = conn[d], NEW T \in SUBSET Tasks
  PROVE  WaitersKept(T)
<1> SUFFICES ASSUME NEW u \in T, Reports(task[u])
             PROVE  conn'[task[u].conn] = conn[task[u].conn]
  BY DEF WaitersKept
<1>1. task[u].conn \in Conns /\ conn[task[u].conn].pc = WaitsIn(task[u].kind)
  BY Reporting
<1>2. task[u].conn # c
  BY <1>1 DEF WaitsIn
<1>3. QED
  BY <1>1, <1>2

\* A client that attaches has its session's queue and waits for the job of its attach.
LEMMA ClientsAttach ==
  ASSUME IInv, Clients, NEW c \in Conns, NEW s \in Sessions, NEW t \in Tasks,
         AttachSession(c, s, t)
  PROVE  Clients'
<1>1. IsJob(task'[t], "attach", s, Fresh(s), c) /\ OthersDerived(task', t)
  BY AttachJobs
<1>2. /\ conn[c].pc = "idle" /\ outq' = [outq EXCEPT ![s] = c]
      /\ conn' = [conn EXCEPT ![c] = [pc |-> "attaching", session |-> s, stream |-> Output(hist[s])]]
  BY DEF AttachSession
<1>3. conn \in [Conns -> ConnType] /\ outq \in [Sessions -> Conns \cup {None}]
  BY DEF IInv, TypeOK, TypeRecords
<1>4. conn'[c].session = s /\ conn'[c].pc = "attaching"
  BY <1>2, <1>3
<1>5. ASSUME NEW u \in Tasks \ {t}, Reports(task[u])
      PROVE  /\ conn'[task[u].conn].session = conn[task[u].conn].session
             /\ conn'[task[u].conn].pc = conn[task[u].conn].pc
             /\ task[u].kind # "attach" => outq'[task[u].session] # task[u].conn
             /\ task[u].conn # c
  <2>1. /\ task[u].conn \in Conns /\ task[u].session \in Sessions
        /\ conn[task[u].conn].pc = WaitsIn(task[u].kind)
        /\ task[u].kind # "attach" => outq[task[u].session] # task[u].conn
    BY <1>5, Reporting
  <2>2. task[u].conn # c
    BY <1>2, <2>1 DEF WaitsIn
  <2>3. QED
    BY <1>2, <1>3, <2>1, <2>2
<1>6. task'[t].session = s /\ task'[t].conn = c /\ task'[t].kind = "attach"
  BY <1>1 DEF IsJob
<1>7. QED
  BY <1>1, <1>4, <1>5, <1>6, ClientsKept DEF WaitsIn

\* A client that closes its session waits for the job that does it.
LEMMA ClientsCloseMessage ==
  ASSUME IInv, Clients, NEW c \in Conns, NEW t \in Tasks, CloseMessage(c, t)
  PROVE  Clients'
<1> DEFINE s == conn[c].session
<1>0. /\ conn \in [Conns -> ConnType] /\ outq \in [Sessions -> Conns \cup {None}]
      /\ None \notin Conns /\ conn[c].pc = "open"
  BY TerminalAssumption DEF IInv, TypeOK, TypeRecords, CloseMessage
<1>1. CASE s \notin byId
  <2>1. UNCHANGED <<task, outq>> /\ conn' = [conn EXCEPT ![c] = Gone]
    BY <1>1 DEF CloseMessage
  <2>2. QueuesKept /\ \A d \in Conns \ {c} : conn'[d] = conn[d]
    BY <1>0, <2>1 DEF QueuesKept
  <2>3. QED
    BY <1>0, <2>1, <2>2, ConnMoves, ClientsSame
<1>2. CASE s \in byId
  <2>1. /\ s \in Sessions /\ CloseSession(s, t, c) /\ hist' = hist
        /\ conn' = [conn EXCEPT ![c].pc = "closing"]
    BY <1>2, Typed DEF CloseMessage
  <2>2. IsJob(task'[t], "close", s, Fresh(s), c) /\ OthersDerived(task', t)
    BY <2>1, CloseJobs
  <2>3. outq' = [outq EXCEPT ![s] = None]
    BY <2>1 DEF CloseSession
  <2>4. conn'[c].session = s /\ conn'[c].pc = "closing" /\ outq'[s] # c
    BY <1>0, <2>1, <2>3 DEF ConnType
  <2>5. ASSUME NEW u \in Tasks \ {t}, Reports(task[u])
        PROVE  /\ conn'[task[u].conn].session = conn[task[u].conn].session
               /\ conn'[task[u].conn].pc = conn[task[u].conn].pc
               /\ task[u].kind # "attach" => outq'[task[u].session] # task[u].conn
               /\ task[u].conn # c
    <3>1. /\ task[u].conn \in Conns /\ task[u].session \in Sessions
          /\ conn[task[u].conn].pc = WaitsIn(task[u].kind)
          /\ task[u].kind # "attach" => outq[task[u].session] # task[u].conn
      BY <2>5, Reporting
    <3>2. task[u].conn # c
      BY <1>0, <3>1 DEF WaitsIn
    <3>3. QED
      BY <1>0, <2>1, <2>3, <3>1, <3>2
  <2>6. task'[t].session = s /\ task'[t].conn = c /\ task'[t].kind = "close"
    BY <2>2 DEF IsJob
  <2>7. QED
    BY <2>2, <2>4, <2>5, <2>6, ClientsKept DEF WaitsIn
<1>3. QED
  BY <1>1, <1>2

\* A client goes on waiting for its job while that goes on.
LEMMA ClientsJobStep ==
  ASSUME IInv, Clients, NEW t \in Tasks, JobStep(t)
  PROVE  Clients'
<1> DEFINE j == task[t]
           s == j.session
<1>0. /\ conn \in [Conns -> ConnType] /\ outq \in [Sessions -> Conns \cup {None}]
      /\ None \notin Conns
  BY TerminalAssumption DEF IInv, TypeOK, TypeRecords
<1>1. /\ j \in JobType /\ j # None /\ OthersDerived(task', t)
      /\ s \in Sessions /\ j.conn \in Conns \cup {None}
  BY JobStepJobs DEF JobType
<1>2. \/ task'[t] = None
      \/ /\ task'[t].session = s /\ task'[t].conn = j.conn
         /\ \/ task'[t].kind = j.kind
            \/ task'[t].kind = "failed" /\ j.kind = "attach"
  BY JobStepJobs DEF IsJob
<1>3. CASE UNCHANGED <<conn, outq>> /\ task'[t].kind = j.kind
  <2>1. WaitersKept(Tasks) /\ QueuesKept
    BY <1>3 DEF WaitersKept, QueuesKept
  <2>2. CASE ~Reports(task'[t])
    BY <1>1, <2>1, <2>2, ClientsQuiet DEF WaitersKept
  <2>3. CASE Reports(task'[t])
    <3>1. task'[t].session = s /\ task'[t].conn = j.conn /\ Reports(j)
      BY <1>1, <1>2, <1>3, <2>3 DEF Reports
    <3>2. \A u \in Tasks \ {t} : Reports(task[u]) => task[u].conn # task'[t].conn
      BY <3>1 DEF Clients
    <3>3. /\ conn[j.conn].session = s /\ conn[j.conn].pc = WaitsIn(j.kind)
          /\ j.kind # "attach" => outq[s] # j.conn
      BY <3>1, Reporting
    <3>4. \A u \in Tasks \ {t} : Reports(task[u]) =>
            /\ conn'[task[u].conn].session = conn[task[u].conn].session
            /\ conn'[task[u].conn].pc = conn[task[u].conn].pc
            /\ task[u].kind # "attach" => outq'[task[u].session] # task[u].conn
      BY <1>3, Reporting
    <3>5. QED
      BY <1>1, <1>3, <3>1, <3>2, <3>3, <3>4, ClientsKept
  <2>4. QED
    BY <2>2, <2>3
<1>4. ASSUME task'[t] = None, UNCHANGED outq,
             \A d \in Conns : \/ d = j.conn /\ j.kind \in {"attach", "failed", "close"}
                              \/ conn'[d].session = conn[d].session /\ conn'[d].pc = conn[d].pc
      PROVE  Clients'
  <2>1. ~Reports(task'[t]) /\ QueuesKept
    BY <1>4 DEF Reports, QueuesKept
  <2>2. WaitersKept(Tasks \ {t})
    <3> SUFFICES ASSUME NEW u \in Tasks \ {t}, Reports(task[u])
                 PROVE  /\ conn'[task[u].conn].session = conn[task[u].conn].session
                        /\ conn'[task[u].conn].pc = conn[task[u].conn].pc
      BY DEF WaitersKept
    <3>1. task[u].conn \in Conns
      BY Reporting
    <3>2. task[u].conn # j.conn \/ j.kind \notin {"attach", "failed", "close"}
      BY <1>0, <1>1, <3>1 DEF Clients, Reports
    <3>3. QED
      BY <1>4, <3>1, <3>2
  <2>3. QED
    BY <1>1, <2>1, <2>2, ClientsQuiet
<1>5. CASE \/ RunContainer(t) \/ KillWaited(t) \/ ReadersGone(t) \/ WriteTemp(t) \/ ExecStarts(t)
  <2>1. UNCHANGED <<conn, outq>>
    BY <1>5 DEF RunContainer, KillWaited, ReadersGone, WriteTemp, ExecStarts
  <2>2. CASE task'[t] = None
    BY <1>4, <2>1, <2>2
  <2>3. CASE task'[t] # None
    <3>1. task'[t].kind = j.kind
      <4>1. CASE RunContainer(t) \/ ReadersGone(t) \/ WriteTemp(t)
        BY <1>1, <4>1, Typed DEF RunContainer, ReadersGone, WriteTemp, JobType
      <4>2. CASE KillWaited(t)
        <5>1. StopReaders(task, t, task[t])
          BY <4>2 DEF KillWaited
        <5>2. \E pc \in {"kill", "drain", "temp"} : task'[t] = [j EXCEPT !.pc = pc]
          BY <1>1, <5>1, Typed, StopReadersMoves
        <5>3. QED
          BY <1>1, <5>2 DEF JobType
      <4>3. CASE ExecStarts(t)
        <5>1. task'[t] = IF j.kind = "attach" THEN [j EXCEPT !.pc = "temp"]
                         ELSE IF s \in byId
                         THEN [j EXCEPT !.pc = "temp", !.snap = CreatedSnapshot(s)] ELSE None
          BY <4>3, Typed DEF ExecStarts
        <5>2. QED
          BY <1>1, <2>3, <5>1 DEF JobType
      <4>4. QED
        BY <1>5, <4>1, <4>2, <4>3
    <3>2. QED
      BY <1>3, <2>1, <3>1
  <2>4. QED
    BY <2>2, <2>3
<1>6. CASE ReplaceLatest(t) \/ PersistFails(t)
  <2>1. Resume(t) /\ UNCHANGED outq
    BY <1>6 DEF ReplaceLatest, PersistFails
  <2>2. task'[t] = None
    BY <2>1, Typed DEF Resume
  <2>3. ASSUME NEW d \in Conns
        PROVE  \/ d = j.conn /\ j.kind \in {"attach", "failed", "close"}
               \/ conn'[d].session = conn[d].session /\ conn'[d].pc = conn[d].pc
    <3>1. CASE j.kind \in {"output", "exit"}
      <4>1. \/ conn' = conn
            \/ \E n : conn' = [conn EXCEPT ![j.conn].stream = n]
        BY <2>1, <3>1 DEF Resume, EventQueue
      <4>2. ASSUME NEW n, conn' = [conn EXCEPT ![j.conn].stream = n]
            PROVE  conn'[d].session = conn[d].session /\ conn'[d].pc = conn[d].pc
        <5>1. conn[d] \in ConnType
          BY <1>0
        <5>2. conn'[d] = conn[d] \/ conn'[d] = [conn[d] EXCEPT !.stream = n]
          BY <1>0, <4>2
        <5>3. QED
          BY <5>1, <5>2 DEF ConnType
      <4>3. QED
        BY <4>1, <4>2
    <3>2. CASE j.kind \in {"attach", "failed", "close"}
      BY <1>0, <2>1, <3>2 DEF Resume
    <3>3. CASE j.kind \notin {"attach", "failed", "close", "output", "exit"}
      BY <2>1, <3>3 DEF Resume
    <3>4. QED
      BY <3>1, <3>2, <3>3
  <2>4. QED
    BY <1>4, <2>1, <2>2, <2>3
<1>7. CASE RunContainerFails(t) \/ ExecFails(t)
  <2> DEFINE cleanup == j.kind = "attach" /\ s \in byId
  <2>1. StartRaises(t)
    BY <1>7 DEF RunContainerFails, ExecFails
  <2>2. CASE ~cleanup
    <3>1. /\ task' = [task EXCEPT ![t] = None] /\ UNCHANGED outq
          /\ conn' = IF j.kind = "attach" THEN [conn EXCEPT ![j.conn] = Gone] ELSE conn
      BY <2>1, <2>2 DEF StartRaises
    <3>2. task'[t] = None
      BY <3>1, Typed
    <3>3. \A d \in Conns : \/ d = j.conn /\ j.kind \in {"attach", "failed", "close"}
                           \/ conn'[d].session = conn[d].session /\ conn'[d].pc = conn[d].pc
      BY <1>0, <3>1
    <3>4. QED
      BY <1>4, <3>1, <3>2, <3>3
  <2>3. CASE cleanup
    <3>1. UNCHANGED conn /\ outq' = [outq EXCEPT ![s] = None]
      BY <2>1, <2>3 DEF StartRaises
    <3>2. QueuesKept /\ WaitersKept(Tasks \ {t})
      BY <1>0, <3>1 DEF QueuesKept, WaitersKept
    <3>3. CASE ~Reports(task'[t])
      BY <1>1, <3>2, <3>3, ClientsQuiet
    <3>4. CASE Reports(task'[t])
      <4>1. /\ task'[t].session = s /\ task'[t].conn = j.conn /\ Reports(j)
            /\ task'[t].kind \in {"attach", "failed"}
        BY <1>1, <1>2, <2>3, <3>4 DEF Reports
      <4>2. \A u \in Tasks \ {t} : Reports(task[u]) => task[u].conn # task'[t].conn
        BY <4>1 DEF Clients
      <4>3. conn[j.conn].session = s /\ conn[j.conn].pc = "attaching" /\ j.conn \in Conns
        BY <2>3, <4>1, Reporting DEF WaitsIn
      <4>4. outq'[s] # j.conn
        BY <1>0, <1>1, <3>1, <4>3
      <4>5. \A u \in Tasks \ {t} : Reports(task[u]) =>
              /\ conn'[task[u].conn].session = conn[task[u].conn].session
              /\ conn'[task[u].conn].pc = conn[task[u].conn].pc
              /\ task[u].kind # "attach" => outq'[task[u].session] # task[u].conn
        BY <3>2, WaitersQueues
      <4>6. QED
        BY <1>1, <3>1, <4>1, <4>2, <4>3, <4>4, <4>5, ClientsKept DEF WaitsIn
    <3>5. QED
      BY <3>3, <3>4
  <2>4. QED
    BY <2>2, <2>3
<1>8. QED
  BY <1>5, <1>6, <1>7 DEF JobStep

\* Every step keeps clients and sessions together.
LEMMA ClientsStep ==
  ASSUME IInv, TablesAgree, Clients, Next
  PROVE  Clients'
<1>0. /\ conn \in [Conns -> ConnType] /\ outq \in [Sessions -> Conns \cup {None}]
      /\ None \notin Conns /\ None \notin Sessions
  BY TerminalAssumption DEF IInv, TypeOK, TypeRecords
<1>a. ASSUME UNCHANGED conn, NEW T \in SUBSET Tasks PROVE WaitersKept(T)
  BY <1>a DEF WaitersKept
<1>b. ASSUME UNCHANGED outq \/ \E x \in Sessions : outq' = [outq EXCEPT ![x] = None]
      PROVE  QueuesKept
  BY <1>0, <1>b DEF QueuesKept
<1>c. ASSUME NEW t \in Tasks, OthersDerived(task', t), UNCHANGED conn, QueuesKept,
             NEW kind, NEW x, NEW p, NEW d, IsJob(task'[t], kind, x, p, d),
             kind \notin {"attach", "failed", "close"} \/ d = None
      PROVE  Clients'
  <2>1. ~Reports(task'[t])
    BY <1>c DEF IsJob, Reports
  <2>2. QED
    BY <2>1, <1>a, <1>c, ClientsQuiet
<1>d. ASSUME UNCHANGED task, UNCHANGED conn, QueuesKept PROVE Clients'
  BY <1>a, <1>d, ClientsSame
<1>1. ASSUME NEW g \in Groups, NEW s \in Sessions, NEW t \in Tasks, CreateSession(g, s, t)
      PROVE  Clients'
  <2>1. UNCHANGED conn /\ QueuesKept
    BY <1>b, <1>1 DEF CreateSession
  <2>2. QED
    BY <2>1, <1>1, <1>c, CreateJobs
<1>2. ASSUME NEW g \in Groups, NEW t \in Tasks, CloseSessionByGroup(g, t)
      PROVE  Clients'
  <2>1. /\ byGroup[g] \in Sessions /\ CloseSession(byGroup[g], t, None) /\ hist' = hist
        /\ UNCHANGED conn
    BY <1>2, Typed DEF CloseSessionByGroup
  <2>2. IsJob(task'[t], "close", byGroup[g], Fresh(byGroup[g]), None) /\ OthersDerived(task', t)
    BY <2>1, CloseJobs
  <2>3. QueuesKept
    BY <2>1, <1>b DEF CloseSession
  <2>4. QED
    BY <2>1, <2>2, <2>3, <1>c
<1>3. ASSUME NEW s \in Sessions, NEW t \in Tasks, ExpireDetachedSession(s, t)
      PROVE  Clients'
  <2>1. UNCHANGED conn /\ QueuesKept
    BY <1>b, <1>3 DEF ExpireDetachedSession
  <2>2. \/ IsJob(task'[t], "expire", s, Fresh(s), None)
        \/ task' = task
    BY <1>3, ExpireJobs
  <2>3. OthersDerived(task', t)
    BY <1>3, ExpireJobs
  <2>4. QED
    BY <2>1, <2>2, <2>3, <1>c, <1>d
<1>4. ASSUME NEW s \in Sessions, NEW t \in Tasks, HandleOutput(s, t)
      PROVE  Clients'
  <2>1. UNCHANGED conn /\ QueuesKept
    BY <1>b, <1>4 DEF HandleOutput
  <2>2. IsJob(task'[t], "output", s, Fresh(s), outq[s]) /\ OthersDerived(task', t)
    BY <1>4, OutputJobs
  <2>3. QED
    BY <2>1, <2>2, <1>c
<1>5. ASSUME NEW s \in Sessions, NEW t \in Tasks, HandleExit(s, t)
      PROVE  Clients'
  <2>1. UNCHANGED conn /\ QueuesKept
    BY <1>b, <1>5 DEF HandleExit
  <2>2. \/ IsJob(task'[t], "exit", s, Fresh(s), outq[s])
        \/ task' = task
    BY <1>5, ExitJobs
  <2>3. OthersDerived(task', t)
    BY <1>5, ExitJobs
  <2>4. QED
    BY <2>1, <2>2, <2>3, <1>c, <1>d
<1>6. ASSUME NEW c \in Conns, NEW t \in Tasks, Leave(c, t)
      PROVE  Clients'
  <2> DEFINE s == conn[c].session
  <2>1. conn[c].pc = "leaving" /\ \A d \in Conns \ {c} : conn'[d] = conn[d]
    BY <1>0, <1>6 DEF Leave
  <2>2. \A T \in SUBSET Tasks : WaitersKept(T)
    BY <2>1, ConnMoves
  <2>3. CASE s \in byId
    <3>1. s \in Sessions /\ DetachSession(s, t) /\ hist' = hist
      BY <1>6, <2>3, Typed DEF Leave
    <3>2. IsJob(task'[t], "detach", s, Fresh(s), None) /\ OthersDerived(task', t)
      BY <3>1, DetachJobs
    <3>3. QueuesKept
      BY <3>1, <1>b DEF DetachSession
    <3>4. ~Reports(task'[t])
      BY <3>2 DEF IsJob, Reports
    <3>5. QED
      BY <2>2, <3>2, <3>3, <3>4, ClientsQuiet
  <2>4. CASE s \notin byId
    <3>1. UNCHANGED <<task, outq>>
      BY <1>6, <2>4 DEF Leave
    <3>2. QED
      BY <2>2, <3>1, <1>b, ClientsSame
  <2>5. QED
    BY <2>3, <2>4
<1>7. ASSUME NEW s \in Sessions, ProcessExits(s) \/ ReadEof(s) PROVE Clients'
  BY <1>7, <1>b, <1>d DEF ProcessExits, ReadEof
<1>8. ASSUME NEW c \in Conns, AcceptSocket(c) \/ HandshakeFails(c) \/ Disconnect(c)
      PROVE  Clients'
  <2>1. /\ conn[c].pc \notin {"attaching", "closing"} /\ \A d \in Conns \ {c} : conn'[d] = conn[d]
        /\ UNCHANGED <<task, outq>>
    BY <1>0, <1>8 DEF AcceptSocket, HandshakeFails, Disconnect
  <2>2. WaitersKept(Tasks)
    BY <2>1, ConnMoves
  <2>3. QED
    BY <2>1, <2>2, <1>b, ClientsSame
<1>9. CASE Restart
  <2>1. \A u \in Tasks : task'[u] = None
    BY <1>9 DEF Restart
  <2>2. QED
    BY <2>1 DEF Clients, Reports
<1>10. QED
  BY <1>1, <1>2, <1>3, <1>4, <1>5, <1>6, <1>7, <1>8, <1>9, ClientsAttach, ClientsCloseMessage,
     ClientsJobStep DEF Next

\* The states of an endpoint that serves its session or is about to detach it.
Serving == {"attaching", "accepting", "open", "leaving"}

HasClient(s) ==
  outq[s] \in Conns /\ conn[outq[s]].session = s /\ conn[outq[s]].pc \in Serving

\* An attached session has a client, said of one session at a time.
LEMMA AttachedMeans ==
  AttachedHasClient <=> \A s \in byId : rec[s].status = "attached" => HasClient(s)
  BY DEF AttachedHasClient, HasClient, Serving

\* A step that attaches no session, and moves no connection that an attached
\* session sends its output to except from one such state to another.
LEMMA AttachedKept ==
  ASSUME AttachedHasClient,
         \A s \in byId' : rec'[s].status = "attached" =>
           /\ s \in byId /\ rec[s].status = "attached" /\ outq'[s] = outq[s]
           /\ HasClient(s) => /\ conn'[outq[s]].session = conn[outq[s]].session
                              /\ conn'[outq[s]].pc \in Serving
  PROVE  AttachedHasClient'
<1>1. ASSUME NEW s \in byId', rec'[s].status = "attached"
      PROVE  HasClient(s)'
  <2>1. /\ HasClient(s) /\ outq'[s] = outq[s]
        /\ conn'[outq[s]].session = conn[outq[s]].session /\ conn'[outq[s]].pc \in Serving
    BY <1>1, AttachedMeans
  <2>2. QED
    BY <2>1 DEF HasClient
<1>2. QED
  BY <1>1 DEF AttachedHasClient, HasClient, Serving

\* Without a failed handshake, every step leaves an attached session with a client.
LEMMA AttachedStep ==
  ASSUME ~HandshakeFailures, IInv, TablesAgree, Clients, AttachedHasClient, Next
  PROVE  AttachedHasClient'
<1>0. /\ conn \in [Conns -> ConnType] /\ outq \in [Sessions -> Conns \cup {None}]
      /\ rec \in [Sessions -> RecordType] /\ byId \subseteq Sessions
      /\ None \notin Conns /\ None \notin Sessions
  BY TerminalAssumption DEF IInv, TypeOK, TypeRecords, TypeTables
<1>a. ASSUME UNCHANGED conn, byId' = byId, NEW s \in Sessions, NEW r \in RecordType,
             r.status # "attached", rec' = [rec EXCEPT ![s] = r],
             \A x \in Sessions \ {s} : outq'[x] = outq[x]
      PROVE  AttachedHasClient'
  BY <1>0, <1>a, AttachedKept DEF HasClient
<1>b. ASSUME UNCHANGED <<byId, rec, outq>>,
             \A s \in byId : HasClient(s) => /\ conn'[outq[s]].session = conn[outq[s]].session
                                            /\ conn'[outq[s]].pc \in Serving
      PROVE  AttachedHasClient'
  BY <1>b, AttachedKept
<1>c. ASSUME UNCHANGED <<byId, rec, outq, conn>> PROVE AttachedHasClient'
  BY <1>b, <1>c DEF HasClient
\* A connection of session s goes, and s is not attached.
<1>d. ASSUME NEW c \in Conns, NEW s, s = conn[c].session, byId' = byId,
             \A d \in Conns \ {c} : conn'[d] = conn[d],
             \A x \in Sessions \ {s} : rec'[x] = rec[x] /\ outq'[x] = outq[x],
             s \in byId => rec'[s].status # "attached"
      PROVE  AttachedHasClient'
  <2>1. ASSUME NEW x \in byId', rec'[x].status = "attached"
        PROVE  /\ x \in byId /\ rec[x].status = "attached" /\ outq'[x] = outq[x]
               /\ HasClient(x) => /\ conn'[outq[x]].session = conn[outq[x]].session
                                  /\ conn'[outq[x]].pc \in Serving
    <3>1. x \in byId /\ x # s
      BY <1>d, <2>1
    <3>2. HasClient(x) => outq[x] \in Conns \ {c}
      BY <1>d, <3>1 DEF HasClient
    <3>3. QED
      BY <1>0, <1>d, <2>1, <3>1, <3>2 DEF HasClient
  <2>2. QED
    BY <2>1, AttachedKept
<1>1. ASSUME NEW g \in Groups, NEW s \in Sessions, NEW t \in Tasks, CreateSession(g, s, t)
      PROVE  AttachedHasClient'
  <2>1. /\ byId' \subseteq byId \cup {s} /\ UNCHANGED <<outq, conn>>
        /\ rec' = [rec EXCEPT ![s] = [status |-> "created", timed |-> FALSE]]
    BY <1>1 DEF CreateSession, DropSession
  <2>2. rec'[s].status = "created" /\ \A x \in Sessions \ {s} : rec'[x] = rec[x]
    BY <1>0, <2>1
  <2>3. QED
    BY <1>0, <2>1, <2>2, AttachedKept DEF HasClient
<1>2. ASSUME NEW c \in Conns, NEW s \in Sessions, NEW t \in Tasks, AttachSession(c, s, t)
      PROVE  AttachedHasClient'
  <2>1. /\ byId' = byId /\ outq' = [outq EXCEPT ![s] = c] /\ conn[c].pc = "idle"
        /\ conn' = [conn EXCEPT ![c] = [pc |-> "attaching", session |-> s, stream |-> Output(hist[s])]]
        /\ \A x \in Sessions \ {s} : rec'[x] = rec[x]
    BY <1>0, <1>2 DEF AttachSession, tables
  <2>2. HasClient(s)'
    BY <1>0, <2>1 DEF HasClient, Serving
  <2>3. ASSUME NEW x \in byId \ {s}, rec[x].status = "attached" PROVE HasClient(x)'
    <3>1. HasClient(x)
      BY <2>3, AttachedMeans
    <3>2. outq'[x] = outq[x] /\ outq[x] # c
      BY <1>0, <2>1, <3>1 DEF HasClient, Serving
    <3>3. conn'[outq[x]] = conn[outq[x]]
      BY <1>0, <2>1, <3>1, <3>2 DEF HasClient
    <3>4. QED
      BY <3>1, <3>2, <3>3 DEF HasClient
  <2>4. \A x \in byId' : rec'[x].status = "attached" => HasClient(x)'
    BY <1>0, <2>1, <2>2, <2>3
  <2>5. QED
    BY <2>4 DEF AttachedHasClient, HasClient, Serving
<1>3. ASSUME NEW g \in Groups, NEW t \in Tasks, CloseSessionByGroup(g, t)
      PROVE  AttachedHasClient'
  <2> DEFINE s == byGroup[g]
             r == [status |-> "closed", timed |-> FALSE]
  <2>1. /\ s \in Sessions /\ UNCHANGED conn /\ byId' = byId
        /\ rec' = [rec EXCEPT ![s] = r] /\ outq' = [outq EXCEPT ![s] = None]
    BY <1>3, Typed DEF CloseSessionByGroup, CloseSession, tables
  <2>2. r \in RecordType /\ r.status # "attached"
    BY Records
  <2>3. \A x \in Sessions \ {s} : outq'[x] = outq[x]
    BY <1>0, <2>1
  <2> HIDE DEF s, r
  <2>4. QED
    BY <2>1, <2>2, <2>3, <1>a
<1>4. ASSUME NEW s \in Sessions, NEW t \in Tasks, ExpireDetachedSession(s, t)
      PROVE  AttachedHasClient'
  <2> DEFINE r == [status |-> "closed", timed |-> FALSE]
  <2>1. UNCHANGED <<conn, byId, outq>> /\ (rec' = rec \/ rec' = [rec EXCEPT ![s] = r])
    BY <1>4 DEF ExpireDetachedSession, tables
  <2>2. r \in RecordType /\ r.status # "attached"
    BY Records
  <2> HIDE DEF r
  <2>3. CASE rec' = rec
    BY <2>1, <2>3, <1>c
  <2>4. CASE rec' = [rec EXCEPT ![s] = r]
    BY <2>1, <2>2, <2>4, <1>a
  <2>5. QED
    BY <2>1, <2>3, <2>4
<1>5. ASSUME NEW s \in Sessions, NEW t \in Tasks, HandleOutput(s, t)
      PROVE  AttachedHasClient'
  BY <1>5, <1>c DEF HandleOutput, tables
<1>6. ASSUME NEW s \in Sessions, NEW t \in Tasks, HandleExit(s, t)
      PROVE  AttachedHasClient'
  <2> DEFINE r == [status |-> "exited", timed |-> FALSE]
  <2>1. UNCHANGED <<conn, byId, outq>> /\ (rec' = rec \/ rec' = [rec EXCEPT ![s] = r])
    BY <1>6 DEF HandleExit, tables
  <2>2. r \in RecordType /\ r.status # "attached"
    BY Records
  <2> HIDE DEF r
  <2>3. CASE rec' = rec
    BY <2>1, <2>3, <1>c
  <2>4. CASE rec' = [rec EXCEPT ![s] = r]
    BY <2>1, <2>2, <2>4, <1>a
  <2>5. QED
    BY <2>1, <2>3, <2>4
<1>7. ASSUME NEW c \in Conns, NEW t \in Tasks, Leave(c, t) PROVE AttachedHasClient'
  <2> DEFINE s == conn[c].session
  <2>1. byId' = byId /\ \A d \in Conns \ {c} : conn'[d] = conn[d]
    BY <1>0, <1>7 DEF Leave, tables
  <2>2. /\ \A x \in Sessions \ {s} : rec'[x] = rec[x] /\ outq'[x] = outq[x]
        /\ s \in byId => rec'[s].status # "attached"
    BY <1>0, <1>7 DEF Leave, DetachSession
  <2> HIDE DEF s
  <2>3. QED
    BY <2>1, <2>2, <1>d DEF s
<1>8. ASSUME NEW c \in Conns, NEW t \in Tasks, CloseMessage(c, t) PROVE AttachedHasClient'
  <2> DEFINE s == conn[c].session
  <2>1. byId' = byId /\ \A d \in Conns \ {c} : conn'[d] = conn[d]
    BY <1>0, <1>8 DEF CloseMessage, tables
  <2>2. /\ \A x \in Sessions \ {s} : rec'[x] = rec[x] /\ outq'[x] = outq[x]
        /\ s \in byId => rec'[s].status # "attached"
    BY <1>0, <1>8 DEF CloseMessage, CloseSession
  <2> HIDE DEF s
  <2>3. QED
    BY <2>1, <2>2, <1>d DEF s
<1>9. ASSUME NEW s \in Sessions, ProcessExits(s) \/ ReadEof(s) PROVE AttachedHasClient'
  BY <1>9, <1>c DEF ProcessExits, ReadEof, tables
<1>10. ASSUME NEW c \in Conns, AcceptSocket(c) \/ Disconnect(c) PROVE AttachedHasClient'
  <2>1. /\ UNCHANGED <<byId, rec, outq>>
        /\ conn' = [conn EXCEPT ![c].pc = "open"] \/ conn' = [conn EXCEPT ![c].pc = "leaving"]
    BY <1>10 DEF AcceptSocket, Disconnect, tables
  <2>2. ASSUME NEW d \in Conns
        PROVE  /\ conn'[d].session = conn[d].session
               /\ conn[d].pc \in Serving => conn'[d].pc \in Serving
    <3>1. conn[d] \in ConnType
      BY <1>0
    <3>2. \/ conn'[d] = conn[d]
          \/ conn'[d] = [conn[d] EXCEPT !.pc = "open"]
          \/ conn'[d] = [conn[d] EXCEPT !.pc = "leaving"]
      BY <1>0, <2>1
    <3>3. QED
      BY <3>1, <3>2 DEF ConnType, Serving
  <2>3. QED
    BY <2>1, <2>2, <1>b DEF HasClient
<1>11. CASE Restart
  <2>1. \A s \in byId' : rec'[s].status = "detached"
    <3>1. /\ byId' = RecoveredIds({g \in Groups : Recovered(g)})
          /\ rec' = [s \in Sessions |-> IF s \in RecoveredIds({g \in Groups : Recovered(g)})
                                        THEN [status |-> "detached", timed |-> FALSE] ELSE rec[s]]
      BY <1>11 DEF Restart
    <3>2. byId' \subseteq Sessions
      BY NextStep DEF IInv, TypeOK, TypeTables
    <3>3. QED
      BY <3>1, <3>2
  <2>2. QED
    BY <2>1 DEF AttachedHasClient
<1>12. ASSUME NEW t \in Tasks, JobStep(t) PROVE AttachedHasClient'
  <2> DEFINE j == task[t]
             s == j.session
  <2>1. j \in JobType /\ j # None /\ s \in Sessions /\ j.conn \in Conns \cup {None}
    BY <1>12, JobStepJobs DEF JobType
  <2>2. CASE RunContainer(t) \/ ExecStarts(t) \/ KillWaited(t) \/ ReadersGone(t) \/ WriteTemp(t)
    BY <2>2, <1>c DEF RunContainer, ExecStarts, KillWaited, ReadersGone, WriteTemp, tables
  <2>3. CASE RunContainerFails(t) \/ ExecFails(t)
    <3> DEFINE r == [status |-> "closed", timed |-> FALSE]
               cleanup == j.kind = "attach" /\ s \in byId
    <3>1. StartRaises(t) /\ byId' = byId
      BY <2>3 DEF RunContainerFails, ExecFails, StartRaises, tables
    <3>2. CASE cleanup
      <4>1. UNCHANGED conn /\ rec' = [rec EXCEPT ![s] = r] /\ outq' = [outq EXCEPT ![s] = None]
        BY <3>1, <3>2 DEF StartRaises
      <4>2. r \in RecordType /\ r.status # "attached"
        BY Records
      <4>3. \A x \in Sessions \ {s} : outq'[x] = outq[x]
        BY <1>0, <4>1
      <4> HIDE DEF r, s
      <4>4. QED
        BY <2>1, <3>1, <4>1, <4>2, <4>3, <1>a
    <3>3. CASE ~cleanup /\ j.kind = "attach" /\ j.conn # None
      <4>1. /\ UNCHANGED <<rec, outq>> /\ conn' = [conn EXCEPT ![j.conn] = Gone] /\ s \notin byId
        BY <3>1, <3>3 DEF StartRaises
      <4>2. conn[j.conn].session = s /\ j.conn \in Conns
        BY <2>1, <3>3, Reporting DEF Reports
      <4>3. \A d \in Conns \ {j.conn} : conn'[d] = conn[d]
        BY <1>0, <4>1
      <4>4. QED
        BY <3>1, <4>1, <4>2, <4>3, <1>d
    <3>4. CASE ~cleanup /\ (j.kind # "attach" \/ j.conn = None)
      <4>1. /\ UNCHANGED <<rec, outq>>
            /\ conn' = IF j.kind = "attach" THEN [conn EXCEPT ![j.conn] = Gone] ELSE conn
        BY <3>1, <3>4 DEF StartRaises
      <4>2. \A d \in Conns : conn'[d] = conn[d]
        BY <1>0, <3>4, <4>1
      <4>3. QED
        BY <3>1, <4>1, <4>2, <1>b DEF HasClient
    <3>5. QED
      BY <3>2, <3>3, <3>4
  <2>4. CASE ReplaceLatest(t) \/ PersistFails(t)
    <3>1. Resume(t) /\ UNCHANGED <<byId, rec, outq>>
      BY <2>4 DEF ReplaceLatest, PersistFails, tables
    <3>2. CASE j.kind \in {"output", "exit"}
      <4>1. \/ conn' = conn
            \/ \E n : conn' = [conn EXCEPT ![j.conn].stream = n]
        BY <3>1, <3>2 DEF Resume, EventQueue
      <4>2. ASSUME NEW n, conn' = [conn EXCEPT ![j.conn].stream = n], NEW d \in Conns
            PROVE  conn'[d].session = conn[d].session /\ conn'[d].pc = conn[d].pc
        <5>1. conn[d] \in ConnType
          BY <1>0
        <5>2. conn'[d] = conn[d] \/ conn'[d] = [conn[d] EXCEPT !.stream = n]
          BY <1>0, <4>2
        <5>3. QED
          BY <5>1, <5>2 DEF ConnType
      <4>3. \A d \in Conns : conn'[d].session = conn[d].session /\ conn'[d].pc = conn[d].pc
        BY <4>1, <4>2
      <4>4. QED
        BY <3>1, <4>3, <1>b DEF HasClient
    <3>3. CASE j.kind = "attach"
      <4>1. conn' = [conn EXCEPT ![j.conn].pc = "accepting"]
        BY <3>1, <3>3 DEF Resume
      <4>2. \A d \in Conns : /\ conn'[d].session = conn[d].session
                             /\ conn[d].pc \in Serving => conn'[d].pc \in Serving
        BY <1>0, <4>1 DEF ConnType, Serving
      <4>3. QED
        BY <3>1, <4>2, <1>b DEF HasClient
    <3>4. CASE j.kind \in {"failed", "close"} /\ j.conn # None
      <4>1. conn' = [conn EXCEPT ![j.conn] = Gone]
        BY <3>1, <3>4 DEF Resume
      <4>2. conn[j.conn].session = s /\ outq[s] # j.conn
        BY <2>1, <3>4, Reporting DEF Reports
      <4>3. ASSUME NEW x \in byId, HasClient(x)
            PROVE  conn'[outq[x]].session = conn[outq[x]].session /\ conn'[outq[x]].pc \in Serving
        <5>1. outq[x] # j.conn /\ outq[x] \in Conns
          BY <4>2, <4>3 DEF HasClient
        <5>2. QED
          BY <1>0, <4>1, <4>3, <5>1 DEF HasClient
      <4>4. QED
        BY <3>1, <4>3, <1>b
    <3>5. CASE j.kind \notin {"output", "exit", "attach", "failed", "close"}
               \/ (j.kind \in {"failed", "close"} /\ j.conn = None)
      <4>1. conn' = conn
        BY <3>1, <3>5 DEF Resume
      <4>2. QED
        BY <3>1, <4>1, <1>c
    <3>6. QED
      BY <3>2, <3>3, <3>4, <3>5
  <2>5. QED
    BY <1>12, <2>2, <2>3, <2>4 DEF JobStep
<1>13. ASSUME NEW c \in Conns PROVE ~HandshakeFails(c)
  BY DEF HandshakeFails
<1>14. QED
  BY <1>1, <1>2, <1>3, <1>4, <1>5, <1>6, <1>7, <1>8, <1>9, <1>10, <1>11, <1>12, <1>13 DEF Next

\* The clients, with the invariant they need.
ClientsInv == TablesInv /\ Clients /\ AttachedHasClient

\* If no client is gone before its receive loop starts, an attached session always
\* has a connection that serves it or is about to detach it: every way out of the
\* endpoint, and every handler that closes a connection, has detached or ended the
\* session first or finds it attached to somebody else. (When a client may go in
\* the handshake, outside of the endpoint's try/finally, that is false.)
THEOREM AttachedServed == ASSUME ~HandshakeFailures PROVE Spec => []AttachedHasClient
<1>1. Init => ClientsInv
  BY TablesInit DEF ClientsInv, TablesInv, Init, Clients, Reports, AttachedHasClient
<1>2. ClientsInv /\ TablesInv' /\ [Next]_vars => ClientsInv'
  <2> SUFFICES ASSUME ClientsInv, TablesInv', [Next]_vars PROVE ClientsInv'
    OBVIOUS
  <2>1. CASE Next
    BY <2>1, ClientsStep, AttachedStep DEF ClientsInv, TablesInv
  <2>2. CASE UNCHANGED vars
    BY <2>2 DEF vars, tables, ClientsInv, Clients, Reports, AttachedHasClient
  <2>3. QED
    BY <2>1, <2>2
<1>3. ClientsInv => AttachedHasClient
  BY DEF ClientsInv
<1>4. QED
  BY <1>1, <1>2, <1>3, TablesInvariant, PTL DEF Spec

-----------------------------------------------------------------------------
(***************************************************************************)
(* The histories.                                                          *)
(***************************************************************************)

\* The last chunk of q is chunk n, and the others come before it in order.
EndsAt(q, n) == \A i \in 1..Len(q) : q[i] = n - Len(q) + i

\* A history is a suffix of the output when it ends at the last chunk, is not too
\* long, and tells whether chunks are missing before it.
LEMMA SuffixEnds ==
  ASSUME NEW q, NEW n, NEW tr
  PROVE  SuffixOf(q, n, tr) <=>
           /\ Len(q) <= MaxHistory /\ Len(q) <= n
           /\ Len(q) = 0 => n = 0
           /\ EndsAt(q, n)
           /\ tr <=> Len(q) < n
  BY DEF SuffixOf, EndsAt

\* A chunk that is appended is the next one.
LEMMA EndsAppend ==
  ASSUME NEW q \in Seq(Nat), NEW n \in Nat, EndsAt(q, n)
  PROVE  /\ Append(q, n + 1) \in Seq(Nat) /\ Len(q) \in Nat
         /\ Len(Append(q, n + 1)) = Len(q) + 1
         /\ EndsAt(Append(q, n + 1), n + 1)
<1> DEFINE p == Append(q, n + 1)
           k == Len(q)
           m == Len(p)
<1>1. /\ p \in Seq(Nat) /\ m = k + 1 /\ p[k + 1] = n + 1
      /\ \A i \in 1..k : p[i] = q[i]
  BY AppendProperties, n + 1 \in Nat
<1>2. k \in Nat
  BY LenProperties
<1>3. \A i \in 1..k : q[i] = n - k + i
  BY DEF EndsAt
<1> HIDE DEF p, k, m
<1>4. \A i \in 1..m : p[i] = (n + 1) - m + i
  <2> SUFFICES ASSUME NEW i \in 1..m PROVE p[i] = (n + 1) - m + i
    OBVIOUS
  <2>1. CASE i = k + 1
    BY <1>1, <1>2, <2>1
  <2>2. CASE i # k + 1
    <3>1. i \in 1..k
      BY <1>1, <1>2, <2>2
    <3>2. p[i] = n - k + i
      BY <1>1, <1>3, <3>1
    <3>3. QED
      BY <1>1, <1>2, <3>1, <3>2
  <2>3. QED
    BY <2>1, <2>2
<1>5. EndsAt(p, n + 1)
  BY <1>4 DEF EndsAt, m
<1>6. QED
  BY <1>1, <1>2, <1>5 DEF p, k, m

\* A history whose oldest chunk is dropped ends where it did.
LEMMA EndsTail ==
  ASSUME NEW q \in Seq(Nat), q # <<>>, NEW n \in Nat, EndsAt(q, n)
  PROVE  /\ Tail(q) \in Seq(Nat) /\ Len(Tail(q)) = Len(q) - 1
         /\ EndsAt(Tail(q), n)
<1> DEFINE p == Tail(q)
           k == Len(q)
           m == Len(p)
<1>1. p \in Seq(Nat) /\ m = k - 1 /\ \A i \in 1..m : p[i] = q[i + 1]
  BY HeadTailProperties
<1>2. k \in Nat
  BY LenProperties
<1>3. \A i \in 1..k : q[i] = n - k + i
  BY DEF EndsAt
<1> HIDE DEF p, k, m
<1>4. \A i \in 1..m : p[i] = n - m + i
  <2> SUFFICES ASSUME NEW i \in 1..m PROVE p[i] = n - m + i
    OBVIOUS
  <2>1. i + 1 \in 1..k
    BY <1>1, <1>2
  <2>2. p[i] = n - k + (i + 1)
    BY <1>1, <1>3, <2>1
  <2>3. QED
    BY <1>1, <1>2, <2>2
<1>5. EndsAt(p, n)
  BY <1>4 DEF EndsAt, m
<1>6. QED
  BY <1>1, <1>5 DEF p, k, m

\* What is joined of two parts has chunks that follow each other in both.
LEMMA EndsConcat ==
  ASSUME NEW p \in Seq(Nat), NEW q \in Seq(Nat), NEW n \in Nat, EndsAt(p \o q, n)
  PROVE  /\ p \o q \in Seq(Nat) /\ Len(p \o q) = Len(p) + Len(q)
         /\ Len(p) \in Nat /\ Len(q) \in Nat
         /\ EndsAt(q, n)
<1> DEFINE r == p \o q
           j == Len(p)
           k == Len(q)
           m == Len(r)
<1>1. /\ r \in Seq(Nat) /\ m = j + k
      /\ \A i \in 1..(j + k) : r[i] = IF i <= j THEN p[i] ELSE q[i - j]
  BY ConcatProperties
<1>2. j \in Nat /\ k \in Nat
  BY LenProperties
<1>3. \A i \in 1..m : r[i] = n - m + i
  BY DEF EndsAt
<1> HIDE DEF r, j, k, m
<1>4. \A i \in 1..k : q[i] = n - k + i
  <2> SUFFICES ASSUME NEW i \in 1..k PROVE q[i] = n - k + i
    OBVIOUS
  <2>1. /\ j + i \in 1..m /\ j + i \in 1..(j + k)
        /\ ~(j + i <= j) /\ (j + i) - j = i
    BY <1>1, <1>2
  <2>2. r[j + i] = q[i]
    BY <1>1, <2>1
  <2>3. r[j + i] = n - m + (j + i)
    BY <1>3, <2>1
  <2>4. QED
    BY <1>1, <1>2, <2>2, <2>3
<1>5. EndsAt(q, n)
  BY <1>4 DEF EndsAt, k
<1>6. QED
  BY <1>1, <1>2, <1>5 DEF r, j, k, m

\* Such an end of the output is what HistoryIsSuffix asks of a history.
LEMMA SuffixConsecutive ==
  ASSUME NEW q \in Seq(Nat), NEW n \in Nat, NEW tr \in BOOLEAN, SuffixOf(q, n, tr)
  PROVE  /\ Consecutive(q)
         /\ n > 0 => q # <<>> /\ q[Len(q)] = n
         /\ q # <<>> => (q[1] # 1 <=> tr)
         /\ LastOf(q) = n
<1> DEFINE k == Len(q)
<1>0. k \in Nat /\ (q = <<>> <=> k = 0)
  BY EmptySeq, LenProperties
<1>1. k <= n /\ (k = 0 => n = 0) /\ (tr <=> k < n) /\ \A i \in 1..k : q[i] = n - k + i
  BY DEF SuffixOf
<1> HIDE DEF k
<1>2. \A i \in 1..(k - 1) : q[i + 1] = q[i] + 1
  <2> SUFFICES ASSUME NEW i \in 1..(k - 1) PROVE q[i + 1] = q[i] + 1
    OBVIOUS
  <2>1. i \in 1..k /\ i + 1 \in 1..k
    BY <1>0
  <2>2. q[i] = n - k + i /\ q[i + 1] = n - k + (i + 1)
    BY <1>1, <2>1
  <2>3. QED
    BY <1>0, <2>2
<1>3. Consecutive(q)
  BY <1>2 DEF Consecutive, k
<1>4. CASE k = 0
  BY <1>0, <1>1, <1>3, <1>4 DEF LastOf
<1>5. CASE k # 0
  <2>1. 1 \in 1..k /\ k \in 1..k
    BY <1>0, <1>5
  <2>2. q[1] = n - k + 1 /\ q[k] = n - k + k
    BY <1>1, <2>1
  <2>3. q[k] = n /\ (q[1] # 1 <=> k < n)
    BY <1>0, <1>1, <2>2
  <2>4. q # <<>> /\ q[Len(q)] = n
    BY <1>0, <1>5, <2>3 DEF k
  <2>5. QED
    BY <1>1, <1>3, <2>3, <2>4 DEF LastOf
<1>6. QED
  BY <1>4, <1>5

\* _append_output_history keeps the end of the output, within the limit, and says
\* that it is truncated as soon as anything is dropped.
LEMMA AppendKeepsSuffix ==
  ASSUME MaxHistory > 0, NEW h \in HistoryType, NEW n \in Nat, NEW a,
         a = AppendOutputHistory(h, n + 1),
         SuffixOf(Output(h), n, h.truncated)
  PROVE  SuffixOf(Output(a), n + 1, a.truncated)
<1> DEFINE hd == h.head
           tl == h.tail
           q == hd \o tl
           tail == Append(tl, n + 1)
           lh == Len(hd)
           lt == Len(tl)
<1>1. hd \in Seq(Nat) /\ tl \in Seq(Nat) /\ h.truncated \in BOOLEAN /\ MaxHistory \in Nat
  BY TerminalAssumption DEF HistoryType
<1>2. EndsAt(q, n) /\ Len(q) <= n /\ (h.truncated <=> Len(q) < n) /\ Len(q) <= MaxHistory
  BY SuffixEnds DEF Output
<1>3. q \in Seq(Nat) /\ Len(q) = lh + lt /\ lh \in Nat /\ lt \in Nat /\ EndsAt(tl, n)
  BY <1>1, <1>2, EndsConcat
<1>4. tail \in Seq(Nat) /\ Len(tail) = lt + 1 /\ EndsAt(tail, n + 1)
  BY <1>1, <1>3, EndsAppend
<1>5. CASE lh + Len(tail) <= MaxHistory
  <2>1. a = [h EXCEPT !.tail = tail]
    BY <1>1, <1>5 DEF AppendOutputHistory
  <2>2. a.head = hd /\ a.tail = tail /\ a.truncated = h.truncated
    BY <2>1 DEF HistoryType
  <2>3. Output(a) = Append(q, n + 1)
    <3>1. hd \o Append(tl, n + 1) = Append(hd \o tl, n + 1)
      <4>1. n + 1 \in Nat /\ <<n + 1>> \in Seq(Nat)
        OBVIOUS
      <4>2. Append(tl, n + 1) = tl \o <<n + 1>> /\ Append(q, n + 1) = q \o <<n + 1>>
        BY <1>1, <1>3, <4>1, AppendIsConcat
      <4>3. \A x, y, z \in Seq(Nat) : (x \o y) \o z = x \o (y \o z)
        BY ConcatAssociative
      <4>4. hd \o (tl \o <<n + 1>>) = (hd \o tl) \o <<n + 1>>
        BY ONLY <1>1, <4>1, <4>3
      <4>5. QED
        BY <4>2, <4>4
    <3>2. QED
      BY <2>2, <3>1 DEF Output
  <2> DEFINE p == Append(q, n + 1)
  <2>4. Len(p) = (lh + lt) + 1 /\ EndsAt(p, n + 1)
    BY <1>2, <1>3, EndsAppend
  <2> HIDE DEF p, q, tail, lh, lt
  <2>5. /\ Len(p) <= MaxHistory /\ Len(p) <= n + 1 /\ Len(p) # 0
        /\ h.truncated <=> Len(p) < n + 1
    BY <1>1, <1>2, <1>3, <1>4, <1>5, <2>4
  <2>6. QED
    BY <2>2, <2>3, <2>4, <2>5, SuffixEnds DEF p
<1>6. CASE ~(lh + Len(tail) <= MaxHistory) /\ hd # <<>>
  <2>1. a = [head |-> <<>>, tail |-> tail, truncated |-> TRUE]
    BY <1>1, <1>6 DEF AppendOutputHistory
  <2>2. a.head = <<>> /\ a.tail = tail /\ a.truncated = TRUE
    BY <2>1
  <2>3. lh # 0
    BY <1>1, <1>6, EmptySeq
  <2> HIDE DEF q, tail, lh, lt
  <2>4. Output(a) = tail
    BY <1>4, <2>2, ConcatEmptySeq DEF Output
  <2>5. Len(tail) <= MaxHistory /\ Len(tail) < n + 1 /\ Len(tail) <= n + 1 /\ Len(tail) # 0
    BY <1>1, <1>2, <1>3, <1>4, <2>3
  <2>6. QED
    BY <1>4, <2>2, <2>4, <2>5, SuffixEnds
<1>7. CASE ~(lh + Len(tail) <= MaxHistory) /\ hd = <<>>
  <2> DEFINE p == Tail(tail)
  <2>1. a = [head |-> <<>>, tail |-> p, truncated |-> TRUE]
    BY <1>1, <1>7 DEF AppendOutputHistory
  <2>2. a.head = <<>> /\ a.tail = p /\ a.truncated = TRUE
    BY <2>1
  <2>3. lh = 0
    BY <1>7
  <2>4. tail # <<>>
    <3>1. Len(tail) # 0
      BY <1>3, <1>4
    <3>2. QED
      BY <3>1, EmptySeq
  <2>5. p \in Seq(Nat) /\ Len(p) = Len(tail) - 1 /\ EndsAt(p, n + 1)
    BY <1>4, <2>4, EndsTail, n + 1 \in Nat
  <2> HIDE DEF p, q, tail, lh, lt
  <2>6. Output(a) = p
    BY <2>2, <2>5, ConcatEmptySeq DEF Output
  <2>7. Len(p) <= MaxHistory /\ Len(p) < n + 1 /\ Len(p) <= n + 1 /\ Len(p) # 0
    BY <1>1, <1>2, <1>3, <1>4, <1>7, <2>3, <2>5
  <2>8. QED
    BY <2>2, <2>5, <2>6, <2>7, SuffixEnds
<1>8. QED
  BY <1>5, <1>6, <1>7

\* A history that is an end of the output makes a snapshot that is one.
LEMMA FreshSound ==
  ASSUME NEW s \in Sessions, NEW r, NEW h \in HistoryType, NEW n \in Nat,
         SuffixOf(Output(h), n, h.truncated)
  PROVE  SnapshotSound(BuildHistorySnapshot(s, r, h))
<1> DEFINE p == BuildHistorySnapshot(s, r, h)
<1>1. Output(h) \in Seq(Nat) /\ h.truncated \in BOOLEAN
  BY ConcatProperties DEF HistoryType, Output
<1>2. LastOf(Output(h)) = n
  BY <1>1, SuffixConsecutive
<1>3. p.output = Output(h) /\ p.truncated = h.truncated
  BY DEF BuildHistorySnapshot
<1>4. QED
  BY <1>2, <1>3 DEF SnapshotSound

\* The history of a session that has had no output, or is forgotten.
LEMMA EmptySound == SuffixOf(Output(NoHistory), 0, NoHistory.truncated)
<1>1. Output(NoHistory) = <<>>
  BY ConcatEmptySeq, EmptySeq DEF Output, NoHistory
<1>2. Len(<<>>) = 0 /\ 0 <= MaxHistory
  BY EmptySeq, TerminalAssumption
<1>3. QED
  BY <1>1, <1>2 DEF SuffixOf, NoHistory

\* Only output and recovery change the histories.
LEMMA HistoryFrame ==
  ASSUME Next
  PROVE  \/ \E s \in Sessions, t \in Tasks : HandleOutput(s, t)
         \/ Restart
         \/ UNCHANGED <<hist, seen>>
  BY DEF Next, CreateSession, AttachSession, CloseSessionByGroup, ExpireDetachedSession,
         HandleExit, ProcessExits, ReadEof, AcceptSocket, HandshakeFails, Disconnect, Leave,
         CloseMessage, JobStep, RunContainer, RunContainerFails, ExecStarts, ExecFails,
         StartRaises, KillWaited, ReadersGone, WriteTemp, ReplaceLatest, PersistFails

\* Every step keeps the histories and their copies in tasks and files suffixes of the
\* output.
LEMMA HistoriesStep ==
  ASSUME MaxHistory > 0, IInv, TablesAgree, Named, Histories, Next
  PROVE  Histories'
<1>0. /\ hist \in [Sessions -> HistoryType] /\ seen \in [Sessions -> Nat]
      /\ latest \in [Groups -> SnapType \cup {None}] /\ temp \in [Groups -> SnapType \cup {None}]
  BY DEF IInv, TypeOK, TypeRecords, TypeDisk
<1>1. ASSUME NEW x \in Sessions
      PROVE  SuffixOf(Output(hist'[x]), seen'[x], hist'[x].truncated)
  <2>1. SuffixOf(Output(hist[x]), seen[x], hist[x].truncated)
    BY DEF Histories
  <2>2. CASE UNCHANGED <<hist, seen>>
    BY <2>1, <2>2
  <2>3. ASSUME NEW s \in Sessions, NEW t \in Tasks, HandleOutput(s, t)
        PROVE  SuffixOf(Output(hist'[x]), seen'[x], hist'[x].truncated)
    <3>1. /\ seen' = [seen EXCEPT ![s] = seen[s] + 1]
          /\ hist' = [hist EXCEPT ![s] = AppendOutputHistory(hist[s], seen[s] + 1)]
      BY <2>3 DEF HandleOutput
    <3>2. CASE x # s
      <4>1. hist'[x] = hist[x] /\ seen'[x] = seen[x]
        BY <1>0, <3>1, <3>2
      <4>2. QED
        BY <2>1, <4>1
    <3>3. CASE x = s
      <4>1. /\ hist'[x] = AppendOutputHistory(hist[x], seen[x] + 1) /\ seen'[x] = seen[x] + 1
            /\ hist[x] \in HistoryType /\ seen[x] \in Nat
        BY <1>0, <3>1, <3>3
      <4>2. QED
        BY <2>1, <4>1, AppendKeepsSuffix
    <3>4. QED
      BY <3>2, <3>3
  <2>4. CASE Restart
    <3> DEFINE back == {g \in Groups : Recovered(g)}
               ids == RecoveredIds(back)
               p == latest[CHOOSE g \in back : latest[g].session = x]
    <3>1. /\ hist'[x] = IF x \in ids THEN [head |-> p.output, tail |-> <<>>, truncated |-> p.truncated]
                        ELSE NoHistory
          /\ seen'[x] = IF x \in ids /\ p.output # <<>> THEN p.output[Len(p.output)] ELSE 0
      BY <2>4 DEF Restart
    <3>2. CASE x \in ids
      <4>1. \E g \in back : latest[g].session = x
        BY <3>2 DEF RecoveredIds
      <4>2. PICK g \in back : p = latest[g]
        BY <4>1
      <4>3. p # None /\ p \in SnapType /\ SnapshotSound(p)
        BY <1>0, <4>2 DEF Recovered, Histories
      <4> HIDE DEF p, ids
      <4>4. p.output \in Seq(Nat) /\ SuffixOf(p.output, LastOf(p.output), p.truncated)
        BY <4>3 DEF SnapType, SnapshotSound
      <4>5. seen'[x] = LastOf(p.output)
        BY <3>1, <3>2 DEF LastOf
      <4>6. hist'[x].head = p.output /\ hist'[x].tail = <<>> /\ hist'[x].truncated = p.truncated
        BY <3>1, <3>2
      <4>7. Output(hist'[x]) = p.output
        BY <4>4, <4>6, ConcatEmptySeq DEF Output
      <4>8. QED
        BY <4>4, <4>5, <4>6, <4>7
    <3>3. CASE x \notin ids
      BY <3>1, <3>3, EmptySound
    <3>4. QED
      BY <3>2, <3>3
  <2>5. QED
    BY <2>2, <2>3, <2>4, HistoryFrame
<1>2. /\ TablesAgree' /\ hist' \in [Sessions -> HistoryType] /\ seen' \in [Sessions -> Nat]
      /\ byId' \subseteq Sessions
  BY TablesStep, NextStep DEF IInv, TypeOK, TypeRecords, TypeTables
<1>3. ASSUME NEW t \in Tasks, task'[t] # None
      PROVE  SnapshotSound(task'[t].snap)
  <2>1. Source(t)
    BY Sources
  <2>2. CASE task[t] # None /\ task'[t].snap = task[t].snap
    BY <2>2 DEF Histories, Working
  <2>3. CASE task'[t].snap = None
    BY <2>3 DEF SnapshotSound
  <2>4. CASE task'[t].session \in byId' /\ task'[t].snap = Fresh(task'[t].session)
    <3> DEFINE s == task'[t].session
    <3>1. s \in Sessions /\ hist'[s] \in HistoryType /\ seen'[s] \in Nat
      BY <1>2, <2>4
    <3>2. SuffixOf(Output(hist'[s]), seen'[s], hist'[s].truncated)
      BY <1>1, <3>1
    <3>3. SnapshotSound(BuildHistorySnapshot(s, rec'[s], hist'[s]))
      BY <3>1, <3>2, FreshSound
    <3>4. QED
      BY <2>4, <3>3 DEF Fresh
  <2>5. QED
    BY <1>3, <2>1, <2>2, <2>3, <2>4 DEF Source
<1>4. ASSUME NEW g \in Groups PROVE SnapshotSound(temp'[g]) /\ SnapshotSound(latest'[g])
  <2>1. SnapshotSound(temp[g]) /\ SnapshotSound(latest[g]) /\ SnapshotSound(None)
    BY DEF Histories, SnapshotSound
  <2>2. CASE UNCHANGED disk
    BY <2>1, <2>2 DEF disk
  <2>3. ASSUME NEW t \in Tasks, WriteTemp(t)
        PROVE  SnapshotSound(temp'[g]) /\ SnapshotSound(latest'[g])
    <3>1. /\ task[t] # None /\ latest' = latest
          /\ temp' = [temp EXCEPT ![groupOf[task[t].session]] = task[t].snap]
      BY <2>3 DEF WriteTemp, Working
    <3>2. temp'[g] = temp[g] \/ temp'[g] = task[t].snap
      BY <1>0, <3>1
    <3>3. SnapshotSound(task[t].snap)
      BY <3>1 DEF Histories, Working
    <3>4. QED
      BY <2>1, <3>1, <3>2, <3>3
  <2>4. ASSUME NEW t \in Tasks, ReplaceLatest(t)
        PROVE  SnapshotSound(temp'[g]) /\ SnapshotSound(latest'[g])
    <3>1. temp'[g] \in {temp[g], None} /\ latest'[g] \in {latest[g], temp[g]}
      <4> DEFINE x == groupOf[task[t].session]
      <4>1. CASE temp[x] # None
        <5>1. latest' = [latest EXCEPT ![x] = temp[x]] /\ temp' = [temp EXCEPT ![x] = None]
          BY <2>4, <4>1 DEF ReplaceLatest, disk
        <5>2. QED
          BY <1>0, <5>1
      <4>2. CASE temp[x] = None
        BY <2>4, <4>2 DEF ReplaceLatest, disk
      <4>3. QED
        BY <4>1, <4>2
    <3>2. QED
      BY <2>1, <3>1
  <2>5. QED
    BY <2>2, <2>3, <2>4, DiskFrame
<1>5. QED
  BY <1>1, <1>3, <1>4 DEF Histories, Working

\* The histories, with the invariant they need.
HistoriesInv == TablesInv /\ (MaxHistory > 0 => Histories)

\* A history is the end of the session's output, within history_max_bytes, and says
\* it is truncated exactly when its beginning is missing, through any output,
\* snapshots written by any thread in any order, and recovery from them.
THEOREM HistoriesInvariant == Spec => []HistoriesInv
<1>1. Init => HistoriesInv
  <2>1. Init => Histories
    BY EmptySound DEF Init, Histories, SnapshotSound, Working
  <2>2. QED
    BY <2>1, TablesInit DEF HistoriesInv, TablesInv
<1>2. HistoriesInv /\ TablesInv' /\ [Next]_vars => HistoriesInv'
  <2> SUFFICES ASSUME HistoriesInv, TablesInv', [Next]_vars PROVE HistoriesInv'
    OBVIOUS
  <2>1. CASE Next
    BY <2>1, HistoriesStep DEF HistoriesInv, TablesInv
  <2>2. CASE UNCHANGED vars
    BY <2>2 DEF vars, disk, HistoriesInv, Histories, Working
  <2>3. QED
    BY <2>1, <2>2
<1>3. QED
  BY <1>1, <1>2, TablesInvariant, PTL DEF Spec

\* In every reachable state a session's history is the end of what its terminal has
\* put out, although it is trimmed, saved, recovered and read by several tasks.
THEOREM HistoriesAreSuffixes == Spec => []HistoryIsSuffix
<1>1. HistoriesInv => HistoryIsSuffix
  <2> SUFFICES ASSUME HistoriesInv, MaxHistory > 0, NEW s \in byId
               PROVE  LET out == Output(hist[s])
                      IN /\ Consecutive(out)
                         /\ Len(out) <= MaxHistory
                         /\ seen[s] > 0 => out # <<>> /\ out[Len(out)] = seen[s]
                         /\ out # <<>> => (out[1] # 1 <=> hist[s].truncated)
    BY DEF HistoryIsSuffix
  <2>1. s \in Sessions /\ hist[s] \in HistoryType /\ seen[s] \in Nat
    BY DEF HistoriesInv, TablesInv, IInv, TypeOK, TypeTables, TypeRecords
  <2>2. Output(hist[s]) \in Seq(Nat) /\ hist[s].truncated \in BOOLEAN
    BY <2>1, ConcatProperties DEF HistoryType, Output
  <2>3. SuffixOf(Output(hist[s]), seen[s], hist[s].truncated)
    BY <2>1 DEF HistoriesInv, Histories
  <2>4. Len(Output(hist[s])) <= MaxHistory
    BY <2>3 DEF SuffixOf
  <2>5. QED
    BY <2>1, <2>2, <2>3, <2>4, SuffixConsecutive
<1>2. QED
  BY <1>1, HistoriesInvariant, PTL

-----------------------------------------------------------------------------
(***************************************************************************)
(* Replay and live output. A client is sent the history at its attach and  *)
(* then every chunk that is handled while the session's queue is its own;  *)
(* a chunk is put on the queue in a later step than the one that handled   *)
(* it, and by then the queue may be another's, the reader cancelled or the *)
(* client gone. The argument: a chunk on its way to a queue is the last    *)
(* one that its session has seen, because the reader waits for its         *)
(* handler; so the client that has the queue has been sent everything but  *)
(* that chunk as long as the session can still have output.                *)
(***************************************************************************)

\* Job j has a chunk of output on its way to a queue.
Outputs(j) == j # None /\ j.kind = "output"

\* A shell that runs has been started once, and the chunk on its way is the last
\* one seen, with the reader waiting for it.
Readers ==
  /\ \A s \in Sessions :
       /\ bridge[s].reader # "off" => bridge[s].proc # "none"
       /\ ~bridge[s].object => bridge[s].proc = "none"
  /\ \A t \in Tasks : Starting(task[t]) => bridge[task[t].session].proc = "none"
  /\ \A t \in Tasks : Outputs(task[t]) =>
       /\ bridge[task[t].session].reader = "busy"
       /\ task[t].item = seen[task[t].session] /\ task[t].item > 0
       /\ task[t].pc \in {"temp", "replace"}
  /\ \A t, u \in Tasks : Outputs(task[t]) /\ Outputs(task[u]) /\ t # u =>
       task[t].session # task[u].session

\* Session s can still have output: its shell is not started yet, or it is read.
Live(s) == bridge[s].handle \/ bridge[s].reader # "off" \/ bridge[s].proc = "none"

\* The last chunk in q, if there is any, is the n-th.
LastChunk(q, n) ==
  \A i \in 1..Len(q) :
    q[i] # ExitMark /\ (\A k \in (i + 1)..Len(q) : q[k] = ExitMark) => q[i] = n

\* The stream q goes on with chunk n + 1.
UpTo(q, n) == ChunksFollow(q) /\ LastChunk(q, n)

\* q has got to the n-th chunk.
Reaches(q, n) == n > 0 /\ MaxHistory > 0 => \E i \in 1..Len(q) : q[i] = n

\* A chunk is on its way to connection c.
Awaits(c) == \E t \in Tasks : Outputs(task[t]) /\ task[t].conn = c

\* Connection c is, or was, that of session s.
Of(c, s) == conn[c].pc # "idle" /\ (conn[c] = Gone \/ conn[c].session = s)

Streams ==
  /\ \A c \in Conns : ChunksFollow(conn[c].stream)
  /\ \A s \in Sessions, c \in Conns : outq[s] = c => Of(c, s) /\ groupOf[s] # None
  /\ \A t \in Tasks : Outputs(task[t]) /\ task[t].conn # None =>
       /\ Of(task[t].conn, task[t].session)
       /\ conn[task[t].conn] # Gone => UpTo(conn[task[t].conn].stream, task[t].item - 1)
  /\ \A s \in Sessions, c \in Conns :
       outq[s] = c /\ conn[c] # Gone /\ Live(s) =>
         \/ Awaits(c)
         \/ UpTo(conn[c].stream, seen[s]) /\ Reaches(conn[c].stream, seen[s])

\* The queue of a session in the tables is that of an endpoint that serves it.
Served == \A s \in byId : outq[s] # None => HasClient(s)

-----------------------------------------------------------------------------
(***************************************************************************)
(* Streams.                                                                *)
(***************************************************************************)

\* What is put on a queue comes after what is there.
LEMMA StreamAppend ==
  ASSUME NEW q \in Seq(Nat), NEW x \in Nat
  PROVE  /\ Append(q, x) \in Seq(Nat) /\ Len(q) \in Nat /\ Len(Append(q, x)) = Len(q) + 1
         /\ \A i \in 1..Len(q) : Append(q, x)[i] = q[i]
         /\ Append(q, x)[Len(q) + 1] = x
  BY AppendProperties, LenProperties

\* Nothing has been sent to a new queue.
LEMMA EmptyUpTo == ASSUME NEW n \in Nat PROVE UpTo(<<>>, n)
  BY EmptySeq DEF UpTo, ChunksFollow, LastChunk

\* The exit is not a chunk.
LEMMA ExitUpTo ==
  ASSUME NEW q \in Seq(Nat), NEW n \in Nat
  PROVE  /\ ChunksFollow(q) => ChunksFollow(Append(q, ExitMark))
         /\ UpTo(q, n) => UpTo(Append(q, ExitMark), n)
         /\ Reaches(q, n) => Reaches(Append(q, ExitMark), n)
<1> DEFINE p == Append(q, ExitMark)
           m == Len(q)
<1>1. /\ m \in Nat /\ Len(p) = m + 1
      /\ \A i \in 1..m : p[i] = q[i]
      /\ p[m + 1] = ExitMark
  BY StreamAppend DEF ExitMark
<1>2. \A i \in 1..Len(p) : p[i] # ExitMark => i \in 1..m
  BY <1>1
<1>3. ASSUME ChunksFollow(q) PROVE ChunksFollow(p)
  <2> SUFFICES ASSUME NEW i \in 1..Len(p), NEW j \in 1..Len(p), i < j,
                      p[i] # ExitMark, p[j] # ExitMark,
                      \A k \in (i + 1)..(j - 1) : p[k] = ExitMark
               PROVE  p[j] = p[i] + 1
    BY DEF ChunksFollow
  <2> HIDE DEF p, m
  <2>1. i \in 1..m /\ j \in 1..m
    BY <1>2
  <2>2. \A k \in (i + 1)..(j - 1) : k \in 1..m
    BY <1>1, <2>1
  <2>3. /\ q[i] # ExitMark /\ q[j] # ExitMark
        /\ \A k \in (i + 1)..(j - 1) : q[k] = ExitMark
    BY <1>1, <2>1, <2>2
  <2>4. q[j] = q[i] + 1
    BY <1>3, <2>1, <2>3 DEF ChunksFollow, m
  <2>5. QED
    BY <1>1, <2>1, <2>4
<1>4. ASSUME LastChunk(q, n) PROVE LastChunk(p, n)
  <2> SUFFICES ASSUME NEW i \in 1..Len(p), p[i] # ExitMark,
                      \A k \in (i + 1)..Len(p) : p[k] = ExitMark
               PROVE  p[i] = n
    BY DEF LastChunk
  <2> HIDE DEF p, m
  <2>1. i \in 1..m
    BY <1>2
  <2>2. \A k \in (i + 1)..m : k \in 1..m /\ k \in (i + 1)..Len(p)
    BY <1>1, <2>1
  <2>3. q[i] # ExitMark /\ \A k \in (i + 1)..m : q[k] = ExitMark
    BY <1>1, <2>1, <2>2
  <2>4. q[i] = n
    BY <1>4, <2>1, <2>3 DEF LastChunk, m
  <2>5. QED
    BY <1>1, <2>1, <2>4
<1>5. ASSUME Reaches(q, n) PROVE Reaches(p, n)
  <2> HIDE DEF p
  <2>1. \A i \in 1..m : i \in 1..Len(p) /\ p[i] = q[i]
    BY <1>1
  <2>2. QED
    BY <1>5, <2>1 DEF Reaches
<1>6. QED
  BY <1>3, <1>4, <1>5 DEF UpTo

\* The next chunk follows the last one.
LEMMA ChunkUpTo ==
  ASSUME NEW q \in Seq(Nat), NEW n \in Nat, UpTo(q, n)
  PROVE  UpTo(Append(q, n + 1), n + 1) /\ Reaches(Append(q, n + 1), n + 1)
<1> DEFINE p == Append(q, n + 1)
           m == Len(q)
<1>1. /\ m \in Nat /\ Len(p) = m + 1
      /\ \A i \in 1..m : p[i] = q[i]
      /\ p[m + 1] = n + 1 /\ n + 1 # ExitMark /\ n + 1 \in Nat
  BY StreamAppend DEF ExitMark
<1>2. ChunksFollow(p)
  <2> SUFFICES ASSUME NEW i \in 1..Len(p), NEW j \in 1..Len(p), i < j,
                      p[i] # ExitMark, p[j] # ExitMark,
                      \A k \in (i + 1)..(j - 1) : p[k] = ExitMark
               PROVE  p[j] = p[i] + 1
    BY DEF ChunksFollow
  <2> HIDE DEF p, m
  <2>1. i \in 1..m /\ i + 1 \in Nat
    BY <1>1
  <2>2. \A k \in (i + 1)..(j - 1) : k \in 1..m
    BY <1>1, <2>1
  <2>3. q[i] # ExitMark /\ \A k \in (i + 1)..(j - 1) : q[k] = ExitMark
    BY <1>1, <2>1, <2>2
  <2>4. CASE j \in 1..m
    <3>1. q[j] = q[i] + 1
      BY <1>1, <2>1, <2>3, <2>4 DEF UpTo, ChunksFollow, m
    <3>2. QED
      BY <1>1, <2>1, <2>4, <3>1
  <2>5. CASE j \notin 1..m
    <3>1. j = m + 1
      BY <1>1, <2>5
    <3>2. \A k \in (i + 1)..m : q[k] = ExitMark
      BY <1>1, <2>3, <3>1
    <3>3. q[i] = n
      BY <2>1, <2>3, <3>2 DEF UpTo, LastChunk, m
    <3>4. QED
      BY <1>1, <2>1, <3>1, <3>3
  <2>6. QED
    BY <2>4, <2>5
<1>3. LastChunk(p, n + 1)
  <2> SUFFICES ASSUME NEW i \in 1..Len(p), p[i] # ExitMark,
                      \A k \in (i + 1)..Len(p) : p[k] = ExitMark
               PROVE  p[i] = n + 1
    BY DEF LastChunk
  <2> HIDE DEF p, m
  <2>1. i \in 1..m => m + 1 \in (i + 1)..Len(p)
    BY <1>1
  <2>2. i = m + 1
    BY <1>1, <2>1
  <2>3. QED
    BY <1>1, <2>2
<1>4. Reaches(p, n + 1)
  <2>1. m + 1 \in 1..Len(p)
    BY <1>1
  <2>2. QED
    BY <1>1, <2>1 DEF Reaches
<1>5. QED
  BY <1>2, <1>3, <1>4 DEF UpTo

\* The history that a client gets when it attaches goes on with the next chunk.
LEMMA HistoryUpTo ==
  ASSUME NEW q \in Seq(Nat), NEW n \in Nat, NEW tr \in BOOLEAN, SuffixOf(q, n, tr)
  PROVE  UpTo(q, n) /\ Reaches(q, n)
<1> DEFINE m == Len(q)
<1>1. m \in Nat /\ m <= n /\ (m = 0 => n = 0) /\ \A i \in 1..m : q[i] = n - m + i
  BY LenProperties DEF SuffixOf
<1> HIDE DEF m
<1>2. \A i \in 1..m : q[i] # ExitMark
  BY <1>1 DEF ExitMark
<1>3. ChunksFollow(q)
  <2> SUFFICES ASSUME NEW i \in 1..m, NEW j \in 1..m, i < j,
                      \A k \in (i + 1)..(j - 1) : q[k] = ExitMark
               PROVE  q[j] = q[i] + 1
    BY DEF ChunksFollow, m
  <2>1. CASE j = i + 1
    BY <1>1, <2>1
  <2>2. CASE j # i + 1
    <3>1. i + 1 \in 1..m /\ i + 1 \in (i + 1)..(j - 1)
      BY <1>1, <2>2
    <3>2. QED
      BY <1>2, <3>1
  <2>3. QED
    BY <2>1, <2>2
<1>4. LastChunk(q, n)
  <2> SUFFICES ASSUME NEW i \in 1..m, \A k \in (i + 1)..m : q[k] = ExitMark
               PROVE  q[i] = n
    BY DEF LastChunk, m
  <2>1. CASE i = m
    BY <1>1, <2>1
  <2>2. CASE i # m
    <3>1. i + 1 \in 1..m /\ i + 1 \in (i + 1)..m
      BY <1>1, <2>2
    <3>2. QED
      BY <1>2, <3>1
  <2>3. QED
    BY <2>1, <2>2
<1>5. Reaches(q, n)
  <2>1. n > 0 => m \in 1..m /\ q[m] = n
    BY <1>1
  <2>2. QED
    BY <2>1 DEF Reaches, m
<1>6. QED
  BY <1>3, <1>4, <1>5 DEF UpTo

-----------------------------------------------------------------------------
(***************************************************************************)
(* Jobs that carry output.                                                 *)
(***************************************************************************)

\* Handler u, which carries output, carried the same before.
SameOutput(u) ==
  /\ Outputs(task[u])
  /\ task'[u].session = task[u].session /\ task'[u].conn = task[u].conn
  /\ task'[u].item = task[u].item /\ task'[u].pc \in {"temp", "replace"}

\* Handler u, which carried output, carries the same.
KeepsOutput(u) ==
  /\ Outputs(task'[u])
  /\ task'[u].session = task[u].session /\ task'[u].conn = task[u].conn
  /\ task'[u].item = task[u].item

\* Session s can still have output after the step.
LiveAfter(s) == bridge'[s].handle \/ bridge'[s].reader # "off" \/ bridge'[s].proc = "none"

\* What the invariant says of one output job.
LEMMA OutputFields ==
  ASSUME IInv, Readers, NEW u \in Tasks, Outputs(task[u])
  PROVE  /\ task[u] \in JobType /\ task[u] # None
         /\ task[u].session \in Sessions /\ task[u].conn \in Conns \cup {None}
         /\ bridge[task[u].session].reader = "busy" /\ bridge[task[u].session].proc # "none"
         /\ task[u].item = seen[task[u].session] /\ task[u].item > 0 /\ task[u].item \in Nat
         /\ task[u].pc \in {"temp", "replace"}
<1>1. task[u] \in JobType /\ task[u] # None
  BY Typed DEF JobsOK, Outputs
<1>2. /\ task[u].session \in Sessions /\ task[u].conn \in Conns \cup {None}
      /\ task[u].item \in Nat
  BY <1>1 DEF JobType
<1>3. QED
  BY <1>1, <1>2 DEF Readers

\* The output jobs of other handlers are those that were there.
LEMMA OthersOutputs ==
  ASSUME IInv, Readers, NEW t \in Tasks, OthersDerived(task', t), NEW u \in Tasks \ {t},
         Outputs(task'[u])
  PROVE  task'[u] = task[u] /\ SameOutput(u)
<1>1. task[u] \in JobType \cup {None} /\ Derived(task'[u], task[u])
  BY Typed DEF JobsOK, OthersDerived
<1>2. task'[u] # None /\ task'[u].kind = "output"
  BY DEF Outputs
<1>3. task'[u] = task[u]
  <2>1. CASE task[u] # None /\ task'[u] = [task[u] EXCEPT !.kind = "thread"]
    <3>1. task'[u].kind = "thread"
      BY <1>1, <2>1 DEF JobType
    <3>2. QED
      BY <1>2, <3>1
  <2>2. QED
    BY <1>1, <1>2, <2>1 DEF Derived
<1>4. QED
  BY <1>2, <1>3, OutputFields DEF SameOutput, Outputs

\* A job that carries output is no reconnect_task, so cancelling one leaves it.
LEMMA CancelReconnectKeeps ==
  ASSUME IInv, NEW s \in Sessions, NEW u \in Tasks, Outputs(task[u])
  PROVE  CancelReconnectTask(task, s)[u] = task[u]
<1> DEFINE f == CancelReconnectTask(task, s)
<1>1. task \in [Tasks -> JobType \cup {None}]
  BY DEF IInv, TypeOK
<1>2. timer[s] \in Tasks => u # timer[s]
  BY DEF IInv, TimerIsExpiry, ExpiryOf, Outputs
<1>3. CASE timer[s] \notin Tasks
  BY <1>3 DEF CancelReconnectTask
<1>4. CASE timer[s] \in Tasks
  <2>1. \/ f = task
        \/ f = [task EXCEPT ![timer[s]] = None]
        \/ f = [task EXCEPT ![timer[s]].kind = "thread"]
    BY DEF CancelReconnectTask
  <2>2. QED
    BY <1>1, <1>2, <1>4, <2>1
<1>5. QED
  BY <1>3, <1>4

\* bridge.close() ends the output jobs of a session exactly when it stops its reader,
\* which it does for good.
LEMMA StopReadersOutputs ==
  ASSUME IInv, Readers, NEW f, f \in [Tasks -> JobType \cup {None}],
         NEW t \in Tasks, NEW j \in JobType,
         StopReaders(f, t, j), NEW u \in Tasks \ {t}
  PROVE  /\ Outputs(task'[u]) => bridge'[task'[u].session].reader = bridge[task'[u].session].reader
         /\ Outputs(task[u]) /\ f[u] = task[u] =>
              task'[u] = task[u] \/ ~LiveAfter(task[u].session)
<1> DEFINE s == j.session
<1>0. bridge \in [Sessions -> BridgeType] /\ s \in Sessions /\ f[u] \in JobType \cup {None}
  BY DEF IInv, TypeOK, TypeShell, JobType
<1>1. CASE /\ bridge' = [bridge EXCEPT ![s].handle = FALSE, ![s].reader = "off", ![s].watcher = "off"]
           /\ task' = [CancelReaders(f, s) EXCEPT ![t] = [j EXCEPT !.pc = "drain"]]
  <2>1. task'[u] = CancelReaders(f, s)[u]
    BY <1>1 DEF CancelReaders
  <2>2. task'[u] = IF f[u] # None /\ f[u].session = s /\ f[u].kind \in {"output", "exit"}
                   THEN [f[u] EXCEPT !.kind = "thread"] ELSE f[u]
    BY <2>1 DEF CancelReaders
  <2>3. \A x \in Sessions \ {s} : bridge'[x] = bridge[x]
    BY <1>0, <1>1
  <2>4. bridge'[s].handle = FALSE /\ bridge'[s].reader = "off" /\ bridge'[s].proc = bridge[s].proc
    BY <1>0, <1>1 DEF BridgeType
  <2>5. ASSUME Outputs(task[u]), f[u] = task[u]
        PROVE  task'[u] = task[u] \/ ~LiveAfter(task[u].session)
    <3>1. CASE task[u].session # s
      BY <2>2, <2>5, <3>1
    <3>2. CASE task[u].session = s
      <4>1. bridge[s].proc # "none"
        BY <2>5, <3>2, OutputFields
      <4>2. QED
        BY <2>4, <3>2, <4>1 DEF LiveAfter
    <3>3. QED
      BY <3>1, <3>2
  <2>6. ASSUME Outputs(task'[u])
        PROVE  bridge'[task'[u].session].reader = bridge[task'[u].session].reader
    <3>1. CASE f[u] # None /\ f[u].session = s /\ f[u].kind \in {"output", "exit"}
      <4>1. task'[u] = [f[u] EXCEPT !.kind = "thread"]
        BY <2>2, <3>1
      <4>2. task'[u].kind = "thread"
        BY <1>0, <3>1, <4>1 DEF JobType
      <4>3. QED
        BY <2>6, <4>2 DEF Outputs
    <3>2. CASE ~(f[u] # None /\ f[u].session = s /\ f[u].kind \in {"output", "exit"})
      <4>1. task'[u] = f[u] /\ task'[u].session # s /\ task'[u] # None
        BY <2>2, <2>6, <3>2 DEF Outputs
      <4>2. task'[u].session \in Sessions
        BY <1>0, <4>1 DEF JobType
      <4>3. QED
        BY <2>3, <4>1, <4>2
    <3>3. QED
      BY <3>1, <3>2
  <2>7. QED
    BY <2>5, <2>6
<1>2. CASE /\ bridge' = [bridge EXCEPT ![s].handle = FALSE]
           /\ task' = [f EXCEPT ![t] = [j EXCEPT !.pc = "temp"]]
  <2>1. task'[u] = f[u]
    BY <1>2
  <2>2. \A x : bridge'[x].reader = bridge[x].reader
    BY <1>0, <1>2 DEF BridgeType
  <2>3. QED
    BY <2>1, <2>2
<1>3. QED
  BY <1>1, <1>2 DEF StopReaders

\* Handler u goes on carrying what it carried, unless the session can have no more
\* output; what it carries it carried before, and the reader still waits for it.
GoesOn(u) ==
  /\ Outputs(task'[u]) => SameOutput(u) /\ bridge'[task[u].session].reader = "busy"
  /\ Outputs(task[u]) => KeepsOutput(u) \/ ~LiveAfter(task[u].session)

\* A job that is not touched, and whose reader is not, goes on.
LEMMA GoesOnSame ==
  ASSUME IInv, Readers, NEW u \in Tasks,
         Outputs(task[u]) \/ Outputs(task'[u]) =>
           /\ task'[u] = task[u]
           /\ bridge'[task[u].session].reader = bridge[task[u].session].reader
  PROVE  GoesOn(u)
<1>1. CASE Outputs(task[u]) \/ Outputs(task'[u])
  <2>1. Outputs(task[u]) /\ task'[u] = task[u]
    BY <1>1
  <2>2. SameOutput(u) /\ KeepsOutput(u) /\ bridge'[task[u].session].reader = "busy"
    BY <2>1, OutputFields DEF SameOutput, KeepsOutput
  <2>3. QED
    BY <2>2 DEF GoesOn
<1>2. CASE ~(Outputs(task[u]) \/ Outputs(task'[u]))
  BY <1>2 DEF GoesOn
<1>3. QED
  BY <1>1, <1>2

\* bridge.close() in job t lets the output jobs of other handlers go on or ends
\* their session's output.
LEMMA CloseBridgeOutputs ==
  ASSUME IInv, Readers, NEW f, f \in [Tasks -> JobType \cup {None}], NEW t \in Tasks,
         NEW j \in JobType, CloseBridge(f, t, j) \/ StopReaders(f, t, j), OthersDerived(task', t),
         NEW u \in Tasks \ {t}, Outputs(task[u]) => f[u] = task[u]
  PROVE  GoesOn(u)
<1>0. bridge \in [Sessions -> BridgeType] /\ j.session \in Sessions
  BY DEF IInv, TypeOK, TypeShell, JobType
<1>1. CASE StopReaders(f, t, j)
  <2>1. /\ Outputs(task'[u]) => bridge'[task'[u].session].reader = bridge[task'[u].session].reader
        /\ Outputs(task[u]) => task'[u] = task[u] \/ ~LiveAfter(task[u].session)
    BY <1>1, StopReadersOutputs
  <2>2. Outputs(task'[u]) => task'[u] = task[u] /\ SameOutput(u)
    BY OthersOutputs
  <2>3. Outputs(task'[u]) => SameOutput(u) /\ bridge'[task[u].session].reader = "busy"
    BY <2>1, <2>2, OutputFields DEF SameOutput
  <2>4. Outputs(task[u]) => KeepsOutput(u) \/ ~LiveAfter(task[u].session)
    BY <2>1 DEF KeepsOutput
  <2>5. QED
    BY <2>3, <2>4 DEF GoesOn
<1>2. CASE ~StopReaders(f, t, j)
  <2>1. /\ bridge' = bridge \/ bridge' = [bridge EXCEPT ![j.session].handle = FALSE]
        /\ \E pc \in {"temp", "kill"} : task' = [f EXCEPT ![t] = [j EXCEPT !.pc = pc]]
    BY <1>2 DEF CloseBridge, shell
  <2>2. task'[u] = f[u]
    BY <2>1
  <2>3. \A x \in Sessions : bridge'[x].reader = bridge[x].reader
    BY <1>0, <2>1 DEF BridgeType
  <2>4. Outputs(task'[u]) => task'[u] = task[u]
    BY OthersOutputs
  <2>5. Outputs(task[u]) => task[u].session \in Sessions
    BY OutputFields
  <2>6. QED
    BY <2>2, <2>3, <2>4, <2>5, GoesOnSame
<1>3. QED
  BY <1>1, <1>2

\* A job that carries nothing, before and after.
LEMMA NoOutput ==
  ASSUME NEW u \in Tasks, ~Outputs(task[u]), ~Outputs(task'[u])
  PROVE  GoesOn(u)
  BY DEF GoesOn

\* The jobs of close_session go on, or the session has no more output.
LEMMA CloseOutputs ==
  ASSUME IInv, Readers, NEW s \in Sessions, NEW t \in Tasks, NEW c \in Conns \cup {None},
         Idle(t), CloseSession(s, t, c), UNCHANGED hist, NEW u \in Tasks
  PROVE  GoesOn(u)
<1> DEFINE r == [status |-> "closed", timed |-> FALSE]
           b == BuildHistorySnapshot(s, r, hist[s])
           j == Job("close", s, "kill", b, c)
           f == CancelReconnectTask(task, s)
<1>1. IsJob(task'[t], "close", s, Fresh(s), c) /\ OthersDerived(task', t)
  BY CloseJobs
<1>2. CASE u = t
  BY <1>1, <1>2, NoOutput DEF Idle, Outputs, IsJob
<1>3. CASE u # t
  <2>1. b \in SnapType
    BY Typed, Records, SnapshotType
  <2>2. CloseBridge(f, t, j)
    BY DEF CloseSession
  <2>3. f \in [Tasks -> JobType \cup {None}]
    BY CancelReconnectJobs DEF IInv, JobsOK
  <2>4. Outputs(task[u]) => f[u] = task[u]
    BY CancelReconnectKeeps
  <2> HIDE DEF b, f
  <2>5. j \in JobType
    BY <2>1, NewJob
  <2> HIDE DEF j
  <2>6. u \in Tasks \ {t}
    BY <1>3
  <2>7. QED
    BY <1>1, <2>2, <2>3, <2>4, <2>5, <2>6, CloseBridgeOutputs
<1>4. QED
  BY <1>2, <1>3

\* A handler that cancels the timer of s and puts a job in place t that carries no
\* output.
LEMMA CancelAndPutOutputs ==
  ASSUME IInv, Readers, NEW s \in Sessions, NEW t \in Tasks, Idle(t), NEW j, ~Outputs(j),
         task' = [CancelReconnectTask(task, s) EXCEPT ![t] = j],
         \A x \in Sessions : bridge'[x].reader = bridge[x].reader, NEW u \in Tasks
  PROVE  GoesOn(u)
<1>1. task'[t] = j /\ OthersDerived(task', t)
  BY CancelAndPutJobs
<1>2. CASE u = t
  BY <1>1, <1>2, NoOutput DEF Idle, Outputs
<1>3. CASE u # t
  <2>1. Outputs(task'[u]) => task'[u] = task[u]
    BY <1>1, <1>3, OthersOutputs
  <2>2. Outputs(task[u]) => task'[u] = task[u]
    <3>1. task'[u] = CancelReconnectTask(task, s)[u]
      BY <1>3
    <3>2. QED
      BY <3>1, CancelReconnectKeeps
  <2>3. Outputs(task[u]) => task[u].session \in Sessions
    BY OutputFields
  <2>4. QED
    BY <2>1, <2>2, <2>3, GoesOnSame
<1>4. QED
  BY <1>2, <1>3

\* Resume of a job that carries output, which ends it.
Delivers(t) == Outputs(task[t]) /\ (ReplaceLatest(t) \/ PersistFails(t))

\* In every step but a restart a job that carries output goes on, but for the one
\* that is handled or put on its queue.
LEMMA OutputSteps ==
  ASSUME IInv, Named, StartedBridges, Readers, Next, ~Restart, NEW u \in Tasks,
         ~Delivers(u), ~\E s \in Sessions : HandleOutput(s, u)
  PROVE  GoesOn(u)
<1>0. /\ bridge \in [Sessions -> BridgeType] /\ task \in [Tasks -> JobType \cup {None}]
      /\ \A g \in Groups : byGroup[g] \in Sessions \cup {None}
  BY Typed DEF IInv, TypeOK, TypeShell
<1>f. Outputs(task[u]) => task[u].session \in Sessions
  BY OutputFields
<1>1. ASSUME NEW g \in Groups, NEW s \in Sessions, NEW t \in Tasks, CreateSession(g, s, t)
      PROVE  GoesOn(u)
  <2> DEFINE old == byGroup[g]
             f == IF old = None THEN task ELSE CancelReconnectTask(task, old)
             j == Job("create", s, "start", None, None)
  <2>1. /\ IsJob(task'[t], "create", s, None, None) /\ OthersDerived(task', t)
        /\ Idle(t) /\ task' = [f EXCEPT ![t] = j] /\ groupOf[s] = None
        /\ bridge' = [bridge EXCEPT ![s] = NewBridge]
    BY <1>1, CreateJobs DEF CreateSession
  <2>2. CASE u = t
    BY <2>1, <2>2, NoOutput DEF Idle, Outputs, IsJob
  <2>3. CASE u # t
    <3>1. Outputs(task'[u]) => task'[u] = task[u]
      BY <2>1, <2>3, OthersOutputs
    <3>2. Outputs(task[u]) => f[u] = task[u]
      BY <1>0, CancelReconnectKeeps
    <3>3. task'[u] = f[u]
      BY <2>1, <2>3
    <3>4. Outputs(task[u]) => groupOf[task[u].session] # None
      BY DEF Named, Outputs, Working
    <3>5. Outputs(task[u]) => bridge'[task[u].session] = bridge[task[u].session]
      BY <1>0, <1>f, <2>1, <3>4
    <3>6. QED
      BY <3>1, <3>2, <3>3, <3>5, GoesOnSame
  <2>4. QED
    BY <2>2, <2>3
<1>2. ASSUME NEW c \in Conns, NEW s \in Sessions, NEW t \in Tasks, AttachSession(c, s, t)
      PROVE  GoesOn(u)
  <2> DEFINE r == [status |-> "attached", timed |-> FALSE]
             pc == IF bridge[s].object THEN "temp" ELSE "start"
             j == Job("attach", s, pc, BuildHistorySnapshot(s, r, hist[s]), c)
  <2>1. /\ Idle(t) /\ task' = [CancelReconnectTask(task, s) EXCEPT ![t] = j]
        /\ bridge' = [bridge EXCEPT ![s] = IF @.object THEN @ ELSE NewBridge]
    BY <1>2 DEF AttachSession
  <2>2. ~Outputs(j)
    BY DEF Outputs, Job
  <2>3. \A x \in Sessions : bridge'[x].reader = bridge[x].reader
    <3>1. ~bridge[s].object => bridge[s].reader = "off"
      BY DEF Readers
    <3>2. \A x \in Sessions : bridge'[x] = IF x = s /\ ~bridge[s].object THEN NewBridge ELSE bridge[x]
      BY <1>0, <2>1
    <3>3. NewBridge.reader = "off"
      BY DEF NewBridge, NoBridge
    <3>4. QED
      BY <3>1, <3>2, <3>3
  <2> HIDE DEF j
  <2>4. QED
    BY <2>1, <2>2, <2>3, CancelAndPutOutputs
<1>3. ASSUME NEW g \in Groups, NEW t \in Tasks, CloseSessionByGroup(g, t)
      PROVE  GoesOn(u)
  <2>1. byGroup[g] \in Sessions /\ CloseSession(byGroup[g], t, None) /\ hist' = hist /\ Idle(t)
    BY <1>0, <1>3 DEF CloseSessionByGroup
  <2>2. QED
    BY <2>1, CloseOutputs
<1>4. ASSUME NEW s \in Sessions, NEW t \in Tasks, ExpireDetachedSession(s, t)
      PROVE  GoesOn(u)
  <2>1. CASE ~WindowDue(s)
    <3>1. task' = task /\ bridge' = bridge
      BY <1>4, <2>1 DEF ExpireDetachedSession, shell
    <3>2. QED
      BY <3>1, GoesOnSame
  <2>2. CASE WindowDue(s)
    <3> DEFINE r == [status |-> "closed", timed |-> FALSE]
               b == BuildHistorySnapshot(s, r, hist[s])
               j == Job("expire", s, "kill", b, None)
    <3>1. CloseBridge(task, t, j) /\ Idle(t)
      BY <1>4, <2>2 DEF ExpireDetachedSession
    <3>2. OthersDerived(task', t) /\ (IsJob(task'[t], "expire", s, Fresh(s), None) \/ task' = task)
      BY <1>4, ExpireJobs
    <3>3. b \in SnapType
      BY Typed, Records, SnapshotType
    <3> HIDE DEF b
    <3>4. j \in JobType
      BY <3>3, NewJob
    <3> HIDE DEF j
    <3>5. CASE u = t
      BY <3>1, <3>2, <3>5, NoOutput DEF Idle, Outputs, IsJob
    <3>6. CASE u # t
      BY <1>0, <3>1, <3>2, <3>4, <3>6, CloseBridgeOutputs
    <3>7. QED
      BY <3>5, <3>6
  <2>3. QED
    BY <2>1, <2>2
<1>5. ASSUME NEW s \in Sessions, NEW t \in Tasks, HandleOutput(s, t)
      PROVE  GoesOn(u)
  <2>1. /\ u # t /\ OthersDerived(task', t) /\ bridge[s].reader = "reading"
        /\ \E j : task' = [task EXCEPT ![t] = j]
        /\ bridge' = [bridge EXCEPT ![s].reader = "busy"]
    BY <1>5, OutputJobs DEF HandleOutput
  <2>2. task'[u] = task[u]
    BY <1>0, <2>1
  <2>3. Outputs(task[u]) => task[u].session # s
    BY <2>1, OutputFields
  <2>4. Outputs(task[u]) => bridge'[task[u].session] = bridge[task[u].session]
    BY <1>0, <1>f, <2>1, <2>3
  <2>5. QED
    BY <2>2, <2>4, GoesOnSame
<1>6. ASSUME NEW s \in Sessions, NEW t \in Tasks, HandleExit(s, t)
      PROVE  GoesOn(u)
  <2>1. CASE s \notin byId
    <3>1. task' = task /\ bridge' = [bridge EXCEPT ![s].watcher = "off"]
      BY <1>6, <2>1 DEF HandleExit
    <3>2. \A x \in Sessions : bridge'[x].reader = bridge[x].reader
      BY <1>0, <3>1 DEF BridgeType
    <3>3. QED
      BY <1>f, <3>1, <3>2, GoesOnSame
  <2>2. CASE s \in byId
    <3> DEFINE r == [status |-> "exited", timed |-> FALSE]
               j == Job("exit", s, "temp", BuildHistorySnapshot(s, r, hist[s]), outq[s])
    <3>1. /\ Idle(t) /\ task' = [CancelReconnectTask(task, s) EXCEPT ![t] = j]
          /\ bridge' = [bridge EXCEPT ![s].watcher = "busy"]
      BY <1>6, <2>2 DEF HandleExit
    <3>2. ~Outputs(j)
      BY DEF Outputs, Job
    <3>3. \A x \in Sessions : bridge'[x].reader = bridge[x].reader
      BY <1>0, <3>1 DEF BridgeType
    <3> HIDE DEF j
    <3>4. QED
      BY <3>1, <3>2, <3>3, CancelAndPutOutputs
  <2>3. QED
    BY <2>1, <2>2
<1>7. ASSUME NEW c \in Conns, NEW t \in Tasks, Leave(c, t)
      PROVE  GoesOn(u)
  <2> DEFINE s == conn[c].session
  <2>1. bridge' = bridge /\ Idle(t)
    BY <1>7 DEF Leave, shell
  <2>2. CASE s \notin byId
    BY <1>7, <2>1, <2>2, GoesOnSame DEF Leave
  <2>3. CASE s \in byId
    <3> DEFINE r == [status |-> "detached", timed |-> TRUE]
               j == Job("detach", s, "temp", BuildHistorySnapshot(s, r, hist[s]), None)
    <3>1. s \in Sessions /\ task' = [CancelReconnectTask(task, s) EXCEPT ![t] = j]
      BY <1>7, <2>3, Typed DEF Leave, DetachSession
    <3>2. ~Outputs(j)
      BY DEF Outputs, Job
    <3> HIDE DEF j, s
    <3>3. QED
      BY <2>1, <3>1, <3>2, CancelAndPutOutputs
  <2>4. QED
    BY <2>2, <2>3
<1>8. ASSUME NEW c \in Conns, NEW t \in Tasks, CloseMessage(c, t)
      PROVE  GoesOn(u)
  <2> DEFINE s == conn[c].session
  <2>1. CASE s \notin byId
    <3>1. task' = task /\ bridge' = bridge
      BY <1>8, <2>1 DEF CloseMessage, shell
    <3>2. QED
      BY <3>1, GoesOnSame
  <2>2. CASE s \in byId
    <3>1. s \in Sessions /\ CloseSession(s, t, c) /\ hist' = hist /\ Idle(t)
      BY <1>8, <2>2, Typed DEF CloseMessage
    <3> HIDE DEF s
    <3>2. QED
      BY <3>1, CloseOutputs
  <2>3. QED
    BY <2>1, <2>2
<1>9. ASSUME NEW s \in Sessions, ProcessExits(s) \/ ReadEof(s)
      PROVE  GoesOn(u)
  <2>1. task' = task
    BY <1>9 DEF ProcessExits, ReadEof
  <2>2. \A x \in Sessions : bridge'[x].reader # bridge[x].reader => bridge[x].reader = "reading"
    BY <1>0, <1>9 DEF ProcessExits, ReadEof, BridgeType
  <2>3. Outputs(task[u]) => bridge[task[u].session].reader = "busy"
    BY OutputFields
  <2>4. Outputs(task[u]) => bridge'[task[u].session].reader = bridge[task[u].session].reader
    BY <1>f, <2>2, <2>3
  <2>5. QED
    BY <2>1, <2>4, GoesOnSame
<1>10. ASSUME NEW c \in Conns, AcceptSocket(c) \/ HandshakeFails(c) \/ Disconnect(c)
       PROVE  GoesOn(u)
  <2>1. task' = task /\ bridge' = bridge
    BY <1>10 DEF AcceptSocket, HandshakeFails, Disconnect, shell
  <2>2. QED
    BY <2>1, GoesOnSame
<1>11. ASSUME NEW t \in Tasks, JobStep(t)
       PROVE  GoesOn(u)
  <2> DEFINE j == task[t]
             s == j.session
  <2>1. /\ j \in JobType /\ j # None /\ OthersDerived(task', t) /\ s \in Sessions
        /\ j.pc \in {"start", "exec", "kill", "drain", "temp", "replace"}
    BY <1>11, JobStepJobs DEF JobType
  <2>2. Outputs(j) => j.pc \in {"temp", "replace"}
    BY OutputFields
  <2>a. ASSUME NEW k, task' = [task EXCEPT ![t] = k], ~Outputs(j), ~Outputs(k),
               \A x \in Sessions : bridge'[x].reader # bridge[x].reader => bridge[x].reader = "off"
        PROVE  GoesOn(u)
    <3>1. CASE u = t
      BY <1>0, <2>a, <3>1, NoOutput
    <3>2. CASE u # t
      <4>1. task'[u] = task[u]
        BY <1>0, <2>a, <3>2
      <4>2. Outputs(task[u]) => bridge'[task[u].session].reader = bridge[task[u].session].reader
        BY <1>f, <2>a, OutputFields
      <4>3. QED
        BY <4>1, <4>2, GoesOnSame
    <3>3. QED
      BY <3>1, <3>2
  <2>b. ASSUME NEW pc \in {"exec", "temp"}, task' = [task EXCEPT ![t].pc = pc], ~Outputs(j),
               \A x \in Sessions : bridge'[x].reader = bridge[x].reader
        PROVE  GoesOn(u)
    <3>1. task' = [task EXCEPT ![t] = [j EXCEPT !.pc = pc]]
      BY <1>0, <2>b
    <3>2. [j EXCEPT !.pc = pc].kind = j.kind
      BY <2>1 DEF JobType
    <3>3. ~Outputs([j EXCEPT !.pc = pc])
      BY <2>1, <2>b, <3>2 DEF Outputs
    <3>4. QED
      BY <2>a, <2>b, <3>1, <3>3
  <2>3. CASE RunContainer(t)
    BY <2>2, <2>3, <2>b DEF RunContainer, Working, shell
  <2>4. CASE ReadersGone(t)
    <3>1. /\ task' = [task EXCEPT ![t].pc = "temp"] /\ j.pc = "drain"
          /\ bridge' = [bridge EXCEPT ![s].listed = FALSE]
      BY <2>4 DEF ReadersGone
    <3>2. \A x \in Sessions : bridge'[x].reader = bridge[x].reader
      BY <1>0, <3>1 DEF BridgeType
    <3>3. QED
      BY <2>2, <2>b, <3>1, <3>2
  <2>5. CASE KillWaited(t)
    <3>1. StopReaders(task, t, j) /\ j.pc = "kill"
      BY <2>5 DEF KillWaited
    <3>2. CASE u = t
      <4>1. ~Outputs(j)
        BY <2>2, <3>1
      <4>2. \E pc \in {"kill", "drain", "temp"} : task'[t] = [j EXCEPT !.pc = pc]
        BY <2>1, <3>1, Typed, StopReadersMoves
      <4>3. task'[t].kind = j.kind
        BY <2>1, <4>2 DEF JobType
      <4>4. ~Outputs(task'[t])
        BY <2>1, <4>1, <4>3 DEF Outputs
      <4>5. QED
        BY <3>2, <4>1, <4>4, NoOutput
    <3>3. CASE u # t
      BY <1>0, <2>1, <3>1, <3>3, CloseBridgeOutputs
    <3>4. QED
      BY <3>2, <3>3
  <2>6. CASE ExecStarts(t)
    <3> DEFINE k == IF j.kind = "attach" THEN [j EXCEPT !.pc = "temp"]
                    ELSE IF s \in byId
                    THEN [j EXCEPT !.pc = "temp", !.snap = CreatedSnapshot(s)] ELSE None
    <3>1. /\ task' = [task EXCEPT ![t] = k] /\ j.pc = "exec"
          /\ bridge' = [bridge EXCEPT ![s].handle = TRUE, ![s].proc = "running", ![s].listed = TRUE,
                                      ![s].reader = "reading", ![s].watcher = "waiting"]
      BY <2>6 DEF ExecStarts
    <3>2. ~Outputs(j)
      BY <2>2, <3>1
    <3>3. ~Outputs(k)
      BY <2>1, <3>2 DEF Outputs, JobType
    <3>4. bridge[s].proc = "none"
      BY <2>1, <3>1 DEF Readers, Starting
    <3>5. bridge[s].reader = "off"
      BY <2>1, <3>4 DEF Readers
    <3>6. \A x \in Sessions \ {s} : bridge'[x] = bridge[x]
      BY <1>0, <3>1
    <3> HIDE DEF k
    <3>7. QED
      BY <2>a, <3>1, <3>2, <3>3, <3>5, <3>6
  <2>7. CASE RunContainerFails(t) \/ ExecFails(t)
    <3>1. StartRaises(t) /\ Starting(j)
      BY <2>1, <2>7 DEF RunContainerFails, ExecFails, Starting
    <3>2. bridge[s].proc = "none" /\ bridge[s].reader = "off" /\ j.kind \in {"create", "attach"}
      BY <2>1, <3>1 DEF Readers, StartedBridges
    <3> DEFINE m == Job("failed", s, "temp",
                        BuildHistorySnapshot(s, [status |-> "closed", timed |-> FALSE], hist[s]), j.conn)
               k == IF j.kind = "attach" /\ s \in byId THEN m ELSE None
    <3>3. task' = [task EXCEPT ![t] = k]
      BY <3>1 DEF StartRaises
    <3>4. bridge' = bridge \/ bridge' = [bridge EXCEPT ![s] = NoBridge]
      BY <3>1 DEF StartRaises
    <3>5. \A x \in Sessions : bridge'[x].reader # bridge[x].reader => bridge[x].reader = "off"
      BY <1>0, <3>2, <3>4
    <3>6. ~Outputs(k) /\ ~Outputs(j)
      BY <3>2 DEF Outputs, Job
    <3> HIDE DEF k
    <3>7. QED
      BY <2>a, <3>3, <3>5, <3>6
  <2>8. CASE WriteTemp(t)
    <3>1. task' = [task EXCEPT ![t] = [j EXCEPT !.pc = "replace"]] /\ bridge' = bridge
      BY <1>0, <2>8 DEF WriteTemp, shell
    <3> DEFINE k == [j EXCEPT !.pc = "replace"]
    <3>2. /\ k \in JobType /\ k # None
          /\ k.kind = j.kind /\ k.session = s /\ k.conn = j.conn /\ k.item = j.item /\ k.pc = "replace"
      BY <2>1, TerminalAssumption DEF JobType
    <3>3. CASE u = t
      <4>1. task'[t] = k
        BY <1>0, <3>1
      <4> HIDE DEF k
      <4>2. Outputs(task'[t]) <=> Outputs(j)
        BY <2>1, <3>2, <4>1 DEF Outputs
      <4>3. Outputs(j) => SameOutput(t) /\ KeepsOutput(t) /\ bridge'[s].reader = "busy"
        BY <3>1, <3>2, <4>1, <4>2, OutputFields DEF SameOutput, KeepsOutput
      <4>4. QED
        BY <3>3, <4>2, <4>3 DEF GoesOn
    <3>4. CASE u # t
      <4>1. task'[u] = task[u]
        BY <1>0, <3>1, <3>4
      <4>2. QED
        BY <3>1, <4>1, GoesOnSame
    <3>5. QED
      BY <3>3, <3>4
  <2>9. CASE ReplaceLatest(t) \/ PersistFails(t)
    <3>1. /\ task' = [task EXCEPT ![t] = None]
          /\ bridge' = IF j.kind = "output" THEN [bridge EXCEPT ![s].reader = "reading"]
                       ELSE IF j.kind = "exit" THEN [bridge EXCEPT ![s].watcher = "off"] ELSE bridge
      BY <2>9 DEF ReplaceLatest, PersistFails, Resume
    <3>2. CASE u = t
      <4>1. ~Outputs(task[t])
        BY <2>9, <3>2 DEF Delivers
      <4>2. ~Outputs(task'[t])
        BY <1>0, <3>1 DEF Outputs
      <4>3. QED
        BY <3>2, <4>1, <4>2, NoOutput
    <3>3. CASE u # t
      <4>1. task'[u] = task[u]
        BY <1>0, <3>1, <3>3
      <4>2. Outputs(task[u]) /\ Outputs(j) => task[u].session # s
        BY <3>3 DEF Readers
      <4>3. Outputs(task[u]) => bridge'[task[u].session].reader = bridge[task[u].session].reader
        <5>1. CASE j.kind = "output"
          <6>1. Outputs(task[u]) => task[u].session \in Sessions \ {s}
            BY <1>f, <2>1, <4>2, <5>1 DEF Outputs
          <6>2. QED
            BY <1>0, <3>1, <5>1, <6>1
        <5>2. CASE j.kind # "output"
          <6>1. \A x \in Sessions : bridge'[x].reader = bridge[x].reader
            BY <1>0, <3>1, <5>2 DEF BridgeType
          <6>2. QED
            BY <1>f, <6>1
        <5>3. QED
          BY <5>1, <5>2
      <4>4. QED
        BY <4>1, <4>3, GoesOnSame
    <3>4. QED
      BY <3>2, <3>3
  <2>10. QED
    BY <1>11, <2>3, <2>4, <2>5, <2>6, <2>7, <2>8, <2>9 DEF JobStep
<1>12. QED
  BY <1>1, <1>2, <1>3, <1>4, <1>5, <1>6, <1>7, <1>8, <1>9, <1>10, <1>11 DEF Next

-----------------------------------------------------------------------------
(***************************************************************************)
(* Readers.                                                                *)
(***************************************************************************)

\* What a step but a restart does to the bridge of session x.
ShellMoves(x) ==
  /\ bridge'[x].reader # "off" => bridge'[x].proc # "none"
  /\ ~bridge'[x].object => bridge'[x].proc = "none"
  /\ LiveAfter(x) => Live(x) \/ \E g \in Groups, t \in Tasks : CreateSession(g, x, t)
  /\ bridge[x].proc = "none" =>
       bridge'[x].proc = "none" \/ \E t \in Tasks : ExecStarts(t) /\ task[t].session = x

\* A bridge that is closed, read or found dead.
LEMMA ShellCalm ==
  ASSUME Readers, NEW x \in Sessions,
         bridge'[x].object = bridge[x].object,
         bridge'[x].proc = "none" <=> bridge[x].proc = "none",
         bridge'[x].handle => bridge[x].handle,
         bridge'[x].reader # "off" => bridge[x].reader # "off"
  PROVE  ShellMoves(x)
  BY DEF Readers, ShellMoves, Live, LiveAfter

\* bridge.close() starts nothing.
LEMMA ShellClosed ==
  ASSUME IInv, Readers, NEW f, NEW t, NEW j \in JobType,
         CloseBridge(f, t, j) \/ StopReaders(f, t, j), NEW x \in Sessions
  PROVE  ShellMoves(x)
<1>0. bridge[x] \in BridgeType /\ bridge \in [Sessions -> BridgeType] /\ j.session \in Sessions
  BY DEF IInv, TypeOK, TypeShell, JobType
<1>1. \/ bridge' = bridge
      \/ bridge' = [bridge EXCEPT ![j.session].handle = FALSE]
      \/ bridge' = [bridge EXCEPT ![j.session].handle = FALSE, ![j.session].reader = "off",
                                  ![j.session].watcher = "off"]
  BY DEF CloseBridge, StopReaders, shell
<1>2. /\ bridge'[x].object = bridge[x].object /\ bridge'[x].proc = bridge[x].proc
      /\ bridge'[x].handle => bridge[x].handle
      /\ bridge'[x].reader # "off" => bridge[x].reader # "off"
  BY <1>0, <1>1 DEF BridgeType
<1>3. QED
  BY <1>2, ShellCalm

\* Every step but a restart moves bridges so.
LEMMA ShellSteps ==
  ASSUME IInv, StartedBridges, Readers, Next, ~Restart, NEW x \in Sessions
  PROVE  ShellMoves(x)
<1>0. /\ bridge \in [Sessions -> BridgeType] /\ bridge[x] \in BridgeType
      /\ task \in [Tasks -> JobType \cup {None}]
      /\ \A g \in Groups : byGroup[g] \in Sessions \cup {None}
  BY Typed DEF IInv, TypeOK, TypeShell
<1>a. ASSUME bridge'[x] = bridge[x] PROVE ShellMoves(x)
  BY <1>a, ShellCalm
<1>c. ASSUME NEW s \in Sessions, NEW t \in Tasks, NEW c \in Conns \cup {None}, CloseSession(s, t, c)
      PROVE  ShellMoves(x)
  <2> DEFINE r == [status |-> "closed", timed |-> FALSE]
             b == BuildHistorySnapshot(s, r, hist[s])
             j == Job("close", s, "kill", b, c)
  <2>1. CloseBridge(CancelReconnectTask(task, s), t, j)
    BY <1>c DEF CloseSession
  <2>2. b \in SnapType
    BY Typed, Records, SnapshotType
  <2> HIDE DEF b
  <2>3. j \in JobType
    BY <2>2, NewJob
  <2> HIDE DEF j
  <2>4. QED
    BY <2>1, <2>3, ShellClosed
<1>1. ASSUME NEW g \in Groups, NEW s \in Sessions, NEW t \in Tasks, CreateSession(g, s, t)
      PROVE  ShellMoves(x)
  <2>1. bridge' = [bridge EXCEPT ![s] = NewBridge]
    BY <1>1 DEF CreateSession
  <2>2. CASE x = s
    <3>1. bridge'[x].reader = "off" /\ bridge'[x].proc = "none" /\ bridge'[x].object
      BY <1>0, <2>1, <2>2 DEF NewBridge, NoBridge
    <3>2. QED
      BY <1>1, <2>2, <3>1 DEF ShellMoves
  <2>3. CASE x # s
    BY <1>0, <2>1, <2>3, <1>a
  <2>4. QED
    BY <2>2, <2>3
<1>2. ASSUME NEW c \in Conns, NEW s \in Sessions, NEW t \in Tasks, AttachSession(c, s, t)
      PROVE  ShellMoves(x)
  <2>1. bridge' = [bridge EXCEPT ![s] = IF @.object THEN @ ELSE NewBridge]
    BY <1>2 DEF AttachSession
  <2>2. CASE x = s /\ ~bridge[s].object
    <3>1. bridge'[x].reader = "off" /\ bridge'[x].proc = "none" /\ bridge'[x].object
      BY <1>0, <2>1, <2>2 DEF NewBridge, NoBridge
    <3>2. bridge[x].proc = "none"
      BY <2>2 DEF Readers
    <3>3. QED
      BY <3>1, <3>2 DEF ShellMoves, Live
  <2>3. CASE ~(x = s /\ ~bridge[s].object)
    BY <1>0, <2>1, <2>3, <1>a
  <2>4. QED
    BY <2>2, <2>3
<1>3. ASSUME NEW g \in Groups, NEW t \in Tasks, CloseSessionByGroup(g, t)
      PROVE  ShellMoves(x)
  BY <1>0, <1>3, <1>c DEF CloseSessionByGroup
<1>4. ASSUME NEW s \in Sessions, NEW t \in Tasks, ExpireDetachedSession(s, t)
      PROVE  ShellMoves(x)
  <2>1. CASE ~WindowDue(s)
    BY <1>4, <2>1, <1>a DEF ExpireDetachedSession, shell
  <2>2. CASE WindowDue(s)
    <3> DEFINE r == [status |-> "closed", timed |-> FALSE]
               b == BuildHistorySnapshot(s, r, hist[s])
               j == Job("expire", s, "kill", b, None)
    <3>1. CloseBridge(task, t, j)
      BY <1>4, <2>2 DEF ExpireDetachedSession
    <3>2. b \in SnapType
      BY Typed, Records, SnapshotType
    <3> HIDE DEF b
    <3>3. j \in JobType
      BY <3>2, NewJob
    <3> HIDE DEF j
    <3>4. QED
      BY <3>1, <3>3, ShellClosed
  <2>3. QED
    BY <2>1, <2>2
<1>5. ASSUME NEW s \in Sessions, NEW t \in Tasks, HandleOutput(s, t)
      PROVE  ShellMoves(x)
  <2>1. bridge' = [bridge EXCEPT ![s].reader = "busy"] /\ bridge[s].reader = "reading"
    BY <1>5 DEF HandleOutput
  <2>2. /\ bridge'[x].object = bridge[x].object /\ bridge'[x].proc = bridge[x].proc
        /\ bridge'[x].handle = bridge[x].handle
        /\ bridge'[x].reader # "off" => bridge[x].reader # "off"
    BY <1>0, <2>1 DEF BridgeType
  <2>3. QED
    BY <2>2, ShellCalm
<1>6. ASSUME NEW s \in Sessions, NEW t \in Tasks, HandleExit(s, t)
      PROVE  ShellMoves(x)
  <2>1. \E w \in {"busy", "off"} : bridge' = [bridge EXCEPT ![s].watcher = w]
    BY <1>6 DEF HandleExit
  <2>2. /\ bridge'[x].object = bridge[x].object /\ bridge'[x].proc = bridge[x].proc
        /\ bridge'[x].handle = bridge[x].handle
        /\ bridge'[x].reader = bridge[x].reader
    BY <1>0, <2>1 DEF BridgeType
  <2>3. QED
    BY <2>2, ShellCalm
<1>7. ASSUME NEW c \in Conns, NEW t \in Tasks, Leave(c, t) PROVE ShellMoves(x)
  BY <1>7, <1>a DEF Leave, shell
<1>8. ASSUME NEW c \in Conns, NEW t \in Tasks, CloseMessage(c, t) PROVE ShellMoves(x)
  <2>1. CASE conn[c].session \notin byId
    BY <1>8, <2>1, <1>a DEF CloseMessage, shell
  <2>2. CASE conn[c].session \in byId
    BY <1>8, <2>2, <1>c, Typed DEF CloseMessage
  <2>3. QED
    BY <2>1, <2>2
<1>9. ASSUME NEW s \in Sessions, ProcessExits(s) PROVE ShellMoves(x)
  <2>1. bridge' = [bridge EXCEPT ![s].proc = "dead"] /\ bridge[s].proc = "running"
    BY <1>9 DEF ProcessExits
  <2>2. /\ bridge'[x].object = bridge[x].object /\ bridge'[x].handle = bridge[x].handle
        /\ bridge'[x].proc = "none" <=> bridge[x].proc = "none"
        /\ bridge'[x].reader = bridge[x].reader
    BY <1>0, <2>1 DEF BridgeType
  <2>3. QED
    BY <2>2, ShellCalm
<1>10. ASSUME NEW s \in Sessions, ReadEof(s) PROVE ShellMoves(x)
  <2>1. bridge' = [bridge EXCEPT ![s].reader = "off"]
    BY <1>10 DEF ReadEof
  <2>2. /\ bridge'[x].object = bridge[x].object /\ bridge'[x].handle = bridge[x].handle
        /\ bridge'[x].proc = bridge[x].proc
        /\ bridge'[x].reader # "off" => bridge[x].reader # "off"
    BY <1>0, <2>1 DEF BridgeType
  <2>3. QED
    BY <2>2, ShellCalm
<1>11. ASSUME NEW c \in Conns, AcceptSocket(c) \/ HandshakeFails(c) \/ Disconnect(c)
       PROVE  ShellMoves(x)
  BY <1>11, <1>a DEF AcceptSocket, HandshakeFails, Disconnect, shell
<1>12. ASSUME NEW t \in Tasks, JobStep(t) PROVE ShellMoves(x)
  <2> DEFINE j == task[t]
             s == j.session
  <2>1. j \in JobType /\ j # None /\ s \in Sessions
    BY <1>12, JobStepJobs DEF JobType
  <2>2. CASE RunContainer(t) \/ WriteTemp(t)
    BY <2>2, <1>a DEF RunContainer, WriteTemp, shell
  <2>3. CASE KillWaited(t)
    BY <2>1, <2>3, ShellClosed DEF KillWaited
  <2>4. CASE ReadersGone(t)
    <3>1. bridge' = [bridge EXCEPT ![s].listed = FALSE]
      BY <2>4 DEF ReadersGone
    <3>2. /\ bridge'[x].object = bridge[x].object /\ bridge'[x].proc = bridge[x].proc
          /\ bridge'[x].handle = bridge[x].handle
          /\ bridge'[x].reader = bridge[x].reader
      BY <1>0, <3>1 DEF BridgeType
    <3>3. QED
      BY <3>2, ShellCalm
  <2>5. CASE ExecStarts(t)
    <3>1. /\ bridge' = [bridge EXCEPT ![s].handle = TRUE, ![s].proc = "running", ![s].listed = TRUE,
                                      ![s].reader = "reading", ![s].watcher = "waiting"]
          /\ Starting(j)
      BY <2>5 DEF ExecStarts, Starting, Working
    <3>2. bridge[s].object /\ bridge[s].proc = "none"
      BY <3>1 DEF StartedBridges, Readers
    <3>3. CASE x = s
      <4>1. bridge'[x].object = bridge[x].object /\ bridge'[x].proc = "running"
        BY <1>0, <3>1, <3>3 DEF BridgeType
      <4>2. QED
        BY <2>5, <3>2, <3>3, <4>1 DEF ShellMoves, Live
    <3>4. CASE x # s
      BY <1>0, <3>1, <3>4, <1>a
    <3>5. QED
      BY <3>3, <3>4
  <2>6. CASE RunContainerFails(t) \/ ExecFails(t)
    <3>1. StartRaises(t) /\ Starting(j)
      BY <2>1, <2>6 DEF RunContainerFails, ExecFails, Starting
    <3>2. bridge[s].proc = "none"
      BY <3>1 DEF Readers
    <3>3. bridge' = bridge \/ bridge' = [bridge EXCEPT ![s] = NoBridge]
      BY <3>1 DEF StartRaises
    <3>4. CASE bridge' = [bridge EXCEPT ![s] = NoBridge] /\ x = s
      <4>1. bridge'[x].reader = "off" /\ bridge'[x].proc = "none"
        BY <1>0, <3>4 DEF NoBridge
      <4>2. QED
        BY <3>2, <3>4, <4>1 DEF ShellMoves, Live
    <3>5. CASE bridge' = bridge \/ x # s
      BY <1>0, <3>3, <3>5, <1>a
    <3>6. QED
      BY <3>3, <3>4, <3>5
  <2>7. CASE ReplaceLatest(t) \/ PersistFails(t)
    <3>1. bridge' = IF j.kind = "output" THEN [bridge EXCEPT ![s].reader = "reading"]
                    ELSE IF j.kind = "exit" THEN [bridge EXCEPT ![s].watcher = "off"] ELSE bridge
      BY <2>7 DEF ReplaceLatest, PersistFails, Resume
    <3>2. j.kind = "output" => bridge[s].reader = "busy"
      BY <2>1, OutputFields DEF Outputs
    <3>3. /\ bridge'[x].object = bridge[x].object /\ bridge'[x].proc = bridge[x].proc
          /\ bridge'[x].handle = bridge[x].handle
          /\ bridge'[x].reader # "off" => bridge[x].reader # "off"
      BY <1>0, <3>1, <3>2 DEF BridgeType
    <3>4. QED
      BY <3>3, ShellCalm
  <2>8. QED
    BY <1>12, <2>2, <2>3, <2>4, <2>5, <2>6, <2>7 DEF JobStep
<1>13. QED
  BY <1>1, <1>2, <1>3, <1>4, <1>5, <1>6, <1>7, <1>8, <1>9, <1>10, <1>11, <1>12 DEF Next

\* A job on its way through bridge.start() was on it before, or its session has a
\* new bridge.
LEMMA StartSources ==
  ASSUME IInv, StartedBridges, Next, NEW u \in Tasks, Starting(task'[u])
  PROVE  \/ StillStarting(u) /\ ~ExecStarts(u)
         \/ bridge'[task'[u].session].proc = "none"
<1>0. bridge \in [Sessions -> BridgeType] /\ task \in [Tasks -> JobType \cup {None}]
  BY DEF IInv, TypeOK, TypeShell
<1>a. ASSUME NEW t \in Tasks, OthersDerived(task', t), u # t PROVE StillStarting(u)
  BY <1>a, OthersStarting
<1>b. ASSUME NEW t \in Tasks, ~Starting(task'[t]) PROVE u # t
  BY <1>b
<1>n. ~ExecStarts(u)
  <2> SUFFICES ASSUME ExecStarts(u) PROVE FALSE
    OBVIOUS
  <2> DEFINE j == task[u]
  <2>1. j \in JobType /\ j # None
    BY <1>0 DEF ExecStarts, Working
  <2>2. task'[u] = IF j.kind = "attach" THEN [j EXCEPT !.pc = "temp"]
                   ELSE IF j.session \in byId
                   THEN [j EXCEPT !.pc = "temp", !.snap = CreatedSnapshot(j.session)] ELSE None
    BY <1>0 DEF ExecStarts
  <2>3. task'[u] = None \/ task'[u].pc = "temp"
    BY <2>1, <2>2 DEF JobType
  <2>4. QED
    BY <2>3 DEF Starting
<1>1. ASSUME NEW g \in Groups, NEW s \in Sessions, NEW t \in Tasks, CreateSession(g, s, t), u = t
      PROVE  bridge'[task'[u].session].proc = "none"
  <2>1. task'[u].session = s
    BY <1>1, CreateJobs DEF IsJob
  <2>2. bridge' = [bridge EXCEPT ![s] = NewBridge]
    BY <1>1 DEF CreateSession
  <2>3. QED
    BY <1>0, <2>1, <2>2 DEF NewBridge, NoBridge
<1>2. ASSUME NEW c \in Conns, NEW s \in Sessions, NEW t \in Tasks, AttachSession(c, s, t), u = t
      PROVE  bridge'[task'[u].session].proc = "none"
  <2>1. task'[u].session = s /\ task'[u].pc = IF bridge[s].object THEN "temp" ELSE "start"
    BY <1>2, AttachJobs DEF IsJob
  <2>2. ~bridge[s].object
    BY <2>1 DEF Starting
  <2>3. bridge' = [bridge EXCEPT ![s] = IF @.object THEN @ ELSE NewBridge]
    BY <1>2 DEF AttachSession
  <2>4. QED
    BY <1>0, <2>1, <2>2, <2>3 DEF NewBridge, NoBridge
<1>3. ASSUME NEW g \in Groups, NEW t \in Tasks, CloseSessionByGroup(g, t) PROVE StillStarting(u)
  <2>1. byGroup[g] \in Sessions /\ CloseSession(byGroup[g], t, None) /\ hist' = hist
    BY <1>3, Typed DEF CloseSessionByGroup
  <2>2. task'[t].pc \in {"kill", "drain", "temp"} /\ OthersDerived(task', t)
    BY <2>1, CloseJobs
  <2>3. QED
    BY <2>2, <1>a, <1>b, PastStart
<1>4. ASSUME NEW s \in Sessions, NEW t \in Tasks, ExpireDetachedSession(s, t) PROVE StillStarting(u)
  <2>1. OthersDerived(task', t) /\ (task'[t].pc \in {"kill", "drain", "temp"} \/ task' = task)
    BY <1>4, ExpireJobs
  <2>2. CASE task' = task
    BY <2>2 DEF StillStarting
  <2>3. CASE task'[t].pc \in {"kill", "drain", "temp"}
    BY <2>1, <2>3, <1>a, <1>b, PastStart
  <2>4. QED
    BY <2>1, <2>2, <2>3
<1>5. ASSUME NEW s \in Sessions, NEW t \in Tasks, HandleOutput(s, t) PROVE StillStarting(u)
  <2>1. OthersDerived(task', t) /\ task'[t].pc = "temp"
    BY <1>5, OutputJobs
  <2>2. QED
    BY <2>1, <1>a, <1>b, PastStart
<1>6. ASSUME NEW s \in Sessions, NEW t \in Tasks, HandleExit(s, t) PROVE StillStarting(u)
  <2>1. OthersDerived(task', t) /\ (task'[t].pc = "temp" \/ task' = task)
    BY <1>6, ExitJobs
  <2>2. CASE task' = task
    BY <2>2 DEF StillStarting
  <2>3. CASE task'[t].pc = "temp"
    BY <2>1, <2>3, <1>a, <1>b, PastStart
  <2>4. QED
    BY <2>1, <2>2, <2>3
<1>7. ASSUME NEW c \in Conns, NEW t \in Tasks, Leave(c, t) PROVE StillStarting(u)
  <2>1. CASE conn[c].session \notin byId
    BY <1>7, <2>1 DEF Leave, StillStarting
  <2>2. CASE conn[c].session \in byId
    <3>1. conn[c].session \in Sessions /\ DetachSession(conn[c].session, t) /\ hist' = hist
      BY <1>7, <2>2, Typed DEF Leave
    <3>2. OthersDerived(task', t) /\ task'[t].pc = "temp"
      BY <3>1, DetachJobs
    <3>3. QED
      BY <3>2, <1>a, <1>b, PastStart
  <2>3. QED
    BY <2>1, <2>2
<1>8. ASSUME NEW c \in Conns, NEW t \in Tasks, CloseMessage(c, t) PROVE StillStarting(u)
  <2>1. CASE conn[c].session \notin byId
    BY <1>8, <2>1 DEF CloseMessage, StillStarting
  <2>2. CASE conn[c].session \in byId
    <3>1. conn[c].session \in Sessions /\ CloseSession(conn[c].session, t, c) /\ hist' = hist
      BY <1>8, <2>2, Typed DEF CloseMessage
    <3>2. OthersDerived(task', t) /\ task'[t].pc \in {"kill", "drain", "temp"}
      BY <3>1, CloseJobs
    <3>3. QED
      BY <3>2, <1>a, <1>b, PastStart
  <2>3. QED
    BY <2>1, <2>2
<1>9. ASSUME UNCHANGED task PROVE StillStarting(u)
  BY <1>9 DEF StillStarting
<1>10. ASSUME NEW s \in Sessions, ProcessExits(s) \/ ReadEof(s) PROVE UNCHANGED task
  BY <1>10 DEF ProcessExits, ReadEof
<1>11. ASSUME NEW c \in Conns, AcceptSocket(c) \/ HandshakeFails(c) \/ Disconnect(c)
       PROVE  UNCHANGED task
  BY <1>11 DEF AcceptSocket, HandshakeFails, Disconnect
<1>12. ASSUME NEW t \in Tasks, JobStep(t) PROVE StillStarting(u)
  <2>1. CASE u # t
    BY <1>12, <2>1, <1>a, JobStepJobs
  <2>2. CASE u = t
    <3>1. /\ task'[t] # None
          /\ IsJob(task'[t], task[t].kind, task[t].session, task[t].snap, task[t].conn)
          /\ RunContainer(t)
      BY <1>12, <2>2, JobStepJobs DEF Starting
    <3>2. QED
      BY <2>2, <3>1 DEF RunContainer, Working, StillStarting, Starting, IsJob
  <2>3. QED
    BY <2>1, <2>2
<1>13. CASE Restart
  BY <1>13 DEF Restart, Starting
<1>14. ASSUME NEW g \in Groups, NEW s \in Sessions, NEW t \in Tasks, CreateSession(g, s, t)
       PROVE  StillStarting(u) \/ bridge'[task'[u].session].proc = "none"
  BY <1>1, <1>14, <1>a, CreateJobs
<1>15. ASSUME NEW c \in Conns, NEW s \in Sessions, NEW t \in Tasks, AttachSession(c, s, t)
       PROVE  StillStarting(u) \/ bridge'[task'[u].session].proc = "none"
  BY <1>2, <1>15, <1>a, AttachJobs
<1>16. StillStarting(u) \/ bridge'[task'[u].session].proc = "none"
  BY <1>3, <1>4, <1>5, <1>6, <1>7, <1>8, <1>9, <1>10, <1>11, <1>12, <1>13, <1>14, <1>15 DEF Next
<1>17. QED
  BY <1>n, <1>16

\* The chunk that HandleOutput sends on its way is the one it has seen.
LEMMA HandledOutput ==
  ASSUME IInv, NEW s \in Sessions, NEW t \in Tasks, HandleOutput(s, t)
  PROVE  /\ Outputs(task'[t]) /\ task'[t].session = s /\ task'[t].conn = outq[s]
         /\ task'[t].pc = "temp" /\ task'[t].item = seen[s] + 1
         /\ seen[s] \in Nat /\ seen' = [seen EXCEPT ![s] = seen[s] + 1]
         /\ seen'[s] = seen[s] + 1
         /\ bridge[s].reader = "reading" /\ bridge'[s].reader = "busy"
         /\ task[t] = None /\ OthersDerived(task', t)
<1>0. seen \in [Sessions -> Nat] /\ bridge \in [Sessions -> BridgeType] /\ DOMAIN task = Tasks
  BY Typed DEF IInv, TypeOK, TypeRecords, TypeShell
<1>1. /\ IsJob(task'[t], "output", s, Fresh(s), outq[s]) /\ task'[t].pc = "temp"
      /\ OthersDerived(task', t)
  BY OutputJobs
<1>2. /\ seen' = [seen EXCEPT ![s] = seen[s] + 1] /\ bridge[s].reader = "reading"
      /\ bridge' = [bridge EXCEPT ![s].reader = "busy"] /\ task[t] = None
  BY DEF HandleOutput, Idle
<1>3. PICK b : task' = [task EXCEPT ![t] =
                  [Job("output", s, "temp", b, outq[s]) EXCEPT !.item = seen[s] + 1]]
  BY DEF HandleOutput
<1>4. task'[t] = [Job("output", s, "temp", b, outq[s]) EXCEPT !.item = seen[s] + 1]
  BY <1>0, <1>3
<1>5. task'[t].item = seen[s] + 1
  BY <1>4 DEF Job
<1>6. bridge'[s].reader = "busy"
  BY <1>0, <1>2 DEF BridgeType
<1>7. QED
  BY <1>0, <1>1, <1>2, <1>5, <1>6 DEF IsJob, Outputs

\* Every step keeps the reader of a session waiting for the chunk on its way.
LEMMA ReadersStep ==
  ASSUME IInv, TablesAgree, Named, StartedBridges, OneStart, Readers, Next
  PROVE  Readers'
<1>0. /\ seen \in [Sessions -> Nat]
      /\ \A t \in Tasks : task[t] # None => task[t].session \in Sessions
  BY Typed DEF IInv, TypeOK, TypeRecords, JobsOK, JobType
<1>1. CASE Restart
  <2>1. /\ \A t \in Tasks : task'[t] = None
        /\ bridge' = [s \in Sessions |-> NoBridge]
    BY <1>1 DEF Restart
  <2>2. QED
    BY <2>1 DEF Readers, Outputs, Starting, NoBridge
<1>2. CASE ~Restart
  <2>1. ASSUME NEW s \in Sessions PROVE ShellMoves(s)
    BY <1>2, ShellSteps
  <2>2. ASSUME NEW u \in Tasks, Starting(task'[u])
        PROVE  bridge'[task'[u].session].proc = "none"
    <3>1. CASE StillStarting(u) /\ ~ExecStarts(u)
      <4> DEFINE x == task[u].session
      <4>1. /\ x \in Sessions /\ task'[u].session = x /\ bridge[x].proc = "none"
            /\ Starting(task[u])
        BY <1>0, <3>1 DEF StillStarting, Starting, Readers
      <4>2. ~\E t \in Tasks : ExecStarts(t) /\ task[t].session = x
        <5> SUFFICES ASSUME NEW t \in Tasks, ExecStarts(t), task[t].session = x PROVE FALSE
          OBVIOUS
        <5>1. t # u /\ Working(t) /\ task[t].pc = "exec"
          BY <3>1 DEF ExecStarts
        <5>2. QED
          BY <4>1, <5>1 DEF OneStart, Starting, Working
      <4>3. QED
        BY <2>1, <4>1, <4>2 DEF ShellMoves
    <3>2. QED
      BY <2>2, <3>1, StartSources
  <2>3. ASSUME NEW u \in Tasks, Outputs(task'[u])
        PROVE  GoesOn(u) \/ \E s \in Sessions : HandleOutput(s, u)
    <3>1. ~Delivers(u)
      <4> SUFFICES ASSUME ReplaceLatest(u) \/ PersistFails(u) PROVE FALSE
        BY DEF Delivers
      <4>1. task'[u] = None
        BY Typed DEF ReplaceLatest, PersistFails, Resume
      <4>2. QED
        BY <2>3, <4>1 DEF Outputs
    <3>2. QED
      BY <1>2, <3>1, OutputSteps
  <2>4. ASSUME NEW u \in Tasks, Outputs(task'[u]), NEW s \in Sessions, NEW t \in Tasks,
               HandleOutput(s, t), u # t
        PROVE  SameOutput(u) /\ task'[u].session # s
    <3>1. SameOutput(u)
      BY <2>4, HandledOutput, OthersOutputs
    <3>2. QED
      BY <2>4, <3>1, HandledOutput, OutputFields DEF SameOutput
  <2>5. ASSUME NEW u \in Tasks, Outputs(task'[u])
        PROVE  /\ bridge'[task'[u].session].reader = "busy"
               /\ task'[u].item = seen'[task'[u].session] /\ task'[u].item > 0
               /\ task'[u].pc \in {"temp", "replace"}
    <3>1. ASSUME NEW s \in Sessions, HandleOutput(s, u)
          PROVE  /\ bridge'[task'[u].session].reader = "busy"
                 /\ task'[u].item = seen'[task'[u].session] /\ task'[u].item > 0
                 /\ task'[u].pc \in {"temp", "replace"}
      BY <3>1, HandledOutput
    <3>2. CASE GoesOn(u) /\ ~\E s \in Sessions : HandleOutput(s, u)
      <4> DEFINE x == task[u].session
      <4>1. SameOutput(u) /\ bridge'[x].reader = "busy"
        BY <2>5, <3>2 DEF GoesOn
      <4>2. x \in Sessions /\ task[u].item = seen[x] /\ task[u].item > 0
        BY <4>1, OutputFields DEF SameOutput
      <4>3. seen'[x] = seen[x]
        <5>1. ASSUME NEW s \in Sessions, NEW t \in Tasks, HandleOutput(s, t)
              PROVE  seen'[x] = seen[x]
          <6>1. x # s
            BY <2>4, <2>5, <3>2, <4>1, <5>1 DEF SameOutput
          <6>2. QED
            BY <1>0, <4>2, <5>1, <6>1, HandledOutput
        <5>2. QED
          BY <1>2, <5>1, HistoryFrame
      <4>4. QED
        BY <4>1, <4>2, <4>3 DEF SameOutput
    <3>3. QED
      BY <2>3, <2>5, <3>1, <3>2
  <2>6. ASSUME NEW u \in Tasks, NEW v \in Tasks, Outputs(task'[u]), Outputs(task'[v]), u # v
        PROVE  task'[u].session # task'[v].session
    <3>1. ASSUME NEW s \in Sessions, HandleOutput(s, u)
          PROVE  task'[u].session # task'[v].session
      BY <2>4, <2>6, <3>1, HandledOutput
    <3>2. ASSUME NEW s \in Sessions, HandleOutput(s, v)
          PROVE  task'[u].session # task'[v].session
      BY <2>4, <2>6, <3>2, HandledOutput
    <3>3. CASE GoesOn(u) /\ GoesOn(v)
      BY <2>6, <3>3 DEF GoesOn, SameOutput, Readers
    <3>4. QED
      BY <2>3, <2>6, <3>1, <3>2, <3>3
  <2>7. \A s \in Sessions : /\ bridge'[s].reader # "off" => bridge'[s].proc # "none"
                            /\ ~bridge'[s].object => bridge'[s].proc = "none"
    BY <2>1 DEF ShellMoves
  <2>8. QED
    BY <2>2, <2>5, <2>6, <2>7 DEF Readers
<1>3. QED
  BY <1>1, <1>2

\* The readers, with the invariant they need.
ReadersInv == StartsInv /\ Readers

\* In every reachable state a chunk that was handled and is not on its queue yet is
\* the last one its session has seen, and the reader waits for it: the chunks of a
\* session reach the queues one after the other.
THEOREM ReadersInvariant == Spec => []ReadersInv
<1>1. Init => Readers
  BY DEF Init, Readers, Outputs, Starting, NoBridge
<1>2. ReadersInv /\ StartsInv' /\ [Next]_vars => ReadersInv'
  <2> SUFFICES ASSUME ReadersInv, StartsInv', [Next]_vars PROVE ReadersInv'
    OBVIOUS
  <2>1. CASE Next
    BY <2>1, ReadersStep DEF ReadersInv, StartsInv, TablesInv
  <2>2. CASE UNCHANGED vars
    BY <2>2 DEF vars, shell, ReadersInv, Readers, Outputs, Starting
  <2>3. QED
    BY <2>1, <2>2
<1>3. Init /\ StartsInv => ReadersInv
  BY <1>1 DEF ReadersInv
<1>4. QED
  BY <1>2, <1>3, StartsInvariant, PTL DEF Spec

-----------------------------------------------------------------------------
(***************************************************************************)
(* What a client is given when it attaches. A history_max_bytes of zero    *)
(* keeps nothing; any other keeps an end of the output.                    *)
(***************************************************************************)

\* No history, no snapshot and no file has any output.
NothingKept ==
  /\ \A s \in Sessions : Output(hist[s]) = <<>>
  /\ \A t \in Tasks : Working(t) /\ task[t].snap # None => task[t].snap.output = <<>>
  /\ \A g \in Groups : /\ temp[g] # None => temp[g].output = <<>>
                       /\ latest[g] # None => latest[g].output = <<>>

\* Every step of a server whose histories have no room keeps nothing.
LEMMA NothingKeptStep ==
  ASSUME MaxHistory = 0, IInv, TablesAgree, NothingKept, Next
  PROVE  NothingKept'
<1>0. /\ hist \in [Sessions -> HistoryType]
      /\ latest \in [Groups -> SnapType \cup {None}] /\ temp \in [Groups -> SnapType \cup {None}]
  BY DEF IInv, TypeOK, TypeRecords, TypeDisk
<1>e. ASSUME NEW h, h.head = <<>>, h.tail = <<>> PROVE Output(h) = <<>>
  BY <1>e, EmptySeq, ConcatEmptySeq DEF Output
<1>1. ASSUME NEW x \in Sessions PROVE Output(hist'[x]) = <<>>
  <2>1. Output(hist[x]) = <<>>
    BY DEF NothingKept
  <2>2. CASE UNCHANGED <<hist, seen>>
    BY <2>1, <2>2
  <2>3. ASSUME NEW s \in Sessions, NEW t \in Tasks, HandleOutput(s, t)
        PROVE  Output(hist'[x]) = <<>>
    <3>1. hist' = [hist EXCEPT ![s] = AppendOutputHistory(hist[s], seen[s] + 1)]
      BY <2>3 DEF HandleOutput
    <3>2. CASE x # s
      BY <1>0, <2>1, <3>1, <3>2
    <3>3. CASE x = s
      <4>1. hist'[x] = [hist[x] EXCEPT !.head = <<>>, !.tail = <<>>] /\ hist[x] \in HistoryType
        BY <1>0, <3>1, <3>3 DEF AppendOutputHistory
      <4>2. hist'[x].head = <<>> /\ hist'[x].tail = <<>>
        BY <4>1 DEF HistoryType
      <4>3. QED
        BY <4>2, <1>e
    <3>4. QED
      BY <3>2, <3>3
  <2>4. CASE Restart
    <3> DEFINE back == {g \in Groups : Recovered(g)}
               ids == RecoveredIds(back)
               p == latest[CHOOSE g \in back : latest[g].session = x]
    <3>1. hist'[x] = IF x \in ids THEN [head |-> p.output, tail |-> <<>>, truncated |-> p.truncated]
                     ELSE NoHistory
      BY <2>4 DEF Restart
    <3>2. CASE x \in ids
      <4>1. \E g \in back : latest[g].session = x
        BY <3>2 DEF RecoveredIds
      <4>2. PICK g \in back : p = latest[g]
        BY <4>1
      <4>3. p.output = <<>>
        BY <4>2 DEF Recovered, NothingKept
      <4> HIDE DEF p, ids
      <4>4. hist'[x].head = <<>> /\ hist'[x].tail = <<>>
        BY <3>1, <3>2, <4>3
      <4>5. QED
        BY <4>4, <1>e
    <3>3. CASE x \notin ids
      <4>1. hist'[x].head = <<>> /\ hist'[x].tail = <<>>
        BY <3>1, <3>3 DEF NoHistory
      <4>2. QED
        BY <4>1, <1>e
    <3>4. QED
      BY <3>2, <3>3
  <2>5. QED
    BY <2>2, <2>3, <2>4, HistoryFrame
<1>2. byId' \subseteq Sessions
  BY NextStep DEF IInv, TypeOK, TypeTables
<1>3. ASSUME NEW t \in Tasks, task'[t] # None, task'[t].snap # None
      PROVE  task'[t].snap.output = <<>>
  <2>1. Source(t)
    BY Sources
  <2>2. CASE task[t] # None /\ task'[t].snap = task[t].snap
    BY <1>3, <2>2 DEF NothingKept, Working
  <2>3. CASE task'[t].session \in byId' /\ task'[t].snap = Fresh(task'[t].session)
    <3>1. task'[t].snap.output = Output(hist'[task'[t].session])
      BY <2>3 DEF Fresh, BuildHistorySnapshot
    <3>2. QED
      BY <1>1, <1>2, <2>3, <3>1
  <2>4. QED
    BY <1>3, <2>1, <2>2, <2>3 DEF Source
<1>4. ASSUME NEW g \in Groups
      PROVE  /\ temp'[g] # None => temp'[g].output = <<>>
             /\ latest'[g] # None => latest'[g].output = <<>>
  <2>1. /\ temp[g] # None => temp[g].output = <<>>
        /\ latest[g] # None => latest[g].output = <<>>
    BY DEF NothingKept
  <2>2. CASE UNCHANGED disk
    BY <2>1, <2>2 DEF disk
  <2>3. ASSUME NEW t \in Tasks, WriteTemp(t)
        PROVE  /\ temp'[g] # None => temp'[g].output = <<>>
               /\ latest'[g] # None => latest'[g].output = <<>>
    <3>1. /\ Working(t) /\ latest' = latest
          /\ temp' = [temp EXCEPT ![groupOf[task[t].session]] = task[t].snap]
      BY <2>3 DEF WriteTemp
    <3>2. temp'[g] = temp[g] \/ temp'[g] = task[t].snap
      BY <1>0, <3>1
    <3>3. QED
      BY <2>1, <3>1, <3>2 DEF NothingKept
  <2>4. ASSUME NEW t \in Tasks, ReplaceLatest(t)
        PROVE  /\ temp'[g] # None => temp'[g].output = <<>>
               /\ latest'[g] # None => latest'[g].output = <<>>
    <3> DEFINE x == groupOf[task[t].session]
    <3>1. CASE temp[x] # None
      <4>1. latest' = [latest EXCEPT ![x] = temp[x]] /\ temp' = [temp EXCEPT ![x] = None]
        BY <2>4, <3>1 DEF ReplaceLatest, disk
      <4>2. temp'[g] \in {temp[g], None} /\ latest'[g] \in {latest[g], temp[g]}
        BY <1>0, <4>1
      <4>3. QED
        BY <2>1, <4>2
    <3>2. CASE temp[x] = None
      BY <2>1, <2>4, <3>2 DEF ReplaceLatest, disk
    <3>3. QED
      BY <3>1, <3>2
  <2>5. QED
    BY <2>2, <2>3, <2>4, DiskFrame
<1>5. QED
  BY <1>1, <1>3, <1>4 DEF NothingKept, Working

\* The histories whatever their limit.
ReplaysInv == HistoriesInv /\ (MaxHistory = 0 => NothingKept)

\* Without room for a history nothing is ever kept, or replayed, of the output.
THEOREM ReplaysInvariant == Spec => []ReplaysInv
<1>1. Init => NothingKept
  <2>1. Output(NoHistory) = <<>>
    BY ConcatEmptySeq, EmptySeq DEF Output, NoHistory
  <2>2. QED
    BY <2>1 DEF Init, NothingKept, Working
<1>2. ReplaysInv /\ HistoriesInv' /\ [Next]_vars => ReplaysInv'
  <2> SUFFICES ASSUME ReplaysInv, HistoriesInv', [Next]_vars PROVE ReplaysInv'
    OBVIOUS
  <2>1. CASE Next
    BY <2>1, NothingKeptStep DEF ReplaysInv, HistoriesInv, TablesInv
  <2>2. CASE UNCHANGED vars
    BY <2>2 DEF vars, disk, ReplaysInv, NothingKept, Working
  <2>3. QED
    BY <2>1, <2>2
<1>3. Init /\ HistoriesInv => ReplaysInv
  BY <1>1 DEF ReplaysInv
<1>4. QED
  BY <1>2, <1>3, HistoriesInvariant, PTL DEF Spec

\* The history of a session goes on with the next chunk of its output.
LEMMA ReplayUpTo ==
  ASSUME ReplaysInv, NEW s \in Sessions
  PROVE  /\ UpTo(Output(hist[s]), seen[s]) /\ Reaches(Output(hist[s]), seen[s])
         /\ Output(hist[s]) \in Seq(Nat) /\ seen[s] \in Nat
<1>1. hist[s] \in HistoryType /\ seen[s] \in Nat /\ MaxHistory \in Nat
  BY TerminalAssumption DEF ReplaysInv, HistoriesInv, TablesInv, IInv, TypeOK, TypeRecords
<1>2. Output(hist[s]) \in Seq(Nat) /\ hist[s].truncated \in BOOLEAN
  BY <1>1, ConcatProperties DEF HistoryType, Output
<1>3. CASE MaxHistory = 0
  <2>1. Output(hist[s]) = <<>>
    BY <1>3 DEF ReplaysInv, NothingKept
  <2>2. QED
    BY <1>1, <1>2, <1>3, <2>1, EmptyUpTo DEF Reaches
<1>4. CASE MaxHistory > 0
  <2>1. SuffixOf(Output(hist[s]), seen[s], hist[s].truncated)
    BY <1>4 DEF ReplaysInv, HistoriesInv, Histories
  <2>2. QED
    BY <1>1, <1>2, <2>1, HistoryUpTo
<1>5. QED
  BY <1>1, <1>3, <1>4

-----------------------------------------------------------------------------
(***************************************************************************)
(* What is sent to a connection.                                           *)
(***************************************************************************)

\* Connection c moves, ends, or is sent an exit.
ConnKept(c) ==
  \/ conn'[c] = conn[c]
  \/ conn[c].pc # "idle" /\ conn'[c] = Gone
  \/ /\ conn[c] # Gone
     /\ conn'[c].pc = "idle" <=> conn[c].pc = "idle"
     /\ conn'[c].session = conn[c].session
     /\ conn'[c].stream \in {conn[c].stream, Append(conn[c].stream, ExitMark)}

\* An endpoint that has returned was not waiting to be used.
LEMMA GoneFields == Gone.pc = "done" /\ Gone.stream = <<>>
  BY DEF Gone, NoConn

\* Such a connection is that of the same session, and what it was sent goes on as it
\* did.
LEMMA ConnKeptStream ==
  ASSUME IInv, NEW c \in Conns, ConnKept(c)
  PROVE  /\ ChunksFollow(conn[c].stream) => ChunksFollow(conn'[c].stream)
         /\ \A s : Of(c, s) => conn'[c].pc # "idle" /\ (conn'[c] = Gone \/ conn'[c].session = s)
         /\ conn'[c] # Gone =>
              /\ conn[c] # Gone
              /\ \A n \in Nat :
                   /\ UpTo(conn[c].stream, n) => UpTo(conn'[c].stream, n)
                   /\ Reaches(conn[c].stream, n) => Reaches(conn'[c].stream, n)
<1>1. conn[c].stream \in Seq(Nat)
  BY DEF IInv, TypeOK, ConnType
<1>2. CASE conn'[c] = conn[c]
  BY <1>2 DEF Of
<1>3. CASE conn[c].pc # "idle" /\ conn'[c] = Gone
  <2>1. ChunksFollow(conn'[c].stream)
    BY <1>3, GoneFields, EmptyUpTo, 0 \in Nat DEF UpTo
  <2>2. QED
    BY <1>3, <2>1, GoneFields
<1>4. CASE /\ conn[c] # Gone
           /\ conn'[c].pc = "idle" <=> conn[c].pc = "idle"
           /\ conn'[c].session = conn[c].session
           /\ conn'[c].stream \in {conn[c].stream, Append(conn[c].stream, ExitMark)}
  <2>1. \A n \in Nat :
          /\ UpTo(conn[c].stream, n) => UpTo(conn'[c].stream, n)
          /\ Reaches(conn[c].stream, n) => Reaches(conn'[c].stream, n)
    BY <1>1, <1>4, ExitUpTo
  <2>2. ChunksFollow(conn[c].stream) => ChunksFollow(conn'[c].stream)
    BY <1>1, <1>4, ExitUpTo, 0 \in Nat
  <2>3. QED
    BY <1>4, <2>1, <2>2 DEF Of
<1>5. QED
  BY <1>2, <1>3, <1>4 DEF ConnKept

\* Two sessions do not share a connection that is still there.
LEMMA OneSession ==
  ASSUME NEW c, NEW s, NEW x, conn[c] # Gone, Of(c, s), Of(c, x)
  PROVE  s = x
  BY DEF Of

\* A job that goes on carries its chunk to the same connection, which goes on.
LEMMA OutputStream ==
  ASSUME IInv, Readers, Streams, NEW u \in Tasks, SameOutput(u), task'[u].conn # None,
         ConnKept(task[u].conn)
  PROVE  /\ conn'[task'[u].conn].pc # "idle"
         /\ conn'[task'[u].conn] = Gone \/ conn'[task'[u].conn].session = task'[u].session
         /\ conn'[task'[u].conn] # Gone => UpTo(conn'[task'[u].conn].stream, task'[u].item - 1)
<1> DEFINE c == task[u].conn
<1>1. /\ c \in Conns /\ task[u].item - 1 \in Nat
      /\ task'[u].conn = c /\ task'[u].session = task[u].session /\ task'[u].item = task[u].item
  <2>1. Outputs(task[u])
    BY DEF SameOutput
  <2>2. task[u].item \in Nat /\ task[u].item > 0 /\ c \in Conns \cup {None}
    BY <2>1, OutputFields
  <2>3. QED
    BY <2>2 DEF SameOutput
<1>2. /\ Of(c, task[u].session)
      /\ conn[c] # Gone => UpTo(conn[c].stream, task[u].item - 1)
  BY <1>1, TerminalAssumption DEF Streams, SameOutput
<1>3. /\ conn'[c].pc # "idle" /\ (conn'[c] = Gone \/ conn'[c].session = task[u].session)
      /\ conn'[c] # Gone => /\ conn[c] # Gone
                            /\ UpTo(conn[c].stream, task[u].item - 1)
                                 => UpTo(conn'[c].stream, task[u].item - 1)
  BY <1>1, <1>2, ConnKeptStream
<1>4. QED
  BY <1>1, <1>2, <1>3

\* After the step a chunk is on its way to connection c, or it has all of session s.
Current(c, s) ==
  \/ \E t \in Tasks : Outputs(task'[t]) /\ task'[t].conn = c
  \/ UpTo(conn'[c].stream, seen'[s]) /\ Reaches(conn'[c].stream, seen'[s])

\* The connection that has the queue of a session goes on having it.
LEMMA QueueStream ==
  ASSUME IInv, Readers, Streams, NEW s \in Sessions, NEW c \in Conns, outq[s] = c,
         ConnKept(c), conn'[c] # Gone, Live(s), LiveAfter(s), seen'[s] = seen[s],
         \A u \in Tasks : Outputs(task[u]) /\ task[u].conn = c => GoesOn(u)
  PROVE  Current(c, s)
<1>1. conn[c] # Gone /\ seen[s] \in Nat /\ Of(c, s)
  BY ConnKeptStream DEF IInv, TypeOK, TypeRecords, Streams
<1>2. \/ Awaits(c)
      \/ UpTo(conn[c].stream, seen[s]) /\ Reaches(conn[c].stream, seen[s])
  BY <1>1 DEF Streams
<1>3. CASE Awaits(c)
  <2>1. PICK u \in Tasks : Outputs(task[u]) /\ task[u].conn = c
    BY <1>3 DEF Awaits
  <2>2. Of(c, task[u].session)
    BY <2>1, TerminalAssumption DEF Streams
  <2>3. task[u].session = s
    BY <1>1, <2>2, OneSession
  <2>4. KeepsOutput(u)
    BY <2>1, <2>3 DEF GoesOn
  <2>5. QED
    BY <2>1, <2>4 DEF KeepsOutput, Current
<1>4. CASE UpTo(conn[c].stream, seen[s]) /\ Reaches(conn[c].stream, seen[s])
  <2>1. UpTo(conn'[c].stream, seen[s]) /\ Reaches(conn'[c].stream, seen[s])
    BY <1>1, <1>4, ConnKeptStream
  <2>2. QED
    BY <2>1 DEF Current
<1>5. QED
  BY <1>2, <1>3, <1>4

\* What is left to show once every part is known of the next state.
LEMMA StreamsNext ==
  ASSUME \A c \in Conns : ChunksFollow(conn'[c].stream),
         \A s \in Sessions, c \in Conns : outq'[s] = c =>
           /\ conn'[c].pc # "idle" /\ (conn'[c] = Gone \/ conn'[c].session = s)
           /\ groupOf'[s] # None,
         \A u \in Tasks : Outputs(task'[u]) /\ task'[u].conn # None =>
           /\ conn'[task'[u].conn].pc # "idle"
           /\ conn'[task'[u].conn] = Gone \/ conn'[task'[u].conn].session = task'[u].session
           /\ conn'[task'[u].conn] # Gone => UpTo(conn'[task'[u].conn].stream, task'[u].item - 1),
         \A s \in Sessions, c \in Conns :
           outq'[s] = c /\ conn'[c] # Gone /\ LiveAfter(s) => Current(c, s)
  PROVE  Streams'
  BY DEF Streams, Of, LiveAfter, Live, Current, Awaits

\* A step that gives no session another queue, sends nothing but exits, and keeps
\* readers as they are unless it stops them.
LEMMA StreamsKept ==
  ASSUME IInv, Readers, Streams, UNCHANGED seen, QueuesKept,
         \A c \in Conns : ConnKept(c),
         \A s \in Sessions : groupOf[s] # None => groupOf'[s] # None,
         \A u \in Tasks : GoesOn(u),
         \A s \in Sessions : groupOf[s] # None /\ LiveAfter(s) => Live(s)
  PROVE  Streams'
<1>0. None \notin Conns
  BY TerminalAssumption
<1>1. \A c \in Conns : ChunksFollow(conn'[c].stream)
  BY ConnKeptStream DEF Streams
<1>2. ASSUME NEW s \in Sessions, NEW c \in Conns, outq'[s] = c
      PROVE  /\ outq[s] = c /\ groupOf[s] # None
             /\ conn'[c].pc # "idle" /\ (conn'[c] = Gone \/ conn'[c].session = s)
             /\ groupOf'[s] # None
  <2>1. outq[s] = c
    BY <1>0, <1>2 DEF QueuesKept
  <2>2. Of(c, s) /\ groupOf[s] # None
    BY <2>1 DEF Streams
  <2>3. QED
    BY <2>1, <2>2, ConnKeptStream
<1>3. ASSUME NEW u \in Tasks, Outputs(task'[u]), task'[u].conn # None
      PROVE  /\ conn'[task'[u].conn].pc # "idle"
             /\ conn'[task'[u].conn] = Gone \/ conn'[task'[u].conn].session = task'[u].session
             /\ conn'[task'[u].conn] # Gone => UpTo(conn'[task'[u].conn].stream, task'[u].item - 1)
  <2>1. SameOutput(u)
    BY <1>3 DEF GoesOn
  <2>2. task[u].conn \in Conns
    BY <1>3, <2>1, OutputFields DEF SameOutput
  <2>3. QED
    BY <1>3, <2>1, <2>2, OutputStream
<1>4. ASSUME NEW s \in Sessions, NEW c \in Conns, outq'[s] = c, conn'[c] # Gone, LiveAfter(s)
      PROVE  Current(c, s)
  <2>1. outq[s] = c /\ Live(s)
    BY <1>2, <1>4
  <2>2. QED
    BY <1>4, <2>1, QueueStream
<1>5. QED
  BY <1>1, <1>2, <1>3, <1>4, StreamsNext

\* A client that attaches is given the history, and its session's queue.
LEMMA StreamsAttach ==
  ASSUME ReplaysInv, Readers, Streams, NEW c \in Conns, NEW s \in Sessions, NEW t \in Tasks,
         AttachSession(c, s, t),
         \A u \in Tasks : GoesOn(u),
         \A x \in Sessions : groupOf[x] # None /\ LiveAfter(x) => Live(x)
  PROVE  Streams'
<1>0. IInv /\ TablesAgree
  BY DEF ReplaysInv, HistoriesInv, TablesInv
<1>1. /\ conn \in [Conns -> ConnType] /\ outq \in [Sessions -> Conns \cup {None}]
      /\ None \notin Conns
  BY <1>0, TerminalAssumption DEF IInv, TypeOK, TypeRecords
<1>2. /\ conn[c].pc = "idle" /\ outq' = [outq EXCEPT ![s] = c] /\ s \in byId
      /\ conn' = [conn EXCEPT ![c] = [pc |-> "attaching", session |-> s, stream |-> Output(hist[s])]]
      /\ seen' = seen /\ groupOf' = groupOf
  BY DEF AttachSession, tables
<1>3. /\ \A d \in Conns \ {c} : conn'[d] = conn[d]
      /\ conn'[c].pc = "attaching" /\ conn'[c].session = s /\ conn'[c].stream = Output(hist[s])
      /\ outq'[s] = c /\ \A x \in Sessions \ {s} : outq'[x] = outq[x]
  BY <1>1, <1>2
<1>4. \A x : ~Of(c, x)
  BY <1>2 DEF Of
<1>5. /\ UpTo(Output(hist[s]), seen[s]) /\ Reaches(Output(hist[s]), seen[s])
  BY ReplayUpTo
<1>6. groupOf[s] # None
  BY <1>0, <1>2, TerminalAssumption DEF TablesAgree
<1>7. ASSUME NEW d \in Conns PROVE ChunksFollow(conn'[d].stream)
  BY <1>3, <1>5 DEF UpTo, Streams
<1>8. ASSUME NEW x \in Sessions, NEW d \in Conns, outq'[x] = d
      PROVE  /\ conn'[d].pc # "idle" /\ (conn'[d] = Gone \/ conn'[d].session = x)
             /\ groupOf'[x] # None
             /\ x # s => outq[x] = d /\ d # c
  <2>1. CASE x = s
    BY <1>2, <1>3, <1>6, <1>8, <2>1
  <2>2. CASE x # s
    <3>1. outq[x] = d /\ Of(d, x) /\ groupOf[x] # None
      BY <1>3, <1>8, <2>2 DEF Streams
    <3>2. d # c
      BY <1>4, <3>1
    <3>3. QED
      BY <1>2, <1>3, <3>1, <3>2 DEF Of
  <2>3. QED
    BY <2>1, <2>2
<1>9. ASSUME NEW u \in Tasks, Outputs(task'[u]), task'[u].conn # None
      PROVE  /\ conn'[task'[u].conn].pc # "idle"
             /\ conn'[task'[u].conn] = Gone \/ conn'[task'[u].conn].session = task'[u].session
             /\ conn'[task'[u].conn] # Gone => UpTo(conn'[task'[u].conn].stream, task'[u].item - 1)
  <2>1. SameOutput(u)
    BY <1>9 DEF GoesOn
  <2>2. task[u].conn \in Conns /\ Of(task[u].conn, task[u].session)
    BY <1>0, <1>9, <2>1, OutputFields DEF SameOutput, Streams
  <2>3. ConnKept(task[u].conn)
    BY <1>3, <1>4, <2>2 DEF ConnKept
  <2>4. QED
    BY <1>0, <1>9, <2>1, <2>3, OutputStream
<1>10. ASSUME NEW x \in Sessions, NEW d \in Conns, outq'[x] = d, conn'[d] # Gone, LiveAfter(x)
       PROVE  Current(d, x)
  <2>1. CASE x = s
    BY <1>2, <1>3, <1>5, <1>10, <2>1 DEF Current
  <2>2. CASE x # s
    <3>1. outq[x] = d /\ d # c /\ groupOf[x] # None
      BY <1>2, <1>8, <1>10, <2>2
    <3>2. Live(x) /\ ConnKept(d) /\ seen'[x] = seen[x]
      BY <1>2, <1>3, <1>10, <3>1 DEF ConnKept
    <3>3. QED
      BY <1>0, <1>10, <3>1, <3>2, QueueStream
  <2>3. QED
    BY <2>1, <2>2
<1>11. QED
  BY <1>7, <1>8, <1>9, <1>10, StreamsNext

\* A chunk is handled for the client that has the queue then, which has got all that
\* came before it.
LEMMA StreamsHandle ==
  ASSUME IInv, Readers, Streams, NEW s \in Sessions, NEW t \in Tasks, HandleOutput(s, t),
         \A u \in Tasks \ {t} : GoesOn(u),
         \A x \in Sessions : groupOf[x] # None /\ LiveAfter(x) => Live(x)
  PROVE  Streams'
<1>0. seen \in [Sessions -> Nat] /\ outq \in [Sessions -> Conns \cup {None}] /\ None \notin Conns
  BY TerminalAssumption DEF IInv, TypeOK, TypeRecords
<1>1. UNCHANGED <<conn, outq, groupOf>>
  BY DEF HandleOutput, tables
<1>2. /\ Outputs(task'[t]) /\ task'[t].session = s /\ task'[t].conn = outq[s]
      /\ task'[t].item = seen[s] + 1 /\ task'[t].item - 1 = seen[s]
      /\ seen' = [seen EXCEPT ![s] = seen[s] + 1] /\ bridge[s].reader = "reading"
      /\ task[t] = None
  BY HandledOutput
<1>3. \A d \in Conns : ConnKept(d)
  BY <1>1 DEF ConnKept
<1>4. ASSUME NEW u \in Tasks, Outputs(task'[u]), task'[u].conn # None
      PROVE  /\ conn'[task'[u].conn].pc # "idle"
             /\ conn'[task'[u].conn] = Gone \/ conn'[task'[u].conn].session = task'[u].session
             /\ conn'[task'[u].conn] # Gone => UpTo(conn'[task'[u].conn].stream, task'[u].item - 1)
  <2>1. CASE u # t
    <3>1. SameOutput(u)
      BY <1>4, <2>1 DEF GoesOn
    <3>2. task[u].conn \in Conns
      BY <1>4, <3>1, OutputFields DEF SameOutput
    <3>3. QED
      BY <1>3, <1>4, <3>1, <3>2, OutputStream
  <2>2. CASE u = t
    <3> DEFINE c == outq[s]
    <3>1. c \in Conns /\ task'[u].conn = c
      BY <1>0, <1>2, <1>4, <2>2
    <3>2. Of(c, s)
      BY <3>1 DEF Streams
    <3>3. ASSUME conn[c] # Gone PROVE UpTo(conn[c].stream, seen[s])
      <4>1. Live(s)
        BY <1>2 DEF Live
      <4>2. ~Awaits(c)
        <5> SUFFICES ASSUME NEW v \in Tasks, Outputs(task[v]), task[v].conn = c PROVE FALSE
          BY DEF Awaits
        <5>1. Of(c, task[v].session)
          BY <1>0, <3>1 DEF Streams
        <5>2. task[v].session = s
          BY <3>2, <3>3, <5>1, OneSession
        <5>3. QED
          BY <1>2, <5>2, OutputFields
      <4>3. QED
        BY <3>1, <3>3, <4>1, <4>2 DEF Streams
    <3>4. QED
      BY <1>1, <1>2, <2>2, <3>1, <3>2, <3>3 DEF Of
  <2>3. QED
    BY <2>1, <2>2
<1>5. ASSUME NEW x \in Sessions, NEW d \in Conns, outq'[x] = d, conn'[d] # Gone, LiveAfter(x)
      PROVE  Current(d, x)
  <2>1. CASE x = s
    BY <1>1, <1>2, <1>5, <2>1 DEF Current
  <2>2. CASE x # s
    <3>1. outq[x] = d /\ Live(x) /\ seen'[x] = seen[x]
      BY <1>0, <1>1, <1>2, <1>5, <2>2 DEF Streams
    <3>2. \A u \in Tasks : Outputs(task[u]) => GoesOn(u)
      BY <1>2 DEF Outputs
    <3>3. QED
      BY <1>3, <1>5, <3>1, <3>2, QueueStream
  <2>3. QED
    BY <2>1, <2>2
<1>6. QED
  BY <1>1, <1>4, <1>5, StreamsNext DEF Streams, Of

\* A chunk is put on the queue it was handled for, after those that came before it.
LEMMA StreamsDeliver ==
  ASSUME IInv, Readers, Streams, NEW t \in Tasks, Delivers(t),
         \A u \in Tasks \ {t} : GoesOn(u),
         \A x \in Sessions : groupOf[x] # None /\ LiveAfter(x) => Live(x)
  PROVE  Streams'
<1> DEFINE j == task[t]
           s == j.session
           q == j.conn
           n == j.item - 1
<1>0. /\ conn \in [Conns -> ConnType] /\ outq \in [Sessions -> Conns \cup {None}]
      /\ None \notin Conns /\ DOMAIN task = Tasks
  BY Typed, TerminalAssumption DEF IInv, TypeOK, TypeRecords
<1>1. /\ Outputs(j) /\ s \in Sessions /\ q \in Conns \cup {None}
      /\ n \in Nat /\ n + 1 = j.item /\ j.item = seen[s] /\ j.item \in Nat
  <2>1. Outputs(j)
    BY DEF Delivers
  <2>2. /\ s \in Sessions /\ q \in Conns \cup {None}
        /\ j.item = seen[s] /\ j.item \in Nat /\ j.item > 0
    BY <2>1, OutputFields
  <2>3. QED
    BY <2>1, <2>2
<1>2. /\ task'[t] = None /\ UNCHANGED <<outq, seen, groupOf>>
      /\ conn' = IF q = None \/ conn[q] = Gone THEN conn
                 ELSE [conn EXCEPT ![q].stream = Append(@, j.item)]
  <2>1. Resume(t) /\ UNCHANGED <<outq, seen, groupOf>>
    BY DEF Delivers, ReplaceLatest, PersistFails, tables
  <2>2. task' = [task EXCEPT ![t] = None]
    BY <2>1 DEF Resume
  <2>3. j.kind = "output"
    BY <1>1 DEF Outputs
  <2>4. QED
    BY <1>0, <2>1, <2>2, <2>3 DEF Resume, EventQueue
<1>3. ASSUME q # None, conn[q] # Gone
      PROVE  /\ q \in Conns /\ Of(q, s) /\ UpTo(conn[q].stream, n)
             /\ conn'[q].pc = conn[q].pc /\ conn'[q].session = conn[q].session
             /\ conn'[q].stream = Append(conn[q].stream, n + 1)
             /\ conn[q].stream \in Seq(Nat)
             /\ \A d \in Conns \ {q} : conn'[d] = conn[d]
  <2>1. q \in Conns /\ conn[q] \in ConnType
    BY <1>0, <1>1, <1>3
  <2>2. Of(q, s) /\ UpTo(conn[q].stream, n)
    BY <1>1, <1>3 DEF Streams
  <2>3. conn' = [conn EXCEPT ![q].stream = Append(@, n + 1)]
    BY <1>1, <1>2, <1>3
  <2>4. conn'[q] = [conn[q] EXCEPT !.stream = Append(@, n + 1)]
    BY <1>0, <2>1, <2>3
  <2> HIDE DEF n
  <2>5. /\ conn'[q].pc = conn[q].pc /\ conn'[q].session = conn[q].session
        /\ conn'[q].stream = Append(conn[q].stream, n + 1)
        /\ conn[q].stream \in Seq(Nat)
    BY <2>1, <2>4 DEF ConnType
  <2>6. QED
    BY <1>0, <2>1, <2>2, <2>3, <2>5
<1> DEFINE Sent == q # None /\ conn[q] # Gone
<1>4. \A d \in Conns : conn'[d] = conn[d] \/ (Sent /\ d = q)
  BY <1>2, <1>3
<1>5. Sent => /\ UpTo(conn'[q].stream, seen[s]) /\ Reaches(conn'[q].stream, seen[s])
  <2> SUFFICES ASSUME Sent
               PROVE  UpTo(conn'[q].stream, n + 1) /\ Reaches(conn'[q].stream, n + 1)
    BY <1>1
  <2> HIDE DEF n
  <2>1. QED
    BY <1>1, <1>3, ChunkUpTo
<1>6. ASSUME NEW d \in Conns PROVE ChunksFollow(conn'[d].stream)
  BY <1>4, <1>5 DEF UpTo, Streams
<1>7. ASSUME NEW d \in Conns, NEW x, Of(d, x)
      PROVE  conn'[d].pc # "idle" /\ (conn'[d] = Gone \/ conn'[d].session = x)
  BY <1>3, <1>4, <1>7 DEF Of
<1>8. ASSUME NEW u \in Tasks, Outputs(task'[u]), task'[u].conn # None
      PROVE  /\ conn'[task'[u].conn].pc # "idle"
             /\ conn'[task'[u].conn] = Gone \/ conn'[task'[u].conn].session = task'[u].session
             /\ conn'[task'[u].conn] # Gone => UpTo(conn'[task'[u].conn].stream, task'[u].item - 1)
  <2>1. u # t
    BY <1>2, <1>8 DEF Outputs
  <2>2. SameOutput(u)
    BY <1>8, <2>1 DEF GoesOn
  <2>3. /\ task[u].conn \in Conns /\ Of(task[u].conn, task[u].session)
        /\ task[u].session # s
    BY <1>1, <1>8, <2>1, <2>2, OutputFields DEF SameOutput, Streams, Readers
  <2>4. ConnKept(task[u].conn)
    <3>1. CASE Sent /\ task[u].conn = q
      BY <1>3, <2>3, <3>1, OneSession
    <3>2. CASE ~(Sent /\ task[u].conn = q)
      BY <1>4, <2>3, <3>2 DEF ConnKept
    <3>3. QED
      BY <3>1, <3>2
  <2>5. QED
    BY <1>8, <2>2, <2>4, OutputStream
<1>9. ASSUME NEW x \in Sessions, NEW d \in Conns, outq'[x] = d, conn'[d] # Gone, LiveAfter(x)
      PROVE  Current(d, x)
  <2>1. outq[x] = d /\ Of(d, x) /\ Live(x) /\ seen'[x] = seen[x]
    BY <1>2, <1>9 DEF Streams
  <2>2. CASE Sent /\ d = q
    <3>1. x = s
      BY <1>3, <2>1, <2>2, OneSession
    <3>2. QED
      BY <1>5, <2>1, <2>2, <3>1 DEF Current
  <2>3. CASE ~(Sent /\ d = q)
    <3>a. conn'[d] = conn[d]
      BY <1>4, <2>3
    <3>b. d # None /\ conn[d] # Gone
      BY <1>0, <1>9, <3>a
    <3>1. conn'[d] = conn[d] /\ d # q
      BY <2>3, <3>a, <3>b
    <3>2. \A u \in Tasks : Outputs(task[u]) /\ task[u].conn = d => GoesOn(u)
      BY <3>1
    <3>3. QED
      BY <1>9, <2>1, <3>1, <3>2, QueueStream DEF ConnKept
  <2>4. QED
    BY <2>2, <2>3
<1>10. ASSUME NEW x \in Sessions, NEW d \in Conns, outq'[x] = d
       PROVE  /\ conn'[d].pc # "idle" /\ (conn'[d] = Gone \/ conn'[d].session = x)
              /\ groupOf'[x] # None
  BY <1>2, <1>7, <1>10 DEF Streams
<1>11. QED
  BY <1>6, <1>8, <1>9, <1>10, StreamsNext

\* An endpoint that attaches or closes is told how it ended by one job only, which
\* finds it waiting.
LEMMA WaitingConn ==
  ASSUME IInv, Clients, NEW u \in Tasks, Reports(task[u])
  PROVE  /\ task[u].conn \in Conns /\ conn[task[u].conn].pc \in {"attaching", "closing"}
         /\ conn[task[u].conn] # Gone
  BY Reporting, GoneFields DEF WaitsIn

\* What a job step does to the connections, but for the one that delivers a chunk.
LEMMA JobStepConns ==
  ASSUME IInv, Clients, NEW t \in Tasks, JobStep(t), ~Delivers(t), NEW c \in Conns
  PROVE  ConnKept(c) /\ QueuesKept /\ seen' = seen
<1> DEFINE j == task[t]
           s == j.session
<1>0. /\ conn \in [Conns -> ConnType] /\ outq \in [Sessions -> Conns \cup {None}]
      /\ None \notin Conns /\ conn[c] \in ConnType
  BY TerminalAssumption DEF IInv, TypeOK, TypeRecords
<1>1. j \in JobType /\ j # None /\ j.conn \in Conns \cup {None}
  BY JobStepJobs DEF JobType
<1>2. seen' = seen
  BY DEF JobStep, RunContainer, RunContainerFails, ExecStarts, ExecFails, KillWaited,
         ReadersGone, WriteTemp, ReplaceLatest, PersistFails, StartRaises
<1>3. QueuesKept
  <2>1. outq' = outq \/ outq' = [outq EXCEPT ![s] = None]
    BY DEF JobStep, RunContainer, RunContainerFails, ExecStarts, ExecFails, KillWaited,
           ReadersGone, WriteTemp, ReplaceLatest, PersistFails, StartRaises
  <2>2. QED
    BY <1>0, <2>1 DEF QueuesKept
<1>a. ASSUME j.kind \in {"attach", "failed", "close"}, j.conn # None,
             conn' = [conn EXCEPT ![j.conn] = Gone]
      PROVE  ConnKept(c)
  <2>1. conn[j.conn].pc # "idle"
    BY <1>1, <1>a, WaitingConn DEF Reports
  <2>2. QED
    BY <1>0, <1>a, <2>1 DEF ConnKept
<1>4. ConnKept(c)
  <2>1. CASE conn' = conn
    BY <2>1 DEF ConnKept
  <2>2. CASE RunContainer(t) \/ ExecStarts(t) \/ KillWaited(t) \/ ReadersGone(t) \/ WriteTemp(t)
    BY <2>1, <2>2 DEF RunContainer, ExecStarts, KillWaited, ReadersGone, WriteTemp
  <2>3. CASE RunContainerFails(t) \/ ExecFails(t)
    <3>1. conn' = conn \/ (j.kind = "attach" /\ conn' = [conn EXCEPT ![j.conn] = Gone])
      BY <2>3 DEF RunContainerFails, ExecFails, StartRaises
    <3>2. CASE j.conn = None
      <4>1. conn'[c] = conn[c]
        BY <1>0, <3>1, <3>2
      <4>2. QED
        BY <4>1 DEF ConnKept
    <3>3. CASE j.conn # None
      BY <3>1, <3>3, <2>1, <1>a
    <3>4. QED
      BY <3>2, <3>3
  <2>4. CASE ReplaceLatest(t) \/ PersistFails(t)
    <3>1. Resume(t)
      BY <2>4 DEF ReplaceLatest, PersistFails
    <3>2. j.kind # "output"
      BY <1>1, <2>4 DEF Delivers, Outputs
    <3>3. CASE j.kind = "exit"
      <4>1. \/ conn' = conn
            \/ /\ j.conn # None /\ conn[j.conn] # Gone
               /\ conn' = [conn EXCEPT ![j.conn].stream = Append(@, ExitMark)]
        BY <3>1, <3>3 DEF Resume, EventQueue
      <4>2. ASSUME conn[j.conn] # Gone,
                   conn' = [conn EXCEPT ![j.conn].stream = Append(@, ExitMark)]
            PROVE  ConnKept(c)
        <5>1. CASE c # j.conn
          BY <1>0, <4>2, <5>1 DEF ConnKept
        <5>2. CASE c = j.conn
          <6>1. conn'[c] = [conn[c] EXCEPT !.stream = Append(@, ExitMark)]
            BY <1>0, <4>2, <5>2
          <6>2. /\ conn'[c].pc = conn[c].pc /\ conn'[c].session = conn[c].session
                /\ conn'[c].stream = Append(conn[c].stream, ExitMark)
            BY <1>0, <6>1 DEF ConnType
          <6>3. QED
            BY <4>2, <5>2, <6>2 DEF ConnKept
        <5>3. QED
          BY <5>1, <5>2
      <4>3. QED
        BY <2>1, <4>1, <4>2
    <3>4. CASE j.kind = "attach"
      <4>1. conn' = [conn EXCEPT ![j.conn].pc = "accepting"]
        BY <3>1, <3>4 DEF Resume
      <4>2. CASE c # j.conn
        BY <1>0, <4>1, <4>2 DEF ConnKept
      <4>3. CASE c = j.conn
        <5>1. conn[c] # Gone /\ conn[c].pc # "idle"
          BY <1>0, <1>1, <3>4, <4>3, WaitingConn DEF Reports
        <5>2. conn'[c] = [conn[c] EXCEPT !.pc = "accepting"]
          BY <1>0, <4>1, <4>3
        <5>3. /\ conn'[c].pc = "accepting" /\ conn'[c].session = conn[c].session
              /\ conn'[c].stream = conn[c].stream
          BY <1>0, <5>2 DEF ConnType
        <5>4. QED
          BY <5>1, <5>3 DEF ConnKept
      <4>4. QED
        BY <4>2, <4>3
    <3>5. CASE j.kind \in {"failed", "close"} /\ j.conn # None
      <4>1. conn' = [conn EXCEPT ![j.conn] = Gone]
        BY <3>1, <3>5 DEF Resume
      <4>2. QED
        BY <3>5, <4>1, <1>a
    <3>6. CASE j.kind \notin {"output", "exit", "attach"} /\ ~(j.kind \in {"failed", "close"} /\ j.conn # None)
      BY <2>1, <3>1, <3>6 DEF Resume
    <3>7. QED
      BY <3>2, <3>3, <3>4, <3>5, <3>6
  <2>5. QED
    BY <2>2, <2>3, <2>4 DEF JobStep
<1>5. QED
  BY <1>2, <1>3, <1>4

\* What a step that is no attach, output, delivery or restart does to the connections.
LEMMA ConnSteps ==
  ASSUME IInv, Clients, Next, ~Restart,
         ~\E c \in Conns, s \in Sessions, t \in Tasks : AttachSession(c, s, t),
         ~\E s \in Sessions, t \in Tasks : HandleOutput(s, t),
         ~\E t \in Tasks : Delivers(t),
         NEW c \in Conns
  PROVE  ConnKept(c) /\ QueuesKept /\ seen' = seen
<1>0. /\ conn \in [Conns -> ConnType] /\ outq \in [Sessions -> Conns \cup {None}]
      /\ None \notin Conns /\ conn[c] \in ConnType
  BY TerminalAssumption DEF IInv, TypeOK, TypeRecords
<1>q. ASSUME outq' = outq \/ \E s : outq' = [outq EXCEPT ![s] = None] PROVE QueuesKept
  BY <1>0, <1>q DEF QueuesKept
<1>g. ASSUME NEW d \in Conns, conn[d].pc # "idle", conn' = [conn EXCEPT ![d] = Gone] PROVE ConnKept(c)
  BY <1>0, <1>g DEF ConnKept
<1>p. ASSUME NEW d \in Conns, conn[d].pc \notin {"idle", "done"}, NEW p, p # "idle",
             conn' = [conn EXCEPT ![d].pc = p]
      PROVE  ConnKept(c)
  <2>1. CASE c # d
    BY <1>0, <1>p, <2>1 DEF ConnKept
  <2>2. CASE c = d
    <3>1. conn'[c] = [conn[c] EXCEPT !.pc = p]
      BY <1>0, <1>p, <2>2
    <3>2. conn'[c].pc = p /\ conn'[c].session = conn[c].session /\ conn'[c].stream = conn[c].stream
      BY <1>0, <3>1 DEF ConnType
    <3>3. QED
      BY <1>p, <2>2, <3>2, GoneFields DEF ConnKept
  <2>3. QED
    BY <2>1, <2>2
<1>1. ASSUME NEW g \in Groups, NEW s \in Sessions, NEW t \in Tasks, CreateSession(g, s, t)
      PROVE  ConnKept(c) /\ QueuesKept /\ seen' = seen
  BY <1>1, <1>q DEF CreateSession, ConnKept
<1>2. ASSUME NEW g \in Groups, NEW t \in Tasks, CloseSessionByGroup(g, t)
      PROVE  ConnKept(c) /\ QueuesKept /\ seen' = seen
  BY <1>2, <1>q DEF CloseSessionByGroup, CloseSession, ConnKept
<1>3. ASSUME NEW s \in Sessions, NEW t \in Tasks, ExpireDetachedSession(s, t)
      PROVE  ConnKept(c) /\ QueuesKept /\ seen' = seen
  BY <1>3, <1>q DEF ExpireDetachedSession, ConnKept
<1>4. ASSUME NEW s \in Sessions, NEW t \in Tasks, HandleExit(s, t)
      PROVE  ConnKept(c) /\ QueuesKept /\ seen' = seen
  BY <1>4, <1>q DEF HandleExit, ConnKept
<1>5. ASSUME NEW s \in Sessions, ProcessExits(s) \/ ReadEof(s)
      PROVE  ConnKept(c) /\ QueuesKept /\ seen' = seen
  BY <1>5, <1>q DEF ProcessExits, ReadEof, ConnKept
<1>6. ASSUME NEW d \in Conns, AcceptSocket(d) \/ HandshakeFails(d) \/ Disconnect(d)
      PROVE  ConnKept(c) /\ QueuesKept /\ seen' = seen
  <2>1. QueuesKept /\ seen' = seen
    BY <1>6, <1>q DEF AcceptSocket, HandshakeFails, Disconnect
  <2>2. CASE AcceptSocket(d) \/ Disconnect(d)
    <3>1. /\ conn[d].pc \notin {"idle", "done"}
          /\ \E p \in {"open", "leaving"} : conn' = [conn EXCEPT ![d].pc = p]
      BY <2>2 DEF AcceptSocket, Disconnect
    <3>2. QED
      BY <2>1, <3>1, <1>p
  <2>3. CASE HandshakeFails(d)
    BY <2>1, <2>3, <1>g DEF HandshakeFails
  <2>4. QED
    BY <1>6, <2>2, <2>3
<1>7. ASSUME NEW d \in Conns, NEW t \in Tasks, Leave(d, t)
      PROVE  ConnKept(c) /\ QueuesKept /\ seen' = seen
  <2>1. QueuesKept /\ seen' = seen
    BY <1>7, <1>q DEF Leave, DetachSession
  <2>2. QED
    BY <1>7, <2>1, <1>g DEF Leave
<1>8. ASSUME NEW d \in Conns, NEW t \in Tasks, CloseMessage(d, t)
      PROVE  ConnKept(c) /\ QueuesKept /\ seen' = seen
  <2>1. QueuesKept /\ seen' = seen
    BY <1>8, <1>q DEF CloseMessage, CloseSession
  <2>2. /\ conn[d].pc = "open"
        /\ conn' = [conn EXCEPT ![d].pc = "closing"] \/ conn' = [conn EXCEPT ![d] = Gone]
    BY <1>8 DEF CloseMessage
  <2>3. QED
    BY <2>1, <2>2, <1>g, <1>p
<1>9. ASSUME NEW t \in Tasks, JobStep(t)
      PROVE  ConnKept(c) /\ QueuesKept /\ seen' = seen
  BY <1>9, JobStepConns
<1>10. QED
  BY <1>1, <1>2, <1>3, <1>4, <1>5, <1>6, <1>7, <1>8, <1>9 DEF Next

\* Every step keeps what clients are sent without a hole.
LEMMA StreamsStep ==
  ASSUME ReplaysInv, StartedBridges, Clients, Readers, Streams, Next
  PROVE  Streams'
<1>0. IInv /\ TablesAgree /\ Named
  BY DEF ReplaysInv, HistoriesInv, TablesInv
<1>1. CASE Restart
  <2>1. /\ \A s \in Sessions : outq'[s] = None
        /\ \A t \in Tasks : task'[t] = None
        /\ \A c \in Conns : conn'[c] = conn[c] \/ conn'[c] = Gone
    BY <1>1 DEF Restart
  <2>2. \A c \in Conns : ChunksFollow(conn'[c].stream)
    <3>1. ChunksFollow(<<>>)
      BY EmptyUpTo, 0 \in Nat DEF UpTo
    <3>2. QED
      BY <2>1, <3>1, GoneFields DEF Streams
  <2>3. None \notin Conns
    BY TerminalAssumption
  <2>4. QED
    BY <2>1, <2>2, <2>3, StreamsNext DEF Outputs
<1>2. CASE ~Restart
  <2>1. \A s \in Sessions : groupOf[s] # None => groupOf'[s] # None
    BY <1>0, GroupsKept
  <2>2. \A s \in Sessions : groupOf[s] # None /\ LiveAfter(s) => Live(s)
    <3> SUFFICES ASSUME NEW s \in Sessions, groupOf[s] # None, LiveAfter(s) PROVE Live(s)
      OBVIOUS
    <3>1. ShellMoves(s)
      BY <1>0, <1>2, ShellSteps
    <3>2. ~\E g \in Groups, t \in Tasks : CreateSession(g, s, t)
      BY DEF CreateSession
    <3>3. QED
      BY <3>1, <3>2 DEF ShellMoves
  <2>3. ASSUME NEW u \in Tasks, ~Delivers(u), ~\E s \in Sessions : HandleOutput(s, u)
        PROVE  GoesOn(u)
    BY <1>0, <1>2, <2>3, OutputSteps
  <2>4. ASSUME NEW s \in Sessions, NEW t \in Tasks, HandleOutput(s, t)
        PROVE  Streams'
    <3>1. ASSUME NEW u \in Tasks \ {t} PROVE GoesOn(u)
      <4>1. CASE Outputs(task[u]) \/ Outputs(task'[u])
        <5>1. task'[u] = task[u] /\ task[u] # None
          <6>1. task'[u] = task[u]
            BY <1>0, <2>4, Typed DEF HandleOutput
          <6>2. QED
            BY <4>1, <6>1 DEF Outputs
        <5>2. ~\E x \in Sessions : HandleOutput(x, u)
          BY <5>1 DEF HandleOutput, Idle
        <5>3. ~Delivers(u)
          <6>1. (ReplaceLatest(u) \/ PersistFails(u)) => task'[u] = None
            BY <1>0, Typed DEF ReplaceLatest, PersistFails, Resume
          <6>2. QED
            BY <5>1, <6>1 DEF Delivers
        <5>4. QED
          BY <2>3, <5>2, <5>3
      <4>2. CASE ~(Outputs(task[u]) \/ Outputs(task'[u]))
        BY <4>2, NoOutput
      <4>3. QED
        BY <4>1, <4>2
    <3>2. QED
      BY <1>0, <2>2, <2>4, <3>1, StreamsHandle
  <2>5. ASSUME NEW t \in Tasks, Delivers(t), ~\E s \in Sessions, u \in Tasks : HandleOutput(s, u)
        PROVE  Streams'
    <3>1. ASSUME NEW u \in Tasks \ {t} PROVE GoesOn(u)
      <4>1. ~Delivers(u)
        <5> SUFFICES ASSUME Delivers(u) PROVE FALSE
          OBVIOUS
        <5>1. task' = [task EXCEPT ![t] = None] /\ task' = [task EXCEPT ![u] = None]
          BY <2>5 DEF Delivers, ReplaceLatest, PersistFails, Resume
        <5>2. task'[u] = task[u] /\ task'[u] = None
          BY <1>0, <5>1, Typed
        <5>3. QED
          BY <5>2 DEF Delivers, Outputs
      <4>2. QED
        BY <2>3, <2>5, <4>1
    <3>2. QED
      BY <1>0, <2>2, <2>5, <3>1, StreamsDeliver
  <2>6. ASSUME NEW c \in Conns, NEW s \in Sessions, NEW t \in Tasks, AttachSession(c, s, t),
               ~\E x \in Sessions, u \in Tasks : HandleOutput(x, u),
               ~\E u \in Tasks : Delivers(u)
        PROVE  Streams'
    BY <2>2, <2>3, <2>6, StreamsAttach
  <2>7. CASE /\ ~\E c \in Conns, s \in Sessions, t \in Tasks : AttachSession(c, s, t)
             /\ ~\E s \in Sessions, t \in Tasks : HandleOutput(s, t)
             /\ ~\E t \in Tasks : Delivers(t)
    <3>1. \A c \in Conns : ConnKept(c) /\ QueuesKept /\ seen' = seen
      BY <1>0, <1>2, <2>7, ConnSteps
    <3>2. \A u \in Tasks : GoesOn(u)
      BY <2>3, <2>7
    <3>3. CASE Conns # {}
      <4>1. QueuesKept /\ UNCHANGED seen /\ \A c \in Conns : ConnKept(c)
        BY <3>1, <3>3
      <4>2. QED
        BY <1>0, <2>1, <2>2, <3>2, <4>1, StreamsKept
    <3>4. CASE Conns = {}
      <4>1. \A u \in Tasks : Outputs(task'[u]) => task'[u].conn \in Conns \cup {None}
        BY <1>0, <3>2, OutputFields DEF GoesOn, SameOutput
      <4>2. QED
        BY <3>4, <4>1 DEF Streams
    <3>5. QED
      BY <3>3, <3>4
  <2>8. QED
    BY <2>4, <2>5, <2>6, <2>7
<1>3. QED
  BY <1>1, <1>2

\* A step that gives no session a queue, and leaves the endpoints of the queues serving.
LEMMA ServedKept ==
  ASSUME Served,
         \A s \in byId' : outq'[s] # None =>
           /\ s \in byId /\ outq'[s] = outq[s]
           /\ HasClient(s) => /\ conn'[outq[s]].session = conn[outq[s]].session
                              /\ conn'[outq[s]].pc \in Serving
  PROVE  Served'
<1>1. ASSUME NEW s \in byId', outq'[s] # None
      PROVE  HasClient(s)'
  <2>1. /\ HasClient(s) /\ outq'[s] = outq[s]
        /\ conn'[outq[s]].session = conn[outq[s]].session /\ conn'[outq[s]].pc \in Serving
    BY <1>1 DEF Served
  <2>2. QED
    BY <2>1 DEF HasClient
<1>2. QED
  BY <1>1 DEF Served, HasClient, Serving

\* Without a failed handshake, every step leaves the queue of a session with an
\* endpoint that serves it.
LEMMA ServedStep ==
  ASSUME ~HandshakeFailures, IInv, TablesAgree, Clients, Streams, Served, Next
  PROVE  Served'
<1>0. /\ conn \in [Conns -> ConnType] /\ outq \in [Sessions -> Conns \cup {None}]
      /\ byId \subseteq Sessions
      /\ None \notin Conns /\ None \notin Sessions
  BY TerminalAssumption DEF IInv, TypeOK, TypeRecords, TypeTables
<1>a. ASSUME UNCHANGED conn, byId' = byId,
             \A x \in Sessions : outq'[x] = outq[x] \/ outq'[x] = None
      PROVE  Served'
  BY <1>0, <1>a, ServedKept DEF HasClient
<1>b. ASSUME UNCHANGED <<byId, outq>>,
             \A s \in byId : HasClient(s) => /\ conn'[outq[s]].session = conn[outq[s]].session
                                            /\ conn'[outq[s]].pc \in Serving
      PROVE  Served'
  BY <1>b, ServedKept
<1>c. ASSUME UNCHANGED <<byId, outq, conn>> PROVE Served'
  BY <1>b, <1>c DEF HasClient
\* A connection of session s goes, and s has no queue.
<1>d. ASSUME NEW c \in Conns, NEW s, s = conn[c].session, byId' = byId,
             \A d \in Conns \ {c} : conn'[d] = conn[d],
             \A x \in Sessions \ {s} : outq'[x] = outq[x],
             s \in byId => outq'[s] = None
      PROVE  Served'
  <2>1. ASSUME NEW x \in byId', outq'[x] # None
        PROVE  /\ x \in byId /\ outq'[x] = outq[x]
               /\ HasClient(x) => /\ conn'[outq[x]].session = conn[outq[x]].session
                                  /\ conn'[outq[x]].pc \in Serving
    <3>1. x \in byId /\ x # s
      BY <1>d, <2>1
    <3>2. HasClient(x) => outq[x] \in Conns \ {c}
      BY <1>d, <3>1 DEF HasClient
    <3>3. QED
      BY <1>0, <1>d, <2>1, <3>1, <3>2 DEF HasClient
  <2>2. QED
    BY <2>1, ServedKept
<1>1. ASSUME NEW g \in Groups, NEW s \in Sessions, NEW t \in Tasks, CreateSession(g, s, t)
      PROVE  Served'
  <2>1. /\ byId' \subseteq byId \cup {s} /\ UNCHANGED <<outq, conn>> /\ groupOf[s] = None
    BY <1>1 DEF CreateSession, DropSession
  <2>2. outq[s] = None
    BY <1>0, <2>1 DEF Streams
  <2>3. QED
    BY <1>0, <2>1, <2>2, ServedKept DEF HasClient
<1>2. ASSUME NEW c \in Conns, NEW s \in Sessions, NEW t \in Tasks, AttachSession(c, s, t)
      PROVE  Served'
  <2>1. /\ byId' = byId /\ outq' = [outq EXCEPT ![s] = c] /\ conn[c].pc = "idle"
        /\ conn' = [conn EXCEPT ![c] = [pc |-> "attaching", session |-> s, stream |-> Output(hist[s])]]
    BY <1>2 DEF AttachSession, tables
  <2>2. HasClient(s)'
    BY <1>0, <2>1 DEF HasClient, Serving
  <2>3. ASSUME NEW x \in byId \ {s}, outq'[x] # None PROVE HasClient(x)'
    <3>1. HasClient(x)
      BY <1>0, <2>1, <2>3 DEF Served
    <3>2. outq'[x] = outq[x] /\ outq[x] # c
      BY <1>0, <2>1, <3>1 DEF HasClient, Serving
    <3>3. conn'[outq[x]] = conn[outq[x]]
      BY <1>0, <2>1, <3>1, <3>2 DEF HasClient
    <3>4. QED
      BY <3>1, <3>2, <3>3 DEF HasClient
  <2>4. \A x \in byId' : outq'[x] # None => HasClient(x)'
    BY <1>0, <2>1, <2>2, <2>3
  <2>5. QED
    BY <2>4 DEF Served, HasClient, Serving
<1>3. ASSUME NEW g \in Groups, NEW t \in Tasks, CloseSessionByGroup(g, t)
      PROVE  Served'
  <2>1. UNCHANGED conn /\ byId' = byId /\ outq' = [outq EXCEPT ![byGroup[g]] = None]
    BY <1>3 DEF CloseSessionByGroup, CloseSession, tables
  <2>2. QED
    BY <1>0, <2>1, <1>a
<1>4. ASSUME NEW s \in Sessions, NEW t \in Tasks,
             ExpireDetachedSession(s, t) \/ HandleOutput(s, t) \/ HandleExit(s, t)
      PROVE  Served'
  BY <1>4, <1>c DEF ExpireDetachedSession, HandleOutput, HandleExit, tables
<1>5. ASSUME NEW c \in Conns, NEW t \in Tasks, Leave(c, t) PROVE Served'
  <2> DEFINE s == conn[c].session
  <2>1. byId' = byId /\ \A d \in Conns \ {c} : conn'[d] = conn[d]
    BY <1>0, <1>5 DEF Leave, tables
  <2>2. /\ \A x \in Sessions \ {s} : outq'[x] = outq[x]
        /\ s \in byId => outq'[s] = None
    BY <1>0, <1>5 DEF Leave, DetachSession
  <2> HIDE DEF s
  <2>3. QED
    BY <2>1, <2>2, <1>d DEF s
<1>6. ASSUME NEW c \in Conns, NEW t \in Tasks, CloseMessage(c, t) PROVE Served'
  <2> DEFINE s == conn[c].session
  <2>1. byId' = byId /\ \A d \in Conns \ {c} : conn'[d] = conn[d]
    BY <1>0, <1>6 DEF CloseMessage, tables
  <2>2. /\ \A x \in Sessions \ {s} : outq'[x] = outq[x]
        /\ s \in byId => outq'[s] = None
    BY <1>0, <1>6 DEF CloseMessage, CloseSession
  <2> HIDE DEF s
  <2>3. QED
    BY <2>1, <2>2, <1>d DEF s
<1>7. ASSUME NEW s \in Sessions, ProcessExits(s) \/ ReadEof(s) PROVE Served'
  BY <1>7, <1>c DEF ProcessExits, ReadEof, tables
<1>8. ASSUME NEW c \in Conns, AcceptSocket(c) \/ Disconnect(c) PROVE Served'
  <2>1. /\ UNCHANGED <<byId, outq>>
        /\ conn' = [conn EXCEPT ![c].pc = "open"] \/ conn' = [conn EXCEPT ![c].pc = "leaving"]
    BY <1>8 DEF AcceptSocket, Disconnect, tables
  <2>2. ASSUME NEW d \in Conns
        PROVE  /\ conn'[d].session = conn[d].session
               /\ conn[d].pc \in Serving => conn'[d].pc \in Serving
    <3>1. conn[d] \in ConnType
      BY <1>0
    <3>2. \/ conn'[d] = conn[d]
          \/ conn'[d] = [conn[d] EXCEPT !.pc = "open"]
          \/ conn'[d] = [conn[d] EXCEPT !.pc = "leaving"]
      BY <1>0, <2>1
    <3>3. QED
      BY <3>1, <3>2 DEF ConnType, Serving
  <2>3. QED
    BY <2>1, <2>2, <1>b DEF HasClient
<1>9. CASE Restart
  <2>1. \A s \in Sessions : outq'[s] = None
    BY <1>9 DEF Restart
  <2>2. byId' \subseteq Sessions
    BY NextStep DEF IInv, TypeOK, TypeTables
  <2>3. QED
    BY <2>1, <2>2 DEF Served
<1>10. ASSUME NEW t \in Tasks, JobStep(t) PROVE Served'
  <2> DEFINE j == task[t]
             s == j.session
  <2>1. j \in JobType /\ j # None /\ s \in Sessions /\ j.conn \in Conns \cup {None}
    BY <1>10, JobStepJobs DEF JobType
  <2>2. CASE RunContainer(t) \/ ExecStarts(t) \/ KillWaited(t) \/ ReadersGone(t) \/ WriteTemp(t)
    BY <2>2, <1>c DEF RunContainer, ExecStarts, KillWaited, ReadersGone, WriteTemp, tables
  <2>3. CASE RunContainerFails(t) \/ ExecFails(t)
    <3> DEFINE cleanup == j.kind = "attach" /\ s \in byId
    <3>1. StartRaises(t) /\ byId' = byId
      BY <2>3 DEF RunContainerFails, ExecFails, StartRaises, tables
    <3>2. CASE cleanup
      <4>1. UNCHANGED conn /\ outq' = [outq EXCEPT ![s] = None]
        BY <3>1, <3>2 DEF StartRaises
      <4>2. QED
        BY <1>0, <3>1, <4>1, <1>a
    <3>3. CASE ~cleanup /\ j.kind = "attach" /\ j.conn # None
      <4>1. /\ UNCHANGED outq /\ conn' = [conn EXCEPT ![j.conn] = Gone] /\ s \notin byId
        BY <3>1, <3>3 DEF StartRaises
      <4>2. conn[j.conn].session = s /\ j.conn \in Conns
        BY <2>1, <3>3, Reporting DEF Reports
      <4>3. \A d \in Conns \ {j.conn} : conn'[d] = conn[d]
        BY <1>0, <4>1
      <4>4. QED
        BY <3>1, <4>1, <4>2, <4>3, <1>d
    <3>4. CASE ~cleanup /\ (j.kind # "attach" \/ j.conn = None)
      <4>1. /\ UNCHANGED outq
            /\ conn' = IF j.kind = "attach" THEN [conn EXCEPT ![j.conn] = Gone] ELSE conn
        BY <3>1, <3>4 DEF StartRaises
      <4>2. \A d \in Conns : conn'[d] = conn[d]
        BY <1>0, <3>4, <4>1
      <4>3. QED
        BY <3>1, <4>1, <4>2, <1>b DEF HasClient
    <3>5. QED
      BY <3>2, <3>3, <3>4
  <2>4. CASE ReplaceLatest(t) \/ PersistFails(t)
    <3>1. Resume(t) /\ UNCHANGED <<byId, outq>>
      BY <2>4 DEF ReplaceLatest, PersistFails, tables
    <3>2. CASE j.kind \in {"output", "exit"}
      <4>1. \/ conn' = conn
            \/ \E n : conn' = [conn EXCEPT ![j.conn].stream = n]
        BY <3>1, <3>2 DEF Resume, EventQueue
      <4>2. ASSUME NEW n, conn' = [conn EXCEPT ![j.conn].stream = n], NEW d \in Conns
            PROVE  conn'[d].session = conn[d].session /\ conn'[d].pc = conn[d].pc
        <5>1. conn[d] \in ConnType
          BY <1>0
        <5>2. conn'[d] = conn[d] \/ conn'[d] = [conn[d] EXCEPT !.stream = n]
          BY <1>0, <4>2
        <5>3. QED
          BY <5>1, <5>2 DEF ConnType
      <4>3. \A d \in Conns : conn'[d].session = conn[d].session /\ conn'[d].pc = conn[d].pc
        BY <4>1, <4>2
      <4>4. QED
        BY <3>1, <4>3, <1>b DEF HasClient
    <3>3. CASE j.kind = "attach"
      <4>1. conn' = [conn EXCEPT ![j.conn].pc = "accepting"]
        BY <3>1, <3>3 DEF Resume
      <4>2. \A d \in Conns : /\ conn'[d].session = conn[d].session
                             /\ conn[d].pc \in Serving => conn'[d].pc \in Serving
        BY <1>0, <4>1 DEF ConnType, Serving
      <4>3. QED
        BY <3>1, <4>2, <1>b DEF HasClient
    <3>4. CASE j.kind \in {"failed", "close"} /\ j.conn # None
      <4>1. conn' = [conn EXCEPT ![j.conn] = Gone]
        BY <3>1, <3>4 DEF Resume
      <4>2. conn[j.conn].session = s /\ outq[s] # j.conn
        BY <2>1, <3>4, Reporting DEF Reports
      <4>3. ASSUME NEW x \in byId, HasClient(x)
            PROVE  conn'[outq[x]].session = conn[outq[x]].session /\ conn'[outq[x]].pc \in Serving
        <5>1. outq[x] # j.conn /\ outq[x] \in Conns
          BY <4>2, <4>3 DEF HasClient
        <5>2. QED
          BY <1>0, <4>1, <4>3, <5>1 DEF HasClient
      <4>4. QED
        BY <3>1, <4>3, <1>b
    <3>5. CASE j.kind \notin {"output", "exit", "attach", "failed", "close"}
               \/ (j.kind \in {"failed", "close"} /\ j.conn = None)
      <4>1. conn' = conn
        BY <3>1, <3>5 DEF Resume
      <4>2. QED
        BY <3>1, <4>1, <1>c
    <3>6. QED
      BY <3>2, <3>3, <3>4, <3>5
  <2>5. QED
    BY <1>10, <2>2, <2>3, <2>4 DEF JobStep
<1>11. ASSUME NEW c \in Conns PROVE ~HandshakeFails(c)
  BY DEF HandshakeFails
<1>12. QED
  BY <1>1, <1>2, <1>3, <1>4, <1>5, <1>6, <1>7, <1>8, <1>9, <1>10, <1>11 DEF Next

\* Everything that the streams of the clients depend on, and the streams.
StreamsInv == ReadersInv /\ ReplaysInv /\ Clients /\ Streams

\* What any client is sent is replay and live output without a hole or a repetition,
\* and the client that has the queue of a session, until its socket has gone, has
\* been sent all but the chunk that is being handled: attach_session copies the
\* history and takes the queue over in one critical section, and an event handler
\* puts its chunk on the queue it found in its own.
THEOREM StreamsInvariant == Spec => []StreamsInv
<1>1. Init => Clients /\ Streams
  <2>1. ChunksFollow(<<>>)
    BY EmptyUpTo, 0 \in Nat DEF UpTo
  <2>2. ASSUME Init PROVE \A c \in Conns : conn[c].stream = <<>>
    BY <2>2 DEF Init, NoConn
  <2>3. Init => Clients
    BY DEF Init, Clients, Reports
  <2>4. Init => Streams
    BY <2>1, <2>2, TerminalAssumption DEF Init, Streams, Outputs
  <2>5. QED
    BY <2>3, <2>4
<1>2. StreamsInv /\ ReadersInv' /\ ReplaysInv' /\ [Next]_vars => StreamsInv'
  <2> SUFFICES ASSUME StreamsInv, ReadersInv', ReplaysInv', [Next]_vars PROVE StreamsInv'
    OBVIOUS
  <2>1. CASE Next
    <3>1. IInv /\ TablesAgree /\ StartedBridges /\ Readers
      BY DEF StreamsInv, ReadersInv, StartsInv, TablesInv
    <3>2. Clients' /\ Streams'
      BY <2>1, <3>1, ClientsStep, StreamsStep DEF StreamsInv
    <3>3. QED
      BY <3>2 DEF StreamsInv
  <2>2. CASE UNCHANGED vars
    <3>1. UNCHANGED <<conn, outq, groupOf, task, seen, bridge>>
      BY <2>2 DEF vars, tables, shell
    <3>2. Clients'
      BY <3>1 DEF StreamsInv, Clients, Reports
    <3>3. Streams'
      BY <3>1 DEF StreamsInv, Streams, Outputs, Of, Awaits, Live, UpTo, LastChunk, Reaches,
                  ChunksFollow
    <3>4. QED
      BY <3>2, <3>3 DEF StreamsInv
  <2>3. QED
    BY <2>1, <2>2
<1>3. Init /\ ReadersInv /\ ReplaysInv => StreamsInv
  BY <1>1 DEF StreamsInv
<1>4. QED
  BY <1>2, <1>3, ReadersInvariant, ReplaysInvariant, PTL DEF Spec

\* A client that serves a session has been sent every chunk but the one being handled.
LEMMA ServedExactly ==
  ASSUME StreamsInv, Served
  PROVE  ReplayExact
<1>1. IInv /\ Readers /\ Streams
  BY DEF StreamsInv, ReadersInv, StartsInv, TablesInv
<1>2. byId \subseteq Sessions /\ None \notin Conns
  BY <1>1, TerminalAssumption DEF IInv, TypeOK, TypeTables
<1>3. ASSUME NEW s \in byId, NEW c \in Conns, outq[s] = c, bridge[s].handle,
             MaxHistory > 0, seen[s] > 0
      PROVE  \/ \E i \in 1..Len(conn[c].stream) : conn[c].stream[i] = seen[s]
             \/ \E t \in Tasks : /\ Working(t) /\ task[t].kind = "output" /\ task[t].conn = c
                                 /\ task[t].item = seen[s]
  <2>1. s \in Sessions /\ HasClient(s)
    BY <1>2, <1>3 DEF Served
  <2>2. conn[c] # Gone /\ conn[c].session = s
    BY <1>3, <2>1, GoneFields DEF HasClient, Serving
  <2>3. \/ Awaits(c)
        \/ Reaches(conn[c].stream, seen[s])
    BY <1>1, <1>3, <2>1, <2>2 DEF Streams, Live
  <2>4. ASSUME Awaits(c)
        PROVE  \E t \in Tasks : /\ Working(t) /\ task[t].kind = "output" /\ task[t].conn = c
                                /\ task[t].item = seen[s]
    <3>1. PICK t \in Tasks : Outputs(task[t]) /\ task[t].conn = c
      BY <2>4 DEF Awaits
    <3>2. Of(c, task[t].session)
      BY <1>1, <1>2, <3>1 DEF Streams
    <3>3. task[t].session = s
      BY <2>2, <3>2 DEF Of
    <3>4. task[t].item = seen[s]
      BY <1>1, <3>1, <3>3 DEF Readers
    <3>5. QED
      BY <3>1, <3>4 DEF Outputs, Working
  <2>5. QED
    BY <1>3, <2>3, <2>4 DEF Reaches
<1>4. \A c \in Conns : ChunksFollow(conn[c].stream)
  BY <1>1 DEF Streams
<1>5. QED
  BY <1>3, <1>4 DEF ReplayExact

\* If no client is gone before its receive loop starts, what is sent to clients is
\* exact: the client of a running bridge misses nothing but the chunk that is being
\* handled, whoever attached, left or closed in the meantime. (A client that goes
\* in the handshake leaves its queue behind, and nobody reads that.)
THEOREM ReplaysExactly == ASSUME ~HandshakeFailures PROVE Spec => []ReplayExact
<1>1. Init => Served
  BY DEF Init, Served
<1>2. StreamsInv /\ Served /\ [Next]_vars => Served'
  <2> SUFFICES ASSUME StreamsInv, Served, [Next]_vars PROVE Served'
    OBVIOUS
  <2>1. CASE Next
    BY <2>1, ServedStep DEF StreamsInv, ReadersInv, StartsInv, TablesInv
  <2>2. CASE UNCHANGED vars
    BY <2>2 DEF vars, tables, Served, HasClient
  <2>3. QED
    BY <2>1, <2>2
<1>3. StreamsInv /\ Served => ReplayExact
  BY ServedExactly
<1>4. QED
  BY <1>1, <1>2, <1>3, StreamsInvariant, PTL DEF Spec

=============================================================================
