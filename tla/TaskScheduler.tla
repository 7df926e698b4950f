---------------------------- MODULE TaskScheduler ----------------------------
(***************************************************************************)
(* Scheduled tasks (services/scheduler.py, task_service.py,                *)
(* task_log_service.py and app/routes/tasks.py). The scheduler is a table  *)
(* of task objects and passes over it (run_pending) that await one due     *)
(* task after the other; a pass belongs to a polling loop (start) or to a  *)
(* caller. All code between two awaits is atomic. Time is counted in       *)
(* ticks; cron expressions are "every CronPeriod ticks".                   *)
(***************************************************************************)
EXTENDS FiniteSetsExt, Naturals, Sequences, SequencesExt, TLC

CONSTANTS
  Tasks,       \* ids of tasks, each created once
  Loops,       \* polling loops: calls of start
  Passers,     \* other callers of run_pending
  MaxTime,     \* bound: ticks
  MaxRuns,     \* bound: runs of a task that end
  CronPeriod,  \* distance of two times of a cron expression
  Schedules    \* kinds, intervals and first times (or Never) that tasks are created with

\* The history of a deleted task marks it "deleted": no pass has that name.
ASSUME SchedulerAssumption ==
  /\ MaxTime \in Nat /\ CronPeriod \in Nat \ {0}
  /\ "deleted" \notin Loops \cup Passers
  /\ Schedules \subseteq {"interval", "cron", "once"} \X Nat \X Nat

VARIABLES
  clock,
  tasks,       \* the task objects, in the table or not
  table,       \* ids in _tasks
  runningIds,  \* _running_task_ids
  pass,        \* passes of loops and callers: what is due and left, and how it goes
  polling,     \* the flag running
  logs,        \* task logs
  runs,        \* history: successful runs of a task: the time each was due
  gone,        \* history: passes under way when a task was deleted
  overlapped   \* history: two passes were under way at once

tsVars == <<clock, tasks, table, runningIds, pass, polling, logs, runs, gone, overlapped>>
tsHistory == <<runs, gone, overlapped>>

Runners == Loops \cup Passers
Never == MaxTime + 100   \* next_run is None
NoTask == [kind |-> "none"]
NoPass == [at |-> "off", due |-> <<>>, runAt |-> 0]
UnderWay(p) == pass[p].at = "wait"

SchedulerInit ==
  /\ clock = 0
  /\ tasks = [t \in Tasks |-> NoTask]
  /\ table = {} /\ runningIds = {}
  /\ pass = [p \in Runners |-> NoPass]
  /\ polling = FALSE
  /\ logs = [t \in Tasks |-> <<>>]
  /\ runs = [t \in Tasks |-> <<>>]
  /\ gone = [t \in Tasks |-> {}]
  /\ overlapped = FALSE

Tick ==
  /\ clock < MaxTime
  /\ clock' = clock + 1
  /\ UNCHANGED <<tasks, table, runningIds, pass, polling, logs, tsHistory>>

-----------------------------------------------------------------------------
\* croniter(expression, anchor).get_next: the first time of the expression after anchor
CronAfter(anchor) == CronPeriod * (anchor \div CronPeriod + 1)

\* _initialize_next_run, when no first run was asked for
FirstRun(kind, every) == IF kind = "interval" THEN clock + every ELSE CronAfter(clock)

\* create_task: an interval is positive, a one-off task has the time to run at and no
\* value; otherwise 400.
Valid(kind, every, first) ==
  /\ kind = "interval" => every > 0
  /\ kind = "once" => every = 0 /\ first # Never

CreateTask(t, kind, every, first) ==
  /\ tasks[t] = NoTask /\ Valid(kind, every, first)
  /\ LET next == IF first # Never THEN first ELSE FirstRun(kind, every)
     IN tasks' = [tasks EXCEPT ![t] =
          [kind |-> kind, every |-> every, next |-> next, status |-> "active", first |-> next]]
  /\ table' = table \cup {t}
  /\ UNCHANGED <<clock, runningIds, pass, polling, logs, tsHistory>>

\* Seeded fault: a deleted task stays in the table.
TableWithout(t) == table

\* remove_task
Removed(t) == table \ {t}

\* delete_task: 404 when it is not in the table
DeleteTask(t) ==
  /\ t \in table
  /\ table' = Removed(t)
  /\ gone' = [gone EXCEPT ![t] = {p \in Runners : UnderWay(p)} \cup {"deleted"}]
  /\ UNCHANGED <<clock, tasks, runningIds, pass, polling, logs, runs, overlapped>>

-----------------------------------------------------------------------------
IsDue(t) == tasks[t].status = "active" /\ tasks[t].next <= clock

\* The due tasks that are not running, by their time and id
Earlier(s, t) == tasks[s].next <= tasks[t].next
DueTasks == SetToSeqs({t \in table : IsDue(t) /\ t \notin runningIds})
InOrder(q) == \A i, j \in DOMAIN q : i < j => Earlier(q[i], q[j])

\* Seeded fault: a task on the list runs, whoever is running it.
FreeToRunAlways(t, running) == TRUE

\* _execute_task looks again whether another pass is running the task.
FreeToRun(t, running) == t \notin running

\* A pass goes on with the list q: the tasks that another pass is running are skipped, and
\* the first that is not is awaited. At the end of the list a loop sleeps while the flag
\* is set; otherwise it returns.
GoesOn(p, q, running, flag) ==
  LET S == {i \in DOMAIN q : FreeToRun(q[i], running)}
  IN IF S # {}
     THEN LET rest == SubSeq(q, Min(S), Len(q))
          IN /\ pass' = [pass EXCEPT ![p] = [at |-> "wait", due |-> rest, runAt |-> clock]]
             /\ runningIds' = running \cup {Head(rest)}
     ELSE /\ pass' = [pass EXCEPT ![p] = IF p \in Loops /\ flag THEN [NoPass EXCEPT !.at = "sleep"]
                                         ELSE NoPass]
          /\ runningIds' = running

\* run_pending: the list is made once, and its first task awaited. What is due at the same
\* time is in the order of the ids, which are random.
Begins(p, flag) ==
  /\ \E q \in {q \in DueTasks : InOrder(q)} : GoesOn(p, q, runningIds, flag)
  /\ overlapped' = (overlapped \/ \E q \in Runners \ {p} : UnderWay(q))
  /\ gone' = [t \in Tasks |-> gone[t] \ {p}]

RunPending(p) ==
  /\ p \in Passers /\ pass[p].at = "off"
  /\ Begins(p, polling)
  /\ UNCHANGED <<clock, tasks, table, polling, logs, runs>>

\* start: does nothing while a loop is on
Start(p) ==
  /\ p \in Loops /\ pass[p].at = "off" /\ ~polling
  /\ polling' = TRUE
  /\ Begins(p, TRUE)
  /\ UNCHANGED <<clock, tasks, table, logs, runs>>

Stop ==
  /\ polling /\ polling' = FALSE
  /\ UNCHANGED <<clock, tasks, table, runningIds, pass, logs, tsHistory>>

\* The sleep of a loop ends: it goes on if the flag is set, by whomever.
Wake(p) ==
  /\ pass[p].at = "sleep"
  /\ IF polling THEN Begins(p, TRUE)
     ELSE pass' = [pass EXCEPT ![p] = NoPass] /\ UNCHANGED <<runningIds, overlapped, gone>>
  /\ UNCHANGED <<clock, tasks, table, polling, logs, runs>>

\* Seeded fault: the next run is counted from now.
NextRunFromNow(k) ==
  CASE k.kind = "interval" -> clock + k.every
    [] k.kind = "cron" -> CronAfter(clock)
    [] OTHER -> Never

\* _compute_next_run: an interval task skips the times that have passed, a cron task goes
\* to the one after the last.
NextRun(k) ==
  CASE k.kind = "interval" ->
         IF k.next > clock THEN k.next
         ELSE k.next + k.every * ((clock - k.next) \div k.every + 1)
    [] k.kind = "cron" -> CronAfter(k.next)
    [] OTHER -> Never

\* Seeded fault: a one-off task that has run stays active.
AfterSuccessActive(k) == [k EXCEPT !.next = IF k.kind = "once" THEN @ ELSE NextRun(k)]

\* _mark_task_after_success
AfterSuccess(k) ==
  [k EXCEPT !.next = NextRun(k), !.status = IF k.kind = "once" THEN "completed" ELSE @]

\* A task is no longer running, however its run ends.
Released(p) == runningIds \ {Head(pass[p].due)}

\* The run of a pass's task ends: success moves the task on, a failure (error or timeout)
\* leaves it due; each is logged with the time the run began.
TaskEnds(p, how) ==
  LET t == Head(pass[p].due) IN
  /\ pass[p].at = "wait" /\ Len(logs[t]) < MaxRuns
  /\ GoesOn(p, Tail(pass[p].due), Released(p), polling)
  /\ logs' = [logs EXCEPT ![t] = Append(@, [id |-> Len(@) + 1, runAt |-> pass[p].runAt, status |-> how])]
  /\ tasks' = [tasks EXCEPT ![t] = IF how = "success" THEN AfterSuccess(@) ELSE @]
  /\ runs' = IF how = "success" THEN [runs EXCEPT ![t] = Append(@, tasks[t].next)] ELSE runs
  /\ UNCHANGED <<clock, table, polling, gone, overlapped>>

\* A pass or the sleep of a loop is cancelled: its run is not logged, and a loop clears
\* the flag.
CancelPass(p) ==
  /\ pass[p].at # "off"
  /\ runningIds' = IF UnderWay(p) THEN Released(p) ELSE runningIds
  /\ pass' = [pass EXCEPT ![p] = NoPass]
  /\ polling' = (polling /\ p \notin Loops)
  /\ UNCHANGED <<clock, tasks, table, logs, tsHistory>>

\* list_logs: a row that was run later, or at the same time and logged later, comes first.
Newer(a, b) == a.runAt > b.runAt \/ (a.runAt = b.runAt /\ a.id > b.id)
NewestFirst(s) ==
  CHOOSE q \in SetToSeqs(ToSet(s)) : \A i, j \in DOMAIN q : i < j => Newer(q[i], q[j])

\* Seeded fault: the logs are cut before they are sorted.
LogAnswerCutFirst(t, limit) ==
  IF t \notin table THEN <<>>
  ELSE NewestFirst(SubSeq(logs[t], 1, Min({Len(logs[t]), limit})))

\* list_task_logs: the most recent first, as many as asked for but 1 to 200; a task that
\* is not in the table has no answer.
LogAnswer(t, limit) ==
  IF t \notin table THEN <<>>
  ELSE SubSeq(NewestFirst(logs[t]), 1, Min({Len(logs[t]), Min({Max({limit, 1}), 200})}))

SchedulerNext ==
  \/ Tick \/ Stop
  \/ \E t \in Tasks :
       \/ \E s \in Schedules : CreateTask(t, s[1], s[2], s[3])
       \/ DeleteTask(t)
  \/ \E p \in Runners :
       \/ RunPending(p) \/ Start(p) \/ Wake(p) \/ CancelPass(p)
       \/ \E how \in {"success", "failure"} : TaskEnds(p, how)

SchedulerSpec == SchedulerInit /\ [][SchedulerNext]_tsVars

-----------------------------------------------------------------------------
Awaiting(p, t) == pass[p].at = "wait" /\ Head(pass[p].due) = t

\* No task is run by two passes at a time, however loops and callers overlap, and a task
\* is marked as running exactly while a pass awaits it: one that was left marked by a
\* cancelled pass would never run again.
RunningExact ==
  /\ runningIds = {t \in Tasks : \E p \in Runners : Awaiting(p, t)}
  /\ \A t \in Tasks : Cardinality({p \in Runners : Awaiting(p, t)}) <= 1

\* Unless passes overlap, each time of a task has at most one successful run, in order: a
\* one-off task succeeds once.
OccurrenceOnce ==
  ~overlapped => \A t \in Tasks : \A i, j \in DOMAIN runs[t] : i < j => runs[t][i] < runs[t][j]

\* The times of a task do not drift, however late passes are and however long runs take: an
\* interval task keeps to the grid of its first run, and a cron task misses no time.
ScheduleKept ==
  \A t \in Tasks : tasks[t] # NoTask =>
    LET k == tasks[t] IN
    /\ k.kind = "interval" => (k.next - k.first) % k.every = 0
    /\ (k.kind = "cron" /\ runs[t] # <<>>) =>
         \A n \in k.first + 1 .. k.next - 1 :
           n % CronPeriod = 0 => \E i \in DOMAIN runs[t] : runs[t][i] = n

\* A deleted task is run only by a pass that was under way when it was deleted.
DeletedRunsOnlyStale ==
  \A t \in Tasks, p \in Runners : (gone[t] # {} /\ Awaiting(p, t)) => p \in gone[t]

\* The first log of an answer is that of the run that ended last.
LatestLogFirst ==
  \A t \in table : logs[t] # <<>> => LogAnswer(t, 1) = <<logs[t][Len(logs[t])]>>

\* Tasks run at their times, each time once, never twice at a time, not after they were
\* deleted, and the log of a task shows its last run first.
SchedulesSound ==
  RunningExact /\ OccurrenceOnce /\ ScheduleKept /\ DeletedRunsOnlyStale /\ LatestLogFirst

\* A one-off task has at most one successful run. It has two when passes overlap: the
\* second pass has it on its list from before the first one ran it.
OnceRunsOnce == \A t \in Tasks : (tasks[t] # NoTask /\ tasks[t].kind = "once") => Len(runs[t]) <= 1
=============================================================================
