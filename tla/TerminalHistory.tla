-------------------------- MODULE TerminalHistory --------------------------
(***************************************************************************)
(* The history of terminal sessions as clients read it: what               *)
(* TerminalSessionService keeps in memory for the current session of a     *)
(* workspace, the snapshots its threads write (latest.json, and one file   *)
(* per ended session), and the read models of app/routes/terminals.py that *)
(* merge the two.                                                          *)
(*                                                                         *)
(* How a session lives is the subject of TerminalSessions; here a status   *)
(* is "active" (created, attached, detached) or "ended" (closed, exited).  *)
(* A timestamp is the number of changes made so far: the clock is taken to *)
(* be strictly monotone. The thread that writes the snapshot of stamp t is *)
(* thread t. One request is followed until it has read what it needs; what *)
(* comes later no longer matters to it. Snapshots that were loaded and     *)
(* merged are a set, since their times order them: a page is a range of    *)
(* that order, and an answer the set of what it shows. The counts that go  *)
(* with a page are left out. Requests without the role or the access they  *)
(* need change nothing and have no action.                                 *)
(***************************************************************************)
EXTENDS Naturals, Sequences, FiniteSetsExt, FileSystem

CONSTANTS
  Folders,     \* folders of the web workspaces
  MaxStamp,    \* bound: changes of sessions
  MaxThreads,  \* bound: threads that write at the same time
  MaxFaults    \* bound: writes that the disk refuses

ASSUME HistoryAssumption == MaxStamp \in Nat \ {0} /\ MaxThreads \in Nat /\ MaxFaults \in Nat

VARIABLES
  hNow,        \* the clock
  hSession,    \* _sessions_by_group: the current session of a folder
  hMade,       \* sessions created in a folder so far; they are its sessions 1 .. hMade[f]
  hThread,     \* threads of _persist_history_snapshot
  hFile,       \* the node of a path: <<f, 0>> is latest.json, <<f, n>> the archive of n
  hTmp,        \* the node of its temporary file
  hNode,       \* what a node holds; a node is named by the thread and path it was made for
  hRead,       \* the request: its place, and for every folder what it has loaded
  hFaults      \* refusals so far

histVars == <<hNow, hSession, hMade, hThread, hFile, hTmp, hNode, hRead, hFaults>>
hDisk == <<hFile, hTmp, hNode>>

Stamps == 1 .. MaxStamp
Filters == {"any", "active", "ended"}
Pages == {<<0, 1>>, <<1, 1>>}      \* offset and limit
Paths == Folders \X (0 .. MaxStamp)
NoEntry == <<>>
NoSession == [n |-> 0, status |-> "none", hit |-> FALSE, fresh |-> FALSE]
NoThread == [at |-> "none"]
NoLoad == [at |-> "none", mem |-> <<>>, seen |-> <<>>, todo |-> {}, kept |-> {}, over |-> {}]
NoRead == [at |-> "idle", load |-> [f \in Folders |-> NoLoad], limit |-> 0, flt |-> "any"]

\* What an earlier life of the server may have left of a workspace, written at time 1:
\* nothing, an active session, or an ended one.
LeftIn(f) ==
  {<<>>} \cup {<<[folder |-> f, n |-> 1, status |-> st, hit |-> TRUE, at |-> 1]>> :
              st \in {"active", "ended"}}

\* _recover_active_sessions_from_persisted_snapshots
Recover(e) ==
  IF e = <<>> \/ e[1].status # "active" THEN NoSession
  ELSE [n |-> e[1].n, status |-> "active", hit |-> e[1].hit, fresh |-> FALSE]

\* The server starts. At most one workspace has a past.
HistoryInit ==
  \E f \in Folders : \E left \in LeftIn(f) :
    LET isLeft(p) == left # <<>> /\ p[1] = f /\ p[2] \in (IF left[1].status = "ended" THEN {0, 1} ELSE {0})
    IN /\ hNow = 1 /\ hFaults = 0
       /\ hSession = [g \in Folders |-> IF g = f THEN Recover(left) ELSE NoSession]
       /\ hMade = [g \in Folders |-> IF g = f /\ left # <<>> THEN 1 ELSE 0]
       /\ hThread = [t \in Stamps |->
            IF t = 1 /\ left # <<>>
            THEN [at |-> "done", path |-> <<f, 0>>, node |-> NoEntry, snap |-> left[1]]
            ELSE NoThread]
       /\ hFile = [p \in Paths |-> IF isLeft(p) THEN <<1, p[2]>> ELSE NoEntry]
       /\ hTmp = [p \in Paths |-> NoEntry]
       /\ hNode = [x \in Stamps \X (0 .. MaxStamp) |->
            IF x[1] = 1 /\ isLeft(<<f, x[2]>>) THEN Whole(left[1]) ELSE NoFile]
       /\ hRead = NoRead

-----------------------------------------------------------------------------
(***************************************************************************)
(* Sessions change, under the service's lock; the snapshot of the change   *)
(* is handed to a thread.                                                  *)
(***************************************************************************)
Reading == hRead.at = "loading" /\ \E f \in Folders : hRead.load[f].at \notin {"none", "done"}
Followed == hRead.at \in {"idle", "again", "overview", "current"} \/ Reading
Writing(t) == hThread[t].at \notin {"none", "done"}
MayChange == Followed /\ hNow < MaxStamp

\* _build_history_snapshot of session x of folder f at time now; hit: the output has an
\* occurrence of what a search looks for.
HistorySnapshot(f, x, now) ==
  [folder |-> f, n |-> x.n, status |-> x.status, hit |-> x.hit, at |-> now]

\* The session of f becomes x, and a thread is given the snapshot.
ChangeAndPersist(f, x) ==
  /\ MayChange /\ Cardinality({t \in Stamps : Writing(t)}) < MaxThreads
  /\ hNow' = hNow + 1
  /\ hSession' = [hSession EXCEPT ![f] = x]
  /\ hThread' = [hThread EXCEPT ![hNow + 1] =
       [at |-> "open", path |-> <<f, 0>>, node |-> NoEntry,
        snap |-> HistorySnapshot(f, x, hNow + 1)]]
  /\ UNCHANGED <<hMade, hDisk, hRead, hFaults>>

\* create_session up to the start of the bridge
NewSession(f) ==
  /\ MayChange /\ hSession[f].status # "active"
  /\ hNow' = hNow + 1
  /\ hMade' = [hMade EXCEPT ![f] = @ + 1]
  /\ hSession' = [hSession EXCEPT ![f] =
       [n |-> hMade[f] + 1, status |-> "active", hit |-> FALSE, fresh |-> TRUE]]
  /\ UNCHANGED <<hThread, hDisk, hRead, hFaults>>

\* create_session when the bridge has started: the snapshot of what the session is by now
SessionStarted(f) ==
  hSession[f].fresh /\ ChangeAndPersist(f, [hSession[f] EXCEPT !.fresh = FALSE])

\* attach_session and detach_session; neither asks whether the session has ended.
SessionUsed(f) ==
  hSession[f].n # 0 /\ ChangeAndPersist(f, [hSession[f] EXCEPT !.status = "active"])

\* The output of the shell, also the rest of it after the end.
SessionWrites(f) ==
  hSession[f].n # 0 /\ ~hSession[f].hit /\ ChangeAndPersist(f, [hSession[f] EXCEPT !.hit = TRUE])

\* close_session, the end of the reconnect window, the exit of the shell: one may follow
\* the other.
SessionEnds(f) ==
  hSession[f].n # 0 /\ ChangeAndPersist(f, [hSession[f] EXCEPT !.status = "ended"])

-----------------------------------------------------------------------------
(***************************************************************************)
(* _persist_history_snapshot, in a thread: latest.json, then the archive   *)
(* of an ended session. Threads of a folder share its temporary file, and  *)
(* write_text writes to the file it opened, renamed or not.                *)
(***************************************************************************)
OpenSnapshotTmp(t) ==
  /\ Followed /\ hThread[t].at = "open"
  /\ LET p == hThread[t].path
         x == IF hTmp[p] = NoEntry THEN <<t, p[2]>> ELSE hTmp[p]
     IN /\ hTmp' = [hTmp EXCEPT ![p] = x]
        /\ hNode' = [hNode EXCEPT ![x] = Empty]
        /\ hThread' = [hThread EXCEPT ![t].at = "write", ![t].node = x]
  /\ UNCHANGED <<hNow, hSession, hMade, hFile, hRead, hFaults>>

WriteSnapshotTmp(t) ==
  /\ Followed /\ hThread[t].at = "write"
  /\ \E c \in WrittenOver(hNode[hThread[t].node], hThread[t].snap) :
       hNode' = [hNode EXCEPT ![hThread[t].node] = c]
  /\ hThread' = [hThread EXCEPT ![t].at = "replace"]
  /\ UNCHANGED <<hNow, hSession, hMade, hFile, hTmp, hRead, hFaults>>

Returned(th) == [th EXCEPT !.at = "done", !.path = <<th.snap.folder, 0>>, !.node = NoEntry]

\* Where a thread goes on after latest.json
AfterReplace(th) ==
  IF th.path[2] = 0 /\ th.snap.status = "ended"
  THEN [th EXCEPT !.at = "open", !.path = <<th.snap.folder, th.snap.n>>, !.node = NoEntry]
  ELSE Returned(th)

\* The file that had the name is gone. Another thread may have renamed the temporary file
\* already: this one then fails, and its archive is not written.
ReplaceSnapshot(t) ==
  LET p == hThread[t].path
  IN /\ Followed /\ hThread[t].at = "replace"
     /\ \/ /\ hTmp[p] # NoEntry
           /\ hFile' = [hFile EXCEPT ![p] = hTmp[p]]
           /\ hTmp' = [hTmp EXCEPT ![p] = NoEntry]
           /\ hNode' = IF hFile[p] = NoEntry THEN hNode ELSE [hNode EXCEPT ![hFile[p]] = NoFile]
           /\ hThread' = [hThread EXCEPT ![t] = AfterReplace(@)]
        \/ /\ hTmp[p] = NoEntry
           /\ hThread' = [hThread EXCEPT ![t] = Returned(@)]
           /\ UNCHANGED hDisk
     /\ UNCHANGED <<hNow, hSession, hMade, hRead, hFaults>>

\* _persist_history_snapshot_best_effort: the disk refuses, and nobody is told.
PersistGivesUp(t) ==
  /\ Followed /\ hThread[t].at = "open" /\ hFaults < MaxFaults
  /\ hFaults' = hFaults + 1
  /\ hThread' = [hThread EXCEPT ![t] = Returned(@)]
  /\ UNCHANGED <<hNow, hSession, hMade, hDisk, hRead>>

-----------------------------------------------------------------------------
(***************************************************************************)
(* Loading from memory and from disk.                                      *)
(***************************************************************************)
FileAt(p) == IF hFile[p] = NoEntry THEN NoFile ELSE hNode[hFile[p]]

\* _load_persisted_history_snapshot_from_path: nothing for a file that is not there or
\* does not parse
Loaded(p) == IF IsWhole(FileAt(p)) THEN <<FileAt(p).data>> ELSE <<>>

InMemory(f) ==
  IF hSession[f].n = 0 THEN <<>> ELSE <<HistorySnapshot(f, hSession[f], hNow)>>

Listed(found) == {found[i] : i \in DOMAIN found}

\* The snapshots of session n of f that were ever built
Built(f, n) ==
  {hThread[t].snap : t \in {u \in Stamps : hThread[u].at # "none"
                              /\ hThread[u].snap.folder = f /\ hThread[u].snap.n = n}}

\* n ended and has not been active since.
Over(f, n) ==
  /\ ~(hSession[f].n = n /\ hSession[f].status = "active")
  /\ \E b \in Built(f, n) : b.status = "ended"
  /\ \A b, c \in Built(f, n) : b.status = "ended" /\ b.at < c.at => c.status = "ended"

\* n is over, its archive is on disk, and no thread of it writes any more.
Archived(f, n) ==
  /\ Over(f, n) /\ IsWhole(FileAt(<<f, n>>))
  /\ \A t \in Stamps : Writing(t) => hThread[t].snap.folder # f \/ hThread[t].snap.n # n

\* _list_merged_history_snapshots_by_group starts in the folders fs: the lock, and the
\* snapshot of the current session.
Locked(fs) ==
  [f \in Folders |->
     IF f \notin fs THEN NoLoad
     ELSE [at |-> "latest", mem |-> InMemory(f), seen |-> InMemory(f), todo |-> {},
           kept |-> {}, over |-> {n \in 1 .. hMade[f] : Archived(f, n)}]]

\* The load of one folder, or of several side by side (asyncio.gather)
StartLoading(fs) ==
  /\ \/ hRead.at = "idle"
     \/ hRead.at = "again" /\ \A f \in Folders : f \in fs <=> hRead.load[f].at # "none"
  /\ hRead' = [hRead EXCEPT !.at = "loading", !.load = Locked(fs)]
  /\ UNCHANGED <<hNow, hSession, hMade, hThread, hDisk, hFaults>>

\* Seeded fault: the first snapshot found of a session stays.
DedupeFirst(seen) ==
  {seen[i] : i \in {k \in DOMAIN seen : \A j \in DOMAIN seen : seen[j].n = seen[k].n => k <= j}}

\* _dedupe_timeline_snapshots: of every session the newest snapshot, memory before
\* latest.json before the archive
Dedupe(seen) ==
  {seen[i] : i \in {k \in DOMAIN seen : \A j \in DOMAIN seen :
     seen[j].n # seen[k].n \/ seen[j].at < seen[k].at \/ (seen[j].at = seen[k].at /\ k <= j)}}

\* What a finished load of a folder has come to
MergeLoaded(load) == [load EXCEPT !.at = "done", !.seen = <<>>, !.kept = Dedupe(load.seen)]

\* _load_history_timeline_from_persistence, in a thread: latest.json, ...
LoadLatest(f) ==
  LET more == [hRead.load[f] EXCEPT !.at = "list", !.seen = @ \o Loaded(<<f, 0>>)]
  IN /\ hRead.at = "loading" /\ hRead.load[f].at = "latest"
     /\ hRead' = [hRead EXCEPT !.load[f] = more]
     /\ UNCHANGED <<hNow, hSession, hMade, hThread, hDisk, hFaults>>

\* ... the names in the directory of archives, ...
ListArchive(f) ==
  LET names == {n \in 1 .. hMade[f] : hFile[<<f, n>>] # NoEntry}
  IN /\ hRead.at = "loading" /\ hRead.load[f].at = "list"
     /\ hRead' = [hRead EXCEPT !.load[f] =
          IF names = {} THEN MergeLoaded(@) ELSE [@ EXCEPT !.at = "files", !.todo = names]]
     /\ UNCHANGED <<hNow, hSession, hMade, hThread, hDisk, hFaults>>

\* ... and the files one by one. Session ids are random: their order says nothing.
LoadArchived(f, n) ==
  LET more == [hRead.load[f] EXCEPT !.todo = @ \ {n}, !.seen = @ \o Loaded(<<f, n>>)]
  IN /\ hRead.at = "loading" /\ n \in hRead.load[f].todo
     /\ hRead' = [hRead EXCEPT !.load[f] = IF more.todo = {} THEN MergeLoaded(more) ELSE more]
     /\ UNCHANGED <<hNow, hSession, hMade, hThread, hDisk, hFaults>>

-----------------------------------------------------------------------------
(***************************************************************************)
(* What is made of the loaded snapshots. The routes on one workspace all   *)
(* load first, and differ in what they answer with.                        *)
(***************************************************************************)

\* _filter_history_snapshots; the filter by status stands for all of them.
FilterHistory(items, flt) == {x \in items : flt \in {"any", x.status}}

\* list_history_snapshot_page_by_group: items[offset : offset + limit], the newest first
PageOf(items, page) ==
  {x \in items : Cardinality({y \in items : y.at > x.at}) \in page[1] .. page[1] + page[2] - 1}

\* list_history_snapshots_by_group: the snapshots of a filtered load of f
Found(f, flt) == FilterHistory(hRead.load[f].kept, flt)

LoadedOnly(f) ==
  /\ hRead.at = "loading" /\ hRead.load[f].at = "done"
  /\ \A g \in Folders \ {f} : hRead.load[g].at = "none"

\* The request is answered with items[f] for workspace f. whole: the statuses of which
\* the answer leaves no session out; about: sessions of all times ("history") or the last
\* of each workspace ("latest"); total: the number of matches the archive of a search
\* claims.
AnswerWith(about, whole, items, total) ==
  /\ hRead' = [at |-> "answered", about |-> about, whole |-> whole, items |-> items,
               total |-> total, load |-> [f \in Folders |-> [hRead.load[f] EXCEPT !.kept = {}]]]
  /\ UNCHANGED <<hNow, hSession, hMade, hThread, hDisk, hFaults>>

Statuses(flt) == IF flt = "any" THEN {"active", "ended"} ELSE {flt}
Only(f, items) == [g \in Folders |-> IF g = f THEN items ELSE {}]
ShowPage(f, items) == AnswerWith("history", {}, Only(f, items), 0)

\* TerminalSessionNotFoundError
NotFound == AnswerWith("nothing", {}, [f \in Folders |-> {}], 0)

\* list_history_timeline_by_group: summaries, page by page
TimelineOf(f, flt, page) == PageOf(Found(f, flt), page)

GetHistoryTimeline(f, flt, page) ==
  /\ LoadedOnly(f) /\ hRead.limit = 0
  /\ \/ Found(f, flt) # {} /\ ShowPage(f, TimelineOf(f, flt, page))
     \/ Found(f, flt) = {} /\ NotFound

\* One page of snapshots with their output
ExportHistory(f, flt, page) ==
  /\ LoadedOnly(f) /\ hRead.limit = 0
  /\ \/ Found(f, flt) # {} /\ ShowPage(f, PageOf(Found(f, flt), page))
     \/ Found(f, flt) = {} /\ NotFound

\* All of them
ArchiveHistory(f, flt) ==
  /\ LoadedOnly(f) /\ hRead.limit = 0
  /\ \/ Found(f, flt) # {} /\ AnswerWith("history", Statuses(flt), Only(f, Found(f, flt)), 0)
     \/ Found(f, flt) = {} /\ NotFound

\* get_history_snapshot_by_group
SnapshotOf(f, n) == {x \in hRead.load[f].kept : x.n = n}

\* Shown or downloaded
GetHistoryDetail(f, n) ==
  /\ LoadedOnly(f) /\ hRead.limit = 0
  /\ \/ SnapshotOf(f, n) # {} /\ ShowPage(f, SnapshotOf(f, n))
     \/ SnapshotOf(f, n) = {} /\ NotFound

\* search_history_by_group (the order of matches is the subject of HistorySearch)
Matches(f, flt) == {x \in Found(f, flt) : x.hit}

\* Shown or exported. A workspace with snapshots but no match is answered with an empty
\* page.
SearchHistory(f, flt, page) ==
  /\ LoadedOnly(f) /\ hRead.limit = 0
  /\ \/ Found(f, flt) # {} /\ ShowPage(f, PageOf(Matches(f, flt), page))
     \/ Found(f, flt) = {} /\ NotFound

\* archive_terminal_history_search asks for one match first; if there are more it searches
\* again and asks for as many as there were.
ArchiveSearchAgain(f, flt) ==
  /\ LoadedOnly(f) /\ hRead.limit = 0
  /\ Cardinality(Matches(f, flt)) > 1
  /\ hRead' = [hRead EXCEPT !.at = "again", !.limit = Cardinality(Matches(f, flt)), !.flt = flt]
  /\ UNCHANGED <<hNow, hSession, hMade, hThread, hDisk, hFaults>>

ArchiveHistorySearch(f, flt) ==
  LET hits == Matches(f, flt)
      limit == IF hRead.limit = 0 THEN 1 ELSE hRead.limit
  IN /\ LoadedOnly(f)
     /\ \/ hRead.limit = 0 /\ Cardinality(hits) <= 1
        \/ hRead.limit > 0 /\ flt = hRead.flt
     /\ \/ /\ Found(f, flt) # {}
           /\ AnswerWith("history", {}, Only(f, PageOf(hits, <<0, limit>>)), Cardinality(hits))
        \/ Found(f, flt) = {} /\ NotFound

\* list_history_snapshot_archives_by_groups, of the workspaces that were loaded
ArchivesByGroups(flt) == [f \in Folders |-> Found(f, flt)]

\* Workspaces with nothing to show are left out.
ExportHistoryArchive(flt) ==
  LET items == ArchivesByGroups(flt)
  IN /\ hRead.at = "loading" /\ hRead.limit = 0
     /\ \A f \in Folders : hRead.load[f].at \in {"none", "done"}
     /\ \/ (\E f \in Folders : items[f] # {}) /\ AnswerWith("history", Statuses(flt), items, 0)
        \/ (\A f \in Folders : items[f] = {}) /\ NotFound

-----------------------------------------------------------------------------
(***************************************************************************)
(* The latest snapshot of every workspace. These lists are made without    *)
(* the lock and without an await: the event loop waits, the threads do     *)
(* not; they write one file per workspace that is read here, so that it is *)
(* one step.                                                               *)
(***************************************************************************)

\* _list_persisted_history_snapshots
Persisted(f) == Loaded(<<f, 0>>)

\* Seeded fault: what is on disk goes before what is in memory.
LatestHistoryDiskFirst(f) == Listed(IF Persisted(f) # <<>> THEN Persisted(f) ELSE InMemory(f))

\* list_history_summaries and list_latest_history_snapshots
LatestHistory(f) == Listed(IF InMemory(f) # <<>> THEN InMemory(f) ELSE Persisted(f))

\* The snapshots of the current sessions (list_sessions)
ListSessions == [f \in Folders |-> [NoLoad EXCEPT !.at = "done", !.mem = InMemory(f)]]

\* list_terminal_overview lists sessions and histories; then it awaits the database.
ListTerminalOverview ==
  /\ hRead.at = "idle"
  /\ hRead' = [at |-> "answered", load |-> ListSessions, about |-> "latest", whole |-> {},
               items |-> [f \in Folders |-> LatestHistory(f)], total |-> 0]
  /\ UNCHANGED <<hNow, hSession, hMade, hThread, hDisk, hFaults>>

\* export_terminal_latest_histories makes the overview, ...
StartLatestExport ==
  /\ hRead.at = "idle"
  /\ hRead' = [hRead EXCEPT !.at = "overview", !.load = ListSessions]
  /\ UNCHANGED <<hNow, hSession, hMade, hThread, hDisk, hFaults>>

\* ... and then lists the snapshots.
ExportLatestHistories ==
  /\ hRead.at = "overview"
  /\ LET items == [f \in Folders |-> LatestHistory(f)]
     IN \/ (\E f \in Folders : items[f] # {}) /\ AnswerWith("latest", {}, items, 0)
        \/ (\A f \in Folders : items[f] = {}) /\ NotFound

\* get_history_by_group: the current session, ...
GetCurrentHistory(f) ==
  /\ hRead.at = "idle" /\ InMemory(f) # <<>>
  /\ hRead' = [at |-> "answered", load |-> [g \in Folders |-> NoLoad], about |-> "latest",
               whole |-> {}, items |-> Only(f, Listed(InMemory(f))), total |-> 0]
  /\ UNCHANGED <<hNow, hSession, hMade, hThread, hDisk, hFaults>>

\* ... or, if there is none, ...
NoCurrentHistory(f) ==
  /\ hRead.at = "idle" /\ InMemory(f) = <<>>
  /\ hRead' = [hRead EXCEPT !.at = "current", !.load[f].at = "latest"]
  /\ UNCHANGED <<hNow, hSession, hMade, hThread, hDisk, hFaults>>

\* ... what a thread then finds on disk
GetPersistedHistory(f) ==
  /\ hRead.at = "current" /\ hRead.load[f].at = "latest"
  /\ \/ Loaded(<<f, 0>>) # <<>> /\ AnswerWith("latest", {}, Only(f, Listed(Loaded(<<f, 0>>))), 0)
     \/ Loaded(<<f, 0>>) = <<>> /\ NotFound

HistoryNext ==
  \/ \E f \in Folders :
       \/ NewSession(f) \/ SessionStarted(f) \/ SessionUsed(f) \/ SessionWrites(f) \/ SessionEnds(f)
       \/ LoadLatest(f) \/ ListArchive(f)
       \/ \E n \in Stamps : LoadArchived(f, n) \/ (n <= hMade[f] /\ GetHistoryDetail(f, n))
       \/ \E flt \in Filters :
            \/ \E page \in Pages : GetHistoryTimeline(f, flt, page) \/ ExportHistory(f, flt, page)
                                   \/ SearchHistory(f, flt, page)
            \/ ArchiveHistory(f, flt) \/ ArchiveSearchAgain(f, flt) \/ ArchiveHistorySearch(f, flt)
       \/ GetCurrentHistory(f) \/ NoCurrentHistory(f) \/ GetPersistedHistory(f)
  \/ \E t \in Stamps :
       OpenSnapshotTmp(t) \/ WriteSnapshotTmp(t) \/ ReplaceSnapshot(t) \/ PersistGivesUp(t)
  \/ \E fs \in SUBSET Folders \ {{}} : StartLoading(fs)
  \/ \E flt \in Filters : ExportHistoryArchive(flt)
  \/ ListTerminalOverview \/ StartLatestExport \/ ExportLatestHistories

-----------------------------------------------------------------------------
Shown(f) == hRead.items[f]

\* An answer that leaves nothing out shows the session that was current when the request
\* looked into memory, as it was then or later; an answer about the latest sessions shows
\* that one or one created after it. No snapshot on disk, however late a thread has
\* written it, hides or overrides it.
AnswerNotStale ==
  hRead.at = "answered" =>
    \A f \in Folders : \A i \in DOMAIN hRead.load[f].mem :
      LET m == hRead.load[f].mem[i]
          asNew == \E x \in Shown(f) : x.n = m.n /\ x.at >= m.at
      IN /\ hRead.whole = {"active", "ended"} => asNew
         /\ hRead.about = "latest" => asNew \/ \E x \in Shown(f) : x.n > m.n

\* A session that ended, was not used again and had its archive written before the request
\* is never shown as active, whatever latest.json or a filter brings up, and no full
\* answer misses it.
EndedStaysEnded ==
  hRead.at = "answered" /\ hRead.about = "history" =>
    \A f \in Folders : \A n \in hRead.load[f].over :
      Over(f, n) =>
        /\ \A x \in Shown(f) : x.n = n => x.status = "ended"
        /\ "ended" \in hRead.whole => \E x \in Shown(f) : x.n = n

\* Stated but not guaranteed by the code: the archive of a search is "the full filtered
\* terminal-history search result set" (routes/terminals.py:982). How many matches it has
\* is counted by a first search, the matches are those of a second one.
SearchArchiveFull ==
  hRead.at = "answered" /\ hRead.total > 0 => \E f \in Folders : Cardinality(hRead.items[f]) = hRead.total
=============================================================================
