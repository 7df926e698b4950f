----------------------------- MODULE MemoryStore -----------------------------
(***************************************************************************)
(* services/memory.py: the global memory of one user, a file and a copy of *)
(* it in _user_memory_cache; and one memory file of a group, without a     *)
(* copy. The cache is read and set on the event loop, the files are read   *)
(* and written by worker threads, and other requests run in between.       *)
(***************************************************************************)
EXTENDS FileSystem, Naturals, Sequences, FiniteSetsExt

CONSTANT Texts

VARIABLES
  memFile,   \* AGENTS.md of the user
  memCache,  \* _user_memory_cache of the user: a text, or NoText
  grpFile,   \* a markdown file of the group: a sequence of texts
  memReq,    \* the requests
  memRaced,  \* history: a change of AGENTS.md overlapped another request that used the file
  grpLog,    \* history: the changes of the group's file that took effect, in order
  grpRaced   \* history: a replacement of the group's file overlapped another change

memVars == <<memFile, memCache, grpFile, memReq, memRaced, grpLog, grpRaced>>
userVars == <<memFile, memCache, memRaced>>
groupVars == <<grpFile, grpLog, grpRaced>>

NoText == "no text"
TextOf(f) == IF IsWhole(f) THEN f.data ELSE IF f = Torn THEN "torn" ELSE ""

MemoryInit ==
  /\ memFile \in {NoFile, Whole("old")}
  /\ memCache = NoText
  /\ grpFile = NoFile
  /\ memReq = [r \in Requests |-> NoRequest]
  /\ memRaced = FALSE /\ grpLog = <<>> /\ grpRaced = FALSE

\* _map_memory_error
Finishes(r, status) == memReq' = [memReq EXCEPT ![r] = Done(@, status)]
Steps(r, at) == memReq' = [memReq EXCEPT ![r].at = at]
Under(op) == \E q \in Requests : Open(memReq, q) /\ memReq[q].op = op
Starts(r, op, at, text) ==
  memReq' = [memReq EXCEPT ![r] = [op |-> op, at |-> at, answer |-> "none", text |-> text]]

-----------------------------------------------------------------------------
\* get_user_memory up to its first await: the copy answers, a missing file is an empty
\* text from now on.
GetUserMemory(r) ==
  /\ memReq[r].at = "new"
  /\ IF memCache # NoText \/ memFile = NoFile
     THEN /\ memReq' = [memReq EXCEPT ![r] = [Done(@, "200") EXCEPT !.op = "get"]]
          /\ memCache' = IF memCache = NoText THEN "" ELSE memCache
          /\ UNCHANGED memRaced
     ELSE /\ Starts(r, "get", "read", NoText)
          /\ memRaced' = (memRaced \/ Under("put"))
          /\ UNCHANGED memCache
  /\ UNCHANGED <<memFile, groupVars>>

ReadUserMemory(r) ==
  /\ memReq[r].op = "get" /\ memReq[r].at = "read"
  /\ memReq' = [memReq EXCEPT ![r].at = "cache", ![r].text = TextOf(memFile)]
  /\ UNCHANGED <<userVars, groupVars>>

\* update_user_memory: the directory, the file, then the copy.
UpdateUserMemory(r, text) ==
  /\ memReq[r].at = "new"
  /\ Starts(r, "put", "open", text)
  /\ memRaced' = (memRaced \/ Under("put") \/ Under("get"))
  /\ UNCHANGED <<memFile, memCache, groupVars>>

OpenUserMemory(r) ==
  /\ memReq[r].op = "put" /\ memReq[r].at = "open"
  /\ memFile' = Empty
  /\ Steps(r, "write")
  /\ UNCHANGED <<memCache, memRaced, groupVars>>

WriteUserMemory(r) ==
  /\ memReq[r].op = "put" /\ memReq[r].at = "write"
  /\ memFile' \in WrittenOver(memFile, memReq[r].text)
  /\ Steps(r, "cache")
  /\ UNCHANGED <<memCache, memRaced, groupVars>>

\* Seeded fault: only a reader sets the copy.
CachedByReader(r) == IF memReq[r].op = "get" THEN memReq[r].text ELSE memCache

Cached(r) == memReq[r].text

\* Back on the event loop: the copy is what this request has read or written.
SetCache(r) ==
  /\ memReq[r].at = "cache"
  /\ memCache' = Cached(r)
  /\ Finishes(r, "200")
  /\ UNCHANGED <<memFile, memRaced, groupVars>>

-----------------------------------------------------------------------------
\* Reading the group's memory: list, one file, search. Each file is read once; a missing
\* one is empty, and nothing fails.
ReadGroupMemory(r, op) ==
  /\ memReq[r].at = "new"
  /\ memReq' = [memReq EXCEPT ![r] = [Done(@, "200") EXCEPT !.op = op]]
  /\ UNCHANGED <<userVars, groupVars>>

\* A path that leaves the directory or is no markdown file, or a text above the limit.
RefusedGroupMemory(r) ==
  /\ memReq[r].at = "new"
  /\ memReq' = [memReq EXCEPT ![r] = [Done(@, "400") EXCEPT !.op = "group put"]]
  /\ UNCHANGED <<userVars, groupVars>>

UpdateGroupMemory(r, text) ==
  /\ memReq[r].at = "new"
  /\ Starts(r, "group put", "open", text)
  /\ grpRaced' = (grpRaced \/ Under("group put") \/ Under("append"))
  /\ UNCHANGED <<userVars, grpFile, grpLog>>

OpenGroupMemory(r) ==
  /\ memReq[r].op = "group put" /\ memReq[r].at = "open"
  /\ grpFile' = Empty
  /\ Steps(r, "write")
  /\ UNCHANGED <<userVars, grpLog, grpRaced>>

WriteGroupMemory(r) ==
  /\ memReq[r].op = "group put" /\ memReq[r].at = "write"
  /\ grpFile' \in WrittenOver(grpFile, <<memReq[r].text>>)
  /\ grpLog' = Append(grpLog, r)
  /\ Finishes(r, "200")
  /\ UNCHANGED <<userVars, grpRaced>>

\* append_daily_memory: the directory, then the entry at the end of today's file.
AppendDailyMemory(r, text) ==
  /\ memReq[r].at = "new"
  /\ Starts(r, "append", "append", text)
  /\ grpRaced' = (grpRaced \/ Under("group put"))
  /\ UNCHANGED <<userVars, grpFile, grpLog>>

\* Seeded fault: the file is opened for writing.
AppendedOver(f, text) == Whole(<<text>>)

Appended(f, text) ==
  CASE IsWhole(f) -> Whole(Append(f.data, text))
    [] f = Torn -> Torn
    [] OTHER -> Whole(<<text>>)

AppendText(r) ==
  /\ memReq[r].at = "append"
  /\ grpFile' = Appended(grpFile, memReq[r].text)
  /\ grpLog' = Append(grpLog, r)
  /\ Finishes(r, "200")
  /\ UNCHANGED <<userVars, grpRaced>>

MemoryNext ==
  \E r \in Requests :
    \/ GetUserMemory(r) \/ ReadUserMemory(r)
    \/ \E t \in Texts : UpdateUserMemory(r, t)
    \/ OpenUserMemory(r) \/ WriteUserMemory(r) \/ SetCache(r)
    \/ \E op \in {"group list", "group get", "search"} : ReadGroupMemory(r, op)
    \/ RefusedGroupMemory(r)
    \/ \E t \in Texts : UpdateGroupMemory(r, t)
    \/ OpenGroupMemory(r) \/ WriteGroupMemory(r)
    \/ \E t \in Texts : AppendDailyMemory(r, t)
    \/ AppendText(r)

-----------------------------------------------------------------------------
\* Unless a change of AGENTS.md overlapped another request that used the file, the copy
\* that answers all later requests is the text of the file whenever nothing is under way.
CacheCoherent ==
  (~memRaced /\ \A r \in Requests : ~Open(memReq, r)) => memCache \in {NoText, TextOf(memFile)}

\* Entries appended at the same time are all kept, in the order in which they were
\* written, after the last replacement of the file, unless that replacement overlapped.
AppendsKept ==
  LET puts == {i \in DOMAIN grpLog : memReq[grpLog[i]].op = "group put"}
      from == Max(puts \cup {1})
  IN (~grpRaced /\ ~\E r \in Requests : memReq[r].op = "group put" /\ memReq[r].at = "write") =>
       grpFile = IF grpLog = <<>> THEN NoFile
                 ELSE Whole([i \in 1 .. Len(grpLog) - from + 1 |-> memReq[grpLog[from + i - 1]].text])

\* "Read the current user's global memory content from AGENTS.md": stated but not
\* guaranteed by the code. A reader that was slow to return to the event loop puts the
\* text from before an update into the cache after the update has, for good; and of two
\* updates one may write the file last and the other the cache.
CacheIsFile ==
  (\A r \in Requests : ~Open(memReq, r)) => memCache \in {NoText, TextOf(memFile)}
=============================================================================
