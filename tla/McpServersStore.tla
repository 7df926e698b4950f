--------------------------- MODULE McpServersStore ---------------------------
(***************************************************************************)
(* The MCP servers of one user (services/mcp_servers.py): one JSON file,   *)
(* which every operation reads whole and every change writes back whole,   *)
(* in place: open empties it, the write fills it.                          *)
(***************************************************************************)
EXTENDS FileSystem, Naturals, Sequences, FiniteSetsExt

CONSTANTS Servers, Configs

VARIABLES
  mcpFile,   \* servers.json
  mcpReq,    \* the requests
  mcpLog,    \* history: the changes answered with success, in order
  mcpRaced   \* history: two changes overlapped

mcpVars == <<mcpFile, mcpReq, mcpLog, mcpRaced>>

\* The transport and its fields, and what a request may hold besides good ones: a stdio
\* entry without a command or an http one without a url, and one above the size limit.
RequestedConfigs == Configs \cup {"invalid", "huge"}

McpInit ==
  /\ mcpFile = NoFile
  /\ mcpReq = [r \in Requests |-> NoRequest]
  /\ mcpLog = <<>>
  /\ mcpRaced = FALSE

\* _map_mcp_servers_error
Answer(r, status) == mcpReq' = [mcpReq EXCEPT ![r] = Done(@, status)]

\* _read_user_servers: no file is no servers; an empty or torn one is a ValueError.
Parses(f) == f.kind \in {"none", "whole"}
ReadServers(f) == IF f = NoFile THEN <<>> ELSE f.data

\* list and get: one read, and nothing is changed.
ListServers(r) ==
  /\ mcpReq[r].at = "new"
  /\ mcpReq' = [mcpReq EXCEPT ![r] =
       [Done(@, IF Parses(mcpFile) THEN "200" ELSE "400") EXCEPT !.op = "list"]]
  /\ UNCHANGED <<mcpFile, mcpLog, mcpRaced>>

GetServer(r, s) ==
  /\ mcpReq[r].at = "new"
  /\ mcpReq' = [mcpReq EXCEPT ![r] =
       [Done(@, IF ~Parses(mcpFile) THEN "400"
                ELSE IF s \in DOMAIN ReadServers(mcpFile) THEN "200" ELSE "404")
          EXCEPT !.op = "get"]]
  /\ UNCHANGED <<mcpFile, mcpLog, mcpRaced>>

\* A change starts. _normalize_transport_payload refuses before the file is read.
StartChange(r, op, s, arg) ==
  /\ mcpReq[r].at = "new"
  /\ IF op = "put" /\ arg = "invalid"
     THEN /\ mcpReq' = [mcpReq EXCEPT ![r] = [Done(@, "400") EXCEPT !.op = op]]
          /\ UNCHANGED mcpRaced
     ELSE /\ mcpReq' = [mcpReq EXCEPT ![r] =
               [op |-> op, at |-> "read", answer |-> "none", server |-> s, arg |-> arg,
                next |-> <<>>]]
          /\ mcpRaced' = (mcpRaced \/ \E q \in Requests : Open(mcpReq, q))
  /\ UNCHANGED <<mcpFile, mcpLog>>

PutServer(r, s, config) == StartChange(r, "put", s, config)
PatchServerState(r, s, enabled) == StartChange(r, "patch", s, enabled)
DeleteServer(r, s) == StartChange(r, "delete", s, "none")

\* Seeded fault: an update of a disabled server enables it again.
UpsertedEnabled(servers, r, s, config) ==
  [t \in DOMAIN servers \cup {s} |->
     IF t # s THEN servers[t]
     ELSE [config |-> config, enabled |-> TRUE,
           created |-> IF s \in DOMAIN servers THEN servers[s].created ELSE r]]

\* Who created an entry and whether it is enabled survive an update of it.
Upserted(servers, r, s, config) ==
  [t \in DOMAIN servers \cup {s} |->
     IF t # s THEN servers[t]
     ELSE [config |-> config,
           enabled |-> s \in DOMAIN servers => servers[s].enabled,
           created |-> IF s \in DOMAIN servers THEN servers[s].created ELSE r]]

StateSet(servers, s, enabled) == [servers EXCEPT ![s].enabled = enabled]

Deleted(servers, s) == [t \in DOMAIN servers \ {s} |-> servers[t]]

\* What the request rec of r makes of the servers it has read.
Changed(servers, r, rec) ==
  CASE rec.op = "put" -> Upserted(servers, r, rec.server, rec.arg)
    [] rec.op = "patch" -> StateSet(servers, rec.server, rec.arg)
    [] rec.op = "delete" -> Deleted(servers, rec.server)

\* Its early ends: the entry is not there, or has the wanted state already.
Missing(servers, rec) == rec.op # "put" /\ rec.server \notin DOMAIN servers
SameState(servers, rec) == rec.op = "patch" /\ servers[rec.server].enabled = rec.arg

ReadUserServers(r) ==
  LET servers == ReadServers(mcpFile)
      rec == mcpReq[r]
  IN /\ rec.at = "read"
     /\ IF ~Parses(mcpFile) THEN Answer(r, "400")
        ELSE IF Missing(servers, rec) THEN Answer(r, "404")
        ELSE IF SameState(servers, rec) THEN Answer(r, "200")
        ELSE mcpReq' = [mcpReq EXCEPT ![r].at = "open",
                                      ![r].next = Changed(servers, r, rec)]
     /\ UNCHANGED <<mcpFile, mcpLog, mcpRaced>>

\* _write_user_servers refuses what is too large and leaves the file alone.
RefusedTooLarge(r) ==
  /\ mcpReq[r].at = "open"
  /\ \E s \in DOMAIN mcpReq[r].next : mcpReq[r].next[s].config = "huge"
  /\ Answer(r, "400")
  /\ UNCHANGED <<mcpFile, mcpLog, mcpRaced>>

OpenServersFile(r) ==
  /\ mcpReq[r].at = "open"
  /\ \A s \in DOMAIN mcpReq[r].next : mcpReq[r].next[s].config # "huge"
  /\ mcpFile' = Empty
  /\ mcpReq' = [mcpReq EXCEPT ![r].at = "write"]
  /\ UNCHANGED <<mcpLog, mcpRaced>>

WriteUserServers(r) ==
  /\ mcpReq[r].at = "write"
  /\ mcpFile' \in WrittenOver(mcpFile, mcpReq[r].next)
  /\ mcpLog' = Append(mcpLog, r)
  /\ Answer(r, "200")
  /\ UNCHANGED mcpRaced

McpNext ==
  \E r \in Requests :
    \/ ListServers(r)
    \/ ReadUserServers(r)
    \/ RefusedTooLarge(r)
    \/ OpenServersFile(r)
    \/ WriteUserServers(r)
    \/ \E s \in Servers :
         \/ GetServer(r, s)
         \/ \E c \in RequestedConfigs : PutServer(r, s, c)
         \/ \E e \in BOOLEAN : PatchServerState(r, s, e)
         \/ DeleteServer(r, s)

-----------------------------------------------------------------------------
\* The entry of s after the changes of mcpLog: the positions in it of the put that
\* created the entry, of the last put and of the last change of its state.
Puts(s) == {i \in DOMAIN mcpLog : mcpReq[mcpLog[i]].op = "put" /\ mcpReq[mcpLog[i]].server = s}
Life(s) ==
  LET deletes == {i \in DOMAIN mcpLog : mcpReq[mcpLog[i]].op = "delete"
                                          /\ mcpReq[mcpLog[i]].server = s}
  IN Max(deletes \cup {0})
Patches(s) == {i \in DOMAIN mcpLog : i > Life(s) /\ mcpReq[mcpLog[i]].op = "patch"
                                       /\ mcpReq[mcpLog[i]].server = s}
Expected(s) ==
  LET puts == {i \in Puts(s) : i > Life(s)}
  IN [config |-> mcpReq[mcpLog[Max(puts)]].arg,
      enabled |-> IF Patches(s) = {} THEN TRUE ELSE mcpReq[mcpLog[Max(Patches(s))]].arg,
      created |-> mcpLog[Min(puts)]]

\* Unless changes overlapped, the file holds, whenever nobody is in the middle of writing
\* it, what the successful changes add up to: every entry put and not deleted since, with
\* the last configuration, the last state that was set, the creation of the first put;
\* and no refused, failed or reading request has left a trace.
ServersKept ==
  (~mcpRaced /\ \A r \in Requests : mcpReq[r].at # "write") =>
    /\ Parses(mcpFile)
    /\ LET servers == ReadServers(mcpFile)
       IN servers = [s \in {t \in Servers : \E i \in Puts(t) : i > Life(t)} |-> Expected(s)]

\* Stated but not guaranteed by the code: an entry whose put was answered with success,
\* and which nobody deletes, is there. Two overlapping changes of different entries each
\* write back all they have read, and one entry is lost.
PutIsKept ==
  \A r \in Requests :
    LET rec == mcpReq[r]
    IN rec.op = "put" /\ rec.answer = "200"
       /\ (\A q \in Requests : mcpReq[q].op # "delete" /\ mcpReq[q].at # "write")
       => Parses(mcpFile) /\ rec.server \in DOMAIN ReadServers(mcpFile)

\* Stated but not guaranteed by the code: when nothing is under way the file can be
\* read. A torn one is refused by every later request, delete and put included.
FileUsable == (\A r \in Requests : ~Open(mcpReq, r)) => Parses(mcpFile)
=============================================================================
