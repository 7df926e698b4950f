---------------------------- MODULE SettingsStore ----------------------------
(***************************************************************************)
(* One document of the settings service (services/settings.py): provider   *)
(* and channels per user, registration, appearance and system for all. A   *)
(* document has a file and a temporary file of its own, so the documents   *)
(* are independent and doc is any one of them.                             *)
(*                                                                         *)
(* An update writes the temporary file and renames it; every update of a   *)
(* document uses the same temporary name. Only the provider's update reads *)
(* first: a request without a key keeps the stored one.                    *)
(***************************************************************************)
EXTENDS FileSystem, Naturals, Sequences, FiniteSetsExt

CONSTANTS Values, Keys

\* A file is named after the request that made it: none has the name of no file.
ASSUME SettingsAssumption == "no node" \notin Requests

VARIABLES
  doc,       \* the document
  setFile, setTmp, \* what the two names refer to: NoNode, or the request that made the file
  node,      \* contents of the files made so far
  setReq,    \* the requests
  setLog,    \* history: the updates that succeeded, in order
  setRaced   \* history: two updates overlapped, and nothing has settled it since

setVars == <<doc, setFile, setTmp, node, setReq, setLog, setRaced>>

NoNode == "no node"
NoKey == "no key"  \* a request that leaves the key alone; the empty key is ""
Documents == {"provider", "channels", "registration", "appearance", "system"}
DefaultPayload == [value |-> "default", key |-> ""]
\* What a request may carry besides ordinary values: blank, and more than the size limit.
Requested == Values \cup {"blank", "huge"}

OnDisk == IF setFile = NoNode THEN NoFile ELSE node[setFile]
\* _read_json: a missing file reads as the defaults, an unreadable one is a ValueError.
Readable(f) == f.kind \in {"none", "whole"}
ReadJson(f) == IF f = NoFile THEN DefaultPayload ELSE f.data

SettingsInit ==
  /\ doc \in Documents
  /\ setFile = NoNode /\ setTmp = NoNode
  /\ node = [r \in Requests |-> NoFile]
  /\ setReq = [r \in Requests |-> NoRequest]
  /\ setLog = <<>>
  /\ setRaced = FALSE

\* _map_settings_error: FileNotFoundError is 404, ValueError 400.
Settle(r, status) == setReq' = [setReq EXCEPT ![r] = Done(@, status)]

\* The getters: one read, whose content is what OnDisk says at that moment.
GetConfig(r, d) ==
  /\ doc = d /\ setReq[r].at = "new"
  /\ setReq' = [setReq EXCEPT ![r] =
       [Done(@, IF Readable(OnDisk) THEN "200" ELSE "400") EXCEPT !.op = "get"]]
  /\ UNCHANGED <<doc, setFile, setTmp, node, setLog, setRaced>>

GetProviderConfig(r) == GetConfig(r, "provider")
GetChannelsConfig(r) == GetConfig(r, "channels")
GetRegistrationPolicy(r) == GetConfig(r, "registration")
GetAppearanceConfig(r) == GetConfig(r, "appearance")
GetSystemSettings(r) == GetConfig(r, "system")

\* setReq after the update rec of r has begun. An update is alone as long as no other
\* one is under way.
Begun(r, rec) ==
  LET others == {q \in Requests : Open(setReq, q)}
  IN [q \in Requests |->
        IF q = r THEN [rec EXCEPT !.lone = others = {}]
        ELSE IF q \in others THEN [setReq[q] EXCEPT !.lone = FALSE] ELSE setReq[q]]

UpdateConfig(r, d, at, v, k) ==
  /\ doc = d /\ setReq[r].at = "new"
  /\ setReq' = Begun(r,
       [op |-> "put", at |-> at, lone |-> TRUE, answer |-> "none",
        payload |-> [value |-> v, key |-> ""], sentKey |-> k, node |-> NoNode])
  /\ setRaced' = (setRaced \/ \E q \in Requests : Open(setReq, q))
  /\ UNCHANGED <<doc, setFile, setTmp, node, setLog>>

\* The request has a key, or NoKey; the document is read next.
UpdateProviderConfig(r, v, k) == UpdateConfig(r, "provider", "read", v, k)

\* The others replace the whole document by what the request holds.
UpdateChannelsConfig(r, v) == UpdateConfig(r, "channels", "open", v, NoKey)
\* Two switches: nothing blank or large.
UpdateRegistrationPolicy(r, v) ==
  v \in Values /\ UpdateConfig(r, "registration", "open", v, NoKey)
\* A blank name, emoji or colour becomes the default one again.
UpdateAppearanceConfig(r, v) ==
  UpdateConfig(r, "appearance", "open", IF v = "blank" THEN "default" ELSE v, NoKey)
\* A mode and a switch; the request's type lets no unknown mode through.
UpdateSystemSettings(r, v) ==
  v \in Values /\ UpdateConfig(r, "system", "open", v, NoKey)

\* A request without a key keeps the stored one.
NextKey(current, sent) == IF sent = NoKey THEN current ELSE sent

\* _update_provider_config reads the document it is about to replace.
ReadCurrent(r) ==
  /\ setReq[r].at = "read"
  /\ IF Readable(OnDisk)
     THEN setReq' = [setReq EXCEPT ![r].at = "open",
            ![r].payload.key = NextKey(ReadJson(OnDisk).key, setReq[r].sentKey)]
     ELSE Settle(r, "400")
  /\ UNCHANGED <<doc, setFile, setTmp, node, setLog, setRaced>>

\* _write_json refuses what is too large before it touches a file.
RefusedAsTooLarge(r) ==
  /\ setReq[r].at = "open" /\ setReq[r].payload.value = "huge"
  /\ Settle(r, "400")
  /\ UNCHANGED <<doc, setFile, setTmp, node, setLog, setRaced>>

\* Seeded fault: the document is written in place.
OpenTmpInPlace(r) ==
  /\ setReq[r].at = "open" /\ setReq[r].payload.value # "huge"
  /\ LET n == IF setFile = NoNode THEN r ELSE setFile
     IN /\ setFile' = n /\ setTmp' = n
        /\ node' = [node EXCEPT ![n] = Empty]
        /\ setReq' = [setReq EXCEPT ![r].at = "write", ![r].node = n]
  /\ UNCHANGED <<doc, setLog, setRaced>>

\* write_text opens the temporary file, which another update may have made.
OpenTmp(r) ==
  /\ setReq[r].at = "open" /\ setReq[r].payload.value # "huge"
  /\ LET n == IF setTmp = NoNode THEN r ELSE setTmp
     IN /\ setTmp' = n
        /\ node' = [node EXCEPT ![n] = Empty]
        /\ setReq' = [setReq EXCEPT ![r].at = "write", ![r].node = n]
  /\ UNCHANGED <<doc, setFile, setLog, setRaced>>

\* write_text writes to the file it opened, renamed or not.
WriteTmp(r) ==
  /\ setReq[r].at = "write"
  /\ \E c \in WrittenOver(node[setReq[r].node], setReq[r].payload) :
       node' = [node EXCEPT ![setReq[r].node] = c]
  /\ setReq' = [setReq EXCEPT ![r].at = "replace"]
  /\ UNCHANGED <<doc, setFile, setTmp, setLog, setRaced>>

\* Seeded fault: the temporary file is copied and left behind.
ReplaceFileCopies(r) ==
  /\ setReq[r].at = "replace"
  /\ setFile' = setTmp
  /\ setLog' = Append(setLog, r)
  /\ Settle(r, "200")
  /\ UNCHANGED <<doc, setTmp, node, setRaced>>

\* replace: another update may have renamed the temporary file already, whatever this
\* one has written to it.
ReplaceFile(r) ==
  /\ setReq[r].at = "replace"
  /\ IF setTmp = NoNode
     THEN /\ Settle(r, "404")
          /\ UNCHANGED <<setFile, setTmp, setLog, setRaced>>
     ELSE /\ setFile' = setTmp
          /\ setTmp' = NoNode
          /\ setLog' = Append(setLog, r)
          /\ setRaced' = (setRaced /\ ~(setReq[r].lone /\ doc # "provider"))
          /\ Settle(r, "200")
  /\ UNCHANGED <<doc, node>>

SettingsNext ==
  \E r \in Requests :
    \/ GetProviderConfig(r) \/ GetChannelsConfig(r) \/ GetRegistrationPolicy(r)
    \/ GetAppearanceConfig(r) \/ GetSystemSettings(r)
    \/ \E v \in Requested :
         \/ \E k \in Keys \cup {NoKey} : UpdateProviderConfig(r, v, k)
         \/ UpdateChannelsConfig(r, v)
         \/ UpdateRegistrationPolicy(r, v)
         \/ UpdateAppearanceConfig(r, v)
         \/ UpdateSystemSettings(r, v)
    \/ ReadCurrent(r)
    \/ RefusedAsTooLarge(r)
    \/ OpenTmp(r)
    \/ WriteTmp(r)
    \/ ReplaceFile(r)

-----------------------------------------------------------------------------
\* Unless updates overlapped, a reader finds at every moment, in the middle of an update
\* too, exactly what the updates that have finished, one after the other, have left: no
\* half-written document, no value of a refused update, the key of the last request that
\* had one; and after a race one update on its own puts that right.
SettingsKept ==
  LET keyed == {i \in DOMAIN setLog : setReq[setLog[i]].sentKey # NoKey}
  IN ~setRaced =>
       OnDisk = IF setLog = <<>> THEN NoFile
                ELSE Whole([value |-> setReq[setLog[Len(setLog)]].payload.value,
                            key |-> IF keyed = {} THEN "" ELSE setReq[setLog[Max(keyed)]].sentKey])

\* Whatever overlaps, a finished update leaves no temporary file: one that is there
\* belongs to an update that has yet to rename it.
TmpHasOwner ==
  setTmp # NoNode =>
    \E r \in Requests : setReq[r].at \in {"write", "replace"} /\ setReq[r].node = setTmp

\* Stated but not guaranteed by the code: a request without a key keeps the stored one.
\* Two overlapping updates of the provider may both read the document before either
\* writes, and the later one then restores the key the earlier one replaced.
KeyPreserved ==
  LET puts == {r \in Requests : setReq[r].op = "put"}
      stored == {r \in puts : setReq[r].answer = "200" /\ setReq[r].sentKey # NoKey}
  IN stored # {} /\ (\A r \in puts : setReq[r].sentKey # "") /\ IsWhole(OnDisk)
       => OnDisk.data.key # ""

\* Stated but not guaranteed by the code: an update that is answered with an error has
\* changed nothing. The loser of a race for the temporary file is answered 404 when what
\* it wrote may be what the winner has renamed.
ErrorMeansUnchanged ==
  \A r \in Requests :
    setReq[r].op = "put" /\ setReq[r].answer = "404"
      => OnDisk # Whole(setReq[r].payload)
=============================================================================
