-------------------------- MODULE FileStoresProofs --------------------------
(***************************************************************************)
(* Proofs about the file-backed stores, for any requests, settings,        *)
(* servers, skills and texts: every one of them keeps its updates unless   *)
(* they overlap, and no answer is older than its request.                  *)
(* The stores share no variable, so the invariant is the conjunction of    *)
(* one for each. Each says, beside the promise itself, what a change that  *)
(* has not been overlapped by another one may rely on: what it has read is *)
(* what the changes so far have left, and the file it works on is its own. *)
(***************************************************************************)
EXTENDS FileStores, TerminalHistoryProofs

-----------------------------------------------------------------------------
(* Settings. An update that is alone has the temporary file to itself. *)

PutFields == {"op", "at", "lone", "answer", "payload", "sentKey", "node"}
IsPut(rec) ==
  /\ rec = [f \in PutFields |-> rec[f]] /\ rec.op = "put"
  /\ rec.at \in {"read", "open", "write", "replace", "done"}
  /\ rec.lone \in BOOLEAN
  /\ rec.payload = [value |-> rec.payload.value, key |-> rec.payload.key]
Writes(rec) == rec.at \in {"write", "replace"}

\* The file of a name was made by a request that has come to open it.
Made(n) == n \in Requests /\ (Writes(setReq[n]) \/ setReq[n].at = "done")

SetReqOK(r) ==
  /\ setReq[r] = NoRequest \/ setReq[r].at = "done" \/ IsPut(setReq[r])
  /\ Writes(setReq[r]) => Made(setReq[r].node)
  /\ (Open(setReq, r) /\ doc # "provider") =>
       setReq[r].at # "read" /\ setReq[r].payload.key = "" /\ setReq[r].sentKey = NoKey

SetTypes ==
  /\ node = [n \in Requests |-> node[n]]
  /\ setReq = [r \in Requests |-> setReq[r]]
  /\ \A r \in Requests : SetReqOK(r)
  /\ setFile # NoNode => Made(setFile)
  /\ setTmp # NoNode => Made(setTmp)
  /\ setRaced \in BOOLEAN

\* The updates that were logged are done.
LoggedOK ==
  /\ setLog \in Seq(Requests)
  /\ \A i \in DOMAIN setLog :
       /\ IsPut(setReq[setLog[i]]) /\ setReq[setLog[i]].at = "done"
       /\ doc # "provider" => setReq[setLog[i]].sentKey = NoKey

\* The key that the updates so far have left
StoredKey ==
  LET keyed == {i \in DOMAIN setLog : setReq[setLog[i]].sentKey # NoKey}
  IN IF keyed = {} THEN "" ELSE setReq[setLog[Max(keyed)]].sentKey

Sole(r) == ~setRaced \/ setReq[r].lone
SoleOK(r) ==
  Open(setReq, r) =>
    /\ Sole(r) =>
         /\ \A q \in Requests : Open(setReq, q) => q = r
         /\ Writes(setReq[r]) => setTmp = setReq[r].node /\ setTmp # setFile
         /\ setReq[r].at = "write" => node[setTmp] = Empty
         /\ setReq[r].at = "replace" => node[setTmp] = Whole(setReq[r].payload)
    /\ (setReq[r].at # "read" /\ (~setRaced \/ doc # "provider")) =>
         setReq[r].payload.key = NextKey(StoredKey, setReq[r].sentKey)

SettingsInv ==
  /\ SetTypes /\ LoggedOK /\ TmpHasOwner /\ SettingsKept
  /\ \A r \in Requests : SoleOK(r)

-----------------------------------------------------------------------------
\* What the updates so far have left on disk
LeftOnDisk ==
  IF setLog = <<>> THEN NoFile
  ELSE Whole([value |-> setReq[setLog[Len(setLog)]].payload.value, key |-> StoredKey])

\* SettingsKept in these terms
LEMMA KeptMeans ==
  /\ SettingsKept <=> (~setRaced => OnDisk = LeftOnDisk)
  /\ SettingsKept' <=> (~setRaced' => OnDisk' = LeftOnDisk')
BY DEF SettingsKept, LeftOnDisk, StoredKey

\* A document other than the provider's has no key.
LEMMA NoStoredKey ==
  ASSUME LoggedOK, doc # "provider"
  PROVE  StoredKey = ""
BY DEF LoggedOK, StoredKey

\* What is logged stays as it is while only requests under way change.
LEMMA LogUnchanged ==
  ASSUME LoggedOK, UNCHANGED <<doc, setLog>>,
         \A q \in Requests : setReq[q].at = "done" => setReq'[q] = setReq[q]
  PROVE  LoggedOK' /\ StoredKey' = StoredKey /\ LeftOnDisk' = LeftOnDisk
<1>1. \A i \in DOMAIN setLog : setReq'[setLog[i]] = setReq[setLog[i]]
  BY DEF LoggedOK
<1>2. LoggedOK'
  BY <1>1 DEF LoggedOK
<1>3. StoredKey' = StoredKey
  <2>1. {i \in DOMAIN setLog : setReq'[setLog[i]].sentKey # NoKey}
          = {i \in DOMAIN setLog : setReq[setLog[i]].sentKey # NoKey}
    BY <1>1
  <2> DEFINE keyed == {i \in DOMAIN setLog : setReq[setLog[i]].sentKey # NoKey}
  <2>2. CASE keyed = {}
    BY <2>1, <2>2 DEF StoredKey
  <2>3. CASE keyed # {}
    <3>1. keyed \in SUBSET (0 .. Len(setLog))
      BY DEF LoggedOK
    <3>2. Max(keyed) \in keyed
      <4>1. Len(setLog) \in Nat
        BY DEF LoggedOK
      <4> HIDE DEF keyed
      <4> QED BY <4>1, <3>1, <2>3, GreatestOf
    <3> QED BY <3>2, <2>1, <2>3, <1>1 DEF StoredKey
  <2> QED BY <2>2, <2>3
<1>4. setLog # <<>> => Len(setLog) \in DOMAIN setLog
  BY DEF LoggedOK
<1> QED BY <1>1, <1>2, <1>3, <1>4 DEF LeftOnDisk

\* A document without updates
LEMMA SettingsStart == SettingsInit => SettingsInv
<1> SUFFICES ASSUME SettingsInit PROVE SettingsInv
  OBVIOUS
<1>2. LoggedOK
  <2>1. <<>> \in Seq(Requests) /\ DOMAIN <<>> = {}
    BY EmptySeq
  <2>2. setLog = <<>>
    BY DEF SettingsInit
  <2> QED BY <2>1, <2>2 DEF LoggedOK
<1> USE SettingsAssumption DEF SettingsInit, NoRequest, NoNode
<1>1. SetTypes
  BY DEF SetTypes, SetReqOK, Open, Writes
<1>3. TmpHasOwner
  BY DEF TmpHasOwner
<1>4. SettingsKept
  BY DEF SettingsKept, OnDisk
<1>5. \A r \in Requests : SoleOK(r)
  BY DEF SoleOK, Open
<1> QED BY <1>1, <1>2, <1>3, <1>4, <1>5 DEF SettingsInv

\* A getter changes nothing but its request.
LEMMA GetStep ==
  ASSUME SettingsInv, NEW r \in Requests, NEW d, GetConfig(r, d)
  PROVE  SettingsInv'
<1> DEFINE a == IF Readable(OnDisk) THEN "200" ELSE "400"
<1>1. setReq[r] = NoRequest /\ UNCHANGED <<doc, setFile, setTmp, node, setLog, setRaced>>
  BY DEF GetConfig, SettingsInv, SetTypes, SetReqOK, IsPut, NoRequest
<1>2. /\ setReq'[r].at = "done"
      /\ \A q \in Requests : q # r => setReq'[q] = setReq[q]
      /\ setReq' = [q \in Requests |-> setReq'[q]]
  BY <1>1 DEF GetConfig, SettingsInv, SetTypes, NoRequest, Done
<1>3. \A q \in Requests : setReq[q].at = "done" => setReq'[q] = setReq[q]
  BY <1>1, <1>2 DEF NoRequest
<1>4. LoggedOK' /\ StoredKey' = StoredKey /\ LeftOnDisk' = LeftOnDisk
  BY <1>1, <1>3, LogUnchanged DEF SettingsInv
<1>5. OnDisk' = OnDisk
  BY <1>1 DEF OnDisk
<1>6. \A q \in Requests : Open(setReq, q)' <=> (q # r /\ Open(setReq, q))
  BY <1>1, <1>2 DEF Open, NoRequest
<1>7. SetTypes'
  <2>1. \A n : Made(n) => Made(n)'
    BY <1>1, <1>2 DEF Made, Writes, NoRequest
  <2>2. ASSUME NEW q \in Requests PROVE SetReqOK(q)'
    <3>1. CASE q = r
      BY <3>1, <1>2, <1>6 DEF SetReqOK, Writes
    <3>2. CASE q # r
      <4>1. PICK n : n = setReq[q].node
        OBVIOUS
      <4>2. setReq'[q] = setReq[q] /\ SetReqOK(q) /\ doc' = doc
        BY <3>2, <1>1, <1>2 DEF SettingsInv, SetTypes
      <4>3. Writes(setReq[q]) => Made(n)'
        BY <4>1, <4>2, <2>1 DEF SetReqOK
      <4>4. Writes(setReq'[q]) => Made(setReq[q].node)'
        BY <4>1, <4>2, <4>3 DEF Made
      <4> QED BY <4>2, <4>4 DEF SetReqOK, Open
    <3> QED BY <3>1, <3>2
  <2>3. setFile' # NoNode => Made(setFile)'
    BY <1>1, <2>1 DEF SettingsInv, SetTypes
  <2>4. setTmp' # NoNode => Made(setTmp)'
    BY <1>1, <2>1 DEF SettingsInv, SetTypes
  <2> QED BY <1>1, <1>2, <2>2, <2>3, <2>4 DEF SettingsInv, SetTypes
<1>8. TmpHasOwner'
  BY <1>1, <1>2 DEF SettingsInv, TmpHasOwner, NoRequest
<1>9. SettingsKept'
  BY <1>1, <1>4, <1>5, KeptMeans DEF SettingsInv
<1>10. ASSUME NEW q \in Requests PROVE SoleOK(q)'
  BY <1>1, <1>2, <1>4, <1>6 DEF SettingsInv, SoleOK, Sole, Writes
<1> QED BY <1>4, <1>7, <1>8, <1>9, <1>10 DEF SettingsInv

\* An update begins: it is alone if no other one is under way.
LEMMA BeginUpdate ==
  ASSUME SettingsInv, NEW r \in Requests, NEW d, NEW at \in {"read", "open"}, NEW v, NEW k,
         UpdateConfig(r, d, at, v, k), at = "read" <=> d = "provider",
         d # "provider" => k = NoKey
  PROVE  SettingsInv'
<1> DEFINE rec == [op |-> "put", at |-> at, lone |-> TRUE, answer |-> "none",
                   payload |-> [value |-> v, key |-> ""], sentKey |-> k, node |-> NoNode]
           others == {q \in Requests : Open(setReq, q)}
<1>1. /\ doc = d /\ setReq[r] = NoRequest
      /\ UNCHANGED <<doc, setFile, setTmp, node, setLog>>
      /\ setRaced' = (setRaced \/ others # {})
  BY DEF UpdateConfig, SettingsInv, SetTypes, SetReqOK, IsPut, NoRequest
<1>2. r \notin others
  BY <1>1 DEF Open, NoRequest
<1>3. setReq' = [q \in Requests |->
        IF q = r THEN [rec EXCEPT !.lone = others = {}]
        ELSE IF q \in others THEN [setReq[q] EXCEPT !.lone = FALSE] ELSE setReq[q]]
  BY DEF UpdateConfig, Begun
<1>4. /\ IsPut(setReq'[r]) /\ setReq'[r].at = at /\ setReq'[r].sentKey = k
      /\ setReq'[r].payload.key = "" /\ setReq'[r].lone = (others = {})
  <2>1. setReq'[r] = [rec EXCEPT !.lone = others = {}]
    BY <1>3
  <2>2. IsPut(rec) /\ rec.payload.key = ""
    BY DEF IsPut, PutFields
  <2> HIDE DEF others
  <2>3. rec.at = at /\ rec.sentKey = k
    OBVIOUS
  <2> HIDE DEF rec
  <2>4. (others = {}) \in BOOLEAN
    OBVIOUS
  <2> QED BY <2>1, <2>2, <2>3, <2>4 DEF IsPut, PutFields
<1>5. setReq'[r].lone <=> others = {}
  BY <1>4
<1> HIDE DEF rec
<1>6. ASSUME NEW q \in Requests, q # r
      PROVE  /\ setReq'[q] = IF q \in others THEN [setReq[q] EXCEPT !.lone = FALSE] ELSE setReq[q]
             /\ q \in others => IsPut(setReq[q])
  <2>1. SetReqOK(q)
    BY DEF SettingsInv, SetTypes
  <2>2. q \in others => Open(setReq, q)
    OBVIOUS
  <2>3. Open(setReq, q) => IsPut(setReq[q])
    <3>1. NoRequest.at = "new"
      BY DEF NoRequest
    <3> QED BY <2>1, <3>1 DEF SetReqOK, Open
  <2>4. setReq'[q] = IF q \in others THEN [setReq[q] EXCEPT !.lone = FALSE] ELSE setReq[q]
    BY <1>3, <1>6
  <2> QED BY <2>2, <2>3, <2>4
<1>7. ASSUME NEW q \in Requests, q \in others
      PROVE  /\ setReq'[q].at = setReq[q].at /\ setReq'[q].node = setReq[q].node
             /\ setReq'[q].payload = setReq[q].payload /\ setReq'[q].sentKey = setReq[q].sentKey
             /\ IsPut(setReq'[q]) /\ ~setReq'[q].lone
  BY <1>2, <1>6, <1>7 DEF IsPut, PutFields
<1>8. \A q \in Requests : Open(setReq, q)' <=> (q = r \/ q \in others)
  BY <1>1, <1>4, <1>6, <1>7 DEF Open
<1>9. \A q \in Requests : q # r => Writes(setReq'[q]) = Writes(setReq[q])
  BY <1>6, <1>7 DEF Writes
<1>10. ASSUME NEW n, Made(n) PROVE Made(n)'
  <2>1. n \in Requests /\ n # r
    BY <1>1, <1>10 DEF Made, Writes, NoRequest
  <2>2. setReq'[n].at = setReq[n].at
    BY <2>1, <1>6, <1>7
  <2> QED BY <2>1, <2>2, <1>10 DEF Made, Writes
<1>11. \A q \in Requests : setReq[q].at = "done" => setReq'[q] = setReq[q]
  <2> TAKE q \in Requests
  <2> HAVE setReq[q].at = "done"
  <2>1. q # r
    BY <1>1 DEF NoRequest
  <2>2. q \notin others
    BY DEF Open
  <2> QED BY <2>1, <2>2, <1>6
<1>12. LoggedOK' /\ StoredKey' = StoredKey /\ LeftOnDisk' = LeftOnDisk
  BY <1>1, <1>11, LogUnchanged DEF SettingsInv
<1>13. SetTypes'
  <2>1. ASSUME NEW q \in Requests PROVE SetReqOK(q)'
    <3>1. CASE q = r
      BY <3>1, <1>1, <1>4 DEF SetReqOK, Writes
    <3>2. CASE q # r
      <4>1. PICK n : n = setReq[q].node
        OBVIOUS
      <4>2. SetReqOK(q) /\ doc' = doc
        BY <1>1 DEF SettingsInv, SetTypes
      <4>3. Writes(setReq[q]) => Made(n)'
        BY <4>1, <4>2, <1>10 DEF SetReqOK
      <4>4. Writes(setReq'[q]) => n = setReq'[q].node
        BY <4>1, <3>2, <1>6, <1>7
      <4>5. Writes(setReq'[q]) => Made(setReq[q].node)'
        BY <4>3, <4>4, <3>2, <1>9 DEF Made
      <4> QED BY <4>2, <4>5, <3>2, <1>6, <1>7, <1>8 DEF SetReqOK, Open
    <3> QED BY <3>1, <3>2
  <2>2. setFile' # NoNode => Made(setFile)'
    BY <1>1, <1>10 DEF SettingsInv, SetTypes
  <2>3. setTmp' # NoNode => Made(setTmp)'
    BY <1>1, <1>10 DEF SettingsInv, SetTypes
  <2> QED BY <1>1, <1>3, <2>1, <2>2, <2>3 DEF SettingsInv, SetTypes
<1>14. TmpHasOwner'
  <2>1. \A q \in Requests : setReq[q].at \in {"write", "replace"} => q \in others /\ q # r
    BY <1>1 DEF Open, NoRequest
  <2> QED BY <1>1, <1>7, <2>1 DEF SettingsInv, TmpHasOwner
<1>15. SettingsKept'
  <2>1. OnDisk' = OnDisk
    BY <1>1 DEF OnDisk
  <2> QED BY <2>1, <1>1, <1>12, KeptMeans DEF SettingsInv
<1>16. ASSUME NEW q \in Requests PROVE SoleOK(q)'
  <2>1. CASE q = r
    <3>1. doc # "provider" => StoredKey = "" /\ k = NoKey
      BY <1>1, NoStoredKey DEF SettingsInv
    <3>2. Sole(q)' => others = {}
      BY <2>1, <1>1, <1>5 DEF Sole
    <3>3. at = "read" => d = "provider"
      OBVIOUS
    <3> QED BY <2>1, <3>1, <3>2, <1>1, <1>4, <1>8, <1>12 DEF SoleOK, Writes, NextKey
  <2>2. CASE q \in others
    <3>1. q # r /\ ~Sole(q)'
      BY <2>2, <1>1, <1>2, <1>7 DEF Sole
    <3>2. SoleOK(q) /\ Open(setReq, q)
      BY <2>2 DEF SettingsInv
    <3> QED BY <3>1, <3>2, <2>2, <1>1, <1>7, <1>12 DEF SoleOK
  <2>3. CASE q # r /\ q \notin others
    BY <2>3, <1>8 DEF SoleOK
  <2> QED BY <2>1, <2>2, <2>3
<1> QED BY <1>12, <1>13, <1>14, <1>15, <1>16 DEF SettingsInv


\* A step of an update that is under way: the others, and what is logged, stay.
OnlyRequest(r, at) ==
  /\ Open(setReq, r) /\ IsPut(setReq[r])
  /\ doc' = doc
  /\ setReq' = [q \in Requests |-> setReq'[q]]
  /\ \A q \in Requests : q # r => setReq'[q] = setReq[q]
  /\ IsPut(setReq'[r]) /\ setReq'[r].at = at /\ setReq'[r].lone = setReq[r].lone
  /\ setReq'[r].payload.value = setReq[r].payload.value
  /\ setReq'[r].sentKey = setReq[r].sentKey
  /\ doc # "provider" => setReq'[r].payload = setReq[r].payload

\* A request under way is a record of all fields.
LEMMA UnderWayIsPut ==
  ASSUME SettingsInv, NEW r \in Requests, Open(setReq, r)
  PROVE  IsPut(setReq[r]) /\ SetReqOK(r)
<1>1. SetReqOK(r)
  BY DEF SettingsInv, SetTypes
<1>2. NoRequest.at = "new"
  BY DEF NoRequest
<1> QED BY <1>1, <1>2 DEF SetReqOK, Open

\* What such a step leaves as it was
LEMMA OnlyRequestKeeps ==
  ASSUME SettingsInv, NEW r \in Requests, NEW at \in {"open", "write", "replace", "done"},
         OnlyRequest(r, at)
  PROVE  /\ \A n : (Made(n) /\ (n = r => at # "open")) => Made(n)'
         /\ \A q \in Requests : Open(setReq, q)' <=> (Open(setReq, q) /\ (q = r => at # "done"))
         /\ setLog' = setLog =>
              LoggedOK' /\ StoredKey' = StoredKey /\ LeftOnDisk' = LeftOnDisk
<1>1. ASSUME NEW n, Made(n), n = r => at # "open" PROVE Made(n)'
  <2>1. CASE n = r
    BY <2>1, <1>1 DEF Made, Writes, OnlyRequest
  <2>2. CASE n # r
    BY <2>2, <1>1 DEF Made, Writes, OnlyRequest
  <2> QED BY <2>1, <2>2
<1>2. ASSUME NEW q \in Requests
      PROVE  Open(setReq, q)' <=> (Open(setReq, q) /\ (q = r => at # "done"))
  <2>1. CASE q = r
    BY <2>1 DEF OnlyRequest, Open
  <2>2. CASE q # r
    BY <2>2 DEF OnlyRequest, Open
  <2> QED BY <2>1, <2>2
<1>3. ASSUME setLog' = setLog PROVE LoggedOK' /\ StoredKey' = StoredKey /\ LeftOnDisk' = LeftOnDisk
  <2>1. \A q \in Requests : setReq[q].at = "done" => setReq'[q] = setReq[q]
    BY DEF OnlyRequest, Open
  <2> QED BY <1>3, <2>1, LogUnchanged DEF OnlyRequest, SettingsInv
<1> QED BY <1>1, <1>2, <1>3

\* The types after such a step, which may make r's file
LEMMA OnlyRequestTypes ==
  ASSUME SettingsInv, NEW r \in Requests, NEW at \in {"open", "write", "replace", "done"},
         OnlyRequest(r, at),
         node' = [n \in Requests |-> node'[n]], setRaced' \in BOOLEAN,
         at \in {"write", "replace"} => setReq'[r].node = r \/ Made(setReq'[r].node),
         at = "open" => setReq[r].at = "read",
         setFile' \in {setFile, setTmp, NoNode},
         setTmp' \in {setTmp, NoNode} \/ (setTmp' = r /\ at = "write")
  PROVE  SetTypes'
<1>1. \A n : (Made(n) /\ (n = r => at # "open")) => Made(n)'
  BY OnlyRequestKeeps
<1>2. at = "open" => ~Made(r)
  BY DEF Made, Writes
<1>3. ASSUME NEW n, Made(n) PROVE Made(n)'
  BY <1>1, <1>2, <1>3
<1>4. at # "open" => Made(r)'
  BY DEF OnlyRequest, Made, Writes
<1>5. ASSUME NEW q \in Requests PROVE SetReqOK(q)'
  <2>1. CASE q = r
    <3>1. PICK n : n = setReq'[r].node
      OBVIOUS
    <3>2. at \in {"write", "replace"} => Made(n)'
      <4>1. SUFFICES ASSUME at \in {"write", "replace"} PROVE Made(n)'
        OBVIOUS
      <4>2. n = r \/ Made(n)
        BY <3>1, <4>1 DEF Made
      <4> QED BY <4>1, <4>2, <1>3, <1>4
    <3>3. Writes(setReq'[r]) => Made(setReq[r].node)'
      BY <3>1, <3>2 DEF OnlyRequest, Writes, Made
    <3>4. SetReqOK(r) /\ Open(setReq, r)
      BY UnderWayIsPut DEF OnlyRequest
    <3> QED BY <2>1, <3>3, <3>4 DEF OnlyRequest, SetReqOK
  <2>2. CASE q # r
    <3>1. PICK n : n = setReq[q].node
      OBVIOUS
    <3>2. setReq'[q] = setReq[q] /\ SetReqOK(q) /\ doc' = doc
      BY <2>2 DEF SettingsInv, SetTypes, OnlyRequest
    <3>3. Writes(setReq[q]) => Made(n)'
      BY <3>1, <3>2, <1>3 DEF SetReqOK
    <3>4. Writes(setReq'[q]) => Made(setReq[q].node)'
      BY <3>1, <3>2, <3>3 DEF Made
    <3> QED BY <3>2, <3>4 DEF SetReqOK, Open
  <2> QED BY <2>1, <2>2
<1>6. setFile' # NoNode => Made(setFile)'
  <2>1. PICK n : n = setFile'
    OBVIOUS
  <2>2. n # NoNode => Made(n)
    BY <2>1 DEF SettingsInv, SetTypes
  <2> QED BY <2>1, <2>2, <1>3 DEF Made
<1>7. setTmp' # NoNode => Made(setTmp)'
  <2>1. PICK n : n = setTmp'
    OBVIOUS
  <2>2. n # NoNode => Made(n) \/ (n = r /\ at = "write")
    BY <2>1 DEF SettingsInv, SetTypes
  <2>3. n # NoNode => Made(n)'
    BY <2>2, <1>3, <1>4
  <2> QED BY <2>1, <2>3 DEF Made
<1> QED BY <1>5, <1>6, <1>7 DEF SetTypes, OnlyRequest

\* Another update that is under way is not alone, and stays so.
LEMMA OthersAfter ==
  ASSUME SettingsInv, NEW r \in Requests, NEW at \in {"open", "write", "replace", "done"},
         OnlyRequest(r, at), NEW q \in Requests, q # r,
         setRaced /\ ~setReq[r].lone => setRaced',
         StoredKey' = StoredKey \/ doc = "provider"
           \/ (doc # "provider" /\ LoggedOK'),
         setRaced => (StoredKey' = StoredKey \/ LoggedOK')
  PROVE  SoleOK(q)'
<1> SUFFICES ASSUME Open(setReq, q)' PROVE SoleOK(q)'
  BY DEF SoleOK
<1>1. Open(setReq, q) /\ Open(setReq, r) /\ setReq'[q] = setReq[q] /\ doc' = doc
  BY OnlyRequestKeeps DEF OnlyRequest, Open
<1>2. ~Sole(q) /\ ~Sole(r)
  BY <1>1 DEF SettingsInv, SoleOK
<1>3. ~Sole(q)' /\ setRaced'
  BY <1>1, <1>2 DEF Sole
<1>4. (setReq[q].at # "read" /\ doc # "provider") =>
        setReq[q].payload.key = "" /\ setReq[q].sentKey = NoKey /\ StoredKey = ""
  BY <1>1, UnderWayIsPut, NoStoredKey DEF SetReqOK, SettingsInv
<1>5. (setReq[q].at # "read" /\ doc # "provider") => setReq[q].payload.key = NextKey(StoredKey', setReq[q].sentKey)
  <2>1. SUFFICES ASSUME doc # "provider", setReq[q].at # "read" PROVE StoredKey' = ""
    BY <1>4 DEF NextKey
  <2>2. LoggedOK' => StoredKey' = ""
    BY <2>1, <1>1 DEF LoggedOK, StoredKey
  <2> QED BY <2>1, <2>2, <1>4
<1> QED BY <1>1, <1>3, <1>5 DEF SoleOK

\* The provider's update has read the key it may have to keep.
LEMMA ReadStep ==
  ASSUME SettingsInv, NEW r \in Requests, ReadCurrent(r)
  PROVE  SettingsInv'
<1>1. /\ setReq[r].at = "read" /\ Open(setReq, r)
      /\ UNCHANGED <<doc, setFile, setTmp, node, setLog, setRaced>>
  BY DEF ReadCurrent, Open
<1>2. IsPut(setReq[r]) /\ SetReqOK(r) /\ doc = "provider"
  BY <1>1, UnderWayIsPut DEF SetReqOK
<1>3. PICK at \in {"open", "done"} :
        /\ OnlyRequest(r, at)
        /\ at = "open" => /\ Readable(OnDisk)
                          /\ setReq'[r].payload.key = NextKey(ReadJson(OnDisk).key, setReq[r].sentKey)
  <2>1. CASE Readable(OnDisk)
    <3>1. setReq' = [setReq EXCEPT ![r].at = "open",
            ![r].payload.key = NextKey(ReadJson(OnDisk).key, setReq[r].sentKey)]
      BY <2>1 DEF ReadCurrent
    <3> QED BY <2>1, <3>1, <1>1, <1>2 DEF SettingsInv, SetTypes, OnlyRequest, IsPut, PutFields
  <2>2. CASE ~Readable(OnDisk)
    <3>1. setReq' = [setReq EXCEPT ![r] = [setReq[r] EXCEPT !.at = "done", !.answer = "400"]]
      BY <2>2 DEF ReadCurrent, Settle, Done
    <3> QED BY <3>1, <1>1, <1>2 DEF SettingsInv, SetTypes, OnlyRequest, IsPut, PutFields
  <2> QED BY <2>1, <2>2
<1>4. LoggedOK' /\ StoredKey' = StoredKey /\ LeftOnDisk' = LeftOnDisk
  BY <1>1, <1>3, OnlyRequestKeeps
<1>5. SetTypes'
  BY <1>1, <1>3, OnlyRequestTypes DEF SettingsInv, SetTypes
<1>6. TmpHasOwner'
  BY <1>1, <1>3 DEF SettingsInv, TmpHasOwner, OnlyRequest
<1>7. SettingsKept'
  BY <1>1, <1>4, KeptMeans DEF SettingsInv, OnDisk
<1>8. ASSUME NEW q \in Requests PROVE SoleOK(q)'
  <2>1. CASE q = r
    <3>1. ~setRaced => ReadJson(OnDisk).key = StoredKey
      <4> SUFFICES ASSUME ~setRaced PROVE ReadJson(OnDisk).key = StoredKey
        OBVIOUS
      <4>1. OnDisk = LeftOnDisk
        BY KeptMeans DEF SettingsInv
      <4>2. CASE setLog = <<>>
        <5>1. ReadJson(OnDisk).key = ""
          BY <4>1, <4>2 DEF LeftOnDisk, ReadJson, DefaultPayload
        <5>2. DOMAIN setLog = {}
          BY <4>2, EmptySeq
        <5> QED BY <5>1, <5>2 DEF StoredKey
      <4>3. CASE setLog # <<>>
        <5>1. OnDisk.data.key = StoredKey /\ OnDisk # NoFile
          BY <4>1, <4>3 DEF LeftOnDisk, Whole, NoFile
        <5> QED BY <5>1 DEF ReadJson
      <4> QED BY <4>2, <4>3
    <3>2. \A p \in Requests : Open(setReq, p)' => Open(setReq, p)
      BY <1>3, OnlyRequestKeeps
    <3>3. Sole(r)' => Sole(r)
      BY <1>1, <1>3 DEF Sole, OnlyRequest
    <3>4. Open(setReq, r)' => setReq'[r].at = "open"
      BY <1>3 DEF OnlyRequest, Open
    <3> QED BY <2>1, <3>1, <3>2, <3>3, <3>4, <1>1, <1>2, <1>3, <1>4 DEF SettingsInv, SoleOK, OnlyRequest, Writes
  <2>2. CASE q # r
    BY <2>2, <1>1, <1>3, <1>4, OthersAfter
  <2> QED BY <2>1, <2>2
<1> QED BY <1>4, <1>5, <1>6, <1>7, <1>8 DEF SettingsInv

\* An update that is refused
LEMMA RefusedStep ==
  ASSUME SettingsInv, NEW r \in Requests, RefusedAsTooLarge(r)
  PROVE  SettingsInv'
<1>1. /\ setReq[r].at = "open" /\ Open(setReq, r)
      /\ UNCHANGED <<doc, setFile, setTmp, node, setLog, setRaced>>
  BY DEF RefusedAsTooLarge, Open
<1>2. IsPut(setReq[r])
  BY <1>1, UnderWayIsPut
<1>3. OnlyRequest(r, "done")
  <2>1. setReq' = [setReq EXCEPT ![r] = [setReq[r] EXCEPT !.at = "done", !.answer = "400"]]
    BY DEF RefusedAsTooLarge, Settle, Done
  <2> QED BY <2>1, <1>1, <1>2 DEF SettingsInv, SetTypes, OnlyRequest, IsPut, PutFields
<1>4. LoggedOK' /\ StoredKey' = StoredKey /\ LeftOnDisk' = LeftOnDisk
  BY <1>1, <1>3, OnlyRequestKeeps
<1>5. SetTypes'
  BY <1>1, <1>3, OnlyRequestTypes DEF SettingsInv, SetTypes
<1>6. TmpHasOwner'
  BY <1>1, <1>3 DEF SettingsInv, TmpHasOwner, OnlyRequest
<1>7. SettingsKept'
  BY <1>1, <1>4, KeptMeans DEF SettingsInv, OnDisk
<1>8. ASSUME NEW q \in Requests PROVE SoleOK(q)'
  <2>1. CASE q = r
    BY <2>1, <1>3, OnlyRequestKeeps DEF SoleOK
  <2>2. CASE q # r
    BY <2>2, <1>1, <1>3, <1>4, OthersAfter
  <2> QED BY <2>1, <2>2
<1> QED BY <1>4, <1>5, <1>6, <1>7, <1>8 DEF SettingsInv

\* Who is alone finds no temporary file.
LEMMA TmpIsFree ==
  ASSUME SettingsInv, NEW r \in Requests, Open(setReq, r), Sole(r), ~Writes(setReq[r])
  PROVE  setTmp = NoNode
<1> SUFFICES ASSUME setTmp # NoNode PROVE FALSE
  OBVIOUS
<1>1. PICK q \in Requests : setReq[q].at \in {"write", "replace"}
  BY DEF SettingsInv, TmpHasOwner
<1>2. Open(setReq, q)
  BY <1>1 DEF Open
<1>3. q = r
  BY <1>2 DEF SettingsInv, SoleOK
<1> QED BY <1>1, <1>3 DEF Writes

\* The temporary file is opened, or made.
LEMMA OpenStep ==
  ASSUME SettingsInv, NEW r \in Requests, OpenTmp(r)
  PROVE  SettingsInv'
<1> DEFINE n == IF setTmp = NoNode THEN r ELSE setTmp
<1>1. /\ setReq[r].at = "open" /\ Open(setReq, r)
      /\ UNCHANGED <<doc, setFile, setLog, setRaced>>
      /\ setTmp' = n /\ node' = [node EXCEPT ![n] = Empty]
      /\ setReq' = [setReq EXCEPT ![r].at = "write", ![r].node = n]
  BY DEF OpenTmp, Open
<1>2. IsPut(setReq[r])
  BY <1>1, UnderWayIsPut
<1>3. n = r \/ Made(n)
  BY DEF SettingsInv, SetTypes
<1> HIDE DEF n
<1>4. OnlyRequest(r, "write") /\ setReq'[r].node = n /\ setReq'[r].payload = setReq[r].payload
  BY <1>1, <1>2 DEF SettingsInv, SetTypes, OnlyRequest, IsPut, PutFields
<1>5. LoggedOK' /\ StoredKey' = StoredKey /\ LeftOnDisk' = LeftOnDisk
  BY <1>1, <1>4, OnlyRequestKeeps
<1>6. n \in Requests /\ n # NoNode
  BY <1>3, SettingsAssumption DEF Made, NoNode
<1>7. SetTypes'
  <2>1. node' = [x \in Requests |-> node'[x]]
    BY <1>1 DEF SettingsInv, SetTypes
  <2>2. setTmp' \in {setTmp, NoNode} \/ setTmp' = r
    BY <1>1 DEF n
  <2> QED BY <2>1, <2>2, <1>1, <1>3, <1>4, OnlyRequestTypes DEF SettingsInv, SetTypes
<1>8. TmpHasOwner'
  BY <1>1, <1>4 DEF TmpHasOwner, OnlyRequest
<1>9. Sole(r) => setTmp = NoNode /\ n = r /\ setFile # r
  <2>1. ~Writes(setReq[r])
    BY <1>1 DEF Writes
  <2>2. setFile # r
    BY <1>1, SettingsAssumption DEF SettingsInv, SetTypes, Made, Writes, NoNode
  <2> QED BY <2>1, <2>2, <1>1, TmpIsFree DEF n
<1>10. SettingsKept'
  <2>1. ~setRaced => OnDisk' = OnDisk
    <3>1. ~setRaced => setFile # n
      BY <1>9 DEF Sole
    <3>2. setFile # NoNode => setFile \in Requests
      BY DEF SettingsInv, SetTypes, Made
    <3> QED BY <3>1, <3>2, <1>1 DEF SettingsInv, SetTypes, OnDisk
  <2> QED BY <2>1, <1>1, <1>5, KeptMeans DEF SettingsInv
<1>11. ASSUME NEW q \in Requests PROVE SoleOK(q)'
  <2>1. CASE q = r
    <3>1. \A p \in Requests : Open(setReq, p)' => Open(setReq, p)
      BY <1>4, OnlyRequestKeeps
    <3>2. Sole(r)' => Sole(r)
      BY <1>1, <1>4 DEF Sole, OnlyRequest
    <3>3. node'[n] = Empty
      BY <1>1, <1>6 DEF SettingsInv, SetTypes
    <3>4. setReq'[r].at = "write"
      BY <1>4 DEF OnlyRequest
    <3>5. Sole(r)' => setTmp' = setReq'[r].node /\ setTmp' # setFile' /\ node'[setTmp'] = Empty
      BY <3>2, <3>3, <1>1, <1>4, <1>9
    <3>6. Sole(r) => \A p \in Requests : Open(setReq, p) => p = r
      BY <1>1 DEF SettingsInv, SoleOK
    <3>7. (~setRaced \/ doc # "provider") => setReq'[r].payload.key = NextKey(StoredKey, setReq'[r].sentKey)
      BY <1>1, <1>4 DEF SettingsInv, SoleOK, OnlyRequest
    <3> QED BY <2>1, <3>1, <3>2, <3>4, <3>5, <3>6, <3>7, <1>1, <1>4, <1>5 DEF SoleOK, OnlyRequest
  <2>2. CASE q # r
    BY <2>2, <1>1, <1>4, <1>5, OthersAfter
  <2> QED BY <2>1, <2>2
<1> QED BY <1>5, <1>7, <1>8, <1>10, <1>11 DEF SettingsInv

\* The document is written to the temporary file.
LEMMA WriteStep ==
  ASSUME SettingsInv, NEW r \in Requests, WriteTmp(r)
  PROVE  SettingsInv'
<1> DEFINE n == setReq[r].node
<1>1. PICK c \in WrittenOver(node[n], setReq[r].payload) : node' = [node EXCEPT ![n] = c]
  BY DEF WriteTmp
<1>2. /\ setReq[r].at = "write" /\ Open(setReq, r)
      /\ UNCHANGED <<doc, setFile, setTmp, setLog, setRaced>>
      /\ setReq' = [setReq EXCEPT ![r].at = "replace"]
  BY DEF WriteTmp, Open
<1>3. IsPut(setReq[r]) /\ Made(n)
  BY <1>2, UnderWayIsPut DEF SetReqOK, Writes
<1>4. OnlyRequest(r, "replace") /\ setReq'[r].node = n /\ setReq'[r].payload = setReq[r].payload
  BY <1>2, <1>3 DEF SettingsInv, SetTypes, OnlyRequest, IsPut, PutFields
<1>5. n \in Requests
  BY <1>3 DEF Made
<1>6. Sole(r) => n = setTmp /\ setTmp # setFile /\ c = Whole(setReq[r].payload)
  BY <1>2 DEF SettingsInv, SoleOK, Writes, WrittenOver
<1> HIDE DEF n
<1>7. LoggedOK' /\ StoredKey' = StoredKey /\ LeftOnDisk' = LeftOnDisk
  BY <1>2, <1>4, OnlyRequestKeeps
<1>8. SetTypes'
  <2>1. node' = [x \in Requests |-> node'[x]]
    BY <1>1 DEF SettingsInv, SetTypes
  <2>2. setReq'[r].node = r \/ Made(setReq'[r].node)
    <3>1. PICK x : x = setReq'[r].node
      OBVIOUS
    <3> QED BY <3>1, <1>3, <1>4 DEF Made
  <2> QED BY <2>1, <2>2, <1>2, <1>4, OnlyRequestTypes DEF SettingsInv, SetTypes
<1>9. TmpHasOwner'
  BY <1>2, <1>4 DEF SettingsInv, TmpHasOwner, OnlyRequest, n
<1>10. SettingsKept'
  <2>1. ~setRaced => OnDisk' = OnDisk
    <3>1. ~setRaced => setFile # n
      BY <1>6 DEF Sole
    <3>2. setFile # NoNode => setFile \in Requests
      BY DEF SettingsInv, SetTypes, Made
    <3> QED BY <3>1, <3>2, <1>1, <1>2 DEF SettingsInv, SetTypes, OnDisk
  <2> QED BY <2>1, <1>2, <1>7, KeptMeans DEF SettingsInv
<1>11. ASSUME NEW q \in Requests PROVE SoleOK(q)'
  <2>1. CASE q = r
    <3>1. \A p \in Requests : Open(setReq, p)' => Open(setReq, p)
      BY <1>4, OnlyRequestKeeps
    <3>2. Sole(r)' => Sole(r)
      BY <1>2, <1>4 DEF Sole, OnlyRequest
    <3>3. node'[n] = c
      BY <1>1, <1>5 DEF SettingsInv, SetTypes
    <3>4. setReq'[r].at = "replace"
      BY <1>4 DEF OnlyRequest
    <3>5. Sole(r)' => /\ setTmp' = setReq'[r].node /\ setTmp' # setFile'
                      /\ node'[setTmp'] = Whole(setReq'[r].payload)
      BY <3>2, <3>3, <1>2, <1>4, <1>6
    <3>6. Sole(r) => \A p \in Requests : Open(setReq, p) => p = r
      BY <1>2 DEF SettingsInv, SoleOK
    <3>7. (~setRaced \/ doc # "provider") => setReq'[r].payload.key = NextKey(StoredKey, setReq'[r].sentKey)
      BY <1>2, <1>4 DEF SettingsInv, SoleOK, OnlyRequest
    <3> QED BY <2>1, <3>1, <3>2, <3>4, <3>5, <3>6, <3>7, <1>2, <1>4, <1>7 DEF SoleOK, OnlyRequest
  <2>2. CASE q # r
    BY <2>2, <1>2, <1>4, <1>7, OthersAfter
  <2> QED BY <2>1, <2>2
<1> QED BY <1>7, <1>8, <1>9, <1>10, <1>11 DEF SettingsInv

\* The log after a finished update
LEMMA LogAppended ==
  ASSUME LoggedOK, NEW r \in Requests, setLog' = Append(setLog, r), doc' = doc,
         \A q \in Requests : q # r => setReq'[q] = setReq[q],
         setReq[r].at # "done", setReq'[r].at = "done", IsPut(setReq'[r]),
         doc # "provider" => setReq'[r].sentKey = NoKey
  PROVE  /\ LoggedOK' /\ StoredKey' = NextKey(StoredKey, setReq'[r].sentKey)
         /\ LeftOnDisk' = Whole([value |-> setReq'[r].payload.value, key |-> StoredKey'])
<1> DEFINE n == Len(setLog)
           keyed == {i \in DOMAIN setLog : setReq[setLog[i]].sentKey # NoKey}
           keyedNext == {i \in DOMAIN setLog' : setReq'[setLog'[i]].sentKey # NoKey}
<1>1. /\ n \in Nat /\ DOMAIN setLog = 1 .. n /\ setLog \in Seq(Requests)
      /\ setLog' \in Seq(Requests) /\ Len(setLog') = n + 1 /\ DOMAIN setLog' = 1 .. n + 1
      /\ setLog'[n + 1] = r /\ \A i \in 1 .. n : setLog'[i] = setLog[i]
  BY DEF LoggedOK
<1>2. \A i \in 1 .. n : setReq'[setLog'[i]] = setReq[setLog[i]]
  <2> TAKE i \in 1 .. n
  <2>1. setLog[i] \in Requests /\ setReq[setLog[i]].at = "done"
    BY <1>1 DEF LoggedOK
  <2> QED BY <2>1, <1>1
<1>3. LoggedOK'
  <2>1. ASSUME NEW i \in DOMAIN setLog'
        PROVE  /\ IsPut(setReq'[setLog'[i]]) /\ setReq'[setLog'[i]].at = "done"
               /\ doc # "provider" => setReq'[setLog'[i]].sentKey = NoKey
    <3>1. CASE i = n + 1
      BY <3>1, <1>1
    <3>2. CASE i # n + 1
      <4>1. i \in 1 .. n
        BY <3>2, <1>1
      <4> QED BY <4>1, <1>1, <1>2 DEF LoggedOK
    <3> QED BY <3>1, <3>2
  <2> QED BY <2>1, <1>1 DEF LoggedOK
<1>4. keyedNext = IF setReq'[r].sentKey = NoKey THEN keyed ELSE keyed \cup {n + 1}
  <2>1. \A i \in 1 .. n + 1 : i \in 1 .. n \/ i = n + 1
    BY <1>1
  <2>2. \A i \in 1 .. n : i \in 1 .. n + 1 /\ i # n + 1
    BY <1>1
  <2>3. n + 1 \in 1 .. n + 1
    BY <1>1
  <2> QED BY <1>1, <1>2, <2>1, <2>2, <2>3
<1>5. StoredKey = IF keyed = {} THEN "" ELSE setReq[setLog[Max(keyed)]].sentKey
  BY DEF StoredKey
<1>6. StoredKey' = IF keyedNext = {} THEN "" ELSE setReq'[setLog'[Max(keyedNext)]].sentKey
  BY DEF StoredKey
<1>7. keyed \in SUBSET (0 .. n + 1) /\ keyed \in SUBSET (0 .. n) /\ keyed \subseteq 1 .. n
  BY <1>1
<1> HIDE DEF keyed, keyedNext
<1>8. StoredKey' = NextKey(StoredKey, setReq'[r].sentKey)
  <2>1. CASE setReq'[r].sentKey # NoKey
    <3>1. keyedNext = keyed \cup {n + 1}
      BY <2>1, <1>4
    <3>2. Max(keyedNext) = n + 1
      <4>1. n + 1 \in Nat /\ keyed \subseteq 0 .. n + 1
        BY <1>1, <1>7
      <4> QED BY <3>1, <4>1, GreatestAdded
    <3> QED BY <3>1, <3>2, <2>1, <1>1, <1>6 DEF NextKey
  <2>2. CASE setReq'[r].sentKey = NoKey /\ keyed # {}
    <3>1. Max(keyed) \in keyed
      BY <2>2, <1>1, <1>7, GreatestOf
    <3> QED BY <3>1, <2>2, <1>2, <1>4, <1>5, <1>6, <1>7 DEF NextKey
  <2>3. CASE setReq'[r].sentKey = NoKey /\ keyed = {}
    BY <2>3, <1>4, <1>5, <1>6 DEF NextKey
  <2> QED BY <2>1, <2>2, <2>3
<1>9. LeftOnDisk' = Whole([value |-> setReq'[r].payload.value, key |-> StoredKey'])
  <2>1. setLog' # <<>>
    BY <1>1, EmptySeq
  <2> QED BY <2>1, <1>1 DEF LeftOnDisk
<1> QED BY <1>3, <1>8, <1>9

\* The temporary file gets the name of the document.
LEMMA ReplaceStep ==
  ASSUME SettingsInv, NEW r \in Requests, ReplaceFile(r)
  PROVE  SettingsInv'
<1> DEFINE status == IF setTmp = NoNode THEN "404" ELSE "200"
<1>1. /\ setReq[r].at = "replace" /\ Open(setReq, r)
      /\ UNCHANGED <<doc, node>>
      /\ setReq' = [setReq EXCEPT ![r] = [setReq[r] EXCEPT !.at = "done", !.answer = status]]
  BY DEF ReplaceFile, Open, Settle, Done
<1>2. IsPut(setReq[r]) /\ SetReqOK(r)
  BY <1>1, UnderWayIsPut
<1> HIDE DEF status
<1>3. OnlyRequest(r, "done") /\ setReq'[r].payload = setReq[r].payload
  BY <1>1, <1>2 DEF SettingsInv, SetTypes, OnlyRequest, IsPut, PutFields
<1>4. \A q \in Requests : Open(setReq, q)' => Open(setReq, q) /\ q # r
  BY <1>3, OnlyRequestKeeps
<1>5. Sole(r) => /\ \A q \in Requests : Open(setReq, q) => q = r
                 /\ setTmp = setReq[r].node /\ setTmp # NoNode
                 /\ node[setTmp] = Whole(setReq[r].payload)
  <2>1. setReq[r].node # NoNode
    <3>1. PICK n : n = setReq[r].node
      OBVIOUS
    <3>2. Made(n)
      BY <3>1, <1>1, <1>2 DEF SetReqOK, Writes
    <3> QED BY <3>1, <3>2, SettingsAssumption DEF Made, NoNode
  <2> QED BY <2>1, <1>1 DEF SettingsInv, SoleOK, Writes
<1>6. CASE setTmp = NoNode
  <2>1. UNCHANGED <<setFile, setTmp, setLog, setRaced>>
    BY <1>6 DEF ReplaceFile
  <2>2. LoggedOK' /\ StoredKey' = StoredKey /\ LeftOnDisk' = LeftOnDisk
    BY <2>1, <1>3, OnlyRequestKeeps
  <2>3. SetTypes'
    BY <2>1, <1>1, <1>3, OnlyRequestTypes DEF SettingsInv, SetTypes
  <2>4. TmpHasOwner'
    BY <2>1, <1>6 DEF TmpHasOwner
  <2>5. SettingsKept'
    BY <2>1, <2>2, <1>1, KeptMeans DEF SettingsInv, OnDisk
  <2>6. ASSUME NEW q \in Requests PROVE SoleOK(q)'
    <3>1. CASE q = r
      BY <3>1, <1>4 DEF SoleOK
    <3>2. CASE q # r
      BY <3>2, <2>1, <1>3, <2>2, OthersAfter
    <3> QED BY <3>1, <3>2
  <2> QED BY <2>2, <2>3, <2>4, <2>5, <2>6 DEF SettingsInv
<1>7. CASE setTmp # NoNode
  <2>1. /\ setFile' = setTmp /\ setTmp' = NoNode /\ setLog' = Append(setLog, r)
        /\ setRaced' = (setRaced /\ ~(setReq[r].lone /\ doc # "provider"))
    BY <1>7 DEF ReplaceFile
  <2>2. doc # "provider" => setReq'[r].sentKey = NoKey
    BY <1>1, <1>2, <1>3 DEF OnlyRequest, SetReqOK
  <2>3. /\ LoggedOK' /\ StoredKey' = NextKey(StoredKey, setReq'[r].sentKey)
        /\ LeftOnDisk' = Whole([value |-> setReq'[r].payload.value, key |-> StoredKey'])
    BY <2>1, <2>2, <1>1, <1>3, LogAppended DEF SettingsInv, OnlyRequest
  <2>4. SetTypes'
    BY <2>1, <1>1, <1>3, OnlyRequestTypes DEF SettingsInv, SetTypes
  <2>5. TmpHasOwner'
    BY <2>1 DEF TmpHasOwner
  <2>6. SettingsKept'
    <3>1. SUFFICES ASSUME ~setRaced' PROVE OnDisk' = LeftOnDisk'
      BY KeptMeans
    <3>2. Sole(r) /\ (~setRaced \/ doc # "provider")
      BY <3>1, <2>1 DEF Sole
    <3>3. setReq[r].payload.key = NextKey(StoredKey, setReq[r].sentKey)
      BY <3>2, <1>1 DEF SettingsInv, SoleOK
    <3>4. OnDisk' = Whole(setReq[r].payload)
      BY <3>2, <2>1, <1>1, <1>5, <1>7 DEF OnDisk
    <3>5. setReq[r].payload = [value |-> setReq[r].payload.value, key |-> setReq[r].payload.key]
      BY <1>2 DEF IsPut
    <3> QED BY <3>3, <3>4, <3>5, <2>3, <1>3 DEF OnlyRequest
  <2>7. ASSUME NEW q \in Requests PROVE SoleOK(q)'
    <3>1. CASE q = r
      BY <3>1, <1>4 DEF SoleOK
    <3>2. CASE q # r
      <4>1. SUFFICES ASSUME Open(setReq, q)' PROVE SoleOK(q)'
        BY DEF SoleOK
      <4>2. ~Sole(r)
        BY <3>2, <4>1, <1>4, <1>5
      <4>3. StoredKey' = StoredKey \/ LoggedOK'
        BY <2>3
      <4> QED BY <3>2, <4>2, <4>3, <2>1, <1>3, OthersAfter DEF Sole
    <3> QED BY <3>1, <3>2
  <2> QED BY <2>3, <2>4, <2>5, <2>6, <2>7 DEF SettingsInv
<1> QED BY <1>6, <1>7

\* The invariant of a document holds.
LEMMA SettingsStep == SettingsInv /\ [SettingsNext]_setVars => SettingsInv'
<1> SUFFICES ASSUME SettingsInv, [SettingsNext]_setVars PROVE SettingsInv'
  OBVIOUS
<1>1. CASE UNCHANGED setVars
  <2>1. UNCHANGED <<doc, setFile, setTmp, node, setReq, setLog, setRaced>>
    BY <1>1 DEF setVars
  <2>2. LoggedOK' /\ StoredKey' = StoredKey /\ LeftOnDisk' = LeftOnDisk
    BY <2>1, LogUnchanged DEF SettingsInv
  <2>3. SetTypes'
    BY <2>1 DEF SettingsInv, SetTypes, SetReqOK, Made, Open
  <2>4. TmpHasOwner'
    BY <2>1 DEF SettingsInv, TmpHasOwner
  <2>5. SettingsKept'
    BY <2>1, <2>2, KeptMeans DEF SettingsInv, OnDisk
  <2>6. ASSUME NEW q \in Requests PROVE SoleOK(q)'
    BY <2>1, <2>2 DEF SettingsInv, SoleOK, Sole, Open
  <2> QED BY <2>2, <2>3, <2>4, <2>5, <2>6 DEF SettingsInv
<1>2. CASE SettingsNext
  <2>1. PICK r \in Requests :
          \/ \E d \in Documents : GetConfig(r, d)
          \/ \E v \in Requested, k \in Keys \cup {NoKey} : UpdateProviderConfig(r, v, k)
          \/ \E v \in Requested : \/ UpdateChannelsConfig(r, v) \/ UpdateRegistrationPolicy(r, v)
                                  \/ UpdateAppearanceConfig(r, v) \/ UpdateSystemSettings(r, v)
          \/ ReadCurrent(r) \/ RefusedAsTooLarge(r) \/ OpenTmp(r) \/ WriteTmp(r) \/ ReplaceFile(r)
    BY <1>2 DEF SettingsNext, GetProviderConfig, GetChannelsConfig, GetRegistrationPolicy,
                GetAppearanceConfig, GetSystemSettings, Documents
  <2>2. CASE \E v \in Requested, k \in Keys \cup {NoKey} : UpdateProviderConfig(r, v, k)
    BY <2>2, BeginUpdate DEF UpdateProviderConfig
  <2>3. CASE \E v \in Requested : \/ UpdateChannelsConfig(r, v) \/ UpdateRegistrationPolicy(r, v)
                                  \/ UpdateAppearanceConfig(r, v) \/ UpdateSystemSettings(r, v)
    <3>1. PICK d \in {"channels", "registration", "appearance", "system"} :
            \E v : UpdateConfig(r, d, "open", v, NoKey)
      BY <2>3 DEF UpdateChannelsConfig, UpdateRegistrationPolicy, UpdateAppearanceConfig,
                  UpdateSystemSettings
    <3> QED BY <3>1, BeginUpdate
  <2> QED BY <2>1, <2>2, <2>3, GetStep, ReadStep, RefusedStep, OpenStep, WriteStep, ReplaceStep
<1> QED BY <1>1, <1>2

-----------------------------------------------------------------------------
(* MCP servers. A change that is alone knows what the changes so far have left. *)

ChangeFields == {"op", "at", "answer", "server", "arg", "next"}
IsChange(rec) ==
  /\ rec = [f \in ChangeFields |-> rec[f]] /\ rec.op \in {"put", "patch", "delete"}
  /\ rec.server \in Servers /\ (rec.op = "patch" => rec.arg \in BOOLEAN)

McpTypes ==
  /\ mcpReq = [r \in Requests |-> mcpReq[r]]
  /\ mcpRaced \in BOOLEAN
  /\ \A r \in Requests :
       \/ mcpReq[r] = NoRequest \/ mcpReq[r].at = "done"
       \/ IsChange(mcpReq[r]) /\ mcpReq[r].at \in {"read", "open", "write"}

LivePuts(s) == {i \in Puts(s) : i > Life(s)}

PatchedOK == \A s \in Servers : Patches(s) # {} => LivePuts(s) # {}

\* The changes in the log are done, and a state is set of a server that is there.
McpLogged ==
  /\ mcpLog \in Seq(Requests)
  /\ \A i \in DOMAIN mcpLog : IsChange(mcpReq[mcpLog[i]]) /\ mcpReq[mcpLog[i]].at = "done"
  /\ ~mcpRaced => PatchedOK

\* What the changes so far have left
ServersLeft == [s \in {t \in Servers : LivePuts(t) # {}} |-> Expected(s)]

SoleChangeOK(r) ==
  (~mcpRaced /\ Open(mcpReq, r)) =>
    /\ \A q \in Requests : Open(mcpReq, q) => q = r
    /\ mcpReq[r].at = "write" => mcpFile = Empty
    /\ mcpReq[r].at \in {"open", "write"} =>
         /\ mcpReq[r].op # "put" => mcpReq[r].server \in DOMAIN ServersLeft
         /\ mcpReq[r].next = Changed(ServersLeft, r, mcpReq[r])

McpInv == McpTypes /\ McpLogged /\ ServersKept /\ \A r \in Requests : SoleChangeOK(r)

-----------------------------------------------------------------------------
\* The log after a change that succeeded
LogsChange(r) ==
  /\ mcpLog' = Append(mcpLog, r)
  /\ \A q \in Requests : q # r => mcpReq'[q] = mcpReq[q]
  /\ mcpReq[r].at # "done" /\ mcpReq'[r].at = "done"
  /\ IsChange(mcpReq[r]) /\ IsChange(mcpReq'[r])
  /\ \A f \in {"op", "server", "arg"} : mcpReq'[r][f] = mcpReq[r][f]

At(r, op, s, i) == IF mcpReq[r].op = op /\ mcpReq[r].server = s THEN {i} ELSE {}

\* Positions in the log are small numbers, and there are greatest and least ones.
LEMMA Positions ==
  ASSUME McpLogged, NEW s
  PROVE  /\ Len(mcpLog) \in Nat /\ DOMAIN mcpLog = 1 .. Len(mcpLog)
         /\ Life(s) \in 0 .. Len(mcpLog)
         /\ Puts(s) \subseteq 1 .. Len(mcpLog) /\ LivePuts(s) \subseteq Puts(s)
         /\ Patches(s) \subseteq 1 .. Len(mcpLog)
         /\ LivePuts(s) # {} => Max(LivePuts(s)) \in LivePuts(s) /\ Min(LivePuts(s)) \in LivePuts(s)
         /\ Patches(s) # {} => Max(Patches(s)) \in Patches(s)
<1> DEFINE n == Len(mcpLog)
           deletes == {i \in DOMAIN mcpLog : mcpReq[mcpLog[i]].op = "delete"
                                               /\ mcpReq[mcpLog[i]].server = s}
<1>1. n \in Nat /\ DOMAIN mcpLog = 1 .. n
  BY DEF McpLogged
<1>2. Life(s) \in 0 .. n
  <2>1. deletes \cup {0} \in SUBSET (0 .. n) /\ deletes \cup {0} # {}
    BY <1>1
  <2>2. Life(s) = Max(deletes \cup {0})
    BY DEF Life
  <2> HIDE DEF deletes, n
  <2>3. Max(deletes \cup {0}) \in deletes \cup {0}
    BY <1>1, <2>1, GreatestOf
  <2> QED BY <2>1, <2>2, <2>3
<1>3. Puts(s) \subseteq 1 .. n /\ LivePuts(s) \subseteq Puts(s) /\ Patches(s) \subseteq 1 .. n
  BY <1>1 DEF Puts, LivePuts, Patches
<1> HIDE DEF n
<1>4. ASSUME NEW S, S \subseteq 1 .. n, S # {} PROVE Max(S) \in S /\ Min(S) \in S
  <2>1. S \in SUBSET (0 .. n) /\ S \in SUBSET Nat
    BY <1>1, <1>4
  <2>2. Max(S) \in S
    BY <2>1, <1>1, <1>4, GreatestOf
  <2>3. Min(S) \in S
    BY <2>1, <1>4, LeastOf
  <2> QED BY <2>2, <2>3
<1>5. LivePuts(s) # {} => Max(LivePuts(s)) \in LivePuts(s) /\ Min(LivePuts(s)) \in LivePuts(s)
  <2>1. LivePuts(s) \subseteq 1 .. n
    BY <1>3
  <2> QED BY <2>1, <1>4
<1>6. Patches(s) # {} => Max(Patches(s)) \in Patches(s)
  BY <1>3, <1>4
<1> QED BY <1>1, <1>2, <1>3, <1>5, <1>6 DEF n

\* Where the changes are after one more
LEMMA PositionsAppended ==
  ASSUME McpLogged, NEW r \in Requests, LogsChange(r), NEW s
  PROVE  LET n == Len(mcpLog) IN
         /\ mcpLog' \in Seq(Requests) /\ DOMAIN mcpLog' = 1 .. n + 1 /\ mcpLog'[n + 1] = r
         /\ \A i \in 1 .. n : mcpLog'[i] = mcpLog[i] /\ mcpReq'[mcpLog[i]] = mcpReq[mcpLog[i]]
         /\ Puts(s)' = Puts(s) \cup At(r, "put", s, n + 1)
         /\ Life(s)' = IF At(r, "delete", s, n + 1) = {} THEN Life(s) ELSE n + 1
         /\ Patches(s)' = IF At(r, "delete", s, n + 1) = {}
                          THEN Patches(s) \cup At(r, "patch", s, n + 1) ELSE {}
         /\ LivePuts(s)' = IF At(r, "delete", s, n + 1) = {}
                           THEN LivePuts(s) \cup At(r, "put", s, n + 1) ELSE {}
<1> DEFINE n == Len(mcpLog)
           Of(op) == {i \in DOMAIN mcpLog : mcpReq[mcpLog[i]].op = op /\ mcpReq[mcpLog[i]].server = s}
           OfNext(op) == {i \in DOMAIN mcpLog' : mcpReq'[mcpLog'[i]].op = op
                                                   /\ mcpReq'[mcpLog'[i]].server = s}
<1>1. /\ n \in Nat /\ DOMAIN mcpLog = 1 .. n /\ mcpLog \in Seq(Requests)
      /\ mcpLog' \in Seq(Requests) /\ DOMAIN mcpLog' = 1 .. n + 1
      /\ mcpLog'[n + 1] = r /\ \A i \in 1 .. n : mcpLog'[i] = mcpLog[i]
  BY DEF McpLogged, LogsChange
<1>2. \A i \in 1 .. n : mcpReq'[mcpLog[i]] = mcpReq[mcpLog[i]]
  <2> TAKE i \in 1 .. n
  <2>1. mcpLog[i] \in Requests /\ mcpReq[mcpLog[i]].at = "done"
    BY <1>1 DEF McpLogged
  <2> QED BY <2>1 DEF LogsChange
<1>3. \A i \in 1 .. n + 1 : i \in 1 .. n \/ i = n + 1
  BY <1>1
<1>4. /\ \A i \in 1 .. n : i \in 1 .. n + 1 /\ i # n + 1 /\ i < n + 1
      /\ n + 1 \in 1 .. n + 1 /\ n + 1 \notin 1 .. n
  BY <1>1
<1>5. mcpReq'[r].op = mcpReq[r].op /\ mcpReq'[r].server = mcpReq[r].server
  BY DEF LogsChange
<1>6. ASSUME NEW op PROVE OfNext(op) = Of(op) \cup At(r, op, s, n + 1) /\ Of(op) \subseteq 1 .. n
  BY <1>1, <1>2, <1>3, <1>4, <1>5 DEF At
<1>7. /\ Puts(s) = Of("put") /\ Puts(s)' = OfNext("put")
      /\ Life(s) = Max(Of("delete") \cup {0}) /\ Life(s)' = Max(OfNext("delete") \cup {0})
      /\ Patches(s) = {i \in Of("patch") : i > Life(s)}
      /\ Patches(s)' = {i \in OfNext("patch") : i > Life(s)'}
      /\ LivePuts(s) = {i \in Of("put") : i > Life(s)}
      /\ LivePuts(s)' = {i \in OfNext("put") : i > Life(s)'}
  BY DEF Puts, Life, Patches, LivePuts
<1> HIDE DEF Of, OfNext, n
<1>8. Life(s) \in 0 .. n
  BY Positions DEF n
<1>9. CASE At(r, "delete", s, n + 1) = {}
  <2>1. Life(s)' = Life(s)
    BY <1>6, <1>7, <1>9
  <2>2. n + 1 > Life(s)
    BY <1>1, <1>8
  <2>3. \A op : At(r, op, s, n + 1) \subseteq {n + 1}
    BY DEF At
  <2>4. Patches(s)' = Patches(s) \cup At(r, "patch", s, n + 1)
    BY <2>1, <2>2, <2>3, <1>6, <1>7
  <2>5. LivePuts(s)' = LivePuts(s) \cup At(r, "put", s, n + 1)
    BY <2>1, <2>2, <2>3, <1>6, <1>7
  <2> QED BY <2>1, <2>4, <2>5, <1>1, <1>2, <1>6, <1>7, <1>9 DEF n
<1>10. CASE At(r, "delete", s, n + 1) # {}
  <2>1. At(r, "delete", s, n + 1) = {n + 1} /\ At(r, "put", s, n + 1) = {}
        /\ At(r, "patch", s, n + 1) = {}
    BY <1>10 DEF At
  <2>2. Life(s)' = n + 1
    <3>1. Of("delete") \cup {0} \subseteq 0 .. n + 1 /\ n + 1 \in Nat
      BY <1>1, <1>4, <1>6
    <3>2. OfNext("delete") \cup {0} = (Of("delete") \cup {0}) \cup {n + 1}
      BY <2>1, <1>6
    <3> QED BY <3>1, <3>2, <1>7, GreatestAdded
  <2>3. \A i \in 1 .. n : ~(i > n + 1)
    BY <1>1
  <2>4. Patches(s)' = {} /\ LivePuts(s)' = {}
    BY <2>1, <2>2, <2>3, <1>6, <1>7
  <2> QED BY <2>1, <2>2, <2>4, <1>1, <1>2, <1>6, <1>7, <1>10 DEF n
<1> QED BY <1>9, <1>10

\* A least element stays the least when a greater number is added.
LEMMA LeastKept ==
  ASSUME NEW k \in Nat, NEW S, S \subseteq 0 .. k, S # {}
  PROVE  Min(S \cup {k + 1}) = Min(S)
<1>1. S \in SUBSET Nat /\ S \cup {k + 1} \in SUBSET Nat
  OBVIOUS
<1>2. PICK a : a = Min(S)
  OBVIOUS
<1>3. PICK b : b = Min(S \cup {k + 1})
  OBVIOUS
<1>4. a \in S /\ \A y \in S : a <= y
  BY <1>1, <1>2, LeastOf
<1>5. b \in S \cup {k + 1} /\ \A y \in S \cup {k + 1} : b <= y
  BY <1>1, <1>3, LeastOf
<1>6. a \in Nat /\ a < k + 1 /\ b \in Nat
  BY <1>1, <1>4, <1>5
<1>7. b <= a /\ (b \in S => a <= b)
  BY <1>4, <1>5
<1>8. b # k + 1
  BY <1>6, <1>7
<1> QED BY <1>2, <1>3, <1>5, <1>6, <1>7, <1>8

\* What a change makes of the servers
LEMMA ChangedIs ==
  ASSUME NEW servers, NEW r, NEW rec
  PROVE  /\ rec.op = "put" =>
              Changed(servers, r, rec) = Upserted(servers, r, rec.server, rec.arg)
         /\ rec.op = "patch" => Changed(servers, r, rec) = StateSet(servers, rec.server, rec.arg)
         /\ rec.op = "delete" => Changed(servers, r, rec) = Deleted(servers, rec.server)
BY DEF Changed

\* ... depends on what it is told only.
LEMMA ChangedSame ==
  ASSUME NEW servers, NEW r, NEW rec, NEW new, rec.op \in {"put", "patch", "delete"},
         new.op = rec.op, new.server = rec.server, new.arg = rec.arg
  PROVE  Changed(servers, r, new) = Changed(servers, r, rec)
BY ChangedIs

\* An entry whose state is set
LEMMA EntrySet ==
  ASSUME NEW e, e = [config |-> e.config, enabled |-> e.enabled, created |-> e.created], NEW x
  PROVE  [e EXCEPT !.enabled = x] = [config |-> e.config, enabled |-> x, created |-> e.created]
OBVIOUS

\* A server whose state is set
LEMMA StateSetIs ==
  ASSUME NEW D, NEW servers, servers = [t \in D |-> servers[t]], NEW s \in D, NEW x,
         NEW new, new = [servers[s] EXCEPT !.enabled = x]
  PROVE  StateSet(servers, s, x) = [t \in D |-> IF t = s THEN new ELSE servers[t]]
BY DEF StateSet

\* The entry of a server
LEMMA LeftEntry ==
  ASSUME NEW s \in DOMAIN ServersLeft
  PROVE  /\ s \in Servers /\ LivePuts(s) # {} /\ ServersLeft[s] = Expected(s)
         /\ ServersLeft[s].config = mcpReq[mcpLog[Max(LivePuts(s))]].arg
         /\ ServersLeft[s].created = mcpLog[Min(LivePuts(s))]
         /\ ServersLeft[s].enabled =
              IF Patches(s) = {} THEN TRUE ELSE mcpReq[mcpLog[Max(Patches(s))]].arg
         /\ ServersLeft[s] = [config |-> ServersLeft[s].config, enabled |-> ServersLeft[s].enabled,
                              created |-> ServersLeft[s].created]
<1>1. s \in Servers /\ LivePuts(s) # {} /\ ServersLeft[s] = Expected(s)
  BY DEF ServersLeft
<1>2. PICK c, e, f : /\ c = mcpReq[mcpLog[Max(LivePuts(s))]].arg
                     /\ f = mcpLog[Min(LivePuts(s))]
                     /\ e = IF Patches(s) = {} THEN TRUE ELSE mcpReq[mcpLog[Max(Patches(s))]].arg
  OBVIOUS
<1>3. Expected(s) = [config |-> c, enabled |-> e, created |-> f]
  <2>1. Expected(s) = [config |-> mcpReq[mcpLog[Max(LivePuts(s))]].arg,
                       enabled |-> IF Patches(s) = {} THEN TRUE
                                   ELSE mcpReq[mcpLog[Max(Patches(s))]].arg,
                       created |-> mcpLog[Min(LivePuts(s))]]
    BY DEF Expected, LivePuts
  <2> QED BY <2>1, <1>2
<1>4. PICK x : x = ServersLeft[s]
  OBVIOUS
<1>5. x = [config |-> c, enabled |-> e, created |-> f]
  BY <1>1, <1>3, <1>4
<1>6. /\ x.config = c /\ x.created = f /\ x.enabled = e
      /\ x = [config |-> x.config, enabled |-> x.enabled, created |-> x.created]
  BY <1>5
<1> QED BY <1>1, <1>2, <1>4, <1>6

\* What a change that succeeds leaves of the servers
LEMMA LeftAppended ==
  ASSUME McpLogged, PatchedOK, NEW r \in Requests, LogsChange(r),
         mcpReq[r].op # "put" => mcpReq[r].server \in DOMAIN ServersLeft
  PROVE  PatchedOK' /\ ServersLeft' = Changed(ServersLeft, r, mcpReq[r])
<1> DEFINE n == Len(mcpLog)
<1>0. PICK s0, op0, arg0 : s0 = mcpReq[r].server /\ op0 = mcpReq[r].op /\ arg0 = mcpReq[r].arg
  OBVIOUS
<1>1. /\ n \in Nat /\ DOMAIN mcpLog = 1 .. n /\ DOMAIN mcpLog' = 1 .. n + 1 /\ mcpLog'[n + 1] = r
      /\ \A i \in 1 .. n : mcpLog'[i] = mcpLog[i] /\ mcpReq'[mcpLog[i]] = mcpReq[mcpLog[i]]
  BY Positions, PositionsAppended
<1>2. /\ s0 \in Servers /\ op0 \in {"put", "patch", "delete"}
      /\ mcpReq'[r].op = op0 /\ mcpReq'[r].server = s0 /\ mcpReq'[r].arg = arg0
  BY <1>0 DEF LogsChange, IsChange
<1>3. ASSUME NEW s
      PROVE  /\ Patches(s) \subseteq 1 .. n /\ LivePuts(s) \subseteq 1 .. n
             /\ LivePuts(s) # {} => Max(LivePuts(s)) \in LivePuts(s) /\ Min(LivePuts(s)) \in LivePuts(s)
             /\ Patches(s) # {} => Max(Patches(s)) \in Patches(s)
  BY Positions
<1>4. ASSUME NEW s
      PROVE  /\ Patches(s)' = IF s = s0 /\ op0 = "delete" THEN {}
                              ELSE Patches(s) \cup (IF s = s0 /\ op0 = "patch" THEN {n + 1} ELSE {})
             /\ LivePuts(s)' = IF s = s0 /\ op0 = "delete" THEN {}
                               ELSE LivePuts(s) \cup (IF s = s0 /\ op0 = "put" THEN {n + 1} ELSE {})
  BY <1>0, PositionsAppended DEF At
<1>5. PatchedOK'
  <2>1. ASSUME NEW s \in Servers, Patches(s)' # {} PROVE LivePuts(s)' # {}
    <3>1. s = s0 /\ op0 = "patch" => LivePuts(s) # {}
      BY <1>0 DEF ServersLeft
    <3> QED BY <2>1, <3>1, <1>4 DEF PatchedOK
  <2> QED BY <2>1 DEF PatchedOK
<1>6. ASSUME NEW s \in Servers, s # s0, LivePuts(s) # {} PROVE Expected(s)' = Expected(s)
  <2>1. Patches(s)' = Patches(s) /\ LivePuts(s)' = LivePuts(s)
    BY <1>4, <1>6
  <2>2. /\ mcpReq'[mcpLog'[Max(LivePuts(s))]].arg = mcpReq[mcpLog[Max(LivePuts(s))]].arg
        /\ mcpLog'[Min(LivePuts(s))] = mcpLog[Min(LivePuts(s))]
        /\ Patches(s) # {} =>
             mcpReq'[mcpLog'[Max(Patches(s))]].arg = mcpReq[mcpLog[Max(Patches(s))]].arg
    BY <1>1, <1>3, <1>6
  <2> QED BY <2>1, <2>2 DEF Expected, LivePuts
<1>7. /\ DOMAIN ServersLeft = {t \in Servers : LivePuts(t) # {}}
      /\ \A s \in DOMAIN ServersLeft : ServersLeft[s] = Expected(s)
      /\ ServersLeft' = [s \in {t \in Servers : LivePuts(t)' # {}} |-> Expected(s)']
  BY DEF ServersLeft
<1>8. CASE op0 = "put"
  <2>1. {t \in Servers : LivePuts(t)' # {}} = DOMAIN ServersLeft \cup {s0}
    <3>1. ASSUME NEW t \in Servers PROVE LivePuts(t)' # {} <=> t \in DOMAIN ServersLeft \cup {s0}
      BY <1>4, <1>7, <1>8
    <3> QED BY <3>1, <1>2, <1>7
  <2>2. LivePuts(s0)' = LivePuts(s0) \cup {n + 1} /\ Patches(s0)' = Patches(s0)
    BY <1>4, <1>8
  <2>3. LivePuts(s0) \subseteq 0 .. n /\ LivePuts(s0) \subseteq 0 .. n + 1 /\ n + 1 \in Nat
    BY <1>1, <1>3
  <2>4. Max(LivePuts(s0)') = n + 1
    BY <2>2, <2>3, GreatestAdded
  <2>5. Min(LivePuts(s0)') = IF LivePuts(s0) = {} THEN n + 1 ELSE Min(LivePuts(s0))
    <3>1. CASE LivePuts(s0) = {}
      <4>1. LivePuts(s0)' = {n + 1} /\ {n + 1} \in SUBSET Nat
        BY <2>2, <2>3, <3>1
      <4>2. Min({n + 1}) \in {n + 1}
        BY <4>1, LeastOf
      <4> QED BY <4>1, <4>2, <3>1
    <3>2. CASE LivePuts(s0) # {}
      BY <3>2, <1>1, <2>2, <2>3, LeastKept
    <3> QED BY <3>1, <3>2
  <2>6. mcpLog'[Min(LivePuts(s0)')] = IF LivePuts(s0) = {} THEN r ELSE Expected(s0).created
    BY <2>5, <1>1, <1>3 DEF Expected, LivePuts
  <2>7. (IF Patches(s0)' = {} THEN TRUE ELSE mcpReq'[mcpLog'[Max(Patches(s0)')]].arg)
          = (s0 \in DOMAIN ServersLeft => ServersLeft[s0].enabled)
    <3>1. CASE Patches(s0) = {}
      BY <3>1, <2>2, LeftEntry
    <3>2. CASE Patches(s0) # {}
      <4> DEFINE i == Max(Patches(s0))
      <4>1. s0 \in DOMAIN ServersLeft
        BY <3>2, <1>2, <1>7 DEF PatchedOK
      <4>2. ServersLeft[s0].enabled = mcpReq[mcpLog[i]].arg
        BY <3>2, <4>1, LeftEntry
      <4>3. i \in Patches(s0) /\ i \in 1 .. n
        BY <3>2, <1>3
      <4>4. mcpReq[mcpLog[i]].arg \in BOOLEAN
        BY <4>3, <1>1 DEF Patches, McpLogged, IsChange
      <4>5. mcpReq'[mcpLog'[i]].arg = mcpReq[mcpLog[i]].arg
        BY <4>3, <1>1
      <4> HIDE DEF i
      <4>6. Patches(s0)' # {} /\ Max(Patches(s0)') = i
        BY <3>2, <2>2 DEF i
      <4> QED BY <4>1, <4>2, <4>4, <4>5, <4>6
    <3> QED BY <3>1, <3>2
  <2>8. Expected(s0)' = [config |-> arg0,
                         enabled |-> s0 \in DOMAIN ServersLeft => ServersLeft[s0].enabled,
                         created |-> IF s0 \in DOMAIN ServersLeft THEN ServersLeft[s0].created ELSE r]
    <3>1. mcpReq'[mcpLog'[Max(LivePuts(s0)')]].arg = arg0
      BY <2>4, <1>1, <1>2
    <3>2. mcpLog'[Min(LivePuts(s0)')]
            = IF s0 \in DOMAIN ServersLeft THEN ServersLeft[s0].created ELSE r
      BY <2>6, <1>2, <1>7
    <3>3. Expected(s0)' = [config |-> mcpReq'[mcpLog'[Max(LivePuts(s0)')]].arg,
                           enabled |-> IF Patches(s0)' = {} THEN TRUE
                                       ELSE mcpReq'[mcpLog'[Max(Patches(s0)')]].arg,
                           created |-> mcpLog'[Min(LivePuts(s0)')]]
      BY DEF Expected, LivePuts
    <3> QED BY <3>1, <3>2, <3>3, <2>7
  <2>9. Changed(ServersLeft, r, mcpReq[r]) = Upserted(ServersLeft, r, s0, arg0)
    BY <1>0, <1>8, ChangedIs
  <2>10. \A t \in DOMAIN ServersLeft \cup {s0} :
           Expected(t)' = IF t # s0 THEN ServersLeft[t]
                          ELSE [config |-> arg0,
                                enabled |-> s0 \in DOMAIN ServersLeft => ServersLeft[s0].enabled,
                                created |-> IF s0 \in DOMAIN ServersLeft THEN ServersLeft[s0].created
                                            ELSE r]
    BY <2>8, <1>6, <1>7
  <2>11. ServersLeft' = Upserted(ServersLeft, r, s0, arg0)
    BY <2>1, <2>10, <1>7 DEF Upserted
  <2> QED BY <2>9, <2>11, <1>5
<1>9. CASE op0 = "patch"
  <2>1. /\ Changed(ServersLeft, r, mcpReq[r]) = StateSet(ServersLeft, s0, arg0)
        /\ s0 \in DOMAIN ServersLeft
    BY <1>0, <1>9, ChangedIs
  <2>2. {t \in Servers : LivePuts(t)' # {}} = DOMAIN ServersLeft
    BY <1>4, <1>7, <1>9
  <2>3. LivePuts(s0)' = LivePuts(s0) /\ Patches(s0)' = Patches(s0) \cup {n + 1} /\ LivePuts(s0) # {}
    BY <1>4, <1>7, <1>9, <2>1
  <2>4. Max(Patches(s0)') = n + 1
    <3>1. Patches(s0) \subseteq 0 .. n + 1 /\ n + 1 \in Nat
      BY <1>1, <1>3
    <3> QED BY <3>1, <2>3, GreatestAdded
  <2>5. Expected(s0)' = [config |-> ServersLeft[s0].config, enabled |-> arg0,
                         created |-> ServersLeft[s0].created]
    <3>1. mcpReq'[mcpLog'[Max(Patches(s0)')]].arg = arg0 /\ Patches(s0)' # {}
      BY <2>3, <2>4, <1>1, <1>2
    <3>2. /\ mcpReq'[mcpLog'[Max(LivePuts(s0)')]].arg = mcpReq[mcpLog[Max(LivePuts(s0))]].arg
          /\ mcpLog'[Min(LivePuts(s0)')] = mcpLog[Min(LivePuts(s0))]
      BY <2>3, <1>1, <1>3
    <3>3. /\ ServersLeft[s0].config = mcpReq[mcpLog[Max(LivePuts(s0))]].arg
          /\ ServersLeft[s0].created = mcpLog[Min(LivePuts(s0))]
      BY <2>1, LeftEntry
    <3>4. Expected(s0)' = [config |-> mcpReq'[mcpLog'[Max(LivePuts(s0)')]].arg,
                           enabled |-> IF Patches(s0)' = {} THEN TRUE
                                       ELSE mcpReq'[mcpLog'[Max(Patches(s0)')]].arg,
                           created |-> mcpLog'[Min(LivePuts(s0)')]]
      BY DEF Expected, LivePuts
    <3> QED BY <3>1, <3>2, <3>3, <3>4
  <2>6. ServersLeft[s0] = [config |-> ServersLeft[s0].config, enabled |-> ServersLeft[s0].enabled,
                           created |-> ServersLeft[s0].created]
    BY <2>1, LeftEntry
  <2>7. PICK new : new = [ServersLeft[s0] EXCEPT !.enabled = arg0]
    OBVIOUS
  <2>8. new = Expected(s0)'
    BY <2>5, <2>6, <2>7, EntrySet
  <2>9. ServersLeft = [t \in DOMAIN ServersLeft |-> ServersLeft[t]]
    BY DEF ServersLeft
  <2>10. StateSet(ServersLeft, s0, arg0)
           = [t \in DOMAIN ServersLeft |-> IF t = s0 THEN new ELSE ServersLeft[t]]
    BY <2>1, <2>7, <2>9, StateSetIs
  <2>11. \A t \in DOMAIN ServersLeft :
           Expected(t)' = IF t = s0 THEN new ELSE ServersLeft[t]
    BY <2>8, <1>6, <1>7
  <2>12. ServersLeft' = StateSet(ServersLeft, s0, arg0)
    BY <2>2, <2>10, <2>11, <1>7
  <2> QED BY <2>1, <2>12, <1>5
<1>10. CASE op0 = "delete"
  <2>1. Changed(ServersLeft, r, mcpReq[r]) = Deleted(ServersLeft, s0)
    BY <1>0, <1>10, ChangedIs
  <2>2. {t \in Servers : LivePuts(t)' # {}} = DOMAIN ServersLeft \ {s0}
    BY <1>4, <1>7, <1>10
  <2>3. \A t \in DOMAIN ServersLeft \ {s0} : Expected(t)' = ServersLeft[t]
    BY <1>6, <1>7
  <2>4. ServersLeft' = Deleted(ServersLeft, s0)
    BY <2>2, <2>3, <1>7 DEF Deleted
  <2> QED BY <2>1, <2>4, <1>5
<1> QED BY <1>2, <1>8, <1>9, <1>10

-----------------------------------------------------------------------------
\* ServersKept in these terms
LEMMA ServersKeptMeans ==
  LET kept == (~mcpRaced /\ \A r \in Requests : mcpReq[r].at # "write") =>
                Parses(mcpFile) /\ ReadServers(mcpFile) = ServersLeft
  IN (ServersKept <=> kept) /\ (ServersKept' <=> kept')
<1>1. \A t : (\E i \in Puts(t) : i > Life(t)) <=> LivePuts(t) # {}
  BY DEF LivePuts
<1>2. {t \in Servers : \E i \in Puts(t) : i > Life(t)} = {t \in Servers : LivePuts(t) # {}}
  BY <1>1
<1>3. \A t : (\E i \in Puts(t)' : i > Life(t)') <=> LivePuts(t)' # {}
  BY DEF LivePuts
<1>4. {t \in Servers : \E i \in Puts(t)' : i > Life(t)'} = {t \in Servers : LivePuts(t)' # {}}
  BY <1>3
<1> QED BY <1>2, <1>4 DEF ServersKept, ServersLeft

\* A step that ends nothing but a request r that was under way or had not come
McpOnly(r) ==
  /\ \A q \in Requests : q # r => mcpReq'[q] = mcpReq[q]
  /\ mcpReq' = [q \in Requests |-> mcpReq'[q]]
  /\ mcpReq[r].at # "done"

\* What is logged stays as it is while only requests under way change.
LEMMA McpLogKept ==
  ASSUME McpLogged, UNCHANGED mcpLog, mcpRaced => mcpRaced',
         \A q \in Requests : mcpReq[q].at = "done" => mcpReq'[q] = mcpReq[q]
  PROVE  McpLogged' /\ ServersLeft' = ServersLeft
<1>1. /\ mcpLog' = mcpLog /\ mcpLog \in Seq(Requests)
      /\ \A i \in DOMAIN mcpLog : mcpReq'[mcpLog[i]] = mcpReq[mcpLog[i]]
  BY DEF McpLogged
<1>2. ASSUME NEW s
      PROVE  Puts(s)' = Puts(s) /\ Life(s)' = Life(s) /\ LivePuts(s)' = LivePuts(s)
             /\ Patches(s)' = Patches(s)
  <2>1. Puts(s)' = Puts(s)
    BY <1>1 DEF Puts
  <2>2. Life(s)' = Life(s)
    <3>1. {i \in DOMAIN mcpLog : mcpReq'[mcpLog[i]].op = "delete" /\ mcpReq'[mcpLog[i]].server = s}
          = {i \in DOMAIN mcpLog : mcpReq[mcpLog[i]].op = "delete" /\ mcpReq[mcpLog[i]].server = s}
      BY <1>1
    <3> QED BY <1>1, <3>1 DEF Life
  <2>3. LivePuts(s)' = LivePuts(s)
    BY <2>1, <2>2 DEF LivePuts
  <2>4. Patches(s)' = Patches(s)
    BY <1>1, <2>2 DEF Patches
  <2> QED BY <2>1, <2>2, <2>3, <2>4
<1>3. ASSUME NEW s, LivePuts(s) # {} PROVE Expected(s)' = Expected(s)
  <2>1. /\ Patches(s) \subseteq DOMAIN mcpLog /\ LivePuts(s) \subseteq DOMAIN mcpLog
        /\ Max(LivePuts(s)) \in LivePuts(s)
        /\ Patches(s) # {} => Max(Patches(s)) \in Patches(s)
    BY <1>3, Positions
  <2>2. mcpReq'[mcpLog[Max(LivePuts(s))]].arg = mcpReq[mcpLog[Max(LivePuts(s))]].arg
    BY <2>1, <1>1
  <2>3. Patches(s) # {} => mcpReq'[mcpLog[Max(Patches(s))]].arg = mcpReq[mcpLog[Max(Patches(s))]].arg
    BY <2>1, <1>1
  <2> QED BY <2>2, <2>3, <1>1, <1>2 DEF Expected, LivePuts
<1>4. ServersLeft' = ServersLeft
  BY <1>2, <1>3 DEF ServersLeft
<1>5. McpLogged'
  <2>1. PatchedOK => PatchedOK'
    BY <1>2 DEF PatchedOK
  <2>2. \A i \in DOMAIN mcpLog' : IsChange(mcpReq[mcpLog[i]])' /\ mcpReq'[mcpLog'[i]].at = "done"
    BY <1>1 DEF McpLogged, IsChange
  <2> QED BY <1>1, <2>1, <2>2 DEF McpLogged, IsChange
<1> QED BY <1>4, <1>5

\* No change has come yet.
LEMMA McpStart == McpInit => McpInv
<1> SUFFICES ASSUME McpInit PROVE McpInv
  OBVIOUS
<1>1. mcpLog = <<>> /\ mcpFile = NoFile /\ mcpRaced = FALSE
      /\ mcpReq = [r \in Requests |-> NoRequest]
  BY DEF McpInit
<1>2. NoRequest.at = "new"
  BY DEF NoRequest
<1>3. <<>> \in Seq(Requests) /\ DOMAIN <<>> = {}
  BY EmptySeq
<1>4. ASSUME NEW s PROVE Puts(s) = {} /\ Patches(s) = {} /\ LivePuts(s) = {}
  BY <1>1, <1>3 DEF Puts, Patches, LivePuts
<1>5. McpTypes
  BY <1>1 DEF McpTypes
<1>6. McpLogged
  BY <1>1, <1>3, <1>4 DEF McpLogged, PatchedOK
<1>7. ServersKept
  <2>1. DOMAIN ServersLeft = {} /\ ServersLeft = [s \in {} |-> ServersLeft[s]]
    BY <1>4 DEF ServersLeft
  <2>2. <<>> = [s \in {} |-> <<>>[s]]
    OBVIOUS
  <2>3. ServersLeft = <<>>
    BY <2>1, <2>2, <1>3
  <2> QED BY <1>1, <2>3, ServersKeptMeans DEF Parses, ReadServers, NoFile
<1>8. \A r \in Requests : SoleChangeOK(r)
  BY <1>1, <1>2 DEF SoleChangeOK, Open
<1> QED BY <1>5, <1>6, <1>7, <1>8 DEF McpInv

\* A request ends without a trace.
LEMMA McpEnds ==
  ASSUME McpInv, NEW r \in Requests, McpOnly(r), mcpReq'[r].at = "done",
         mcpReq[r].at # "write", UNCHANGED <<mcpFile, mcpLog, mcpRaced>>
  PROVE  McpInv'
<1>1. McpLogged' /\ ServersLeft' = ServersLeft
  BY McpLogKept DEF McpInv, McpOnly
<1>2. McpTypes'
  BY DEF McpInv, McpTypes, McpOnly, IsChange
<1>3. ServersKept'
  <2>1. (\A q \in Requests : mcpReq'[q].at # "write") => \A q \in Requests : mcpReq[q].at # "write"
    BY DEF McpOnly
  <2> QED BY <1>1, <2>1, ServersKeptMeans DEF McpInv
<1>4. \A q \in Requests : SoleChangeOK(q)'
  <2> TAKE q \in Requests
  <2>1. CASE q = r
    BY <2>1 DEF SoleChangeOK, Open
  <2>2. CASE q # r
    <3>1. mcpReq'[q] = mcpReq[q] /\ SoleChangeOK(q)
      BY <2>2 DEF McpOnly, McpInv
    <3>2. \A p \in Requests : Open(mcpReq', p) => Open(mcpReq, p)
      BY DEF McpOnly, Open
    <3>3. Open(mcpReq', q) <=> Open(mcpReq, q)
      BY <3>1 DEF Open
    <3> QED BY <3>1, <3>2, <3>3, <1>1 DEF SoleChangeOK, Open
  <2> QED BY <2>1, <2>2
<1> QED BY <1>1, <1>2, <1>3, <1>4 DEF McpInv

\* The record of a request that has ended
LEMMA McpDone ==
  ASSUME McpInv, NEW r \in Requests, mcpReq[r].at # "done", NEW status
  PROVE  /\ Done(mcpReq[r], status).at = "done"
         /\ \A op : [Done(mcpReq[r], status) EXCEPT !.op = op].at = "done"
<1>1. PICK rec : rec = mcpReq[r]
  OBVIOUS
<1>2. rec = [f \in {"op", "at", "answer"} |-> rec[f]] \/ rec = [f \in ChangeFields |-> rec[f]]
  <2>1. NoRequest = [f \in {"op", "at", "answer"} |-> NoRequest[f]]
    BY DEF NoRequest
  <2> QED BY <1>1, <2>1 DEF McpInv, McpTypes, IsChange
<1>3. PICK new : new = Done(rec, status)
  OBVIOUS
<1>4. new.at = "done" /\ \A op : [new EXCEPT !.op = op].at = "done"
  <2>1. new = [rec EXCEPT !.at = "done", !.answer = status]
    BY <1>3 DEF Done
  <2>2. CASE rec = [f \in {"op", "at", "answer"} |-> rec[f]]
    <3>1. new.at = "done" /\ new = [f \in {"op", "at", "answer"} |-> new[f]]
      BY <2>1, <2>2
    <3> QED BY <3>1
  <2>3. CASE rec = [f \in ChangeFields |-> rec[f]]
    <3>1. new.at = "done" /\ new = [f \in ChangeFields |-> new[f]]
      BY <2>1, <2>3 DEF ChangeFields
    <3> QED BY <3>1 DEF ChangeFields
  <2> QED BY <2>2, <2>3, <1>2
<1> QED BY <1>1, <1>3, <1>4

\* Listing and getting
LEMMA McpReads ==
  ASSUME McpInv, NEW r \in Requests, ListServers(r) \/ \E s \in Servers : GetServer(r, s)
  PROVE  McpInv'
<1>1. mcpReq[r].at = "new" /\ UNCHANGED <<mcpFile, mcpLog, mcpRaced>>
  BY DEF ListServers, GetServer
<1>2. PICK status, op : mcpReq' = [mcpReq EXCEPT ![r] = [Done(mcpReq[r], status) EXCEPT !.op = op]]
  BY DEF ListServers, GetServer, McpInv, McpTypes
<1>3. PICK rec : rec = [Done(mcpReq[r], status) EXCEPT !.op = op]
  OBVIOUS
<1>4. rec.at = "done" /\ mcpReq' = [mcpReq EXCEPT ![r] = rec]
  BY <1>1, <1>2, <1>3, McpDone
<1>5. McpOnly(r) /\ mcpReq'[r].at = "done"
  BY <1>1, <1>4 DEF McpOnly, McpInv, McpTypes
<1> QED BY <1>1, <1>5, McpEnds

\* A change begins: it is alone if no other one is under way.
LEMMA McpBegins ==
  ASSUME McpInv, NEW r \in Requests, NEW op \in {"put", "patch", "delete"}, NEW s \in Servers,
         NEW arg, op = "patch" => arg \in BOOLEAN, StartChange(r, op, s, arg)
  PROVE  McpInv'
<1>1. mcpReq[r] = NoRequest /\ mcpReq[r].at = "new" /\ UNCHANGED <<mcpFile, mcpLog>>
  BY DEF StartChange, McpInv, McpTypes, IsChange, NoRequest
<1>2. CASE op = "put" /\ arg = "invalid"
  <2>1. McpOnly(r) /\ mcpReq'[r].at = "done" /\ mcpRaced' = mcpRaced
    BY <1>1, <1>2 DEF StartChange, Done, McpInv, McpTypes, McpOnly, NoRequest
  <2> QED BY <2>1, <1>1, McpEnds
<1>3. CASE ~(op = "put" /\ arg = "invalid")
  <2>1. PICK rec : rec = [op |-> op, at |-> "read", answer |-> "none", server |-> s, arg |-> arg,
                          next |-> <<>>]
    OBVIOUS
  <2>2. IsChange(rec) /\ rec.at = "read"
    BY <2>1 DEF IsChange, ChangeFields
  <2>3. mcpReq' = [mcpReq EXCEPT ![r] = rec]
        /\ mcpRaced' = (mcpRaced \/ \E q \in Requests : Open(mcpReq, q))
    BY <2>1, <1>3 DEF StartChange
  <2>4. McpOnly(r) /\ mcpReq'[r] = rec
    BY <2>3, <1>1 DEF McpOnly, McpInv, McpTypes
  <2>5. McpLogged' /\ ServersLeft' = ServersLeft
    BY <2>3, <2>4, <1>1, McpLogKept DEF McpInv, McpOnly
  <2>6. McpTypes'
    BY <2>2, <2>3, <2>4 DEF McpInv, McpTypes, McpOnly, IsChange
  <2>7. ServersKept'
    <3>1. (\A q \in Requests : mcpReq'[q].at # "write") => \A q \in Requests : mcpReq[q].at # "write"
      BY <2>4, <1>1 DEF McpOnly
    <3> QED BY <1>1, <2>3, <2>5, <3>1, ServersKeptMeans DEF McpInv
  <2>8. \A q \in Requests : SoleChangeOK(q)'
    <3> TAKE q \in Requests
    <3>1. SUFFICES ASSUME ~mcpRaced', Open(mcpReq', q) PROVE SoleChangeOK(q)'
      BY DEF SoleChangeOK, Open
    <3>2. \A p \in Requests : ~Open(mcpReq, p)
      BY <3>1, <2>3
    <3>3. \A p \in Requests : Open(mcpReq', p) => p = r
      BY <3>2, <2>4 DEF McpOnly, Open
    <3>4. q = r
      BY <3>1, <3>3
    <3> QED BY <3>3, <3>4, <2>2, <2>4 DEF SoleChangeOK, Open
  <2> QED BY <2>5, <2>6, <2>7, <2>8 DEF McpInv
<1> QED BY <1>2, <1>3

\* A change reads the file: alone, it finds what the changes so far have left.
LEMMA McpReadsFile ==
  ASSUME McpInv, NEW r \in Requests, ReadUserServers(r)
  PROVE  McpInv'
<1>1. mcpReq[r].at = "read" /\ IsChange(mcpReq[r]) /\ UNCHANGED <<mcpFile, mcpLog, mcpRaced>>
  BY DEF ReadUserServers, McpInv, McpTypes, NoRequest
<1>2. CASE \E status : Answer(r, status)
  <2>1. McpOnly(r) /\ mcpReq'[r].at = "done"
    BY <1>1, <1>2 DEF Answer, Done, McpInv, McpTypes, McpOnly, IsChange, ChangeFields
  <2> QED BY <2>1, <1>1, McpEnds
<1>3. CASE ~\E status : Answer(r, status)
  <2>1. PICK servers, rec : servers = ReadServers(mcpFile) /\ rec = mcpReq[r]
    OBVIOUS
  <2>2. Parses(mcpFile) /\ ~Missing(servers, rec)
    BY <1>3, <2>1 DEF ReadUserServers
  <2>3. PICK new : new = Changed(servers, r, rec)
    OBVIOUS
  <2>4. mcpReq' = [mcpReq EXCEPT ![r].at = "open", ![r].next = new]
    BY <1>3, <2>1, <2>3 DEF ReadUserServers
  <2>5. /\ IsChange(mcpReq'[r]) /\ mcpReq'[r].at = "open" /\ mcpReq'[r].next = new
        /\ mcpReq'[r].op = rec.op /\ mcpReq'[r].server = rec.server /\ mcpReq'[r].arg = rec.arg
    BY <2>1, <2>4, <1>1 DEF IsChange, ChangeFields, McpInv, McpTypes
  <2>6. McpOnly(r)
    BY <2>4, <1>1 DEF McpOnly, McpInv, McpTypes
  <2>7. McpLogged' /\ ServersLeft' = ServersLeft
    BY <2>6, <1>1, McpLogKept DEF McpInv, McpOnly
  <2>8. McpTypes'
    BY <2>5, <2>6, <1>1 DEF McpInv, McpTypes, McpOnly, IsChange
  <2>9. ServersKept'
    <3>1. (\A q \in Requests : mcpReq'[q].at # "write") => \A q \in Requests : mcpReq[q].at # "write"
      BY <2>6, <1>1 DEF McpOnly
    <3> QED BY <1>1, <2>7, <3>1, ServersKeptMeans DEF McpInv
  <2>10. \A q \in Requests : SoleChangeOK(q)'
    <3> TAKE q \in Requests
    <3>1. SUFFICES ASSUME ~mcpRaced', Open(mcpReq', q) PROVE SoleChangeOK(q)'
      BY DEF SoleChangeOK, Open
    <3>2. \A p \in Requests : Open(mcpReq', p) => Open(mcpReq, p)
      BY <2>6, <1>1 DEF McpOnly, Open
    <3>3. \A p \in Requests : Open(mcpReq, p) => p = r
      <4>1. Open(mcpReq, r)
        BY <1>1 DEF Open
      <4> QED BY <4>1, <3>1, <1>1 DEF McpInv, SoleChangeOK
    <3>4. q = r
      BY <3>1, <3>2, <3>3
    <3>5. servers = ServersLeft
      <4>1. \A p \in Requests : mcpReq[p].at # "write"
        BY <3>3, <1>1 DEF Open
      <4> QED BY <4>1, <3>1, <2>1, <1>1, ServersKeptMeans DEF McpInv
    <3>6. rec.op # "put" => rec.server \in DOMAIN ServersLeft
      BY <3>5, <2>2 DEF Missing
    <3>7. new = Changed(ServersLeft, r, mcpReq'[r])
      BY <3>5, <2>3, <2>5, ChangedIs, <1>1, <2>1 DEF IsChange
    <3> QED BY <3>2, <3>3, <3>4, <3>6, <3>7, <2>5, <2>7 DEF SoleChangeOK
  <2> QED BY <2>7, <2>8, <2>9, <2>10 DEF McpInv
<1> QED BY <1>2, <1>3

\* A change empties the file.
LEMMA McpOpens ==
  ASSUME McpInv, NEW r \in Requests, OpenServersFile(r)
  PROVE  McpInv'
<1>1. /\ mcpReq[r].at = "open" /\ IsChange(mcpReq[r]) /\ UNCHANGED <<mcpLog, mcpRaced>>
      /\ mcpFile' = Empty /\ mcpReq' = [mcpReq EXCEPT ![r].at = "write"]
  BY DEF OpenServersFile, McpInv, McpTypes, NoRequest
<1>2. /\ IsChange(mcpReq'[r]) /\ mcpReq'[r].at = "write" /\ mcpReq'[r].next = mcpReq[r].next
      /\ mcpReq'[r].op = mcpReq[r].op /\ mcpReq'[r].server = mcpReq[r].server
      /\ mcpReq'[r].arg = mcpReq[r].arg
  BY <1>1 DEF IsChange, ChangeFields, McpInv, McpTypes
<1>3. McpOnly(r)
  BY <1>1 DEF McpOnly, McpInv, McpTypes
<1>4. McpLogged' /\ ServersLeft' = ServersLeft
  BY <1>1, <1>3, McpLogKept DEF McpInv, McpOnly
<1>5. McpTypes'
  BY <1>1, <1>2, <1>3 DEF McpInv, McpTypes, McpOnly, IsChange
<1>6. ServersKept'
  BY <1>2, ServersKeptMeans
<1>7. \A q \in Requests : SoleChangeOK(q)'
  <2> TAKE q \in Requests
  <2>1. SUFFICES ASSUME ~mcpRaced', Open(mcpReq', q) PROVE SoleChangeOK(q)'
    BY DEF SoleChangeOK, Open
  <2>2. \A p \in Requests : Open(mcpReq', p) => Open(mcpReq, p)
    BY <1>1, <1>3 DEF McpOnly, Open
  <2>3. Open(mcpReq, r) /\ SoleChangeOK(r)
    BY <1>1 DEF Open, McpInv
  <2>4. \A p \in Requests : Open(mcpReq, p) => p = r
    BY <2>1, <2>3, <1>1 DEF SoleChangeOK
  <2>5. q = r
    BY <2>1, <2>2, <2>4
  <2>6. Changed(ServersLeft, r, mcpReq'[r]) = Changed(ServersLeft, r, mcpReq[r])
    <3>1. PICK servers, rec, new : servers = ServersLeft /\ rec = mcpReq[r] /\ new = mcpReq'[r]
      OBVIOUS
    <3>2. /\ rec.op \in {"put", "patch", "delete"} /\ new.op = rec.op
          /\ new.server = rec.server /\ new.arg = rec.arg
      BY <3>1, <1>1, <1>2 DEF IsChange
    <3>3. Changed(servers, r, new) = Changed(servers, r, rec)
      BY <3>2, ChangedSame
    <3> QED BY <3>1, <3>3
  <2>7. /\ mcpReq[r].op # "put" => mcpReq[r].server \in DOMAIN ServersLeft
        /\ mcpReq[r].next = Changed(ServersLeft, r, mcpReq[r])
    BY <2>1, <2>3, <1>1 DEF SoleChangeOK
  <2> QED BY <2>2, <2>4, <2>5, <2>6, <2>7, <1>1, <1>2, <1>4 DEF SoleChangeOK
<1> QED BY <1>4, <1>5, <1>6, <1>7 DEF McpInv

\* A change fills the file and succeeds.
LEMMA McpWrites ==
  ASSUME McpInv, NEW r \in Requests, WriteUserServers(r)
  PROVE  McpInv'
<1>1. /\ mcpReq[r].at = "write" /\ IsChange(mcpReq[r]) /\ mcpLog' = Append(mcpLog, r)
      /\ mcpRaced' = mcpRaced /\ mcpFile' \in WrittenOver(mcpFile, mcpReq[r].next)
      /\ Open(mcpReq, r)
  BY DEF WriteUserServers, McpInv, McpTypes, NoRequest, Open
<1>2. /\ IsChange(mcpReq'[r]) /\ mcpReq'[r].at = "done"
      /\ mcpReq'[r].op = mcpReq[r].op /\ mcpReq'[r].server = mcpReq[r].server
      /\ mcpReq'[r].arg = mcpReq[r].arg
  BY <1>1 DEF WriteUserServers, Answer, Done, IsChange, ChangeFields, McpInv, McpTypes
<1>3. McpOnly(r)
  BY <1>1 DEF WriteUserServers, Answer, McpOnly, McpInv, McpTypes
<1>4. LogsChange(r)
  BY <1>1, <1>2, <1>3 DEF LogsChange, McpOnly
<1>5. ASSUME ~mcpRaced
      PROVE  /\ mcpFile = Empty /\ mcpReq[r].next = Changed(ServersLeft, r, mcpReq[r])
             /\ mcpReq[r].op # "put" => mcpReq[r].server \in DOMAIN ServersLeft
             /\ \A q \in Requests : Open(mcpReq, q) => q = r
             /\ PatchedOK
  BY <1>1, <1>5 DEF McpInv, SoleChangeOK, McpLogged
<1>6. ~mcpRaced => PatchedOK' /\ ServersLeft' = mcpReq[r].next
  BY <1>4, <1>5, LeftAppended DEF McpInv
<1>7. McpLogged'
  <2>1. mcpLog' \in Seq(Requests)
    BY <1>1 DEF McpInv, McpLogged
  <2>2. \A i \in DOMAIN mcpLog' : IsChange(mcpReq[mcpLog[i]])' /\ mcpReq'[mcpLog'[i]].at = "done"
    <3>1. /\ DOMAIN mcpLog' = 1 .. Len(mcpLog) + 1 /\ mcpLog'[Len(mcpLog) + 1] = r
          /\ \A i \in 1 .. Len(mcpLog) : mcpLog'[i] = mcpLog[i] /\ mcpReq'[mcpLog[i]] = mcpReq[mcpLog[i]]
      BY <1>4, PositionsAppended DEF McpInv
    <3>2. Len(mcpLog) \in Nat /\ DOMAIN mcpLog = 1 .. Len(mcpLog)
      BY Positions DEF McpInv
    <3> TAKE i \in DOMAIN mcpLog'
    <3>3. CASE i = Len(mcpLog) + 1
      BY <3>1, <3>3, <1>2 DEF IsChange
    <3>4. CASE i # Len(mcpLog) + 1
      <4>1. i \in DOMAIN mcpLog
        BY <3>1, <3>2, <3>4
      <4>2. mcpReq'[mcpLog'[i]] = mcpReq[mcpLog[i]]
        BY <4>1, <3>1, <3>2
      <4> QED BY <4>1, <4>2 DEF McpInv, McpLogged, IsChange
    <3> QED BY <3>3, <3>4
  <2> QED BY <2>1, <2>2, <1>1, <1>6 DEF McpLogged, IsChange
<1>8. McpTypes'
  BY <1>1, <1>2, <1>3 DEF McpInv, McpTypes, McpOnly, IsChange
<1>9. ServersKept'
  <2>1. SUFFICES ASSUME ~mcpRaced PROVE Parses(mcpFile') /\ ReadServers(mcpFile') = ServersLeft'
    BY <1>1, ServersKeptMeans
  <2>2. mcpFile' = Whole(mcpReq[r].next)
    BY <2>1, <1>1, <1>5 DEF WrittenOver
  <2> QED BY <2>1, <2>2, <1>6 DEF Parses, ReadServers, Whole, NoFile
<1>10. \A q \in Requests : SoleChangeOK(q)'
  <2> TAKE q \in Requests
  <2>1. SUFFICES ASSUME ~mcpRaced', Open(mcpReq', q) PROVE FALSE
    BY DEF SoleChangeOK, Open
  <2>2. q # r /\ Open(mcpReq, q)
    BY <2>1, <1>2, <1>3 DEF Open, McpOnly
  <2> QED BY <2>1, <2>2, <1>1, <1>5
<1> QED BY <1>7, <1>8, <1>9, <1>10 DEF McpInv

\* The invariant of the servers of a user holds.
LEMMA McpStep == McpInv /\ [McpNext]_mcpVars => McpInv'
<1> SUFFICES ASSUME McpInv, [McpNext]_mcpVars PROVE McpInv'
  OBVIOUS
<1>1. CASE UNCHANGED mcpVars
  <2>1. UNCHANGED <<mcpFile, mcpReq, mcpLog, mcpRaced>>
    BY <1>1 DEF mcpVars
  <2>2. McpLogged' /\ ServersLeft' = ServersLeft
    BY <2>1, McpLogKept DEF McpInv
  <2>3. ServersKept'
    BY <2>1, <2>2, ServersKeptMeans DEF McpInv
  <2>4. \A q \in Requests : SoleChangeOK(q)'
    BY <2>1, <2>2 DEF McpInv, SoleChangeOK, Open
  <2> QED BY <2>1, <2>2, <2>3, <2>4 DEF McpInv, McpTypes, IsChange
<1>2. CASE McpNext
  <2>1. PICK r \in Requests :
          \/ ListServers(r) \/ \E s \in Servers : GetServer(r, s)
          \/ ReadUserServers(r) \/ RefusedTooLarge(r) \/ OpenServersFile(r) \/ WriteUserServers(r)
          \/ \E s \in Servers : \/ \E c \in RequestedConfigs : StartChange(r, "put", s, c)
                                \/ \E e \in BOOLEAN : StartChange(r, "patch", s, e)
                                \/ StartChange(r, "delete", s, "none")
    BY <1>2 DEF McpNext, PutServer, PatchServerState, DeleteServer
  <2>2. CASE RefusedTooLarge(r)
    <3>1. McpOnly(r) /\ mcpReq'[r].at = "done" /\ mcpReq[r].at = "open"
          /\ UNCHANGED <<mcpFile, mcpLog, mcpRaced>>
      <4>1. mcpReq[r].at = "open" /\ UNCHANGED <<mcpFile, mcpLog, mcpRaced>>
            /\ mcpReq' = [mcpReq EXCEPT ![r] = Done(mcpReq[r], "400")]
        BY <2>2 DEF RefusedTooLarge, Answer, McpInv, McpTypes
      <4> QED BY <4>1, McpDone DEF McpOnly, McpInv, McpTypes
    <3> QED BY <3>1, McpEnds
  <2>3. CASE \E s \in Servers : \/ \E c \in RequestedConfigs : StartChange(r, "put", s, c)
                                \/ \E e \in BOOLEAN : StartChange(r, "patch", s, e)
                                \/ StartChange(r, "delete", s, "none")
    BY <2>3, McpBegins
  <2> QED BY <2>1, <2>2, <2>3, McpReads, McpReadsFile, McpOpens, McpWrites
<1> QED BY <1>1, <1>2

-----------------------------------------------------------------------------
(* Memory. A change of the user's file that is alone has the file to itself; so has a
   replacement of the group's file. *)

MemFields == {"op", "at", "answer", "text"}
IsMem(rec) ==
  /\ rec = [f \in MemFields |-> rec[f]]
  /\ \/ rec.op = "get" /\ rec.at \in {"read", "cache"}
     \/ rec.op = "put" /\ rec.at \in {"open", "write", "cache"}
     \/ rec.op = "group put" /\ rec.at \in {"open", "write"}
     \/ rec.op = "append" /\ rec.at = "append"

MemTypes ==
  /\ memReq = [r \in Requests |-> memReq[r]]
  /\ memRaced \in BOOLEAN /\ grpRaced \in BOOLEAN
  /\ \A r \in Requests : memReq[r] = NoRequest \/ memReq[r].at = "done" \/ IsMem(memReq[r])

Uses(r, ops) == Open(memReq, r) /\ memReq[r].op \in ops

\* The copy is the text of the file, unless an update is about to change one of them.
UserOK ==
  ~memRaced =>
    /\ \A r \in Requests : Uses(r, {"put"}) =>
         /\ \A q \in Requests : Uses(q, {"get", "put"}) => q = r
         /\ memReq[r].at = "write" => memFile = Empty
         /\ memReq[r].at = "cache" => memFile = Whole(memReq[r].text)
    /\ \A r \in Requests : Uses(r, {"get"}) /\ memReq[r].at = "cache" =>
         memReq[r].text = TextOf(memFile)
    /\ (\A r \in Requests : ~Uses(r, {"put"})) => memCache \in {NoText, TextOf(memFile)}

GrpLogged ==
  /\ grpLog \in Seq(Requests)
  /\ \A i \in DOMAIN grpLog : memReq[grpLog[i]].at = "done"

GrpPuts == {i \in DOMAIN grpLog : memReq[grpLog[i]].op = "group put"}
GrpFrom == Max(GrpPuts \cup {1})
GrpTexts == [i \in 1 .. Len(grpLog) - GrpFrom + 1 |-> memReq[grpLog[GrpFrom + i - 1]].text]
GrpLeft == IF grpLog = <<>> THEN NoFile ELSE Whole(GrpTexts)

GroupOK ==
  /\ GrpLogged /\ AppendsKept
  /\ ~grpRaced =>
       \A r \in Requests : Uses(r, {"group put"}) =>
         /\ \A q \in Requests : Uses(q, {"group put", "append"}) => q = r
         /\ memReq[r].at = "write" => grpFile = Empty

MemInv == MemTypes /\ UserOK /\ GroupOK

-----------------------------------------------------------------------------
\* The record of a request that has ended
LEMMA MemDone ==
  ASSUME MemTypes, NEW r \in Requests, memReq[r].at # "done", NEW status
  PROVE  /\ Done(memReq[r], status).at = "done" /\ Done(memReq[r], status).op = memReq[r].op
         /\ memReq[r] # NoRequest => Done(memReq[r], status).text = memReq[r].text
         /\ \A op : [Done(memReq[r], status) EXCEPT !.op = op].at = "done"
<1>1. PICK rec : rec = memReq[r]
  OBVIOUS
<1>2. \/ rec = NoRequest /\ rec = [f \in {"op", "at", "answer"} |-> rec[f]]
      \/ rec # NoRequest /\ rec = [f \in MemFields |-> rec[f]]
  <2>1. NoRequest = [f \in {"op", "at", "answer"} |-> NoRequest[f]]
    BY DEF NoRequest
  <2> QED BY <1>1, <2>1 DEF MemTypes, IsMem
<1>3. PICK new : new = Done(rec, status)
  OBVIOUS
<1>4. /\ new.at = "done" /\ new.op = rec.op /\ \A op : [new EXCEPT !.op = op].at = "done"
      /\ rec # NoRequest => new.text = rec.text
  <2>1. new = [rec EXCEPT !.at = "done", !.answer = status]
    BY <1>3 DEF Done
  <2>2. CASE rec = NoRequest /\ rec = [f \in {"op", "at", "answer"} |-> rec[f]]
    <3>1. new.at = "done" /\ new.op = rec.op /\ new = [f \in {"op", "at", "answer"} |-> new[f]]
      BY <2>1, <2>2
    <3> QED BY <3>1, <2>2
  <2>3. CASE rec # NoRequest /\ rec = [f \in MemFields |-> rec[f]]
    <3>1. new.at = "done" /\ new.op = rec.op /\ new.text = rec.text /\ new = [f \in MemFields |-> new[f]]
      BY <2>1, <2>3 DEF MemFields
    <3> QED BY <3>1 DEF MemFields
  <2> QED BY <2>2, <2>3, <1>2
<1> QED BY <1>1, <1>3, <1>4

\* A step of one request that has not ended
MemOnly(r) ==
  /\ \A q \in Requests : q # r => memReq'[q] = memReq[q]
  /\ memReq' = [q \in Requests |-> memReq'[q]]
  /\ memReq[r].at # "done"
  /\ memReq'[r].at = "done" \/ IsMem(memReq'[r])
  /\ memReq'[r].at = "done" => memReq'[r].op = memReq[r].op \/ memReq[r].at = "new"

\* Types after it
LEMMA MemTypesAfter ==
  ASSUME MemTypes, NEW r \in Requests, MemOnly(r), memRaced' \in BOOLEAN, grpRaced' \in BOOLEAN
  PROVE  MemTypes'
BY DEF MemTypes, MemOnly, IsMem

\* A request of the group's file, or one that ends at once, leaves the user's alone.
LEMMA UserUntouched ==
  ASSUME MemTypes, UserOK, NEW r \in Requests, MemOnly(r), UNCHANGED userVars,
         ~Uses(r, {"get", "put"}), ~(Open(memReq', r) /\ memReq'[r].op \in {"get", "put"})
  PROVE  UserOK'
<1>1. \A q \in Requests : q # r => memReq'[q] = memReq[q]
  BY DEF MemOnly
<1>2. \A q \in Requests : \A ops : q # r => (Uses(q, ops)' <=> Uses(q, ops))
  BY <1>1 DEF Uses, Open
<1>3. ~Uses(r, {"put"})' /\ ~Uses(r, {"get"})' /\ ~Uses(r, {"get", "put"})' /\ ~Uses(r, {"put"})
  BY DEF Uses
<1>4. memFile' = memFile /\ memCache' = memCache /\ memRaced' = memRaced
  BY DEF userVars
<1>5. SUFFICES ASSUME ~memRaced' PROVE UserOK'
  BY DEF UserOK
<1>6. ASSUME NEW q \in Requests, Uses(q, {"put"})'
      PROVE  /\ \A p \in Requests : Uses(p, {"get", "put"})' => p = q
             /\ memReq'[q].at = "write" => memFile' = Empty
             /\ memReq'[q].at = "cache" => memFile' = Whole(memReq'[q].text)
  BY <1>1, <1>2, <1>3, <1>4, <1>5, <1>6 DEF UserOK
<1>7. ASSUME NEW q \in Requests, Uses(q, {"get"})', memReq'[q].at = "cache"
      PROVE  memReq'[q].text = TextOf(memFile)'
  BY <1>1, <1>2, <1>3, <1>4, <1>5, <1>7 DEF UserOK
<1>8. (\A q \in Requests : ~Uses(q, {"put"})') => memCache' \in {NoText, TextOf(memFile)'}
  BY <1>2, <1>3, <1>4, <1>5 DEF UserOK
<1> QED BY <1>5, <1>6, <1>7, <1>8 DEF UserOK

\* AppendsKept in these terms
LEMMA AppendsKeptMeans ==
  LET kept == (~grpRaced /\ ~\E r \in Requests : memReq[r].op = "group put" /\ memReq[r].at = "write")
                 => grpFile = GrpLeft
  IN (AppendsKept <=> kept) /\ (AppendsKept' <=> kept')
BY DEF AppendsKept, GrpLeft, GrpTexts, GrpFrom, GrpPuts

\* Positions in the log of the group
LEMMA GrpPositions ==
  ASSUME GrpLogged
  PROVE  /\ Len(grpLog) \in Nat /\ DOMAIN grpLog = 1 .. Len(grpLog)
         /\ GrpPuts \subseteq 1 .. Len(grpLog)
         /\ GrpFrom \in Nat \ {0} /\ (grpLog # <<>> => GrpFrom <= Len(grpLog))
         /\ GrpFrom \in GrpPuts \cup {1}
<1>1. Len(grpLog) \in Nat /\ DOMAIN grpLog = 1 .. Len(grpLog) /\ GrpPuts \subseteq 1 .. Len(grpLog)
      /\ (grpLog # <<>> => Len(grpLog) # 0)
  <2>1. grpLog # <<>> => Len(grpLog) # 0
    BY EmptySeq DEF GrpLogged
  <2>2. grpLog \in Seq(Requests) /\ GrpPuts \subseteq DOMAIN grpLog
    BY DEF GrpLogged, GrpPuts
  <2> QED BY <2>1, <2>2
<1>2. PICK n : n = Len(grpLog)
  OBVIOUS
<1>3. GrpPuts \cup {1} \in SUBSET (0 .. n + 1) /\ n + 1 \in Nat /\ GrpPuts \cup {1} # {}
  BY <1>1, <1>2
<1>4. GrpFrom \in GrpPuts \cup {1}
  BY <1>3, GreatestOf DEF GrpFrom
<1> QED BY <1>1, <1>4

\* What is logged stays as it is while only requests under way change.
LEMMA GrpLogKept ==
  ASSUME GrpLogged, UNCHANGED grpLog,
         \A q \in Requests : memReq[q].at = "done" => memReq'[q] = memReq[q]
  PROVE  GrpLogged' /\ GrpLeft' = GrpLeft
<1>1. grpLog' = grpLog /\ \A i \in DOMAIN grpLog : memReq'[grpLog[i]] = memReq[grpLog[i]]
  BY DEF GrpLogged
<1>2. GrpPuts' = GrpPuts
  BY <1>1 DEF GrpPuts
<1>3. GrpFrom' = GrpFrom
  BY <1>2 DEF GrpFrom
<1>4. GrpTexts' = GrpTexts
  <2>1. ASSUME NEW i \in 1 .. Len(grpLog) - GrpFrom + 1
        PROVE  memReq'[grpLog[GrpFrom + i - 1]] = memReq[grpLog[GrpFrom + i - 1]]
    <3>1. GrpFrom + i - 1 \in DOMAIN grpLog
      BY GrpPositions
    <3> QED BY <3>1, <1>1
  <2> QED BY <1>1, <1>3, <2>1 DEF GrpTexts
<1> QED BY <1>1, <1>4 DEF GrpLogged, GrpLeft

\* A request of the user's file, or one that ends at once, leaves the group's alone.
LEMMA GroupUntouched ==
  ASSUME MemTypes, GroupOK, NEW r \in Requests, MemOnly(r), UNCHANGED groupVars,
         ~Uses(r, {"group put", "append"}),
         ~(Open(memReq', r) /\ memReq'[r].op \in {"group put", "append"})
  PROVE  GroupOK'
<1>1. \A q \in Requests : q # r => memReq'[q] = memReq[q]
  BY DEF MemOnly
<1>2. grpFile' = grpFile /\ grpLog' = grpLog /\ grpRaced' = grpRaced
  BY DEF groupVars
<1>3. GrpLogged' /\ GrpLeft' = GrpLeft
  BY <1>1, <1>2, GrpLogKept DEF GroupOK, MemOnly
<1>4. AppendsKept'
  <2>1. ~(memReq[r].op = "group put" /\ memReq[r].at = "write")
    BY DEF Uses, Open
  <2>2. (~\E q \in Requests : memReq'[q].op = "group put" /\ memReq'[q].at = "write")
          => ~\E q \in Requests : memReq[q].op = "group put" /\ memReq[q].at = "write"
    BY <1>1, <2>1
  <2> QED BY <1>2, <1>3, <2>2, AppendsKeptMeans DEF GroupOK
<1>5. \A q \in Requests : \A ops : q # r => (Uses(q, ops)' <=> Uses(q, ops))
  BY <1>1 DEF Uses, Open
<1>6. ~Uses(r, {"group put"})' /\ ~Uses(r, {"group put", "append"})'
  BY DEF Uses
<1>7. ASSUME ~grpRaced', NEW q \in Requests, Uses(q, {"group put"})'
      PROVE  /\ \A p \in Requests : Uses(p, {"group put", "append"})' => p = q
             /\ memReq'[q].at = "write" => grpFile' = Empty
  BY <1>1, <1>2, <1>5, <1>6, <1>7 DEF GroupOK
<1> QED BY <1>3, <1>4, <1>7 DEF GroupOK

-----------------------------------------------------------------------------
\* Nothing has been read or written yet.
LEMMA MemStart == MemoryInit => MemInv
<1> SUFFICES ASSUME MemoryInit PROVE MemInv
  OBVIOUS
<1>1. /\ memFile \in {NoFile, Whole("old")} /\ memCache = NoText /\ grpFile = NoFile
      /\ memReq = [r \in Requests |-> NoRequest]
      /\ memRaced = FALSE /\ grpLog = <<>> /\ grpRaced = FALSE
  BY DEF MemoryInit
<1>2. NoRequest.at = "new"
  BY DEF NoRequest
<1>3. <<>> \in Seq(Requests) /\ DOMAIN <<>> = {}
  BY EmptySeq
<1>4. MemTypes
  BY <1>1 DEF MemTypes
<1>5. \A r \in Requests : \A ops : ~Uses(r, ops)
  BY <1>1, <1>2 DEF Uses, Open
<1>6. UserOK
  BY <1>1, <1>5 DEF UserOK
<1>7. GroupOK
  <2>1. GrpLogged
    BY <1>1, <1>3 DEF GrpLogged
  <2>2. AppendsKept
    BY <1>1, AppendsKeptMeans DEF GrpLeft
  <2> QED BY <1>5, <2>1, <2>2 DEF GroupOK
<1> QED BY <1>4, <1>6, <1>7 DEF MemInv

\* A request that is answered at once
LEMMA MemAtOnce ==
  ASSUME MemInv, NEW r \in Requests, memReq[r].at = "new", NEW status, NEW op,
         memReq' = [memReq EXCEPT ![r] = [Done(memReq[r], status) EXCEPT !.op = op]],
         memRaced' \in BOOLEAN, grpRaced' \in BOOLEAN
  PROVE  /\ MemOnly(r) /\ MemTypes' /\ memReq'[r].at = "done"
         /\ UNCHANGED userVars => UserOK'
         /\ UNCHANGED groupVars => GroupOK'
<1>1. PICK rec : rec = [Done(memReq[r], status) EXCEPT !.op = op]
  OBVIOUS
<1>2. rec.at = "done" /\ memReq' = [memReq EXCEPT ![r] = rec]
  BY <1>1, MemDone DEF MemInv
<1>3. MemOnly(r) /\ memReq'[r].at = "done"
  BY <1>2 DEF MemOnly, MemInv, MemTypes
<1>4. \A ops : ~Uses(r, ops) /\ ~Open(memReq', r)
  BY <1>3 DEF Uses, Open
<1> QED BY <1>3, <1>4, MemTypesAfter, UserUntouched, GroupUntouched DEF MemInv

\* A request that starts
LEMMA MemStarts ==
  ASSUME MemInv, NEW r \in Requests, memReq[r].at = "new", NEW op, NEW at, NEW text,
         Starts(r, op, at, text), memRaced' \in BOOLEAN, grpRaced' \in BOOLEAN,
         \/ op = "get" /\ at = "read"
         \/ op = "put" /\ at = "open"
         \/ op = "group put" /\ at = "open"
         \/ op = "append" /\ at = "append"
  PROVE  /\ MemOnly(r) /\ MemTypes' /\ memReq'[r].at = at /\ memReq'[r].op = op
         /\ memReq'[r].text = text
<1>1. PICK rec : rec = [op |-> op, at |-> at, answer |-> "none", text |-> text]
  OBVIOUS
<1>2. IsMem(rec) /\ rec.at = at /\ rec.op = op /\ rec.text = text
  BY <1>1 DEF IsMem, MemFields
<1>3. memReq' = [memReq EXCEPT ![r] = rec]
  BY <1>1 DEF Starts
<1>4. memReq'[r] = rec /\ \A q \in Requests : q # r => memReq'[q] = memReq[q]
  BY <1>3 DEF MemInv, MemTypes
<1>5. MemOnly(r)
  <2>1. memReq' = [q \in Requests |-> memReq'[q]]
    BY <1>3 DEF MemInv, MemTypes
  <2> QED BY <1>2, <1>4, <2>1 DEF MemOnly
<1> QED BY <1>2, <1>4, <1>5, MemTypesAfter DEF MemInv

\* A request that goes on
LEMMA MemGoesOn ==
  ASSUME MemInv, NEW r \in Requests, IsMem(memReq[r]), NEW rec, IsMem(rec),
         rec.op = memReq[r].op, memReq' = [memReq EXCEPT ![r] = rec],
         memRaced' = memRaced, grpRaced' = grpRaced
  PROVE  MemOnly(r) /\ MemTypes' /\ memReq'[r] = rec
<1>1. memReq'[r] = rec /\ \A q \in Requests : q # r => memReq'[q] = memReq[q]
  BY DEF MemInv, MemTypes
<1>2. MemOnly(r)
  <2>1. memReq' = [q \in Requests |-> memReq'[q]]
    BY DEF MemInv, MemTypes
  <2> QED BY <1>1, <2>1 DEF MemOnly, IsMem
<1> QED BY <1>1, <1>2, MemTypesAfter DEF MemInv, MemTypes

\* A request that ends
LEMMA MemEnds ==
  ASSUME MemInv, NEW r \in Requests, IsMem(memReq[r]), memReq[r].at # "done", NEW status,
         memReq' = [memReq EXCEPT ![r] = Done(memReq[r], status)], memRaced' = memRaced, grpRaced' = grpRaced
  PROVE  /\ MemOnly(r) /\ MemTypes' /\ memReq'[r].at = "done" /\ memReq'[r].op = memReq[r].op
         /\ memReq'[r].text = memReq[r].text
<1>1. memReq[r] # NoRequest
  <2>1. NoRequest.op = "none"
    BY DEF NoRequest
  <2> QED BY <2>1 DEF IsMem
<1>2. PICK rec : rec = Done(memReq[r], status)
  OBVIOUS
<1>3. rec.at = "done" /\ rec.op = memReq[r].op /\ rec.text = memReq[r].text
  BY <1>1, <1>2, MemDone DEF MemInv
<1>4. memReq'[r] = rec /\ \A q \in Requests : q # r => memReq'[q] = memReq[q]
  BY <1>2 DEF MemInv, MemTypes
<1>5. MemOnly(r)
  <2>1. memReq' = [q \in Requests |-> memReq'[q]]
    BY <1>2 DEF MemInv, MemTypes
  <2> QED BY <1>2, <1>3, <1>4, <2>1 DEF MemOnly, IsMem
<1> QED BY <1>3, <1>4, <1>5, MemTypesAfter DEF MemInv, MemTypes

-----------------------------------------------------------------------------
\* A request of AGENTS.md that is under way goes on or ends.
UserStep(r) ==
  /\ Uses(r, {"get", "put"}) /\ IsMem(memReq[r]) /\ UNCHANGED groupVars
  /\ memReq'[r].op = memReq[r].op /\ memRaced' = memRaced

\* What a step on the user's file leaves alone
LEMMA UserStepAfter ==
  ASSUME MemInv, NEW r \in Requests, MemOnly(r), UserStep(r)
  PROVE  /\ GroupOK'
         /\ \A q \in Requests : \A ops : Uses(q, ops)' => Uses(q, ops)
         /\ \A q \in Requests : \A ops : q # r => (Uses(q, ops)' <=> Uses(q, ops))
         /\ \A q \in Requests : q # r => memReq'[q] = memReq[q]
<1>1. ~Uses(r, {"group put", "append"}) /\ ~(Open(memReq', r) /\ memReq'[r].op \in {"group put", "append"})
  BY DEF UserStep, Uses
<1>2. GroupOK'
  BY <1>1, GroupUntouched DEF MemInv, UserStep
<1>3. \A q \in Requests : \A ops : q # r => (Uses(q, ops)' <=> Uses(q, ops))
  BY DEF MemOnly, Uses, Open
<1>4. \A ops : Uses(r, ops)' => Uses(r, ops)
  BY DEF UserStep, Uses
<1> QED BY <1>2, <1>3, <1>4 DEF MemOnly

\* A read starts: it is answered from the cache, or goes to the file.
LEMMA GetStarts ==
  ASSUME MemInv, NEW r \in Requests, GetUserMemory(r)
  PROVE  MemInv'
<1>1. memReq[r].at = "new" /\ UNCHANGED groupVars /\ memFile' = memFile /\ grpRaced' = grpRaced
      /\ \A ops : ~Uses(r, ops)
  BY DEF GetUserMemory, Uses, Open, groupVars
<1>2. CASE memCache # NoText \/ memFile = NoFile
  <2>1. /\ memReq' = [memReq EXCEPT ![r] = [Done(memReq[r], "200") EXCEPT !.op = "get"]]
        /\ memCache' = (IF memCache = NoText THEN "" ELSE memCache) /\ memRaced' = memRaced
    BY <1>2 DEF GetUserMemory, MemInv, MemTypes
  <2>2. MemOnly(r) /\ MemTypes' /\ memReq'[r].at = "done" /\ GroupOK'
    BY <1>1, <2>1, MemAtOnce DEF MemInv, MemTypes
  <2>3. UserOK'
    <3>1. CASE memCache # NoText
      <4>1. UNCHANGED userVars
        BY <3>1, <2>1, <1>1 DEF userVars
      <4> QED BY <4>1, <2>1, <1>1, MemAtOnce DEF MemInv, MemTypes
    <3>2. CASE memCache = NoText
      <4>1. memCache' = "" /\ memFile = NoFile
        BY <3>2, <1>2, <2>1
      <4>2. TextOf(memFile') = ""
        BY <4>1, <1>1 DEF TextOf, IsWhole, NoFile, Torn
      <4>3. \A q \in Requests : \A ops : Uses(q, ops)' => Uses(q, ops)
        BY <2>2 DEF MemOnly, Uses, Open
      <4>4. \A q \in Requests : q # r => memReq'[q] = memReq[q]
        BY <2>2 DEF MemOnly
      <4>5. ~Uses(r, {"put"})' /\ ~Uses(r, {"get"})'
        BY <2>2 DEF Uses, Open
      <4>6. SUFFICES ASSUME ~memRaced' PROVE UserOK'
        BY DEF UserOK
      <4>7. ASSUME NEW q \in Requests, Uses(q, {"put"})'
            PROVE  /\ \A p \in Requests : Uses(p, {"get", "put"})' => p = q
                   /\ memReq'[q].at = "write" => memFile' = Empty
                   /\ memReq'[q].at = "cache" => memFile' = Whole(memReq'[q].text)
        BY <4>3, <4>4, <4>5, <4>6, <4>7, <1>1, <2>1 DEF MemInv, UserOK
      <4>8. ASSUME NEW q \in Requests, Uses(q, {"get"})', memReq'[q].at = "cache"
            PROVE  memReq'[q].text = TextOf(memFile)'
        BY <4>3, <4>4, <4>5, <4>6, <4>8, <1>1, <2>1 DEF MemInv, UserOK
      <4> QED BY <4>1, <4>2, <4>6, <4>7, <4>8 DEF UserOK
    <3> QED BY <3>1, <3>2
  <2> QED BY <2>2, <2>3 DEF MemInv
<1>3. CASE ~(memCache # NoText \/ memFile = NoFile)
  <2>1. Starts(r, "get", "read", NoText) /\ memRaced' = (memRaced \/ Under("put"))
        /\ memCache' = memCache
    BY <1>3 DEF GetUserMemory
  <2>2. MemOnly(r) /\ MemTypes' /\ memReq'[r].at = "read" /\ memReq'[r].op = "get"
    <3>1. memRaced' \in BOOLEAN /\ grpRaced' \in BOOLEAN
      BY <1>1, <2>1 DEF MemInv, MemTypes
    <3> QED BY <1>1, <2>1, <3>1, MemStarts
  <2>3. GroupOK'
    <3>1. ~(Open(memReq', r) /\ memReq'[r].op \in {"group put", "append"})
      BY <2>2
    <3> QED BY <3>1, <1>1, <2>2, GroupUntouched DEF MemInv
  <2>4. UserOK'
    <3>1. SUFFICES ASSUME ~memRaced' PROVE UserOK'
      BY DEF UserOK
    <3>2. \A q \in Requests : q # r => memReq'[q] = memReq[q]
      BY <2>2 DEF MemOnly
    <3>3. \A q \in Requests : ~Uses(q, {"put"}) /\ ~Uses(q, {"put"})'
      BY <3>1, <3>2, <2>1, <2>2 DEF Under, Uses, Open
    <3>4. ASSUME NEW q \in Requests, Uses(q, {"get"})', memReq'[q].at = "cache"
          PROVE  memReq'[q].text = TextOf(memFile)'
      <4>1. q # r
        BY <3>4, <2>2
      <4> QED BY <4>1, <3>1, <3>2, <3>4, <2>1, <1>1 DEF MemInv, UserOK, Uses, Open
    <3> QED BY <3>1, <3>3, <3>4, <2>1, <1>1 DEF MemInv, UserOK
  <2> QED BY <2>2, <2>3, <2>4 DEF MemInv
<1> QED BY <1>2, <1>3

\* The reader has the text of the file.
LEMMA GetReads ==
  ASSUME MemInv, NEW r \in Requests, ReadUserMemory(r)
  PROVE  MemInv'
<1>1. /\ memReq[r].op = "get" /\ memReq[r].at = "read" /\ IsMem(memReq[r])
      /\ UNCHANGED <<memFile, memCache, memRaced, grpFile, grpLog, grpRaced>>
  BY DEF ReadUserMemory, userVars, groupVars, MemInv, MemTypes, NoRequest
<1>2. PICK rec : rec = [memReq[r] EXCEPT !.at = "cache", !.text = TextOf(memFile)]
  OBVIOUS
<1>3. memReq' = [memReq EXCEPT ![r] = rec]
  BY <1>2 DEF ReadUserMemory, MemInv, MemTypes
<1>4. /\ MemOnly(r) /\ MemTypes' /\ memReq'[r].at = "cache" /\ memReq'[r].op = "get"
      /\ memReq'[r].text = TextOf(memFile)
  <2>1. IsMem(rec) /\ rec.at = "cache" /\ rec.text = TextOf(memFile) /\ rec.op = memReq[r].op
    BY <1>1, <1>2 DEF IsMem, MemFields
  <2> QED BY <1>1, <1>3, <2>1, MemGoesOn
<1>5. UserStep(r)
  BY <1>1, <1>4 DEF UserStep, Uses, Open, groupVars
<1>6. /\ GroupOK' /\ \A q \in Requests : \A ops : Uses(q, ops)' => Uses(q, ops)
      /\ \A q \in Requests : \A ops : q # r => (Uses(q, ops)' <=> Uses(q, ops))
      /\ \A q \in Requests : q # r => memReq'[q] = memReq[q]
  BY <1>4, <1>5, UserStepAfter
<1>7. UserOK'
  <2>1. SUFFICES ASSUME ~memRaced' PROVE UserOK'
    BY DEF UserOK
  <2>2. ~Uses(r, {"put"}) /\ ~Uses(r, {"put"})'
    BY <1>1, <1>4 DEF Uses
  <2>3. ASSUME NEW q \in Requests, Uses(q, {"put"})'
        PROVE  /\ \A p \in Requests : Uses(p, {"get", "put"})' => p = q
               /\ memReq'[q].at = "write" => memFile' = Empty
               /\ memReq'[q].at = "cache" => memFile' = Whole(memReq'[q].text)
    BY <2>1, <2>2, <2>3, <1>1, <1>6 DEF MemInv, UserOK
  <2>4. ASSUME NEW q \in Requests, Uses(q, {"get"})', memReq'[q].at = "cache"
        PROVE  memReq'[q].text = TextOf(memFile)'
    BY <2>1, <2>4, <1>1, <1>4, <1>6 DEF MemInv, UserOK
  <2>5. (\A q \in Requests : ~Uses(q, {"put"})') => memCache' \in {NoText, TextOf(memFile)'}
    BY <2>1, <2>2, <1>1, <1>6 DEF MemInv, UserOK
  <2> QED BY <2>1, <2>3, <2>4, <2>5 DEF UserOK
<1> QED BY <1>4, <1>6, <1>7 DEF MemInv

\* An update of the user's file starts.
LEMMA PutStarts ==
  ASSUME MemInv, NEW r \in Requests, NEW text, UpdateUserMemory(r, text)
  PROVE  MemInv'
<1>1. /\ memReq[r].at = "new" /\ Starts(r, "put", "open", text)
      /\ memRaced' = (memRaced \/ Under("put") \/ Under("get"))
      /\ UNCHANGED <<memFile, memCache, grpFile, grpLog, grpRaced>> /\ \A ops : ~Uses(r, ops)
  BY DEF UpdateUserMemory, groupVars, Uses, Open
<1>2. MemOnly(r) /\ MemTypes' /\ memReq'[r].at = "open" /\ memReq'[r].op = "put"
  BY <1>1, MemStarts DEF MemInv, MemTypes
<1>3. GroupOK'
  <2>1. ~(Open(memReq', r) /\ memReq'[r].op \in {"group put", "append"}) /\ UNCHANGED groupVars
    BY <1>1, <1>2 DEF groupVars
  <2> QED BY <2>1, <1>1, <1>2, GroupUntouched DEF MemInv
<1>4. UserOK'
  <2>1. SUFFICES ASSUME ~memRaced' PROVE UserOK'
    BY DEF UserOK
  <2>2. \A q \in Requests : q # r => memReq'[q] = memReq[q]
    BY <1>2 DEF MemOnly
  <2>3. \A q \in Requests : q # r => ~Uses(q, {"put"})' /\ ~Uses(q, {"get"})' /\ ~Uses(q, {"get", "put"})'
    BY <2>1, <2>2, <1>1 DEF Under, Uses, Open
  <2>4. Uses(r, {"put"})' /\ ~Uses(r, {"get"})'
    BY <1>2 DEF Uses, Open
  <2> QED BY <2>1, <2>3, <2>4, <1>2 DEF UserOK
<1> QED BY <1>2, <1>3, <1>4 DEF MemInv

\* It opens the file, then writes.
LEMMA PutOpens ==
  ASSUME MemInv, NEW r \in Requests, OpenUserMemory(r) \/ WriteUserMemory(r)
  PROVE  MemInv'
<1>1. PICK at \in {"write", "cache"} : Steps(r, at) /\ (at = "write" <=> OpenUserMemory(r))
  BY DEF OpenUserMemory, WriteUserMemory
<1>2. /\ memReq[r].op = "put" /\ IsMem(memReq[r]) /\ memReq[r].at \in {"open", "write"}
      /\ UNCHANGED <<memCache, memRaced, grpFile, grpLog, grpRaced>>
  BY DEF OpenUserMemory, WriteUserMemory, groupVars, MemInv, MemTypes, NoRequest
<1>3. PICK rec : rec = [memReq[r] EXCEPT !.at = at]
  OBVIOUS
<1>4. memReq' = [memReq EXCEPT ![r] = rec]
  BY <1>1, <1>3 DEF Steps, MemInv, MemTypes
<1>5. IsMem(rec) /\ rec.at = at /\ rec.text = memReq[r].text /\ rec.op = memReq[r].op
  BY <1>2, <1>3 DEF IsMem, MemFields
<1>6. /\ MemOnly(r) /\ MemTypes' /\ memReq'[r].at = at /\ memReq'[r].op = "put"
      /\ memReq'[r].text = memReq[r].text
  BY <1>2, <1>4, <1>5, MemGoesOn
<1>7. UserStep(r)
  BY <1>2, <1>6 DEF UserStep, Uses, Open, groupVars
<1>8. /\ GroupOK' /\ \A q \in Requests : \A ops : Uses(q, ops)' => Uses(q, ops)
      /\ \A q \in Requests : \A ops : q # r => (Uses(q, ops)' <=> Uses(q, ops))
  BY <1>6, <1>7, UserStepAfter
<1>9. UserOK'
  <2>1. SUFFICES ASSUME ~memRaced' PROVE UserOK'
    BY DEF UserOK
  <2>2. Uses(r, {"put"}) /\ Uses(r, {"get", "put"})
    BY <1>2 DEF Uses, Open
  <2>3. /\ \A q \in Requests : Uses(q, {"get", "put"}) => q = r
        /\ memReq[r].at = "write" => memFile = Empty
    BY <2>1, <2>2, <1>2 DEF MemInv, UserOK
  <2>4. \A q \in Requests : Uses(q, {"put"})' \/ Uses(q, {"get"})' \/ Uses(q, {"get", "put"})' => q = r
    BY <2>3, <1>8 DEF Uses
  <2>5. ~Uses(r, {"get"})' /\ Uses(r, {"put"})'
    BY <1>6 DEF Uses, Open
  <2>6. CASE OpenUserMemory(r)
    <3>1. memFile' = Empty /\ at = "write"
      BY <2>6, <1>1 DEF OpenUserMemory
    <3> QED BY <3>1, <2>1, <2>4, <2>5, <1>6 DEF UserOK
  <2>7. CASE ~OpenUserMemory(r)
    <3>1. WriteUserMemory(r) /\ at = "cache"
      BY <2>7, <1>1
    <3>2. memFile' = Whole(memReq[r].text)
      BY <3>1, <2>3 DEF WriteUserMemory, WrittenOver
    <3> QED BY <3>1, <3>2, <2>1, <2>4, <2>5, <1>6 DEF UserOK
  <2> QED BY <2>6, <2>7
<1> QED BY <1>6, <1>8, <1>9 DEF MemInv

\* A reader or an update puts its text into the cache and is answered.
LEMMA CacheIsSet ==
  ASSUME MemInv, NEW r \in Requests, SetCache(r)
  PROVE  MemInv'
<1>1. /\ memReq[r].at = "cache" /\ IsMem(memReq[r]) /\ memReq[r].op \in {"get", "put"}
      /\ memCache' = memReq[r].text
      /\ UNCHANGED <<memFile, memRaced, grpFile, grpLog, grpRaced>>
      /\ memReq' = [memReq EXCEPT ![r] = Done(memReq[r], "200")]
  <2>1. memReq[r].at = "cache" /\ IsMem(memReq[r])
    BY DEF SetCache, MemInv, MemTypes, NoRequest
  <2> QED BY <2>1 DEF SetCache, Cached, Finishes, groupVars, MemInv, MemTypes, IsMem
<1>2. MemOnly(r) /\ MemTypes' /\ memReq'[r].at = "done" /\ memReq'[r].op = memReq[r].op
  BY <1>1, MemEnds
<1>3. UserStep(r)
  BY <1>1, <1>2 DEF UserStep, Uses, Open, groupVars
<1>4. /\ GroupOK' /\ \A q \in Requests : \A ops : Uses(q, ops)' => Uses(q, ops)
      /\ \A q \in Requests : \A ops : q # r => (Uses(q, ops)' <=> Uses(q, ops))
      /\ \A q \in Requests : q # r => memReq'[q] = memReq[q]
  BY <1>2, <1>3, UserStepAfter
<1>5. UserOK'
  <2>1. SUFFICES ASSUME ~memRaced' PROVE UserOK'
    BY DEF UserOK
  <2>2. \A ops : ~Uses(r, ops)'
    BY <1>2 DEF Uses, Open
  <2>3. ASSUME NEW q \in Requests, Uses(q, {"put"})'
        PROVE  /\ \A p \in Requests : Uses(p, {"get", "put"})' => p = q
               /\ memReq'[q].at = "write" => memFile' = Empty
               /\ memReq'[q].at = "cache" => memFile' = Whole(memReq'[q].text)
    <3>1. q # r
      BY <2>2, <2>3
    <3> QED BY <3>1, <2>1, <2>3, <1>1, <1>4 DEF MemInv, UserOK
  <2>4. ASSUME NEW q \in Requests, Uses(q, {"get"})', memReq'[q].at = "cache"
        PROVE  memReq'[q].text = TextOf(memFile)'
    <3>1. q # r
      BY <2>2, <2>4
    <3> QED BY <3>1, <2>1, <2>4, <1>1, <1>4 DEF MemInv, UserOK
  <2>5. ASSUME \A q \in Requests : ~Uses(q, {"put"})'
        PROVE  memCache' = TextOf(memFile')
    <3>1. CASE memReq[r].op = "get"
      <4>1. Uses(r, {"get"})
        BY <3>1, <1>1 DEF Uses, Open
      <4> QED BY <4>1, <2>1, <1>1 DEF MemInv, UserOK
    <3>2. CASE memReq[r].op = "put"
      <4>1. Uses(r, {"put"})
        BY <3>2, <1>1 DEF Uses, Open
      <4>2. memFile' = Whole(memReq[r].text)
        BY <4>1, <2>1, <1>1 DEF MemInv, UserOK
      <4> QED BY <4>2, <1>1 DEF TextOf, IsWhole, Whole
    <3> QED BY <3>1, <3>2, <1>1
  <2> QED BY <2>1, <2>3, <2>4, <2>5 DEF UserOK
<1> QED BY <1>2, <1>4, <1>5 DEF MemInv

-----------------------------------------------------------------------------
\* A sequence of one element, and one with one more
LEMMA OneMore ==
  ASSUME NEW k \in Nat, NEW s, s = [i \in 1 .. k |-> s[i]], NEW x
  PROVE  /\ Append(s, x) = [i \in 1 .. k + 1 |-> IF i = k + 1 THEN x ELSE s[i]]
         /\ <<x>> = [i \in 1 .. 1 |-> x]
<1> DEFINE S == {s[i] : i \in 1 .. k}
<1>1. s \in Seq(S) /\ Len(s) = k
  BY SeqDef, LenProperties
<1>2. Append(s, x) = [i \in 1 .. Len(s) + 1 |-> IF i = Len(s) + 1 THEN x ELSE s[i]]
  BY <1>1
<1>3. <<x>> = [i \in 1 .. 1 |-> x]
  OBVIOUS
<1> QED BY <1>1, <1>2, <1>3

\* What a text is added to
LEMMA AppendedIs ==
  ASSUME NEW text
  PROVE  /\ Appended(NoFile, text) = Whole(<<text>>)
         /\ \A texts : Appended(Whole(texts), text) = Whole(Append(texts, text))
<1>1. ~IsWhole(NoFile) /\ NoFile # Torn
  BY DEF IsWhole, NoFile, Torn
<1>2. \A texts : IsWhole(Whole(texts)) /\ Whole(texts).data = texts
  BY DEF IsWhole, Whole
<1>0. \A f : IsWhole(f) => f # Torn
  BY DEF IsWhole, Torn
<1>3. \A f : IsWhole(f) => Appended(f, text) = Whole(Append(f.data, text))
  BY <1>0 DEF Appended
<1>4. \A f : ~IsWhole(f) /\ f # Torn => Appended(f, text) = Whole(<<text>>)
  BY DEF Appended
<1> QED BY <1>1, <1>2, <1>3, <1>4

\* What one more change leaves
LEMMA GrpAppended ==
  ASSUME GrpLogged, NEW r \in Requests, grpLog' = Append(grpLog, r),
         \A q \in Requests : q # r => memReq'[q] = memReq[q],
         memReq[r].at # "done", memReq'[r].at = "done"
  PROVE  /\ GrpLogged'
         /\ GrpLeft' = IF memReq'[r].op = "group put" THEN Whole(<<memReq'[r].text>>)
                       ELSE Appended(GrpLeft, memReq'[r].text)
<1> DEFINE n == Len(grpLog)
           text == memReq'[r].text
<1>1. /\ n \in Nat /\ DOMAIN grpLog = 1 .. n /\ grpLog \in Seq(Requests)
      /\ GrpPuts \subseteq 1 .. n /\ GrpFrom \in Nat \ {0} /\ GrpFrom \in GrpPuts \cup {1}
  BY GrpPositions DEF GrpLogged
<1>2. /\ grpLog' \in Seq(Requests) /\ DOMAIN grpLog' = 1 .. n + 1 /\ Len(grpLog') = n + 1
      /\ grpLog'[n + 1] = r /\ \A i \in 1 .. n : grpLog'[i] = grpLog[i]
  BY <1>1
<1>3. \A i \in 1 .. n : memReq'[grpLog'[i]] = memReq[grpLog[i]] /\ memReq[grpLog[i]].at = "done"
  <2> TAKE i \in 1 .. n
  <2>1. grpLog[i] \in Requests /\ memReq[grpLog[i]].at = "done"
    BY <1>1 DEF GrpLogged
  <2> QED BY <2>1, <1>2
<1>4. \A i \in 1 .. n + 1 : i \in 1 .. n \/ i = n + 1
  BY <1>1
<1>5. GrpLogged'
  BY <1>2, <1>3, <1>4 DEF GrpLogged
<1>6. GrpLeft' = Whole(GrpTexts)'
  <2>1. grpLog' # <<>>
    BY <1>1, <1>2, EmptySeq
  <2> QED BY <2>1 DEF GrpLeft
<1>9. GrpPuts' = GrpPuts \cup (IF memReq'[r].op = "group put" THEN {n + 1} ELSE {})
  <2>1. GrpPuts' = {i \in 1 .. n + 1 : memReq'[grpLog'[i]].op = "group put"}
        /\ GrpPuts = {i \in 1 .. n : memReq[grpLog[i]].op = "group put"}
    BY <1>1, <1>2 DEF GrpPuts
  <2>2. \A i \in 1 .. n : i \in 1 .. n + 1
    BY <1>1
  <2>3. ASSUME NEW i \in 1 .. n + 1
        PROVE  memReq'[grpLog'[i]].op = "group put"
                 <=> i \in GrpPuts \/ (i = n + 1 /\ memReq'[r].op = "group put")
    <3>1. CASE i = n + 1
      <4>1. n + 1 \notin 1 .. n
        BY <1>1
      <4> QED BY <3>1, <4>1, <2>1, <1>2
    <3>2. CASE i # n + 1
      <4>1. i \in 1 .. n
        BY <3>2, <1>4
      <4> QED BY <3>2, <4>1, <2>1, <1>3
    <3> QED BY <3>1, <3>2
  <2>4. n + 1 \in 1 .. n + 1
    BY <1>1
  <2> HIDE DEF n
  <2> QED BY <2>1, <2>2, <2>3, <2>4
<1>7. CASE memReq'[r].op = "group put"
  <2>1. GrpPuts' = GrpPuts \cup {n + 1}
    BY <1>7, <1>9
  <2>2. GrpFrom' = n + 1
    <3>1. GrpPuts \cup {1} \subseteq 0 .. n + 1 /\ n + 1 \in Nat
      BY <1>1
    <3>2. GrpPuts' \cup {1} = (GrpPuts \cup {1}) \cup {n + 1}
      BY <2>1
    <3> QED BY <3>1, <3>2, GreatestAdded DEF GrpFrom
  <2>3. GrpTexts' = [i \in 1 .. 1 |-> text]
    <3>1. Len(grpLog') - GrpFrom' + 1 = 1 /\ \A i \in 1 .. 1 : GrpFrom' + i - 1 = n + 1
      BY <1>1, <1>2, <2>2
    <3> QED BY <3>1, <1>2 DEF GrpTexts
  <2>4. GrpTexts' = <<text>>
    BY <2>3, OneMore
  <2> QED BY <2>4, <1>5, <1>6, <1>7
<1>8. CASE memReq'[r].op # "group put"
  <2>1. GrpPuts' = GrpPuts
    BY <1>8, <1>9
  <2>2. GrpFrom' = GrpFrom
    BY <2>1 DEF GrpFrom
  <2>3. CASE grpLog = <<>>
    <3>1. n = 0 /\ GrpFrom = 1
      BY <2>3, <1>1, EmptySeq
    <3>2. GrpTexts' = [i \in 1 .. 1 |-> text]
      <4>1. Len(grpLog') - GrpFrom' + 1 = 1 /\ \A i \in 1 .. 1 : GrpFrom' + i - 1 = n + 1
        BY <1>1, <1>2, <2>2, <3>1
      <4> QED BY <4>1, <1>2 DEF GrpTexts
    <3>3. GrpTexts' = <<text>>
      BY <3>2, OneMore
    <3>4. GrpLeft = NoFile
      BY <2>3 DEF GrpLeft
    <3> QED BY <3>3, <3>4, <1>5, <1>6, <1>8, AppendedIs
  <2>4. CASE grpLog # <<>>
    <3> DEFINE k == n - GrpFrom + 1
    <3>1. GrpFrom <= n /\ k \in Nat
      <4>1. GrpFrom <= n
        BY <2>4, GrpPositions
      <4> QED BY <4>1, <1>1
    <3>2. GrpTexts = [i \in 1 .. k |-> memReq[grpLog[GrpFrom + i - 1]].text]
          /\ GrpTexts = [i \in 1 .. k |-> GrpTexts[i]]
      BY DEF GrpTexts
    <3>3. GrpTexts' = [i \in 1 .. k + 1 |-> memReq'[grpLog'[GrpFrom + i - 1]].text]
      <4>1. Len(grpLog') - GrpFrom' + 1 = k + 1
        BY <1>1, <1>2, <2>2
      <4> QED BY <4>1, <2>2 DEF GrpTexts
    <3>4. ASSUME NEW i \in 1 .. k + 1
          PROVE  memReq'[grpLog'[GrpFrom + i - 1]].text = IF i = k + 1 THEN text ELSE GrpTexts[i]
      <4>1. CASE i = k + 1
        <5>1. GrpFrom + i - 1 = n + 1
          BY <4>1, <1>1
        <5> QED BY <5>1, <4>1, <1>2
      <4>2. CASE i # k + 1
        <5>1. i \in 1 .. k /\ GrpFrom + i - 1 \in 1 .. n
          BY <4>2, <3>1, <1>1
        <5> QED BY <5>1, <4>2, <1>3, <3>2
      <4> QED BY <4>1, <4>2
    <3>5. GrpTexts' = Append(GrpTexts, text)
      <4>1. Append(GrpTexts, text) = [i \in 1 .. k + 1 |-> IF i = k + 1 THEN text ELSE GrpTexts[i]]
        BY <3>1, <3>2, OneMore
      <4> QED BY <4>1, <3>3, <3>4
    <3>6. GrpLeft = Whole(GrpTexts)
      BY <2>4 DEF GrpLeft
    <3> QED BY <3>5, <3>6, <1>5, <1>6, <1>8, AppendedIs
  <2> QED BY <2>3, <2>4
<1> QED BY <1>7, <1>8

-----------------------------------------------------------------------------
\* A request of the group's file is under way after the step, before it, or both.
LEMMA GroupStepAfter ==
  ASSUME MemInv, NEW r \in Requests, MemOnly(r), UNCHANGED userVars,
         memReq[r].at = "new" \/ memReq[r].op \in {"group put", "append"},
         memReq'[r].op \in {"group put", "append"}
  PROVE  /\ UserOK'
         /\ \A q \in Requests : \A ops : q # r => (Uses(q, ops)' <=> Uses(q, ops))
         /\ \A q \in Requests : q # r => memReq'[q] = memReq[q]
<1>1. ~Uses(r, {"get", "put"}) /\ ~(Open(memReq', r) /\ memReq'[r].op \in {"get", "put"})
  BY DEF Uses, Open
<1>2. UserOK'
  BY <1>1, UserUntouched DEF MemInv
<1>3. \A q \in Requests : \A ops : q # r => (Uses(q, ops)' <=> Uses(q, ops))
  BY DEF MemOnly, Uses, Open
<1> QED BY <1>2, <1>3 DEF MemOnly

\* A change of the group's file starts.
LEMMA GroupStarts ==
  ASSUME MemInv, NEW r \in Requests, NEW text,
         UpdateGroupMemory(r, text) \/ AppendDailyMemory(r, text)
  PROVE  MemInv'
<1>1. /\ memReq[r].at = "new" /\ UNCHANGED userVars /\ memRaced' = memRaced
      /\ grpFile' = grpFile /\ grpLog' = grpLog
      /\ \/ Starts(r, "group put", "open", text)
            /\ grpRaced' = (grpRaced \/ Under("group put") \/ Under("append"))
         \/ Starts(r, "append", "append", text) /\ grpRaced' = (grpRaced \/ Under("group put"))
  BY DEF UpdateGroupMemory, AppendDailyMemory, userVars
<1>2. /\ MemOnly(r) /\ MemTypes' /\ memReq'[r].at # "write"
      /\ \/ memReq'[r].op = "group put"
            /\ grpRaced' = (grpRaced \/ Under("group put") \/ Under("append"))
         \/ memReq'[r].op = "append" /\ grpRaced' = (grpRaced \/ Under("group put"))
  <2>1. memRaced' \in BOOLEAN /\ grpRaced' \in BOOLEAN
    BY <1>1 DEF MemInv, MemTypes
  <2>2. ASSUME Starts(r, "group put", "open", text)
        PROVE  MemOnly(r) /\ MemTypes' /\ memReq'[r].at = "open" /\ memReq'[r].op = "group put"
    BY <2>1, <2>2, <1>1, MemStarts
  <2>3. ASSUME Starts(r, "append", "append", text)
        PROVE  MemOnly(r) /\ MemTypes' /\ memReq'[r].at = "append" /\ memReq'[r].op = "append"
    BY <2>1, <2>3, <1>1, MemStarts
  <2> QED BY <2>2, <2>3, <1>1
<1>3. /\ UserOK' /\ \A q \in Requests : \A ops : q # r => (Uses(q, ops)' <=> Uses(q, ops))
      /\ \A q \in Requests : q # r => memReq'[q] = memReq[q]
  BY <1>1, <1>2, GroupStepAfter
<1>4. GrpLogged' /\ GrpLeft' = GrpLeft
  BY <1>1, <1>3, GrpLogKept DEF MemInv, GroupOK
<1>5. GroupOK'
  <2>1. AppendsKept'
    <3>1. (~\E q \in Requests : memReq'[q].op = "group put" /\ memReq'[q].at = "write")
            => ~\E q \in Requests : memReq[q].op = "group put" /\ memReq[q].at = "write"
      BY <1>1, <1>3
    <3>2. ~grpRaced' => ~grpRaced
      BY <1>1
    <3> QED BY <1>1, <1>4, <3>1, <3>2, AppendsKeptMeans DEF MemInv, GroupOK
  <2>2. ASSUME ~grpRaced', NEW q \in Requests, Uses(q, {"group put"})'
        PROVE  /\ \A p \in Requests : Uses(p, {"group put", "append"})' => p = q
               /\ memReq'[q].at = "write" => grpFile' = Empty
    <3>1. ~grpRaced /\ \A p \in Requests : ~Uses(p, {"group put"})
      BY <2>2, <1>1 DEF Under, Uses
    <3>2. q = r /\ memReq'[r].op = "group put"
      BY <2>2, <3>1, <1>3 DEF Uses
    <3>3. \A p \in Requests : ~Uses(p, {"group put", "append"})
      BY <3>2, <2>2, <1>2 DEF Under, Uses
    <3> QED BY <3>2, <3>3, <1>2, <1>3
  <2> QED BY <2>1, <2>2, <1>4 DEF GroupOK
<1> QED BY <1>2, <1>3, <1>5 DEF MemInv

\* A replacement opens the group's file.
LEMMA GroupOpens ==
  ASSUME MemInv, NEW r \in Requests, OpenGroupMemory(r)
  PROVE  MemInv'
<1>1. /\ memReq[r].op = "group put" /\ memReq[r].at = "open" /\ IsMem(memReq[r])
      /\ UNCHANGED userVars /\ memRaced' = memRaced /\ grpLog' = grpLog /\ grpRaced' = grpRaced
      /\ grpFile' = Empty
  <2>1. memReq[r].op = "group put" /\ memReq[r].at = "open"
    BY DEF OpenGroupMemory
  <2>2. NoRequest.at = "new"
    BY DEF NoRequest
  <2>3. IsMem(memReq[r])
    BY <2>1, <2>2 DEF MemInv, MemTypes
  <2> QED BY <2>1, <2>3 DEF OpenGroupMemory, userVars
<1>2. PICK rec : rec = [memReq[r] EXCEPT !.at = "write"]
  OBVIOUS
<1>3. memReq' = [memReq EXCEPT ![r] = rec]
  BY <1>2 DEF OpenGroupMemory, Steps, MemInv, MemTypes
<1>4. IsMem(rec) /\ rec.at = "write" /\ rec.op = "group put"
  BY <1>1, <1>2 DEF IsMem, MemFields
<1>5. MemOnly(r) /\ MemTypes' /\ memReq'[r].at = "write" /\ memReq'[r].op = "group put"
  BY <1>1, <1>3, <1>4, MemGoesOn
<1>6. /\ UserOK' /\ \A q \in Requests : \A ops : q # r => (Uses(q, ops)' <=> Uses(q, ops))
      /\ \A q \in Requests : q # r => memReq'[q] = memReq[q]
  BY <1>1, <1>5, GroupStepAfter
<1>7. GrpLogged' /\ GrpLeft' = GrpLeft
  BY <1>1, <1>6, GrpLogKept DEF MemInv, GroupOK
<1>8. GroupOK'
  <2>1. AppendsKept'
    BY <1>5, AppendsKeptMeans
  <2>2. ASSUME ~grpRaced', NEW q \in Requests, Uses(q, {"group put"})'
        PROVE  \A p \in Requests : Uses(p, {"group put", "append"})' => p = q
    <3>1. Uses(r, {"group put"}) /\ Uses(r, {"group put", "append"})
      BY <1>1 DEF Uses, Open
    <3>2. \A p \in Requests : Uses(p, {"group put", "append"}) => p = r
      BY <3>1, <2>2, <1>1 DEF MemInv, GroupOK
    <3>3. \A p \in Requests : Uses(p, {"group put", "append"})' => p = r
      BY <3>2, <1>6
    <3>4. Uses(q, {"group put", "append"})'
      BY <2>2 DEF Uses
    <3> QED BY <3>3, <3>4
  <2> QED BY <2>1, <2>2, <1>1, <1>7 DEF GroupOK
<1> QED BY <1>5, <1>6, <1>8 DEF MemInv

\* A replacement or an addition has been written.
LEMMA GroupEnds ==
  ASSUME MemInv, NEW r \in Requests, WriteGroupMemory(r) \/ AppendText(r)
  PROVE  MemInv'
<1>1. /\ memReq[r].at \in {"write", "append"} /\ IsMem(memReq[r])
      /\ memReq[r].op = IF memReq[r].at = "append" THEN "append" ELSE "group put"
      /\ WriteGroupMemory(r) <=> memReq[r].op = "group put"
      /\ UNCHANGED userVars /\ memRaced' = memRaced /\ grpRaced' = grpRaced
      /\ grpLog' = Append(grpLog, r) /\ Finishes(r, "200")
  <2>1. memReq[r].at \in {"write", "append"} /\ IsMem(memReq[r])
    <3>1. memReq[r].at \in {"write", "append"}
      BY DEF WriteGroupMemory, AppendText
    <3>2. NoRequest.at = "new"
      BY DEF NoRequest
    <3> QED BY <3>1, <3>2 DEF MemInv, MemTypes
  <2>2. WriteGroupMemory(r) => memReq[r].op = "group put" /\ memReq[r].at = "write"
    BY DEF WriteGroupMemory
  <2>3. AppendText(r) => memReq[r].op = "append" /\ memReq[r].at = "append"
    BY <2>1 DEF AppendText, IsMem
  <2> QED BY <2>1, <2>2, <2>3 DEF WriteGroupMemory, AppendText, userVars
<1>2. /\ MemOnly(r) /\ MemTypes' /\ memReq'[r].at = "done" /\ memReq'[r].op = memReq[r].op
      /\ memReq'[r].text = memReq[r].text
  <2>1. memReq' = [memReq EXCEPT ![r] = Done(memReq[r], "200")]
    BY <1>1 DEF Finishes, MemInv, MemTypes
  <2> QED BY <1>1, <2>1, MemEnds
<1>3. /\ UserOK' /\ \A q \in Requests : \A ops : q # r => (Uses(q, ops)' <=> Uses(q, ops))
      /\ \A q \in Requests : q # r => memReq'[q] = memReq[q]
  BY <1>1, <1>2, GroupStepAfter
<1>4. /\ GrpLogged'
      /\ GrpLeft' = IF memReq'[r].op = "group put" THEN Whole(<<memReq'[r].text>>)
                    ELSE Appended(GrpLeft, memReq'[r].text)
  BY <1>1, <1>2, <1>3, GrpAppended DEF MemInv, GroupOK
<1>5. Uses(r, {"group put", "append"}) /\ (memReq[r].op = "group put" => Uses(r, {"group put"}))
  BY <1>1 DEF Uses, Open
<1>6. ASSUME ~grpRaced
      PROVE  /\ \A q \in Requests : q # r => ~Uses(q, {"group put"})
             /\ memReq[r].op = "group put" =>
                  grpFile = Empty /\ \A q \in Requests : Uses(q, {"group put", "append"}) => q = r
  BY <1>1, <1>5, <1>6 DEF MemInv, GroupOK
<1>7. AppendsKept'
  <2>1. SUFFICES ASSUME ~grpRaced PROVE grpFile' = GrpLeft'
    BY <1>1, AppendsKeptMeans
  <2>2. CASE memReq[r].op = "group put"
    <3>1. grpFile = Empty
      BY <2>1, <2>2, <1>6
    <3>2. grpFile' = Whole(<<memReq[r].text>>)
      BY <2>2, <3>1, <1>1 DEF WriteGroupMemory, WrittenOver
    <3> QED BY <2>2, <3>2, <1>2, <1>4
  <2>3. CASE memReq[r].op # "group put"
    <3>1. AppendText(r) /\ memReq[r].op = "append"
      BY <2>3, <1>1
    <3>2. grpFile = GrpLeft
      <4>1. ~\E q \in Requests : memReq[q].op = "group put" /\ memReq[q].at = "write"
        BY <2>1, <2>3, <1>6 DEF Uses, Open
      <4> QED BY <4>1, <2>1, AppendsKeptMeans DEF MemInv, GroupOK
    <3>3. grpFile' = Appended(GrpLeft, memReq[r].text)
      BY <3>1, <3>2 DEF AppendText
    <3> QED BY <3>1, <3>3, <1>2, <1>4
  <2> QED BY <2>2, <2>3
<1>8. GroupOK'
  <2>1. ~Uses(r, {"group put"})' /\ ~Uses(r, {"group put", "append"})'
    BY <1>2 DEF Uses, Open
  <2>2. ~grpRaced' => \A q \in Requests : ~Uses(q, {"group put"})'
    BY <2>1, <1>1, <1>3, <1>6
  <2> QED BY <2>2, <1>4, <1>7 DEF GroupOK
<1> QED BY <1>2, <1>3, <1>8 DEF MemInv

\* The invariant of the memory files holds.
LEMMA MemStep == MemInv /\ [MemoryNext]_memVars => MemInv'
<1> SUFFICES ASSUME MemInv, [MemoryNext]_memVars PROVE MemInv'
  OBVIOUS
<1>1. CASE UNCHANGED memVars
  <2>1. UNCHANGED <<memFile, memCache, grpFile, memReq, memRaced, grpLog, grpRaced>>
    BY <1>1 DEF memVars
  <2>2. MemTypes' /\ \A q \in Requests : \A ops : Uses(q, ops)' <=> Uses(q, ops)
    BY <2>1 DEF MemInv, MemTypes, Uses, Open
  <2>3. UserOK'
    BY <2>1, <2>2 DEF MemInv, UserOK
  <2>4. GrpLogged' /\ GrpLeft' = GrpLeft
    BY <2>1, GrpLogKept DEF MemInv, GroupOK
  <2>5. AppendsKept'
    BY <2>1, <2>4, AppendsKeptMeans DEF MemInv, GroupOK
  <2>6. GroupOK'
    BY <2>1, <2>2, <2>4, <2>5 DEF MemInv, GroupOK
  <2> QED BY <2>2, <2>3, <2>6 DEF MemInv
<1>2. CASE MemoryNext
  <2>1. PICK r \in Requests :
          \/ GetUserMemory(r) \/ ReadUserMemory(r) \/ \E t \in Texts : UpdateUserMemory(r, t)
          \/ OpenUserMemory(r) \/ WriteUserMemory(r) \/ SetCache(r)
          \/ \E op : ReadGroupMemory(r, op)
          \/ RefusedGroupMemory(r)
          \/ \E t \in Texts : UpdateGroupMemory(r, t) \/ AppendDailyMemory(r, t)
          \/ OpenGroupMemory(r) \/ WriteGroupMemory(r) \/ AppendText(r)
    BY <1>2 DEF MemoryNext
  <2>2. CASE RefusedGroupMemory(r) \/ \E op : ReadGroupMemory(r, op)
    <3>1. memReq[r].at = "new" /\ UNCHANGED userVars /\ UNCHANGED groupVars
      BY <2>2 DEF RefusedGroupMemory, ReadGroupMemory
    <3>2. PICK status, op :
            memReq' = [memReq EXCEPT ![r] = [Done(memReq[r], status) EXCEPT !.op = op]]
      BY <2>2 DEF RefusedGroupMemory, ReadGroupMemory, MemInv, MemTypes
    <3>3. memRaced' \in BOOLEAN /\ grpRaced' \in BOOLEAN
      BY <3>1 DEF userVars, groupVars, MemInv, MemTypes
    <3> QED BY <3>1, <3>2, <3>3, MemAtOnce DEF MemInv
  <2> QED BY <2>1, <2>2, GetStarts, GetReads, PutStarts, PutOpens, CacheIsSet, GroupStarts,
             GroupOpens, GroupEnds
<1> QED BY <1>1, <1>2

\* What the store promises follows.
LEMMA MemPromises == MemInv => AppendsKept /\ CacheCoherent
<1> SUFFICES ASSUME MemInv PROVE AppendsKept /\ CacheCoherent
  OBVIOUS
<1>1. (\A r \in Requests : ~Open(memReq, r)) => \A r \in Requests : ~Uses(r, {"put"})
  BY DEF Uses
<1> QED BY <1>1 DEF MemInv, UserOK, GroupOK, CacheCoherent

-----------------------------------------------------------------------------
(* Skills. A change that is alone finds the skill as the changes so far have left it, and
   nobody moves or removes its files meanwhile. *)

SkFields == {"op", "at", "answer", "arg", "stage", "found", "file", "left"}
IsSk(rec) ==
  /\ rec = [f \in SkFields |-> rec[f]]
  /\ \/ /\ rec.op \in {"get", "list", "put", "patch"} /\ rec.stage = "detail"
        /\ rec.at \in {"look on", "look off", "read"}
        /\ rec.at = "read" => rec.found \in Names
     \/ rec.op \in {"put", "patch"} /\ rec.stage = "look" /\ rec.at \in {"look on", "look off"}
     \/ /\ rec.op = "put" /\ rec.stage = "look" /\ rec.found \in Names
        /\ \/ rec.at = "open"
           \/ rec.at = "write" /\ rec.file \in Requests \cup {"first"}
     \/ /\ rec.op = "patch" /\ rec.stage = "look" /\ rec.found \in Names
        /\ rec.found # NameOf(rec.arg) /\ rec.at \in {"check", "unlink", "rename"}
     \/ /\ rec.op = "delete" /\ rec.stage = "look" /\ rec.at \in {"scan", "remove"}
        /\ rec.left \in SUBSET Names

SkTypes ==
  /\ skRaced \in BOOLEAN /\ skFirst \in Names \cup {NoSkill}
  /\ skName \in [Names -> Requests \cup {"first", NoSkill}]
  /\ skText = [f \in Requests \cup {"first"} |-> skText[f]]
  /\ skReq = [r \in Requests |-> skReq[r]]
  /\ \A r \in Requests : skReq[r] = NoRequest \/ skReq[r].at = "done" \/ IsSk(skReq[r])

\* A change is logged when it takes effect, and has only its answer left to find then.
IsEffect(rec) == rec = [f \in SkFields |-> rec[f]] /\ (rec.at = "done" \/ rec.stage = "detail")
SkLogged ==
  /\ skLog \in Seq(Requests)
  /\ \A i \in DOMAIN skLog : IsEffect(skReq[skLog[i]]) /\ skReq[skLog[i]].at # "new"
  /\ ~skRaced => (InLife("patch") # {} => SkillExpected)

Present == {n \in Names : skName[n] # NoSkill}
SkGood ==
  /\ Present = IF SkillExpected THEN {NameExpected} ELSE {}
  /\ SkillExpected => skText[skName[NameExpected]] = Whole(TextExpected)

Changes(r) == Open(skReq, r) /\ skReq[r].op \notin {"get", "list"}

\* What a change that is alone has found or done
SkWhere(r) ==
  LET rec == skReq[r] IN
  rec.stage = "look" =>
    /\ rec.at = "look off" => skName["on"] = NoSkill
    /\ rec.at \in {"open", "write"} => rec.found = IF SkillExpected THEN NameExpected ELSE "on"
    /\ rec.at = "write" =>
         Present = {rec.found} /\ skName[rec.found] = rec.file /\ skText[rec.file] = Empty
    /\ rec.at # "unlink"
    /\ rec.at \in {"check", "rename"} => SkillExpected /\ rec.found = NameExpected
    /\ rec.op = "delete" => skDir
    /\ rec.at = "remove" => Present = rec.left

SkSole(r) == ~skRaced /\ Changes(r) /\ \A q \in Requests : Changes(q) => q = r
SkAlone(r) == (~skRaced /\ Changes(r)) => SkSole(r) /\ SkWhere(r)

SkInv == SkTypes /\ SkLogged /\ SkillKept /\ \A r \in Requests : SkAlone(r)

-----------------------------------------------------------------------------
SkDeletes == Effects("delete") \cup {0}

\* Positions in the log of the skill
LEMMA SkPositions ==
  ASSUME skLog \in Seq(Requests)
  PROVE  /\ Len(skLog) \in Nat /\ DOMAIN skLog = 1 .. Len(skLog)
         /\ \A op : Effects(op) \subseteq 1 .. Len(skLog) /\ InLife(op) \subseteq Effects(op)
         /\ LifeStart \in 0 .. Len(skLog)
         /\ \A op : InLife(op) # {} => Max(InLife(op)) \in InLife(op)
<1> DEFINE n == Len(skLog)
<1>1. n \in Nat /\ DOMAIN skLog = 1 .. n
  OBVIOUS
<1>2. \A op : Effects(op) \subseteq 1 .. n /\ InLife(op) \subseteq Effects(op)
  BY <1>1 DEF Effects, InLife
<1> HIDE DEF n
<1>3. LifeStart \in 0 .. n
  <2>1. SkDeletes \in SUBSET (0 .. n) /\ SkDeletes # {}
    BY <1>1, <1>2 DEF SkDeletes
  <2>2. Max(SkDeletes) \in SkDeletes
    BY <1>1, <2>1, GreatestOf
  <2> QED BY <2>1, <2>2 DEF LifeStart, SkDeletes
<1>4. ASSUME NEW op, InLife(op) # {} PROVE Max(InLife(op)) \in InLife(op)
  <2>1. PICK S : S = InLife(op)
    OBVIOUS
  <2>2. S \in SUBSET (0 .. n) /\ S # {}
    BY <1>1, <1>2, <1>4, <2>1
  <2> QED BY <1>1, <2>1, <2>2, GreatestOf
<1> QED BY <1>1, <1>2, <1>3, <1>4 DEF n

\* What the changes add up to stays as it is while they stay what they were.
LEMMA SkLogKept ==
  ASSUME skLog \in Seq(Requests), skLog' = skLog, skFirst' = skFirst,
         \A i \in DOMAIN skLog : /\ skReq'[skLog[i]].op = skReq[skLog[i]].op
                                 /\ skReq'[skLog[i]].arg = skReq[skLog[i]].arg
  PROVE  /\ SkillExpected' = SkillExpected /\ InLife("patch")' = InLife("patch")
         /\ NameExpected' = NameExpected
         /\ SkillExpected => TextExpected' = TextExpected
<1>1. \A op : Effects(op)' = Effects(op)
  BY DEF Effects
<1>2. LifeStart' = LifeStart
  BY <1>1 DEF LifeStart
<1>3. \A op : InLife(op)' = InLife(op)
  BY <1>1, <1>2 DEF InLife
<1>4. \A op : InLife(op) # {} => ArgAt(Max(InLife(op)))' = ArgAt(Max(InLife(op)))
  <2> TAKE op
  <2> HAVE InLife(op) # {}
  <2>1. Max(InLife(op)) \in DOMAIN skLog
    BY SkPositions
  <2> QED BY <2>1, <1>3 DEF ArgAt
<1>5. SkillExpected' = SkillExpected
  BY <1>2, <1>3 DEF SkillExpected
<1>6. NameExpected' = NameExpected
  BY <1>2, <1>3, <1>4 DEF NameExpected
<1>7. TextExpected' = TextExpected
  BY <1>3, <1>4 DEF TextExpected
<1> QED BY <1>3, <1>5, <1>6, <1>7

\* What one more change makes of it
LEMMA SkAppended ==
  ASSUME skLog \in Seq(Requests), NEW r \in Requests, skLog' = Append(skLog, r), skFirst' = skFirst,
         \A i \in DOMAIN skLog : /\ skReq'[skLog[i]].op = skReq[skLog[i]].op
                                 /\ skReq'[skLog[i]].arg = skReq[skLog[i]].arg,
         skReq'[r].op = skReq[r].op, skReq'[r].arg = skReq[r].arg,
         InLife("patch") # {} => SkillExpected
  PROVE  /\ skReq[r].op = "put" =>
              /\ SkillExpected' /\ TextExpected' = skReq[r].arg
              /\ NameExpected' = IF SkillExpected THEN NameExpected ELSE "on"
         /\ skReq[r].op = "patch" /\ SkillExpected =>
              /\ SkillExpected' /\ TextExpected' = TextExpected
              /\ NameExpected' = NameOf(skReq[r].arg)
         /\ skReq[r].op = "delete" => ~SkillExpected'
         /\ skReq[r].op \in {"put", "delete"} \/ SkillExpected =>
              (InLife("patch")' # {} => SkillExpected')
<1> DEFINE n == Len(skLog)
           More(op) == IF skReq[r].op = op THEN {n + 1} ELSE {}
<1>1. /\ n \in Nat /\ DOMAIN skLog = 1 .. n /\ DOMAIN skLog' = 1 .. n + 1 /\ skLog'[n + 1] = r
      /\ \A i \in 1 .. n : skLog'[i] = skLog[i]
      /\ LifeStart \in 0 .. n
      /\ \A op : Effects(op) \subseteq 1 .. n /\ InLife(op) \subseteq Effects(op)
      /\ \A op : InLife(op) # {} => Max(InLife(op)) \in InLife(op)
  BY SkPositions
<1>2. ASSUME NEW op PROVE Effects(op)' = Effects(op) \cup More(op)
  <2>1. /\ Effects(op)' = {i \in 1 .. n + 1 : skReq'[skLog'[i]].op = op}
        /\ Effects(op) = {i \in 1 .. n : skReq[skLog[i]].op = op}
    BY <1>1 DEF Effects
  <2>2. \A i \in 1 .. n : i \in 1 .. n + 1 /\ i # n + 1
    BY <1>1
  <2>3. \A i \in 1 .. n + 1 : i \in 1 .. n \/ i = n + 1
    BY <1>1
  <2>4. n + 1 \in 1 .. n + 1
    BY <1>1
  <2> HIDE DEF n
  <2> QED BY <2>1, <2>2, <2>3, <2>4, <1>1
<1>3. ASSUME NEW op, NEW i \in InLife(op)
      PROVE  i \in 1 .. n /\ ArgAt(i)' = ArgAt(i)
  BY <1>1 DEF ArgAt
<1>4. skReq'[skLog'[n + 1]].arg = skReq[r].arg
  BY <1>1
<1> HIDE DEF n
<1>5. ASSUME skReq[r].op # "delete"
      PROVE  LifeStart' = LifeStart /\ \A op : InLife(op)' = InLife(op) \cup More(op)
  <2>1. LifeStart' = LifeStart
    BY <1>2, <1>5 DEF LifeStart
  <2>2. n + 1 > LifeStart
    BY <1>1
  <2>3. \A op : \A i \in More(op) : i = n + 1
    OBVIOUS
  <2> HIDE DEF More
  <2> QED BY <1>2, <2>1, <2>2, <2>3 DEF InLife
<1>6. ASSUME NEW S, S \subseteq 1 .. n PROVE Max(S \cup {n + 1}) = n + 1
  <2>1. S \subseteq 0 .. n + 1 /\ n + 1 \in Nat
    BY <1>1, <1>6
  <2> QED BY <2>1, GreatestAdded
<1>7. ASSUME skReq[r].op = "put"
      PROVE  /\ SkillExpected' /\ TextExpected' = skReq[r].arg
             /\ NameExpected' = IF SkillExpected THEN NameExpected ELSE "on"
  <2>1. LifeStart' = LifeStart /\ InLife("put")' = InLife("put") \cup {n + 1}
        /\ InLife("patch")' = InLife("patch")
    BY <1>5, <1>7
  <2>2. SkillExpected'
    BY <2>1 DEF SkillExpected
  <2>3. InLife("put") \subseteq 1 .. n
    BY <1>1
  <2>4. Max(InLife("put")') = n + 1
    BY <1>6, <2>1, <2>3
  <2>5. TextExpected' = skReq[r].arg
    <3>1. InLife("put")' # {}
      BY <2>1
    <3> QED BY <1>4, <3>1, <2>4 DEF TextExpected, ArgAt
  <2>6. CASE InLife("patch") # {}
    <3>1. ArgAt(Max(InLife("patch")))' = ArgAt(Max(InLife("patch")))
      BY <2>1, <2>6, <1>1, <1>3 DEF ArgAt
    <3>2. NameExpected' = NameExpected
      BY <3>1, <2>1, <2>6 DEF NameExpected
    <3> QED BY <3>2, <2>2, <2>5, <2>6
  <2>7. CASE InLife("patch") = {}
    <3>1. NameExpected' = NameExpected
      BY <2>1, <2>7 DEF NameExpected
    <3>2. ~SkillExpected => NameExpected = "on"
      BY <2>7 DEF SkillExpected, NameExpected
    <3> QED BY <3>1, <3>2, <2>2, <2>5
  <2> QED BY <2>6, <2>7
<1>8. ASSUME skReq[r].op = "patch", SkillExpected
      PROVE  /\ SkillExpected' /\ TextExpected' = TextExpected
             /\ NameExpected' = NameOf(skReq[r].arg)
  <2>1. LifeStart' = LifeStart /\ InLife("put")' = InLife("put")
        /\ InLife("patch")' = InLife("patch") \cup {n + 1}
    BY <1>5, <1>8
  <2>2. SkillExpected'
    BY <1>8, <2>1 DEF SkillExpected
  <2>3. InLife("patch") \subseteq 1 .. n
    BY <1>1
  <2>4. Max(InLife("patch")') = n + 1
    BY <1>6, <2>1, <2>3
  <2>5. NameExpected' = NameOf(skReq[r].arg)
    <3>1. InLife("patch")' # {}
      BY <2>1
    <3> QED BY <1>4, <3>1, <2>4 DEF NameExpected, NameOf, ArgAt
  <2>6. TextExpected' = TextExpected
    <3>1. CASE InLife("put") = {}
      BY <3>1, <2>1 DEF TextExpected
    <3>2. CASE InLife("put") # {}
      <4>1. ArgAt(Max(InLife("put")))' = ArgAt(Max(InLife("put")))
        BY <3>2, <2>1, <1>1, <1>3 DEF ArgAt
      <4> QED BY <3>2, <4>1, <2>1 DEF TextExpected
    <3> QED BY <3>1, <3>2
  <2> QED BY <2>2, <2>5, <2>6
<1>9. ASSUME skReq[r].op = "delete"
      PROVE  ~SkillExpected' /\ InLife("patch")' = {}
  <2>1. LifeStart' = n + 1
    <3>1. Effects("delete") \cup {0} \subseteq 0 .. n + 1 /\ n + 1 \in Nat
      BY <1>1
    <3>2. Effects("delete")' \cup {0} = (Effects("delete") \cup {0}) \cup {n + 1}
      BY <1>2, <1>9
    <3> QED BY <3>1, <3>2, GreatestAdded DEF LifeStart
  <2>2. Effects("put")' = Effects("put") /\ Effects("patch")' = Effects("patch")
    BY <1>2, <1>9
  <2>3. \A i \in 1 .. n : ~(i > n + 1)
    BY <1>1
  <2>4. InLife("put")' = {} /\ InLife("patch")' = {}
    BY <2>1, <2>2, <2>3, <1>1 DEF InLife
  <2>5. n + 1 # 0
    BY <1>1
  <2> QED BY <2>1, <2>4, <2>5 DEF SkillExpected
<1>10. ASSUME skReq[r].op \in {"put", "delete"} \/ SkillExpected, InLife("patch")' # {}
       PROVE  SkillExpected'
  <2>1. CASE skReq[r].op = "put"
    BY <2>1, <1>7
  <2>2. CASE skReq[r].op = "delete"
    BY <2>2, <1>9, <1>10
  <2>3. CASE SkillExpected /\ skReq[r].op # "delete"
    <3>1. LifeStart' = LifeStart /\ InLife("put") \subseteq InLife("put")'
      BY <2>3, <1>5
    <3> QED BY <3>1, <2>3 DEF SkillExpected
  <2> QED BY <2>1, <2>2, <2>3, <1>10
<1> QED BY <1>7, <1>8, <1>9, <1>10

-----------------------------------------------------------------------------
\* A step of one request that has not ended; it stays the request it is.
SkOnly(r) ==
  /\ \A q \in Requests : q # r => skReq'[q] = skReq[q]
  /\ skReq' = [q \in Requests |-> skReq'[q]]
  /\ skReq[r].at # "done"
  /\ skReq'[r].at = "done" \/ IsSk(skReq'[r])
  /\ skReq[r].at # "new" =>
       /\ skReq'[r].op = skReq[r].op /\ skReq'[r].arg = skReq[r].arg
       /\ IsEffect(skReq[r]) => IsEffect(skReq'[r])

SkFilesOK == /\ skName \in [Names -> Requests \cup {"first", NoSkill}]
             /\ skText = [f \in Requests \cup {"first"} |-> skText[f]]

\* A step of one request keeps the types.
LEMMA SkTypesAfter ==
  ASSUME SkTypes, NEW r \in Requests, SkOnly(r), SkFilesOK', skRaced' \in BOOLEAN, skFirst' = skFirst
  PROVE  SkTypes'
<1>1. ASSUME NEW q \in Requests PROVE skReq'[q] = NoRequest \/ skReq'[q].at = "done" \/ IsSk(skReq'[q])
  BY DEF SkOnly, SkTypes
<1> QED BY <1>1 DEF SkTypes, SkOnly, SkFilesOK, IsSk

\* What is logged stays the same change.
LEMMA SkLogStays ==
  ASSUME SkLogged, NEW r \in Requests, SkOnly(r), NEW i \in DOMAIN skLog
  PROVE  /\ skReq'[skLog[i]].op = skReq[skLog[i]].op /\ skReq'[skLog[i]].arg = skReq[skLog[i]].arg
         /\ IsEffect(skReq'[skLog[i]]) /\ skReq'[skLog[i]].at # "new"
<1>1. PICK q \in Requests : q = skLog[i]
  BY DEF SkLogged
<1>2. IsEffect(skReq[q]) /\ skReq[q].at # "new"
  BY <1>1 DEF SkLogged
<1>3. skReq'[r].at # "new"
  BY DEF SkOnly, IsSk
<1> QED BY <1>1, <1>2, <1>3 DEF SkOnly

\* A step that logs nothing leaves what the log says.
LEMMA SkLoggedAfter ==
  ASSUME SkLogged, NEW r \in Requests, SkOnly(r), skLog' = skLog, skFirst' = skFirst,
         skRaced => skRaced'
  PROVE  /\ SkLogged' /\ SkillExpected' = SkillExpected /\ NameExpected' = NameExpected
         /\ SkillExpected => TextExpected' = TextExpected
<1>1. skLog \in Seq(Requests) /\ (~skRaced => (InLife("patch") # {} => SkillExpected))
  BY DEF SkLogged
<1>2. \A i \in DOMAIN skLog :
        /\ skReq'[skLog[i]].op = skReq[skLog[i]].op /\ skReq'[skLog[i]].arg = skReq[skLog[i]].arg
        /\ IsEffect(skReq'[skLog[i]]) /\ skReq'[skLog[i]].at # "new"
  BY SkLogStays
<1>3. /\ SkillExpected' = SkillExpected /\ InLife("patch")' = InLife("patch")
      /\ NameExpected' = NameExpected
      /\ SkillExpected => TextExpected' = TextExpected
  BY <1>1, <1>2, SkLogKept
<1> QED BY <1>1, <1>2, <1>3 DEF SkLogged, IsEffect

\* The skill is what is expected of it unless somebody is writing or removing it.
LEMMA SkGoodMeans ==
  LET kept == (~skRaced /\ \A r \in Requests : skReq[r].at \notin {"write", "remove"}) => SkGood
  IN (SkillKept <=> kept) /\ (SkillKept' <=> kept')
BY DEF SkillKept, SkGood, Present

\* While no change is in the middle of its work the skill is as it should be.
LEMMA SkGoodBefore ==
  ASSUME SkInv, ~skRaced, \A q \in Requests : Changes(q) => skReq[q].at \notin {"write", "remove"}
  PROVE  SkGood
<1>1. \A q \in Requests : skReq[q].at \notin {"write", "remove"}
  <2> SUFFICES ASSUME NEW q \in Requests, skReq[q].at \in {"write", "remove"} PROVE FALSE
    OBVIOUS
  <2>1. IsSk(skReq[q])
    BY DEF SkInv, SkTypes, NoRequest
  <2>2. Changes(q)
    BY <2>1 DEF IsSk, Changes, Open
  <2> QED BY <2>2
<1> QED BY <1>1, SkGoodMeans DEF SkInv

\* A request finds what it found while nothing it looks at changes.
LEMMA SkWhereSame ==
  ASSUME NEW q, SkWhere(q), skReq'[q] = skReq[q], skDir' = skDir, skName' = skName,
         skText' = skText, Present' = Present, SkillExpected' = SkillExpected,
         NameExpected' = NameExpected
  PROVE  SkWhere(q)'
<1>1. PICK rec : rec = skReq[q] /\ rec = skReq'[q]
  OBVIOUS
<1>2. SUFFICES ASSUME rec.stage = "look" PROVE SkWhere(q)'
  BY <1>1 DEF SkWhere
<1>3. rec.at = "look off" => skName'["on"] = NoSkill
  BY <1>1, <1>2 DEF SkWhere
<1>4. rec.at \in {"open", "write"} => rec.found = IF SkillExpected' THEN NameExpected' ELSE "on"
  BY <1>1, <1>2 DEF SkWhere
<1>5. rec.at = "write" =>
           Present' = {rec.found} /\ skName'[rec.found] = rec.file /\ skText'[rec.file] = Empty
  BY <1>1, <1>2 DEF SkWhere
<1>6. /\ rec.at # "unlink"
      /\ rec.at \in {"check", "rename"} => SkillExpected' /\ rec.found = NameExpected'
  BY <1>1, <1>2 DEF SkWhere
<1>7. /\ rec.op = "delete" => skDir'
      /\ rec.at = "remove" => Present' = rec.left
  BY <1>1, <1>2 DEF SkWhere
<1> QED BY <1>1, <1>3, <1>4, <1>5, <1>6, <1>7 DEF SkWhere

\* A request that changes nothing, before and after
LEMMA SkByReader ==
  ASSUME SkInv, NEW r \in Requests, SkOnly(r), UNCHANGED <<skDir, skName, skText, skHistory>>,
         ~Changes(r), ~Changes(r)'
  PROVE  SkInv'
<1>1. /\ skDir' = skDir /\ skName' = skName /\ skText' = skText
      /\ skFirst' = skFirst /\ skLog' = skLog /\ skRaced' = skRaced
  BY DEF skHistory
<1>2. /\ SkLogged' /\ SkillExpected' = SkillExpected /\ NameExpected' = NameExpected
      /\ SkillExpected => TextExpected' = TextExpected
  BY <1>1, SkLoggedAfter DEF SkInv
<1>3. SkTypes'
  <2>1. SkFilesOK' /\ skRaced' \in BOOLEAN
    BY <1>1 DEF SkFilesOK, SkInv, SkTypes
  <2> QED BY <1>1, <2>1, SkTypesAfter DEF SkInv
<1>4. Present' = Present /\ (SkGood => SkGood')
  <2>1. Present' = Present
    BY <1>1 DEF Present
  <2> QED BY <2>1, <1>1, <1>2 DEF SkGood
<1>5. \A q \in Requests : q # r => skReq'[q] = skReq[q]
  BY DEF SkOnly
<1>6. \A q \in Requests : Changes(q)' <=> Changes(q)
  BY <1>5 DEF Changes, Open
<1>7. SkillKept'
  <2>1. SUFFICES ASSUME ~skRaced, \A q \in Requests : skReq'[q].at \notin {"write", "remove"}
                 PROVE  SkGood'
    BY <1>1, SkGoodMeans
  <2>2. \A q \in Requests : Changes(q) => skReq[q].at \notin {"write", "remove"}
    BY <2>1, <1>5
  <2> QED BY <2>1, <2>2, <1>4, SkGoodBefore
<1>8. ASSUME NEW q \in Requests PROVE SkAlone(q)'
  <2>1. SUFFICES ASSUME ~skRaced, Changes(q)' PROVE SkSole(q)' /\ SkWhere(q)'
    BY <1>1 DEF SkAlone
  <2>2. q # r /\ skReq'[q] = skReq[q] /\ SkSole(q) /\ SkWhere(q)
    BY <2>1, <1>5, <1>6 DEF SkInv, SkAlone
  <2>3. SkSole(q)'
    BY <2>1, <2>2, <1>1, <1>6 DEF SkSole
  <2>4. SkWhere(q)'
    BY <2>2, <1>1, <1>2, <1>4, SkWhereSame
  <2> QED BY <2>3, <2>4
<1> QED BY <1>2, <1>3, <1>7, <1>8 DEF SkInv

\* A change that goes on: what it does matters when it is alone.
LEMMA SkByChange ==
  ASSUME SkInv, NEW r \in Requests, SkOnly(r), SkTypes', SkLogged', skRaced' = skRaced,
         Changes(r),
         SkSole(r) /\ Changes(r)' => SkWhere(r)',
         SkSole(r) /\ skReq'[r].at \notin {"write", "remove"} => SkGood'
  PROVE  SkInv'
<1>1. \A q \in Requests : q # r => skReq'[q] = skReq[q] /\ (Changes(q)' <=> Changes(q))
  BY DEF SkOnly, Changes, Open
<1>2. ~skRaced => SkSole(r)
  BY DEF SkInv, SkAlone
<1>3. SkillKept'
  BY <1>2, SkGoodMeans
<1>4. ASSUME NEW q \in Requests PROVE SkAlone(q)'
  <2>1. SUFFICES ASSUME ~skRaced, Changes(q)' PROVE SkSole(q)' /\ SkWhere(q)'
    BY DEF SkAlone
  <2>2. SkSole(r)
    BY <2>1, <1>2
  <2>3. q = r
    BY <2>1, <2>2, <1>1 DEF SkSole
  <2>4. SkSole(q)'
    BY <2>1, <2>2, <2>3, <1>1 DEF SkSole
  <2> QED BY <2>1, <2>2, <2>3, <2>4
<1> QED BY <1>3, <1>4 DEF SkInv

-----------------------------------------------------------------------------
\* A request that moves no file, whether it is a change or not
LEMMA SkLooks ==
  ASSUME SkInv, NEW r \in Requests, SkOnly(r), UNCHANGED <<skDir, skName, skText, skHistory>>,
         skReq[r].at \notin {"new", "write", "remove"},
         SkSole(r) /\ SkGood /\ SkWhere(r) /\ Changes(r)' => SkWhere(r)'
  PROVE  SkInv'
<1>1. CASE ~Changes(r)
  <2>1. ~Changes(r)'
    BY <1>1 DEF SkOnly, Changes, Open
  <2> QED BY <1>1, <2>1, SkByReader
<1>2. CASE Changes(r)
  <2>1. /\ skDir' = skDir /\ skName' = skName /\ skText' = skText
        /\ skFirst' = skFirst /\ skLog' = skLog /\ skRaced' = skRaced
    BY DEF skHistory
  <2>2. /\ SkLogged' /\ SkillExpected' = SkillExpected /\ NameExpected' = NameExpected
        /\ SkillExpected => TextExpected' = TextExpected
    BY <2>1, SkLoggedAfter DEF SkInv
  <2>3. SkTypes'
    <3>1. SkFilesOK' /\ skRaced' \in BOOLEAN
      BY <2>1 DEF SkFilesOK, SkInv, SkTypes
    <3> QED BY <2>1, <3>1, SkTypesAfter DEF SkInv
  <2>4. SkSole(r) => SkGood /\ SkWhere(r)
    <3> SUFFICES ASSUME SkSole(r) PROVE SkGood /\ SkWhere(r)
      OBVIOUS
    <3>1. \A q \in Requests : Changes(q) => skReq[q].at \notin {"write", "remove"}
      BY DEF SkSole
    <3> QED BY <3>1, <1>2, SkGoodBefore DEF SkSole, SkInv, SkAlone
  <2>5. SkGood => SkGood'
    <3>1. Present' = Present
      BY <2>1 DEF Present
    <3> QED BY <3>1, <2>1, <2>2 DEF SkGood
  <2> QED BY <2>1, <2>2, <2>3, <2>4, <2>5, <1>2, SkByChange
<1> QED BY <1>1, <1>2

\* A change begins: it is alone if no other one is under way.
LEMMA SkByStart ==
  ASSUME SkInv, NEW r \in Requests, SkOnly(r), UNCHANGED <<skName, skText, skFirst, skLog>>,
         skReq[r].at = "new", Changes(r)', skReq'[r].stage = "look",
         skReq'[r].at \in {"look on", "scan"}, skReq'[r].op = "delete" => skDir',
         skRaced' = (skRaced \/ \E q \in Requests : Open(skReq, q) /\ skReq[q].op \notin {"get", "list"})
  PROVE  SkInv'
<1>1. skName' = skName /\ skText' = skText /\ skFirst' = skFirst /\ skLog' = skLog
  OBVIOUS
<1>2. /\ SkLogged' /\ SkillExpected' = SkillExpected /\ NameExpected' = NameExpected
      /\ SkillExpected => TextExpected' = TextExpected
  BY <1>1, SkLoggedAfter DEF SkInv
<1>3. SkTypes'
  <2>1. SkFilesOK' /\ skRaced' \in BOOLEAN
    BY <1>1 DEF SkFilesOK, SkInv, SkTypes
  <2> QED BY <1>1, <2>1, SkTypesAfter DEF SkInv
<1>4. SkGood => SkGood'
  <2>1. Present' = Present
    BY <1>1 DEF Present
  <2> QED BY <2>1, <1>1, <1>2 DEF SkGood
<1>5. ~skRaced' => ~skRaced /\ \A q \in Requests : ~Changes(q)
  BY DEF Changes
<1>6. SkillKept'
  <2>1. ~skRaced' => SkGood
    BY <1>5, SkGoodBefore
  <2> QED BY <2>1, <1>4, SkGoodMeans
<1>7. ASSUME NEW q \in Requests PROVE SkAlone(q)'
  <2>1. SUFFICES ASSUME ~skRaced', Changes(q)' PROVE SkSole(q)' /\ SkWhere(q)'
    BY DEF SkAlone
  <2>2. \A p \in Requests : Changes(p)' => p = r
    BY <2>1, <1>5 DEF SkOnly, Changes, Open
  <2>3. q = r /\ SkSole(q)'
    BY <2>1, <2>2 DEF SkSole
  <2>4. SkWhere(r)'
    BY DEF SkWhere
  <2> QED BY <2>3, <2>4
<1> QED BY <1>2, <1>3, <1>6, <1>7 DEF SkInv

\* The record of a request that has ended
LEMMA SkDone ==
  ASSUME SkInv, NEW r \in Requests, skReq[r].at # "done", NEW status
  PROVE  /\ Done(skReq[r], status).at = "done"
         /\ \A op : [Done(skReq[r], status) EXCEPT !.op = op].at = "done"
         /\ skReq[r].at # "new" =>
              /\ Done(skReq[r], status).op = skReq[r].op /\ Done(skReq[r], status).arg = skReq[r].arg
              /\ IsEffect(Done(skReq[r], status))
<1>1. PICK rec : rec = skReq[r]
  OBVIOUS
<1>2. \/ rec.at = "new" /\ rec = [f \in {"op", "at", "answer"} |-> rec[f]]
      \/ rec.at # "new" /\ rec = [f \in SkFields |-> rec[f]]
  <2>1. NoRequest = [f \in {"op", "at", "answer"} |-> NoRequest[f]] /\ NoRequest.at = "new"
    BY DEF NoRequest
  <2>2. IsSk(rec) => rec.at # "new" /\ rec = [f \in SkFields |-> rec[f]]
    BY DEF IsSk
  <2> QED BY <1>1, <2>1, <2>2 DEF SkInv, SkTypes
<1>3. PICK new : new = Done(rec, status)
  OBVIOUS
<1>4. new = [rec EXCEPT !.at = "done", !.answer = status]
  BY <1>3 DEF Done
<1>5. CASE rec.at = "new" /\ rec = [f \in {"op", "at", "answer"} |-> rec[f]]
  <2>1. new.at = "done" /\ new = [f \in {"op", "at", "answer"} |-> new[f]]
    BY <1>4, <1>5
  <2>2. \A op : [new EXCEPT !.op = op].at = "done"
    BY <2>1
  <2> QED BY <1>1, <1>3, <1>5, <2>1, <2>2
<1>6. CASE rec.at # "new" /\ rec = [f \in SkFields |-> rec[f]]
  <2>1. new.at = "done" /\ new.op = rec.op /\ new.arg = rec.arg /\ new = [f \in SkFields |-> new[f]]
    BY <1>4, <1>6 DEF SkFields
  <2>2. \A op : [new EXCEPT !.op = op].at = "done"
    BY <2>1 DEF SkFields
  <2>3. IsEffect(new)
    BY <2>1 DEF IsEffect
  <2> QED BY <1>1, <1>3, <2>1, <2>2, <2>3
<1> QED BY <1>2, <1>5, <1>6

\* A request that ends, and one that goes on
LEMMA SkEnds ==
  ASSUME SkInv, NEW r \in Requests, skReq[r].at # "done", NEW rec, rec.at = "done",
         skReq[r].at # "new" => rec.op = skReq[r].op /\ rec.arg = skReq[r].arg /\ IsEffect(rec),
         skReq' = [skReq EXCEPT ![r] = rec]
  PROVE  SkOnly(r) /\ skReq'[r] = rec /\ ~Changes(r)'
<1>1. skReq'[r] = rec /\ skReq' = [q \in Requests |-> skReq'[q]]
      /\ \A q \in Requests : q # r => skReq'[q] = skReq[q]
  BY DEF SkInv, SkTypes
<1> QED BY <1>1 DEF SkOnly, Changes, Open

\* A request becomes a well-formed one.
LEMMA SkGoesOn ==
  ASSUME SkInv, NEW r \in Requests, skReq[r].at # "done", NEW rec, IsSk(rec),
         skReq[r].at # "new" =>
           rec.op = skReq[r].op /\ rec.arg = skReq[r].arg /\ (IsEffect(skReq[r]) => IsEffect(rec)),
         skReq' = [skReq EXCEPT ![r] = rec]
  PROVE  SkOnly(r) /\ skReq'[r] = rec
<1>1. skReq'[r] = rec /\ skReq' = [q \in Requests |-> skReq'[q]]
      /\ \A q \in Requests : q # r => skReq'[q] = skReq[q]
  BY DEF SkInv, SkTypes
<1> QED BY <1>1 DEF SkOnly

-----------------------------------------------------------------------------
\* The skill as it was at the start
LEMMA SkStart == SkillsInit => SkInv
<1> SUFFICES ASSUME SkillsInit PROVE SkInv
  OBVIOUS
<1>1. /\ skFirst \in Names \cup {NoSkill} /\ skLog = <<>> /\ skRaced = FALSE
      /\ skName = [n \in Names |-> IF n = skFirst THEN "first" ELSE NoSkill]
      /\ skText = [f \in Requests \cup {"first"} |-> IF f = "first" THEN Whole("first") ELSE NoFile]
      /\ skReq = [r \in Requests |-> NoRequest]
  BY DEF SkillsInit
<1>2. <<>> \in Seq(Requests) /\ DOMAIN <<>> = {}
  BY EmptySeq
<1>3. NoRequest.at = "new"
  BY DEF NoRequest
<1>4. NoSkill \notin Names /\ NoSkill # "first"
  BY DEF NoSkill, Names
<1>5. SkTypes
  BY <1>1 DEF SkTypes
<1>6. \A op : Effects(op) = {} /\ InLife(op) = {}
  BY <1>1, <1>2 DEF Effects, InLife
<1>7. LifeStart = 0
  <2>1. {} \subseteq 0 .. 0 /\ 0 \in Nat
    OBVIOUS
  <2>2. Max({} \cup {0}) = 0
    BY <2>1, GreatestAdded
  <2> QED BY <2>2, <1>6 DEF LifeStart
<1>8. SkLogged
  BY <1>1, <1>2, <1>6 DEF SkLogged
<1>9. SkGood
  <2>1. /\ SkillExpected <=> skFirst # NoSkill
        /\ skFirst # NoSkill => NameExpected = skFirst /\ TextExpected = "first"
    BY <1>6, <1>7 DEF SkillExpected, NameExpected, TextExpected
  <2>2. Present = IF skFirst # NoSkill THEN {skFirst} ELSE {}
    BY <1>1, <1>4 DEF Present
  <2>3. skFirst # NoSkill => skName[skFirst] = "first"
    BY <1>1
  <2> QED BY <2>1, <2>2, <2>3, <1>1 DEF SkGood
<1>10. SkillKept
  BY <1>9, SkGoodMeans
<1>11. \A r \in Requests : ~Changes(r)
  BY <1>1, <1>3 DEF Changes, Open
<1> QED BY <1>5, <1>8, <1>10, <1>11 DEF SkInv, SkAlone

\* Where a look-up leads
LEMMA SkResolves ==
  ASSUME SkInv, NEW r \in Requests, IsSk(skReq[r]), skReq[r].at \in {"look on", "look off"},
         NEW n \in Names \cup {NoSkill}, Resolved(r, n), UNCHANGED <<skDir, skName, skText, skHistory>>,
         SkWhere(r) /\ skReq[r].stage = "look" => IF n = NoSkill THEN Present = {} ELSE n \in Present
  PROVE  SkInv'
<1>1. PICK old : old = skReq[r]
  OBVIOUS
<1>2. /\ IsSk(old) /\ old = [f \in SkFields |-> old[f]] /\ old.at \in {"look on", "look off"}
      /\ \/ old.op \in {"get", "list", "put", "patch"} /\ old.stage = "detail"
         \/ old.op \in {"put", "patch"} /\ old.stage = "look"
  BY <1>1 DEF IsSk
<1>3. PICK rec : rec = [old EXCEPT !.found = n]
  OBVIOUS
<1>4. /\ rec = [f \in SkFields |-> rec[f]] /\ rec.found = n
      /\ \A f \in SkFields : f # "found" => rec[f] = old[f]
  BY <1>2, <1>3 DEF SkFields
<1>5. rec.op = old.op /\ rec.arg = old.arg /\ rec.stage = old.stage /\ rec.at = old.at
  BY <1>4 DEF SkFields
<1>6. skReq' = [skReq EXCEPT ![r] =
       IF rec.stage = "detail"
         THEN IF n # NoSkill THEN [rec EXCEPT !.at = "read"]
              ELSE Done(rec, IF rec.op = "list" THEN "200" ELSE "404")
       ELSE IF rec.op = "put" THEN [rec EXCEPT !.at = "open", !.found = UpsertTarget(n)]
       ELSE IF n = NoSkill THEN Done(rec, "404")
       ELSE IF n = NameOf(rec.arg) THEN [rec EXCEPT !.at = "look on", !.stage = "detail"]
       ELSE [rec EXCEPT !.at = "check"]]
  BY <1>1, <1>3 DEF Resolved
<1>7. SkSole(r) /\ SkGood /\ SkWhere(r) /\ skReq[r].stage = "look" =>
        n = IF SkillExpected THEN NameExpected ELSE NoSkill
  BY DEF SkGood
<1>8. skReq[r].at \notin {"new", "write", "remove", "done"}
  BY <1>1, <1>2
<1>9. CASE \E status : skReq' = [skReq EXCEPT ![r] = Done(rec, status)]
  <2>1. PICK status : skReq' = [skReq EXCEPT ![r] = Done(rec, status)]
    BY <1>9
  <2>2. PICK new : new = Done(rec, status)
    OBVIOUS
  <2>3. new = [rec EXCEPT !.at = "done", !.answer = status]
    BY <2>2 DEF Done
  <2>4. new = [f \in SkFields |-> new[f]] /\ new.at = "done" /\ new.op = rec.op /\ new.arg = rec.arg
    BY <2>3, <1>4 DEF SkFields
  <2>5. SkOnly(r) /\ ~Changes(r)'
    BY <2>1, <2>2, <2>4, <1>1, <1>5, <1>8, SkEnds DEF IsEffect
  <2> QED BY <2>5, <1>8, SkLooks
<1>10. ASSUME NEW new, IsSk(new), new.op = old.op, new.arg = old.arg,
              old.stage = "detail" => new.stage = "detail", skReq' = [skReq EXCEPT ![r] = new]
       PROVE  SkOnly(r) /\ skReq'[r] = new
  <2>1. IsEffect(skReq[r]) => IsEffect(new)
    BY <1>1, <1>8, <1>10 DEF IsEffect, IsSk
  <2> QED BY <2>1, <1>1, <1>8, <1>10, SkGoesOn
<1>11. CASE rec.stage = "detail" /\ n # NoSkill
  <2>1. PICK new : new = [rec EXCEPT !.at = "read"]
    OBVIOUS
  <2>2. /\ new = [f \in SkFields |-> new[f]] /\ new.at = "read" /\ new.op = rec.op /\ new.arg = rec.arg
        /\ new.stage = "detail" /\ new.found = n
    BY <2>1, <1>4, <1>11 DEF SkFields
  <2>3. IsSk(new)
    BY <2>2, <1>2, <1>5, <1>11 DEF IsSk
  <2>4. skReq' = [skReq EXCEPT ![r] = new]
    BY <2>1, <1>6, <1>11
  <2>5. SkOnly(r) /\ skReq'[r] = new
    BY <2>2, <2>3, <2>4, <1>5, <1>10
  <2>6. SkWhere(r)'
    BY <2>2, <2>5 DEF SkWhere
  <2> QED BY <2>5, <2>6, <1>8, SkLooks
<1>12. CASE rec.stage # "detail" /\ rec.op = "put"
  <2>1. PICK new : new = [rec EXCEPT !.at = "open", !.found = UpsertTarget(n)]
    OBVIOUS
  <2>2. /\ new = [f \in SkFields |-> new[f]] /\ new.at = "open" /\ new.op = rec.op /\ new.arg = rec.arg
        /\ new.stage = rec.stage /\ new.found = UpsertTarget(n)
    BY <2>1, <1>4 DEF SkFields
  <2>3. IsSk(new)
    BY <2>2, <1>2, <1>5, <1>12 DEF IsSk, UpsertTarget, Names, NoSkill
  <2>4. skReq' = [skReq EXCEPT ![r] = new]
    BY <2>1, <1>6, <1>12
  <2>5. SkOnly(r) /\ skReq'[r] = new
    BY <2>2, <2>3, <2>4, <1>5, <1>10
  <2>6. SkSole(r) /\ SkGood /\ SkWhere(r) => SkWhere(r)'
    <3> SUFFICES ASSUME SkSole(r), SkGood, SkWhere(r) PROVE SkWhere(r)'
      OBVIOUS
    <3>1. n = IF SkillExpected THEN NameExpected ELSE NoSkill
      BY <1>1, <1>2, <1>5, <1>7, <1>12
    <3>2. SkillExpected => NameExpected \in Names
      BY DEF SkGood, Present
    <3>3. new.found = IF SkillExpected THEN NameExpected ELSE "on"
      BY <2>2, <3>1, <3>2 DEF UpsertTarget, Names, NoSkill
    <3>4. SkillExpected' = SkillExpected /\ NameExpected' = NameExpected
      BY <2>5, SkLoggedAfter DEF SkInv, skHistory
    <3> QED BY <2>2, <2>5, <3>3, <3>4, <1>5, <1>12 DEF SkWhere
  <2> QED BY <2>5, <2>6, <1>8, SkLooks
<1>13. CASE rec.stage # "detail" /\ rec.op # "put" /\ n # NoSkill /\ n = NameOf(rec.arg)
  <2>1. PICK new : new = [rec EXCEPT !.at = "look on", !.stage = "detail"]
    OBVIOUS
  <2>2. /\ new = [f \in SkFields |-> new[f]] /\ new.at = "look on" /\ new.op = rec.op /\ new.arg = rec.arg
        /\ new.stage = "detail"
    BY <2>1, <1>4 DEF SkFields
  <2>3. IsSk(new)
    BY <2>2, <1>2, <1>5 DEF IsSk
  <2>4. skReq' = [skReq EXCEPT ![r] = new]
    BY <2>1, <1>6, <1>13
  <2>5. SkOnly(r) /\ skReq'[r] = new
    BY <2>2, <2>3, <2>4, <1>5, <1>10
  <2>6. SkWhere(r)'
    BY <2>2, <2>5 DEF SkWhere
  <2> QED BY <2>5, <2>6, <1>8, SkLooks
<1>14. CASE rec.stage # "detail" /\ rec.op # "put" /\ n # NoSkill /\ n # NameOf(rec.arg)
  <2>1. PICK new : new = [rec EXCEPT !.at = "check"]
    OBVIOUS
  <2>2. /\ new = [f \in SkFields |-> new[f]] /\ new.at = "check" /\ new.op = rec.op /\ new.arg = rec.arg
        /\ new.stage = rec.stage /\ new.found = n
    BY <2>1, <1>4 DEF SkFields
  <2>3. IsSk(new)
    BY <2>2, <1>2, <1>5, <1>14 DEF IsSk
  <2>4. skReq' = [skReq EXCEPT ![r] = new]
    BY <2>1, <1>6, <1>14
  <2>5. SkOnly(r) /\ skReq'[r] = new
    BY <2>2, <2>3, <2>4, <1>5, <1>10
  <2>6. SkSole(r) /\ SkGood /\ SkWhere(r) => SkWhere(r)'
    <3> SUFFICES ASSUME SkSole(r), SkGood, SkWhere(r) PROVE SkWhere(r)'
      OBVIOUS
    <3>1. n = IF SkillExpected THEN NameExpected ELSE NoSkill
      BY <1>1, <1>2, <1>5, <1>7, <1>14
    <3>2. SkillExpected /\ new.found = NameExpected
      BY <2>2, <3>1, <1>14
    <3>3. SkillExpected' = SkillExpected /\ NameExpected' = NameExpected
      BY <2>5, SkLoggedAfter DEF SkInv, skHistory
    <3>4. new.op # "delete"
      BY <2>2, <1>2, <1>5
    <3> QED BY <2>2, <2>5, <3>2, <3>3, <3>4 DEF SkWhere
  <2> QED BY <2>5, <2>6, <1>8, SkLooks
<1>15. CASE (rec.stage = "detail" \/ rec.op # "put") /\ n = NoSkill
  <2>1. \E status : skReq' = [skReq EXCEPT ![r] = Done(rec, status)]
    <3>1. CASE rec.stage = "detail"
      BY <3>1, <1>6, <1>15
    <3>2. CASE rec.stage # "detail"
      BY <3>2, <1>6, <1>15
    <3> QED BY <3>1, <3>2
  <2> QED BY <2>1, <1>9
<1> QED BY <1>11, <1>12, <1>13, <1>14, <1>15

\* A request that is somewhere else now, and otherwise the same
LEMMA SkAt ==
  ASSUME NEW old, old = [f \in SkFields |-> old[f]], NEW at, NEW new, new = [old EXCEPT !.at = at]
  PROVE  /\ new = [f \in SkFields |-> new[f]] /\ new.at = at
         /\ new.op = old.op /\ new.arg = old.arg /\ new.stage = old.stage /\ new.found = old.found
         /\ new.file = old.file /\ new.left = old.left
BY DEF SkFields

\* A request goes on to another place and keeps what it holds.
LEMMA SkGoes ==
  ASSUME SkInv, NEW r \in Requests, IsSk(skReq[r]), NEW at, at # "done",
         skReq' = [skReq EXCEPT ![r].at = at],
         \A new : (/\ new = [f \in SkFields |-> new[f]] /\ new.at = at
                   /\ new.op = skReq[r].op /\ new.arg = skReq[r].arg /\ new.stage = skReq[r].stage
                   /\ new.found = skReq[r].found /\ new.file = skReq[r].file
                   /\ new.left = skReq[r].left) => IsSk(new)
  PROVE  /\ SkOnly(r) /\ skReq'[r].at = at /\ skReq'[r].stage = skReq[r].stage
         /\ skReq'[r].op = skReq[r].op /\ skReq'[r].arg = skReq[r].arg
         /\ skReq'[r].found = skReq[r].found /\ skReq'[r].file = skReq[r].file
         /\ skReq'[r].left = skReq[r].left
<1>1. PICK new : new = [skReq[r] EXCEPT !.at = at]
  OBVIOUS
<1>2. skReq' = [skReq EXCEPT ![r] = new]
  BY <1>1 DEF SkInv, SkTypes
<1>3. skReq[r] = [f \in SkFields |-> skReq[r][f]] /\ skReq[r].at # "done"
  BY DEF IsSk
<1>4. /\ new = [f \in SkFields |-> new[f]] /\ new.at = at
      /\ new.op = skReq[r].op /\ new.arg = skReq[r].arg /\ new.stage = skReq[r].stage
      /\ new.found = skReq[r].found /\ new.file = skReq[r].file /\ new.left = skReq[r].left
  BY <1>1, <1>3, SkAt
<1>5. IsSk(new)
  BY <1>4
<1>6. IsEffect(skReq[r]) => IsEffect(new)
  BY <1>3, <1>4 DEF IsEffect
<1>7. SkOnly(r) /\ skReq'[r] = new
  BY <1>2, <1>3, <1>4, <1>5, <1>6, SkGoesOn
<1> QED BY <1>4, <1>7

\* Looking for the file, first under one name, then under the other
LEMMA LookStep ==
  ASSUME SkInv, NEW r \in Requests, LookOn(r) \/ LookOff(r)
  PROVE  SkInv'
<1>1. skReq[r].at \in {"look on", "look off"} /\ UNCHANGED <<skDir, skName, skText, skHistory>>
  BY DEF LookOn, LookOff
<1>2. IsSk(skReq[r])
  <2>1. NoRequest.at = "new"
    BY DEF NoRequest
  <2> QED BY <1>1, <2>1 DEF SkInv, SkTypes
<1>3. CASE LookOn(r) /\ skName["on"] # NoSkill
  <2>1. Resolved(r, "on") /\ "on" \in Names /\ "on" \in Present
    BY <1>3 DEF LookOn, Names, Present
  <2> QED BY <2>1, <1>1, <1>2, SkResolves DEF NoSkill
<1>4. CASE LookOff(r)
  <2>1. skReq[r].at = "look off"
    BY <1>4 DEF LookOff
  <2>2. SkWhere(r) /\ skReq[r].stage = "look" => skName["on"] = NoSkill
    BY <2>1 DEF SkWhere
  <2>3. CASE skName["off"] # NoSkill
    <3>1. Resolved(r, "off") /\ "off" \in Names /\ "off" \in Present
      BY <1>4, <2>3 DEF LookOff, Names, Present
    <3> QED BY <3>1, <1>1, <1>2, SkResolves DEF NoSkill
  <2>4. CASE skName["off"] = NoSkill
    <3>1. Resolved(r, NoSkill)
      BY <1>4, <2>4 DEF LookOff
    <3>2. SkWhere(r) /\ skReq[r].stage = "look" => Present = {}
      BY <2>2, <2>4 DEF Present, Names
    <3>3. NoSkill \in Names \cup {NoSkill}
      OBVIOUS
    <3> QED BY <3>1, <3>2, <3>3, <1>1, <1>2, SkResolves
  <2> QED BY <2>3, <2>4
<1>5. CASE LookOn(r) /\ skName["on"] = NoSkill
  <2>1. skReq' = [skReq EXCEPT ![r].at = "look off"] /\ skReq[r].at = "look on"
    BY <1>5 DEF LookOn, Goes
  <2>2. /\ SkOnly(r) /\ skReq'[r].at = "look off" /\ skReq'[r].stage = skReq[r].stage
        /\ skReq'[r].op = skReq[r].op
    <3>1. \A new : (/\ new = [f \in SkFields |-> new[f]] /\ new.at = "look off"
                    /\ new.op = skReq[r].op /\ new.arg = skReq[r].arg /\ new.stage = skReq[r].stage
                    /\ new.found = skReq[r].found /\ new.file = skReq[r].file
                    /\ new.left = skReq[r].left) => IsSk(new)
      BY <2>1, <1>2 DEF IsSk
    <3> QED BY <3>1, <2>1, <1>2, SkGoes
  <2>3. SkWhere(r)'
    <3>1. skName'["on"] = NoSkill
      BY <1>1, <1>5
    <3>2. skReq[r].op # "delete"
      BY <2>1, <1>2 DEF IsSk
    <3> QED BY <2>2, <3>1, <3>2 DEF SkWhere
  <2> QED BY <2>2, <2>3, <1>1, SkLooks
<1> QED BY <1>3, <1>4, <1>5

\* A request that is answered at once
LEMMA SkAtOnce ==
  ASSUME SkInv, NEW r \in Requests, skReq[r].at = "new", NEW rec, rec.at = "done",
         skReq' = [skReq EXCEPT ![r] = rec], UNCHANGED <<skDir, skName, skText, skHistory>>
  PROVE  SkInv'
<1>1. SkOnly(r) /\ ~Changes(r)'
  BY SkEnds
<1>2. ~Changes(r)
  BY DEF Changes, Open
<1> QED BY <1>1, <1>2, SkByReader

\* Getting and listing begin.
LEMMA ReadingStarts ==
  ASSUME SkInv, NEW r \in Requests, NEW op \in {"get", "list"}, StartReading(r, op)
  PROVE  SkInv'
<1>1. PICK rec : rec = Begins(op, "none")
  OBVIOUS
<1>2. /\ rec = [f \in SkFields |-> rec[f]] /\ rec.op = op /\ rec.at = "look on"
      /\ rec.stage = "detail"
  BY <1>1 DEF Begins, SkFields
<1>3. /\ skReq[r].at = "new" /\ UNCHANGED <<skDir, skName, skText, skHistory>>
      /\ skReq' = [skReq EXCEPT ![r] =
           IF skDir THEN rec ELSE Done(rec, IF op = "get" THEN "404" ELSE "200")]
  BY <1>1 DEF StartReading
<1>4. CASE skDir
  <2>1. IsSk(rec)
    BY <1>2 DEF IsSk
  <2>2. skReq' = [skReq EXCEPT ![r] = rec]
    BY <1>3, <1>4
  <2>3. SkOnly(r) /\ skReq'[r] = rec
    BY <2>1, <2>2, <1>3, SkGoesOn
  <2>4. ~Changes(r) /\ ~Changes(r)'
    BY <2>3, <1>2, <1>3 DEF Changes, Open
  <2> QED BY <2>3, <2>4, <1>3, SkByReader
<1>5. CASE ~skDir
  <2>1. PICK new, status : new = Done(rec, status) /\ skReq' = [skReq EXCEPT ![r] = new]
    BY <1>3, <1>5
  <2>2. new = [rec EXCEPT !.at = "done", !.answer = status]
    BY <2>1 DEF Done
  <2>3. new.at = "done"
    BY <2>2, <1>2 DEF SkFields
  <2> QED BY <2>1, <2>3, <1>3, SkAtOnce
<1> QED BY <1>4, <1>5

\* Reading the skill for the answer
LEMMA DetailIsRead ==
  ASSUME SkInv, NEW r \in Requests, ReadDetail(r)
  PROVE  SkInv'
<1>1. skReq[r].at = "read" /\ UNCHANGED <<skDir, skName, skText, skHistory>>
  BY DEF ReadDetail
<1>2. PICK rec : \E status : rec = Done(skReq[r], status) /\ skReq' = [skReq EXCEPT ![r] = rec]
  BY DEF ReadDetail, Reply, SkInv, SkTypes
<1>3. rec.at = "done" /\ rec.op = skReq[r].op /\ rec.arg = skReq[r].arg /\ IsEffect(rec)
  BY <1>1, <1>2, SkDone
<1>4. SkOnly(r) /\ ~Changes(r)'
  BY <1>1, <1>2, <1>3, SkEnds
<1> QED BY <1>1, <1>4, SkLooks

\* Changes begin.
LEMMA SkChangeStarts ==
  ASSUME SkInv, NEW r \in Requests,
         PutSkill(r, "new") \/ (\E e \in BOOLEAN : PatchSkillState(r, e)) \/ DeleteSkill(r)
  PROVE  SkInv'
<1>1. PICK rec : /\ \/ rec = Begins("put", "new")
                    \/ \E e \in BOOLEAN : rec = Begins("patch", e)
                    \/ rec = [Begins("delete", "none") EXCEPT !.at = "scan"] /\ skDir'
                 /\ skReq[r].at = "new" /\ StartsChange(r, rec)
  <2>1. CASE PutSkill(r, "new")
    BY <2>1 DEF PutSkill
  <2>2. CASE \E e \in BOOLEAN : PatchSkillState(r, e)
    BY <2>2 DEF PatchSkillState
  <2>3. CASE DeleteSkill(r)
    BY <2>3 DEF DeleteSkill
  <2> QED BY <2>1, <2>2, <2>3
<1>2. /\ rec = [f \in SkFields |-> rec[f]] /\ rec.stage = "look"
      /\ \/ rec.op \in {"put", "patch"} /\ rec.at = "look on"
         \/ rec.op = "delete" /\ rec.at = "scan" /\ rec.left = {} /\ skDir'
  <2>1. CASE rec = Begins("put", "new")
    BY <2>1 DEF Begins, SkFields
  <2>2. CASE \E e \in BOOLEAN : rec = Begins("patch", e)
    <3>1. PICK e : rec = Begins("patch", e)
      BY <2>2
    <3> QED BY <3>1 DEF Begins, SkFields
  <2>3. CASE rec = [Begins("delete", "none") EXCEPT !.at = "scan"] /\ skDir'
    <3>1. PICK old : old = Begins("delete", "none")
      OBVIOUS
    <3>2. /\ old = [f \in SkFields |-> old[f]] /\ old.op = "delete" /\ old.stage = "look"
          /\ old.left = {}
      BY <3>1 DEF Begins, SkFields
    <3>3. rec = [old EXCEPT !.at = "scan"]
      BY <2>3, <3>1
    <3>4. /\ rec = [f \in SkFields |-> rec[f]] /\ rec.at = "scan" /\ rec.op = "delete"
          /\ rec.stage = "look" /\ rec.left = {}
      BY <3>2, <3>3 DEF SkFields
    <3>5. skDir'
      BY <2>3
    <3> QED BY <3>4, <3>5
  <2> QED BY <2>1, <2>2, <2>3, <1>1
<1>3. IsSk(rec)
  BY <1>2 DEF IsSk
<1>4. /\ skReq' = [skReq EXCEPT ![r] = rec] /\ UNCHANGED <<skName, skText, skFirst, skLog>>
      /\ skRaced' = (skRaced \/ \E q \in Requests : Open(skReq, q) /\ skReq[q].op \notin {"get", "list"})
  BY <1>1 DEF StartsChange
<1>5. SkOnly(r) /\ skReq'[r] = rec
  BY <1>1, <1>3, <1>4, SkGoesOn
<1>6. Changes(r)'
  BY <1>2, <1>5 DEF Changes, Open
<1> QED BY <1>1, <1>2, <1>4, <1>5, <1>6, SkByStart

\* A request that ends without having moved a file
LEMMA SkFails ==
  ASSUME SkInv, NEW r \in Requests, skReq[r].at \notin {"new", "done", "write", "remove"},
         NEW status, Reply(r, status), UNCHANGED <<skDir, skName, skText, skHistory>>
  PROVE  SkInv'
<1>1. PICK rec : rec = Done(skReq[r], status)
  OBVIOUS
<1>2. skReq' = [skReq EXCEPT ![r] = rec]
  BY <1>1 DEF Reply, SkInv, SkTypes
<1>3. rec.at = "done" /\ rec.op = skReq[r].op /\ rec.arg = skReq[r].arg /\ IsEffect(rec)
  BY <1>1, SkDone
<1>4. SkOnly(r) /\ ~Changes(r)'
  BY <1>2, <1>3, SkEnds
<1> QED BY <1>4, SkLooks

\* What is under way
LEMMA SkUnderWay ==
  ASSUME SkInv, NEW r \in Requests, skReq[r].at \notin {"new", "done"}
  PROVE  IsSk(skReq[r]) /\ skReq[r] = [f \in SkFields |-> skReq[r][f]]
<1>1. NoRequest.at = "new"
  BY DEF NoRequest
<1> QED BY <1>1 DEF SkInv, SkTypes, IsSk

\* The upsert opens the file.
LEMMA SkillFileOpens ==
  ASSUME SkInv, NEW r \in Requests, OpenSkillFile(r)
  PROVE  SkInv'
<1>1. skReq[r].at = "open" /\ skDir' = skDir /\ UNCHANGED skHistory
  BY DEF OpenSkillFile
<1>2. /\ IsSk(skReq[r]) /\ skReq[r] = [f \in SkFields |-> skReq[r][f]]
      /\ skReq[r].op = "put" /\ skReq[r].stage = "look" /\ skReq[r].found \in Names
  BY <1>1, SkUnderWay DEF IsSk
<1>3. CASE ~skDir
  BY <1>1, <1>3, SkFails DEF OpenSkillFile
<1>4. CASE skDir
  <2>1. PICK n, f : n = skReq[r].found /\ f = IF skName[n] = NoSkill THEN r ELSE skName[n]
    OBVIOUS
  <2>2. /\ skName' = [skName EXCEPT ![n] = f] /\ skText' = [skText EXCEPT ![f] = Empty]
        /\ skReq' = [skReq EXCEPT ![r].at = "write", ![r].file = f]
    BY <1>4, <2>1 DEF OpenSkillFile
  <2>3. n \in Names /\ f \in Requests \cup {"first"} /\ f # NoSkill
    <3>1. skName[n] \in Requests \cup {"first", NoSkill} /\ n \in Names
      BY <1>2, <2>1 DEF SkInv, SkTypes
    <3> QED BY <2>1, <3>1, SkillsAssumption DEF NoSkill
  <2>4. PICK new : new = [skReq[r] EXCEPT !.at = "write", !.file = f]
    OBVIOUS
  <2>5. /\ new = [g \in SkFields |-> new[g]] /\ new.at = "write" /\ new.file = f
        /\ new.op = skReq[r].op /\ new.arg = skReq[r].arg /\ new.stage = skReq[r].stage
        /\ new.found = skReq[r].found
    BY <1>2, <2>4 DEF SkFields
  <2>6. IsSk(new)
    BY <1>2, <2>3, <2>5 DEF IsSk
  <2>7. skReq' = [skReq EXCEPT ![r] = new]
    BY <2>2, <2>4 DEF SkInv, SkTypes
  <2>8. SkOnly(r) /\ skReq'[r] = new
    BY <1>1, <1>2, <2>5, <2>6, <2>7, SkGoesOn DEF IsEffect
  <2>9. /\ skName' = [m \in Names |-> IF m = n THEN f ELSE skName[m]]
        /\ skText' = [g \in Requests \cup {"first"} |-> IF g = f THEN Empty ELSE skText[g]]
    BY <2>2, <2>3 DEF SkInv, SkTypes
  <2>10. SkFilesOK'
    BY <2>3, <2>9 DEF SkFilesOK, SkInv, SkTypes
  <2>11. skFirst' = skFirst /\ skLog' = skLog /\ skRaced' = skRaced
    BY <1>1 DEF skHistory
  <2>12. SkTypes' /\ SkLogged' /\ SkillExpected' = SkillExpected /\ NameExpected' = NameExpected
    BY <2>8, <2>10, <2>11, SkTypesAfter, SkLoggedAfter DEF SkInv, SkTypes
  <2>13. Changes(r)
    BY <1>1, <1>2 DEF Changes, Open
  <2>14. ASSUME SkSole(r) PROVE SkWhere(r)'
    <3>1. SkGood /\ SkWhere(r)
      <4>1. \A q \in Requests : Changes(q) => skReq[q].at \notin {"write", "remove"}
        BY <2>14, <1>1 DEF SkSole
      <4> QED BY <4>1, <2>14, <2>13, SkGoodBefore DEF SkSole, SkInv, SkAlone
    <3>2. n = IF SkillExpected THEN NameExpected ELSE "on"
      BY <3>1, <1>1, <1>2, <2>1 DEF SkWhere
    <3>3. \A m \in Names : m # n => skName[m] = NoSkill
      BY <3>1, <3>2 DEF SkGood, Present
    <3>4. Present' = {n}
      BY <3>3, <2>3, <2>9 DEF Present
    <3>5. skName'[n] = f /\ skText'[f] = Empty
      BY <2>3, <2>9
    <3> QED BY <3>2, <3>4, <3>5, <2>1, <2>5, <2>8, <2>12, <1>2 DEF SkWhere
  <2> QED BY <2>5, <2>8, <2>11, <2>12, <2>13, <2>14, SkByChange
<1> QED BY <1>3, <1>4

\* A change that takes effect
LEMMA SkEffect ==
  ASSUME SkInv, NEW r \in Requests, SkOnly(r), skReq[r].at # "new", IsEffect(skReq'[r]),
         skLog' = Append(skLog, r), skFirst' = skFirst, skRaced' = skRaced,
         ~skRaced => skReq[r].op \in {"put", "delete"} \/ SkillExpected
  PROVE  /\ SkLogged'
         /\ ~skRaced =>
              /\ skReq[r].op = "put" =>
                   /\ SkillExpected' /\ TextExpected' = skReq[r].arg
                   /\ NameExpected' = IF SkillExpected THEN NameExpected ELSE "on"
              /\ skReq[r].op = "patch" /\ SkillExpected =>
                   /\ SkillExpected' /\ TextExpected' = TextExpected
                   /\ NameExpected' = NameOf(skReq[r].arg)
              /\ skReq[r].op = "delete" => ~SkillExpected'
<1>1. /\ skLog \in Seq(Requests)
      /\ ~skRaced => (InLife("patch") # {} => SkillExpected)
  BY DEF SkInv, SkLogged
<1>2. \A i \in DOMAIN skLog :
        /\ skReq'[skLog[i]].op = skReq[skLog[i]].op /\ skReq'[skLog[i]].arg = skReq[skLog[i]].arg
        /\ IsEffect(skReq'[skLog[i]]) /\ skReq'[skLog[i]].at # "new"
  BY SkLogStays DEF SkInv
<1>3. /\ skReq'[r].op = skReq[r].op /\ skReq'[r].arg = skReq[r].arg /\ skReq'[r].at # "new"
  BY DEF SkOnly, IsSk
<1>4. ASSUME NEW i \in DOMAIN skLog'
      PROVE  IsEffect(skReq'[skLog'[i]]) /\ skReq'[skLog'[i]].at # "new"
  <2>1. skLog'[i] = r \/ (i \in DOMAIN skLog /\ skLog'[i] = skLog[i])
    BY <1>1
  <2> QED BY <2>1, <1>2, <1>3
<1>5. skLog' \in Seq(Requests)
  BY <1>1
<1>6. ~skRaced =>
        /\ skReq[r].op = "put" =>
             /\ SkillExpected' /\ TextExpected' = skReq[r].arg
             /\ NameExpected' = IF SkillExpected THEN NameExpected ELSE "on"
        /\ skReq[r].op = "patch" /\ SkillExpected =>
             /\ SkillExpected' /\ TextExpected' = TextExpected
             /\ NameExpected' = NameOf(skReq[r].arg)
        /\ skReq[r].op = "delete" => ~SkillExpected'
        /\ skReq[r].op \in {"put", "delete"} \/ SkillExpected =>
             (InLife("patch")' # {} => SkillExpected')
  <2> SUFFICES ASSUME ~skRaced PROVE
        /\ skReq[r].op = "put" =>
             /\ SkillExpected' /\ TextExpected' = skReq[r].arg
             /\ NameExpected' = IF SkillExpected THEN NameExpected ELSE "on"
        /\ skReq[r].op = "patch" /\ SkillExpected =>
             /\ SkillExpected' /\ TextExpected' = TextExpected
             /\ NameExpected' = NameOf(skReq[r].arg)
        /\ skReq[r].op = "delete" => ~SkillExpected'
        /\ skReq[r].op \in {"put", "delete"} \/ SkillExpected =>
             (InLife("patch")' # {} => SkillExpected')
    OBVIOUS
  <2>1. \A i \in DOMAIN skLog : /\ skReq'[skLog[i]].op = skReq[skLog[i]].op
                                /\ skReq'[skLog[i]].arg = skReq[skLog[i]].arg
    BY <1>2
  <2>2. InLife("patch") # {} => SkillExpected
    BY <1>1
  <2> QED BY <1>1, <1>3, <2>1, <2>2, SkAppended
<1>7. ~skRaced' => (InLife("patch")' # {} => SkillExpected')
  BY <1>6
<1>8. SkLogged'
  BY <1>4, <1>5, <1>7 DEF SkLogged, IsEffect
<1> QED BY <1>6, <1>8

\* A change that is alone, and what it finds
LEMMA SkSoleFinds ==
  ASSUME SkInv, NEW r \in Requests, SkSole(r)
  PROVE  /\ ~skRaced /\ SkWhere(r)
         /\ skReq[r].at \notin {"write", "remove"} => SkGood
<1>1. ~skRaced /\ Changes(r) /\ SkWhere(r)
  BY DEF SkSole, SkInv, SkAlone
<1>2. ASSUME skReq[r].at \notin {"write", "remove"} PROVE SkGood
  <2>1. \A q \in Requests : Changes(q) => skReq[q].at \notin {"write", "remove"}
    BY <1>2 DEF SkSole
  <2> QED BY <2>1, <1>1, SkGoodBefore
<1> QED BY <1>1, <1>2

\* The record of a change that has only its answer left to find
LEMMA SkReported ==
  ASSUME SkInv, NEW r \in Requests, IsSk(skReq[r]), skReq[r].op \in {"put", "patch"},
         skReq' = [skReq EXCEPT ![r].at = "look on", ![r].stage = "detail"]
  PROVE  /\ SkOnly(r) /\ IsEffect(skReq'[r]) /\ skReq'[r].at = "look on"
         /\ skReq'[r].stage = "detail"
<1>1. PICK new : new = [skReq[r] EXCEPT !.at = "look on", !.stage = "detail"]
  OBVIOUS
<1>2. skReq[r] = [f \in SkFields |-> skReq[r][f]] /\ skReq[r].at # "done"
  BY DEF IsSk
<1>3. /\ new = [f \in SkFields |-> new[f]] /\ new.at = "look on" /\ new.op = skReq[r].op
      /\ new.arg = skReq[r].arg /\ new.stage = "detail"
  BY <1>1, <1>2 DEF SkFields
<1>4. IsSk(new)
  BY <1>3 DEF IsSk
<1>5. IsEffect(new)
  BY <1>3 DEF IsEffect
<1>6. skReq' = [skReq EXCEPT ![r] = new]
  BY <1>1 DEF SkInv, SkTypes
<1>7. SkOnly(r) /\ skReq'[r] = new
  BY <1>2, <1>3, <1>4, <1>5, <1>6, SkGoesOn
<1> QED BY <1>3, <1>5, <1>7

\* The upsert writes the file.
LEMMA SkillFileIsWritten ==
  ASSUME SkInv, NEW r \in Requests, WriteSkillFile(r)
  PROVE  SkInv'
<1>1. /\ skReq[r].at = "write" /\ skDir' = skDir /\ skName' = skName
      /\ skLog' = Append(skLog, r) /\ skFirst' = skFirst /\ skRaced' = skRaced
      /\ skReq' = [skReq EXCEPT ![r].at = "look on", ![r].stage = "detail"]
  BY DEF WriteSkillFile, TookEffect
<1>2. /\ IsSk(skReq[r]) /\ skReq[r].op = "put" /\ skReq[r].stage = "look"
      /\ skReq[r].file \in Requests \cup {"first"}
  BY <1>1, SkUnderWay DEF IsSk
<1>3. PICK f : f = skReq[r].file
  OBVIOUS
<1>4. PICK c \in WrittenOver(skText[f], skReq[r].arg) : skText' = [skText EXCEPT ![f] = c]
  BY <1>3 DEF WriteSkillFile
<1>5. /\ SkOnly(r) /\ IsEffect(skReq'[r]) /\ skReq'[r].at = "look on"
      /\ skReq'[r].stage = "detail"
  BY <1>1, <1>2, SkReported
<1>6. skText' = [g \in Requests \cup {"first"} |-> IF g = f THEN c ELSE skText[g]]
  BY <1>4 DEF SkInv, SkTypes
<1>7. SkTypes'
  <2>1. SkFilesOK' /\ skRaced' \in BOOLEAN
    BY <1>1, <1>6 DEF SkFilesOK, SkInv, SkTypes
  <2> QED BY <2>1, <1>1, <1>5, SkTypesAfter DEF SkInv
<1>8. /\ SkLogged'
      /\ ~skRaced =>
           /\ SkillExpected' /\ TextExpected' = skReq[r].arg
           /\ NameExpected' = IF SkillExpected THEN NameExpected ELSE "on"
  BY <1>1, <1>2, <1>5, SkEffect
<1>9. Changes(r) /\ SkWhere(r)'
  BY <1>1, <1>2, <1>5 DEF Changes, Open, SkWhere
<1>10. ASSUME SkSole(r) PROVE SkGood'
  <2>1. ~skRaced /\ SkWhere(r)
    BY <1>10, SkSoleFinds
  <2>2. PICK n : n = skReq[r].found
    OBVIOUS
  <2>3. /\ n = IF SkillExpected THEN NameExpected ELSE "on"
        /\ Present = {n} /\ skName[n] = f /\ skText[f] = Empty
    BY <2>1, <2>2, <1>1, <1>2, <1>3 DEF SkWhere
  <2>4. NameExpected' = n /\ SkillExpected' /\ TextExpected' = skReq[r].arg
    BY <2>1, <2>3, <1>8
  <2>5. Present' = {n} /\ skName'[n] = f
    BY <2>3, <1>1 DEF Present
  <2>6. skText'[f] = Whole(skReq[r].arg)
    BY <2>3, <1>2, <1>3, <1>4, <1>6 DEF WrittenOver
  <2> QED BY <2>4, <2>5, <2>6 DEF SkGood
<1> QED BY <1>1, <1>5, <1>7, <1>8, <1>9, <1>10, SkByChange

\* Is there a file under the other name?
LEMMA TargetIsChecked ==
  ASSUME SkInv, NEW r \in Requests, CheckTarget(r)
  PROVE  SkInv'
<1>1. skReq[r].at = "check" /\ UNCHANGED <<skDir, skName, skText, skHistory>>
  BY DEF CheckTarget
<1>2. PICK at : at = IF skName[NameOf(skReq[r].arg)] # NoSkill THEN "unlink" ELSE "rename"
  OBVIOUS
<1>3. skReq' = [skReq EXCEPT ![r].at = at] /\ at \in {"unlink", "rename"}
  BY <1>2 DEF CheckTarget, Goes
<1>4. /\ IsSk(skReq[r]) /\ skReq[r].op = "patch" /\ skReq[r].stage = "look"
      /\ skReq[r].found \in Names /\ skReq[r].found # NameOf(skReq[r].arg)
  BY <1>1, SkUnderWay DEF IsSk
<1>5. \A new : (/\ new = [f \in SkFields |-> new[f]] /\ new.at = at
                /\ new.op = skReq[r].op /\ new.arg = skReq[r].arg /\ new.stage = skReq[r].stage
                /\ new.found = skReq[r].found /\ new.file = skReq[r].file
                /\ new.left = skReq[r].left) => IsSk(new)
  BY <1>3, <1>4 DEF IsSk
<1>6. /\ SkOnly(r) /\ skReq'[r].at = at /\ skReq'[r].op = "patch"
      /\ skReq'[r].found = skReq[r].found
  BY <1>3, <1>4, <1>5, SkGoes
<1>7. ASSUME SkGood, SkWhere(r) PROVE SkWhere(r)'
  <2>1. SkillExpected /\ skReq[r].found = NameExpected
    BY <1>1, <1>4, <1>7 DEF SkWhere
  <2>2. NameOf(skReq[r].arg) \in Names
    BY DEF NameOf, Names
  <2>3. at = "rename"
    BY <2>1, <2>2, <1>2, <1>4, <1>7 DEF SkGood, Present
  <2>4. SkillExpected' = SkillExpected /\ NameExpected' = NameExpected
    BY <1>1, <1>6, SkLoggedAfter DEF SkInv, skHistory
  <2> QED BY <2>1, <2>3, <2>4, <1>6 DEF SkWhere
<1> QED BY <1>1, <1>6, <1>7, SkLooks

\* The file under the other name is removed: a change that is alone never gets here.
LEMMA TargetIsUnlinked ==
  ASSUME SkInv, NEW r \in Requests, UnlinkTarget(r)
  PROVE  SkInv'
<1>1. /\ skReq[r].at = "unlink" /\ skText' = skText
      /\ skFirst' = skFirst /\ skLog' = skLog /\ skRaced' = skRaced
  BY DEF UnlinkTarget, skHistory
<1>2. PICK n : n = NameOf(skReq[r].arg)
  OBVIOUS
<1>3. /\ skName' = [skName EXCEPT ![n] = NoSkill]
      /\ IF skName[n] = NoSkill THEN Reply(r, "404") ELSE Goes(r, "rename")
  BY <1>2 DEF UnlinkTarget
<1>4. /\ IsSk(skReq[r]) /\ skReq[r].op = "patch" /\ skReq[r].stage = "look"
      /\ skReq[r].found \in Names /\ skReq[r].found # NameOf(skReq[r].arg)
  BY <1>1, SkUnderWay DEF IsSk
<1>5. Changes(r) /\ ~SkSole(r)
  <2>1. Changes(r)
    BY <1>1, <1>4 DEF Changes, Open
  <2>2. ~SkWhere(r)
    BY <1>1, <1>4 DEF SkWhere
  <2> QED BY <2>1, <2>2, SkSoleFinds
<1>6. SkOnly(r)
  <2>1. CASE Reply(r, "404")
    <3>1. PICK rec : rec = Done(skReq[r], "404")
      OBVIOUS
    <3>2. skReq' = [skReq EXCEPT ![r] = rec]
      BY <2>1, <3>1 DEF Reply, SkInv, SkTypes
    <3>3. rec.at = "done" /\ rec.op = skReq[r].op /\ rec.arg = skReq[r].arg /\ IsEffect(rec)
      BY <1>1, <3>1, SkDone
    <3> QED BY <1>1, <3>2, <3>3, SkEnds
  <2>2. CASE Goes(r, "rename")
    <3>1. \A new : (/\ new = [f \in SkFields |-> new[f]] /\ new.at = "rename"
                    /\ new.op = skReq[r].op /\ new.arg = skReq[r].arg /\ new.stage = skReq[r].stage
                    /\ new.found = skReq[r].found /\ new.file = skReq[r].file
                    /\ new.left = skReq[r].left) => IsSk(new)
      BY <1>4 DEF IsSk
    <3>2. skReq' = [skReq EXCEPT ![r].at = "rename"]
      BY <2>2 DEF Goes
    <3> QED BY <1>4, <3>1, <3>2, SkGoes
  <2> QED BY <1>3, <2>1, <2>2
<1>7. SkTypes'
  <2>1. skName' \in [Names -> Requests \cup {"first", NoSkill}]
    BY <1>3 DEF SkInv, SkTypes
  <2>2. SkFilesOK' /\ skRaced' \in BOOLEAN
    BY <2>1, <1>1 DEF SkFilesOK, SkInv, SkTypes
  <2> QED BY <2>2, <1>1, <1>6, SkTypesAfter DEF SkInv
<1>8. SkLogged'
  BY <1>1, <1>6, SkLoggedAfter DEF SkInv
<1> QED BY <1>1, <1>5, <1>6, <1>7, <1>8, SkByChange

\* The file gets its other name.
LEMMA SkillIsRenamed ==
  ASSUME SkInv, NEW r \in Requests, RenameSkill(r)
  PROVE  SkInv'
<1>1. skReq[r].at = "rename" /\ skDir' = skDir /\ skText' = skText
  BY DEF RenameSkill
<1>2. /\ IsSk(skReq[r]) /\ skReq[r].op = "patch" /\ skReq[r].stage = "look"
      /\ skReq[r].found \in Names /\ skReq[r].found # NameOf(skReq[r].arg)
  BY <1>1, SkUnderWay DEF IsSk
<1>3. PICK n, m : n = skReq[r].found /\ m = NameOf(skReq[r].arg)
  OBVIOUS
<1>4. n \in Names /\ m \in Names /\ n # m
  BY <1>2, <1>3 DEF NameOf, Names
<1>5. CASE skName[n] = NoSkill
  <2>1. Reply(r, "404") /\ UNCHANGED <<skName, skHistory>>
    BY <1>3, <1>5 DEF RenameSkill
  <2> QED BY <1>1, <2>1, SkFails
<1>6. CASE skName[n] # NoSkill
  <2>1. /\ skName' = [skName EXCEPT ![m] = skName[n], ![n] = NoSkill]
        /\ skReq' = [skReq EXCEPT ![r].at = "look on", ![r].stage = "detail"]
        /\ skLog' = Append(skLog, r) /\ skFirst' = skFirst /\ skRaced' = skRaced
    BY <1>3, <1>6 DEF RenameSkill, TookEffect
  <2>2. /\ SkOnly(r) /\ IsEffect(skReq'[r]) /\ skReq'[r].at = "look on"
        /\ skReq'[r].stage = "detail"
    BY <1>2, <2>1, SkReported
  <2>3. skName' = [p \in Names |-> IF p = n THEN NoSkill ELSE IF p = m THEN skName[n] ELSE skName[p]]
    BY <1>4, <2>1 DEF SkInv, SkTypes
  <2>4. SkTypes'
    <3>1. skName' \in [Names -> Requests \cup {"first", NoSkill}]
      BY <1>4, <2>3 DEF SkInv, SkTypes
    <3>2. SkFilesOK' /\ skRaced' \in BOOLEAN
      BY <3>1, <1>1, <2>1 DEF SkFilesOK, SkInv, SkTypes
    <3> QED BY <3>2, <2>1, <2>2, SkTypesAfter DEF SkInv
  <2>5. Changes(r) /\ SkWhere(r)'
    BY <1>1, <1>2, <2>2 DEF Changes, Open, SkWhere
  <2>6. ASSUME SkSole(r) PROVE SkGood /\ SkillExpected /\ n = NameExpected
    BY <2>6, <1>1, <1>2, <1>3, SkSoleFinds DEF SkWhere
  <2>7. ~skRaced => SkillExpected
    BY <2>5, <2>6 DEF SkInv, SkAlone
  <2>8. /\ SkLogged'
        /\ ~skRaced => SkillExpected' /\ TextExpected' = TextExpected /\ NameExpected' = m
    BY <1>1, <1>2, <1>3, <2>1, <2>2, <2>7, SkEffect
  <2>9. ASSUME SkSole(r) PROVE SkGood'
    <3>1. ~skRaced
      BY <2>9 DEF SkSole
    <3>2. SkillExpected' /\ TextExpected' = TextExpected /\ NameExpected' = m
      BY <2>8, <3>1
    <3>3. Present = {n} /\ skText[skName[n]] = Whole(TextExpected)
      BY <2>6, <2>9 DEF SkGood
    <3>4. \A p \in Names : p # n => skName[p] = NoSkill
      BY <3>3 DEF Present
    <3>5. Present' = {m}
      BY <3>4, <2>3, <1>4, <1>6 DEF Present
    <3>6. skText'[skName'[m]] = Whole(TextExpected)
      BY <3>3, <1>1, <1>4, <2>3
    <3> QED BY <3>2, <3>5, <3>6 DEF SkGood
  <2> QED BY <2>1, <2>2, <2>4, <2>5, <2>8, <2>9, SkByChange
<1> QED BY <1>5, <1>6

-----------------------------------------------------------------------------
\* The directory is listed.
LEMMA DirIsScanned ==
  ASSUME SkInv, NEW r \in Requests, ScanDir(r)
  PROVE  SkInv'
<1>1. skReq[r].at = "scan" /\ UNCHANGED <<skDir, skName, skText, skHistory>>
      /\ skReq' = [skReq EXCEPT ![r].at = "remove", ![r].left = Present]
  BY DEF ScanDir, Present
<1>2. /\ IsSk(skReq[r]) /\ skReq[r] = [f \in SkFields |-> skReq[r][f]]
      /\ skReq[r].op = "delete" /\ skReq[r].stage = "look"
  BY <1>1, SkUnderWay DEF IsSk
<1>3. PICK new : new = [skReq[r] EXCEPT !.at = "remove", !.left = Present]
  OBVIOUS
<1>4. /\ new = [f \in SkFields |-> new[f]] /\ new.at = "remove" /\ new.left = Present
      /\ new.op = skReq[r].op /\ new.arg = skReq[r].arg /\ new.stage = skReq[r].stage
  BY <1>2, <1>3 DEF SkFields
<1>5. IsSk(new)
  BY <1>2, <1>4 DEF IsSk, Present
<1>6. skReq' = [skReq EXCEPT ![r] = new]
  BY <1>1, <1>3 DEF SkInv, SkTypes
<1>7. SkOnly(r) /\ skReq'[r] = new
  BY <1>1, <1>2, <1>4, <1>5, <1>6, SkGoesOn DEF IsEffect
<1>8. ASSUME SkWhere(r) PROVE SkWhere(r)'
  <2>1. skDir'
    BY <1>1, <1>2, <1>8 DEF SkWhere
  <2>2. Present' = new.left
    BY <1>1, <1>4 DEF Present
  <2> QED BY <2>1, <2>2, <1>2, <1>4, <1>7 DEF SkWhere
<1> QED BY <1>1, <1>7, <1>8, SkLooks

\* A change that ends without having taken effect, when others were under way
LEMMA SkGivesUp ==
  ASSUME SkInv, NEW r \in Requests, skReq[r].at \notin {"new", "done"}, Changes(r), ~SkSole(r),
         NEW status, Reply(r, status), SkFilesOK', UNCHANGED skHistory
  PROVE  SkInv'
<1>1. PICK rec : rec = Done(skReq[r], status)
  OBVIOUS
<1>2. skReq' = [skReq EXCEPT ![r] = rec]
  BY <1>1 DEF Reply, SkInv, SkTypes
<1>3. rec.at = "done" /\ rec.op = skReq[r].op /\ rec.arg = skReq[r].arg /\ IsEffect(rec)
  BY <1>1, SkDone
<1>4. SkOnly(r)
  BY <1>2, <1>3, SkEnds
<1>5. skFirst' = skFirst /\ skLog' = skLog /\ skRaced' = skRaced
  BY DEF skHistory
<1>6. SkTypes' /\ SkLogged'
  BY <1>4, <1>5, SkTypesAfter, SkLoggedAfter DEF SkInv, SkTypes
<1> QED BY <1>4, <1>5, <1>6, SkByChange

\* One of the files that were listed is removed.
LEMMA EntryIsRemoved ==
  ASSUME SkInv, NEW r \in Requests, NEW n \in Names, RemoveEntry(r, n)
  PROVE  SkInv'
<1>1. /\ skReq[r].at = "remove" /\ n \in skReq[r].left /\ skDir' = skDir /\ skText' = skText
      /\ skFirst' = skFirst /\ skLog' = skLog /\ skRaced' = skRaced /\ UNCHANGED skHistory
      /\ skName' = [skName EXCEPT ![n] = NoSkill]
  BY DEF RemoveEntry, skHistory
<1>2. /\ IsSk(skReq[r]) /\ skReq[r] = [f \in SkFields |-> skReq[r][f]]
      /\ skReq[r].op = "delete" /\ skReq[r].stage = "look" /\ skReq[r].left \in SUBSET Names
  BY <1>1, SkUnderWay DEF IsSk
<1>3. Changes(r)
  BY <1>1, <1>2 DEF Changes, Open
<1>4. skName' = [p \in Names |-> IF p = n THEN NoSkill ELSE skName[p]]
  BY <1>1 DEF SkInv, SkTypes
<1>5. SkFilesOK' /\ skRaced' \in BOOLEAN
  <2>1. skName' \in [Names -> Requests \cup {"first", NoSkill}]
    BY <1>4 DEF SkInv, SkTypes
  <2> QED BY <2>1, <1>1 DEF SkFilesOK, SkInv, SkTypes
<1>6. ASSUME SkSole(r) PROVE skDir /\ Present = skReq[r].left
  BY <1>1, <1>2, <1>6, SkSoleFinds DEF SkWhere
<1>7. CASE skName[n] = NoSkill
  <2>1. Reply(r, "404")
    BY <1>7 DEF RemoveEntry
  <2>2. ~SkSole(r)
    BY <1>1, <1>6, <1>7 DEF Present
  <2> QED BY <1>1, <1>3, <1>5, <2>1, <2>2, SkGivesUp
<1>8. CASE skName[n] # NoSkill
  <2>1. PICK new : new = [skReq[r] EXCEPT !.left = @ \ {n}]
    OBVIOUS
  <2>2. skReq' = [skReq EXCEPT ![r].left = @ \ {n}]
    BY <1>8 DEF RemoveEntry
  <2>3. skReq' = [skReq EXCEPT ![r] = new]
    BY <2>1, <2>2 DEF SkInv, SkTypes
  <2>4. /\ new = [f \in SkFields |-> new[f]] /\ new.at = "remove" /\ new.left = skReq[r].left \ {n}
        /\ new.op = skReq[r].op /\ new.arg = skReq[r].arg /\ new.stage = skReq[r].stage
    BY <1>1, <1>2, <2>1 DEF SkFields
  <2>5. IsSk(new)
    BY <1>2, <2>4 DEF IsSk
  <2>6. SkOnly(r) /\ skReq'[r] = new
    BY <1>1, <1>2, <2>3, <2>4, <2>5, SkGoesOn DEF IsEffect
  <2>7. SkTypes' /\ SkLogged'
    BY <1>1, <1>5, <2>6, SkTypesAfter, SkLoggedAfter DEF SkInv
  <2>8. ASSUME SkSole(r) PROVE SkWhere(r)'
    <3>1. Present' = Present \ {n}
      BY <1>4 DEF Present
    <3>2. skDir' /\ Present' = new.left
      BY <3>1, <1>1, <1>6, <2>4, <2>8
    <3> QED BY <3>2, <1>2, <2>4, <2>6 DEF SkWhere
  <2> QED BY <1>1, <1>3, <2>4, <2>6, <2>7, <2>8, SkByChange
<1> QED BY <1>7, <1>8

\* The directory is removed.
LEMMA DirIsRemoved ==
  ASSUME SkInv, NEW r \in Requests, RemoveDir(r)
  PROVE  SkInv'
<1>1. /\ skReq[r].at = "remove" /\ skReq[r].left = {} /\ skName' = skName /\ skText' = skText
      /\ \/ \E status : Reply(r, status) /\ UNCHANGED skHistory /\ (Present # {} \/ ~skDir)
         \/ Reply(r, "200") /\ TookEffect(r)
  <2>1. Present = {} <=> ~\E n \in Names : skName[n] # NoSkill
    BY DEF Present
  <2> QED BY <2>1 DEF RemoveDir
<1>2. IsSk(skReq[r]) /\ skReq[r].op = "delete" /\ skReq[r].stage = "look"
  BY <1>1, SkUnderWay DEF IsSk
<1>3. Changes(r)
  BY <1>1, <1>2 DEF Changes, Open
<1>4. SkFilesOK'
  BY <1>1 DEF SkFilesOK, SkInv, SkTypes
<1>5. ASSUME SkSole(r) PROVE skDir /\ Present = {}
  BY <1>1, <1>2, <1>5, SkSoleFinds DEF SkWhere
<1>6. CASE \E status : Reply(r, status) /\ UNCHANGED skHistory /\ (Present # {} \/ ~skDir)
  BY <1>1, <1>3, <1>4, <1>5, <1>6, SkGivesUp
<1>7. CASE Reply(r, "200") /\ TookEffect(r)
  <2>1. PICK rec : rec = Done(skReq[r], "200")
    OBVIOUS
  <2>2. skReq' = [skReq EXCEPT ![r] = rec]
    BY <1>7, <2>1 DEF Reply, SkInv, SkTypes
  <2>3. rec.at = "done" /\ rec.op = skReq[r].op /\ rec.arg = skReq[r].arg /\ IsEffect(rec)
    BY <1>1, <2>1, SkDone
  <2>4. SkOnly(r) /\ skReq'[r] = rec /\ ~Changes(r)'
    BY <1>1, <2>2, <2>3, SkEnds
  <2>5. skLog' = Append(skLog, r) /\ skFirst' = skFirst /\ skRaced' = skRaced
    BY <1>7 DEF TookEffect
  <2>6. SkLogged' /\ (~skRaced => ~SkillExpected')
    BY <1>1, <1>2, <2>3, <2>4, <2>5, SkEffect
  <2>7. SkTypes'
    BY <1>4, <2>4, <2>5, SkTypesAfter DEF SkInv, SkTypes
  <2>8. ASSUME SkSole(r) PROVE SkGood'
    <3>1. Present' = {}
      BY <1>1, <1>5, <2>8 DEF Present
    <3>2. ~SkillExpected'
      BY <2>6, <2>8 DEF SkSole
    <3> QED BY <3>1, <3>2 DEF SkGood
  <2> QED BY <1>3, <2>4, <2>5, <2>6, <2>7, <2>8, SkByChange
<1> QED BY <1>1, <1>6, <1>7

\* Changes that are refused at once
LEMMA SkRefused ==
  ASSUME SkInv, NEW r \in Requests,
         PutSkill(r, "huge") \/ (\E op \in {"patch", "delete"} : ChangeOfNothing(r, op))
  PROVE  SkInv'
<1>1. PICK status, op :
        /\ skReq[r].at = "new" /\ UNCHANGED <<skDir, skName, skText, skHistory>>
        /\ skReq' = [skReq EXCEPT ![r] = [Done(@, status) EXCEPT !.op = op]]
  <2>1. CASE PutSkill(r, "huge")
    BY <2>1 DEF PutSkill
  <2>2. CASE \E op \in {"patch", "delete"} : ChangeOfNothing(r, op)
    BY <2>2 DEF ChangeOfNothing
  <2> QED BY <2>1, <2>2
<1>2. PICK rec : rec = [Done(skReq[r], status) EXCEPT !.op = op]
  OBVIOUS
<1>3. skReq' = [skReq EXCEPT ![r] = rec]
  BY <1>1, <1>2 DEF SkInv, SkTypes
<1>4. rec.at = "done"
  BY <1>1, <1>2, SkDone
<1> QED BY <1>1, <1>3, <1>4, SkAtOnce

\* Every step
LEMMA SkStep == SkInv /\ [SkillsNext]_skVars => SkInv'
<1> SUFFICES ASSUME SkInv, [SkillsNext]_skVars PROVE SkInv'
  OBVIOUS
<1>1. CASE UNCHANGED skVars
  <2>1. /\ skDir' = skDir /\ skName' = skName /\ skText' = skText /\ skReq' = skReq
        /\ skFirst' = skFirst /\ skLog' = skLog /\ skRaced' = skRaced
    BY <1>1 DEF skVars
  <2>2. SkTypes'
    BY <2>1 DEF SkInv, SkTypes
  <2>3. /\ SkillExpected' = SkillExpected /\ NameExpected' = NameExpected
        /\ InLife("patch")' = InLife("patch") /\ (SkillExpected => TextExpected' = TextExpected)
    BY <2>1, SkLogKept DEF SkInv, SkLogged
  <2>4. SkLogged'
    BY <2>1, <2>3 DEF SkInv, SkLogged
  <2>5. Present' = Present
    BY <2>1 DEF Present
  <2>6. SkGood => SkGood'
    BY <2>1, <2>3, <2>5 DEF SkGood
  <2>7. SkillKept'
    BY <2>1, <2>6, SkGoodMeans DEF SkInv
  <2>8. ASSUME NEW q \in Requests PROVE SkAlone(q)'
    <3>1. \A p \in Requests : Changes(p)' <=> Changes(p)
      BY <2>1 DEF Changes, Open
    <3>2. SkSole(q) => SkSole(q)'
      BY <2>1, <3>1 DEF SkSole
    <3>3. SkWhere(q) => SkWhere(q)'
      BY <2>1, <2>3, <2>5, SkWhereSame
    <3> QED BY <2>1, <3>1, <3>2, <3>3 DEF SkInv, SkAlone
  <2> QED BY <2>2, <2>4, <2>7, <2>8 DEF SkInv
<1>2. CASE SkillsNext
  <2>1. PICK r \in Requests :
          \/ \E op \in {"get", "list"} : StartReading(r, op)
          \/ \E text \in {"new", "huge"} : PutSkill(r, text)
          \/ \E e \in BOOLEAN : PatchSkillState(r, e)
          \/ DeleteSkill(r)
          \/ \E op \in {"patch", "delete"} : ChangeOfNothing(r, op)
          \/ LookOn(r) \/ LookOff(r) \/ ReadDetail(r)
          \/ OpenSkillFile(r) \/ WriteSkillFile(r)
          \/ CheckTarget(r) \/ UnlinkTarget(r) \/ RenameSkill(r)
          \/ ScanDir(r) \/ (\E n \in Names : RemoveEntry(r, n)) \/ RemoveDir(r)
    BY <1>2 DEF SkillsNext
  <2>2. CASE \E op \in {"get", "list"} : StartReading(r, op)
    BY <2>2, ReadingStarts
  <2>3. CASE \/ PutSkill(r, "new")
             \/ \E e \in BOOLEAN : PatchSkillState(r, e)
             \/ DeleteSkill(r)
    BY <2>3, SkChangeStarts
  <2>4. CASE \/ PutSkill(r, "huge")
             \/ \E op \in {"patch", "delete"} : ChangeOfNothing(r, op)
    BY <2>4, SkRefused
  <2>5. CASE LookOn(r) \/ LookOff(r)
    BY <2>5, LookStep
  <2>6. CASE ReadDetail(r)
    BY <2>6, DetailIsRead
  <2>7. CASE OpenSkillFile(r)
    BY <2>7, SkillFileOpens
  <2>8. CASE WriteSkillFile(r)
    BY <2>8, SkillFileIsWritten
  <2>9. CASE CheckTarget(r)
    BY <2>9, TargetIsChecked
  <2>10. CASE UnlinkTarget(r)
    BY <2>10, TargetIsUnlinked
  <2>11. CASE RenameSkill(r)
    BY <2>11, SkillIsRenamed
  <2>12. CASE ScanDir(r)
    BY <2>12, DirIsScanned
  <2>13. CASE \E n \in Names : RemoveEntry(r, n)
    BY <2>13, EntryIsRemoved
  <2>14. CASE RemoveDir(r)
    BY <2>14, DirIsRemoved
  <2> QED
    BY <2>1, <2>2, <2>3, <2>4, <2>5, <2>6, <2>7, <2>8, <2>9, <2>10, <2>11, <2>12, <2>13, <2>14
<1> QED BY <1>1, <1>2

-----------------------------------------------------------------------------
(* All stores. *)

StoresInv == SettingsInv /\ McpInv /\ MemInv /\ SkInv /\ HistInv

\* A step is one of a single store.
LEMMA StoresStep ==
  ASSUME StoresInv, [FileStoresNext]_storeVars
  PROVE  StoresInv'
<1>1. /\ [SettingsNext]_setVars /\ [McpNext]_mcpVars /\ [MemoryNext]_memVars /\ [SkillsNext]_skVars
      /\ [HistoryNext]_histVars
  BY DEF FileStoresNext, storeVars
<1> QED BY <1>1, SettingsStep, McpStep, MemStep, SkStep, HistStep DEF StoresInv

\* The invariant of the stores
LEMMA StoresInvariant == FileStoresSpec => []StoresInv
<1>1. FileStoresInit => StoresInv
  BY SettingsStart, McpStart, MemStart, SkStart, HistStart DEF FileStoresInit, StoresInv
<1>2. StoresInv /\ [FileStoresNext]_storeVars => StoresInv'
  BY StoresStep
<1> QED BY <1>1, <1>2, PTL DEF FileStoresSpec

\* No store loses an update that did not overlap another one, keeps a trace of one that
\* was refused or failed, or leaves a temporary file behind (services/settings.py,
\* mcp_servers.py, skills.py, memory.py).
THEOREM NoUpdateIsLost == FileStoresSpec => []UpdatesKept
<1>1. StoresInv => UpdatesKept
  BY MemPromises DEF StoresInv, SettingsInv, McpInv, SkInv, UpdatesKept
<1> QED BY <1>1, StoresInvariant, PTL

\* The cache of a memory file agrees with it unless requests overlapped (services/memory.py), and an
\* answer about terminal histories that leaves nothing out, or is about the latest ones, is
\* not older than what was in memory when its request looked (terminal_sessions.py, terminals.py).
\* Nothing is said of pages, searches, lists with a filter and details.
THEOREM NoAnswerIsStale == FileStoresSpec => []AnswersFresh
<1>1. StoresInv => AnswersFresh
  BY MemPromises DEF StoresInv, HistInv, AnswersFresh
<1> QED BY <1>1, StoresInvariant, PTL

\* A session that ended, was not used again and had its archive written before the request
\* is shown as ended, and no full answer misses it, whatever older snapshot a thread writes
\* over latest.json (_list_merged_history_snapshots_by_group, _dedupe_timeline_snapshots).
THEOREM EndedIsShownEnded == FileStoresSpec => []EndedStaysEnded
<1>1. StoresInv => EndedStaysEnded
  BY DEF StoresInv, HistInv
<1> QED BY <1>1, StoresInvariant, PTL
=============================================================================
