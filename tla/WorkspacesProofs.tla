-------------------------- MODULE WorkspacesProofs --------------------------
(***************************************************************************)
(* Proofs about workspaces, bindings and the dispatch of messages, for any *)
(* users, workspaces, endpoints, calls and messages.                       *)
(* A workspace never changes hands, though a message may move it to the    *)
(* folder named like its jid; an endpoint is bound where the last change   *)
(* of its binding says, and a message runs for the workspace its endpoint  *)
(* was bound to.                                                           *)
(* The invariant says what a call that waits between two of its            *)
(* transactions may still rely on: what it has read about the creator of a *)
(* workspace can no longer become false, whereas what it has read about a  *)
(* binding was true at a time since its request.                           *)
(***************************************************************************)
EXTENDS MessageDispatch, SequenceTheorems, TLAPS

wmVars == <<wsVars, mdVars>>

SharedJids == {Web(f) : f \in Shared}
WebJids == {Web(n) : n \in Names}
JidOf(folder) == Web(folder[2])
ImJids == {Im(e) : e \in Endpoints}
Opens == {"rename", "slots", "new_slot", "bindings", "bind", "unbind", "members", "add", "remove"}
Operations == Opens \cup {"list", "create", "send", "im"}

\* The fields of a row, of a registration and of a call, whatever they hold
IsRow(row) == row = [f \in {"name", "folder", "by", "home", "target"} |-> row[f]]
CallFields ==
  {"op", "at", "answer", "by", "jid", "folder", "arg", "then", "reg", "row", "seen", "found", "from"}
IsReg(reg) == reg = [f \in {"jid", "name", "folder", "by", "home"} |-> reg[f]]
IsCall(rec) == rec = [f \in CallFields |-> rec[f]] /\ IsReg(rec.reg)
BindingType == [endpoint : Endpoints, to : WebJids \cup {Unbound}, for : WebJids]

\* A group is in a folder of its own, a workspace has a creator; an endpoint is bound to a workspace that is there.
TablesOK ==
  /\ groups = [j \in DOMAIN groups |-> groups[j]]
  /\ \A j \in DOMAIN groups :
       /\ IsRow(groups[j]) /\ j \in Ids /\ groups[j].folder \in FoldersOf(j)
       /\ j \notin ImJids => groups[j].by \in Users
       /\ groups[j].target = Unbound \/ (groups[j].target \in DOMAIN groups /\ IsWeb(groups[j].target))
  /\ members = [k \in DOMAIN members |-> members[k]]
  /\ \A k \in DOMAIN members : k = <<k[1], k[2]>> /\ JidOf(k[1]) \in DOMAIN groups
  /\ bindLog \in Seq(BindingType)
  /\ disputed \in BOOLEAN /\ racedBind \in BOOLEAN

\* The operations that come to a place of their course
OpsAt(at) ==
  CASE at \in {"get", "update", "insert", "refresh"} -> {"list", "create", "send", "im"}
    [] at = "list" -> {"list"}
    [] at = "vacant" -> {"create"}
    [] at = "find" -> Opens
    [] at = "access" -> Opens \cup {"send"}
    [] at = "rename" -> {"rename"}
    [] at \in {"new_slot", "new_slot_insert"} -> {"new_slot"}
    [] at = "read" -> {"slots", "bindings", "members"}
    [] at \in {"endpoint", "binding"} -> {"bind", "unbind"}
    [] at = "role_change" -> {"add"}
    [] at \in {"member_check", "merge"} -> {"add", "create"}
    [] at \in {"own_role", "member_get", "delete"} -> {"remove"}
    [] at \in {"send_to", "send_slot"} -> {"send"}
    [] at \in {"im_get", "resolve"} -> {"im"}
    [] at \in {"store_in", "run", "route", "store_out"} -> {"send", "im"}
    [] at \in {"slot", "slot_insert", "done"} -> Operations
    [] OTHER -> {}

\* Where an operation goes on once the main slot is there
ThensOf(op) ==
  CASE op = "list" -> {"list"}
    [] op = "create" -> {"member_check"}
    [] op = "im" -> {"resolve"}
    [] op = "send" -> {"send_to", "access", "store_in"}
    [] OTHER -> {"access"}

Registering(rec) == rec.at \in {"get", "update", "insert", "refresh"}
AtSlot(rec) == rec.at \in {"slot", "slot_insert"}

\* A call is at a place of its course, and is answered at its end.
CourseOK(rec) ==
  /\ rec.op \in OpsAt(rec.at)
  /\ rec.at # "done" => rec.answer = "none"
  /\ (Registering(rec) \/ AtSlot(rec)) => rec.then \in ThensOf(rec.op)
  /\ rec.op # "im" => rec.by \in Users
  /\ rec.from \in 0 .. Len(bindLog)

\* The row a call writes is its own, or that of a group which is there; when it is read
\* again it still is.
RegOK(rec) ==
  /\ rec.op # "im" => rec.reg.by = rec.by
  /\ rec.op = "create" => rec.reg.jid = rec.jid
  /\ rec.op = "im" => rec.reg.jid = rec.jid /\ rec.jid \in ImJids
  /\ rec.reg.jid \in Ids /\ rec.reg.folder \in FoldersOf(rec.reg.jid)
  /\ rec.at \in {"update", "refresh"} => rec.reg.jid \in DOMAIN groups
  /\ (rec.at = "update" /\ rec.reg.jid \notin ImJids) => rec.row.by \in Users

\* A call on a workspace is about one that is there, from the find on, and that was in the
\* folder then.
OpenOK(rec) ==
  /\ rec.at \notin {"find", "done"} =>
       rec.jid \in DOMAIN groups /\ rec.jid \in WebJids /\ rec.jid = JidOf(rec.folder)
  /\ AtSlot(rec) => rec.row.folder = rec.folder
  /\ rec.op \in {"bind", "unbind"} => rec.arg = <<rec.arg[1]>> /\ rec.arg[1] \in Endpoints
  /\ rec.at = "binding" => Im(rec.arg[1]) \in DOMAIN groups
  /\ (rec.op = "slots" /\ rec.at \in {"access", "read"}) => <<rec.folder, "main">> \in slots
  /\ (rec.op = "slots" /\ rec.answer = "200") => <<rec.folder, "main">> \in rec.found

CreateOK(rec) ==
  /\ rec.jid = JidOf(rec.folder)
  /\ (rec.at # "done" \/ rec.answer = "200") => rec.folder \in {Plain(f) : f \in Shared}
  /\ rec.arg = <<rec.by, "owner">>
  /\ (AtSlot(rec) \/ rec.at \in {"member_check", "merge"}) => rec.jid \in DOMAIN groups

SendOK(rec) ==
  /\ rec.jid \in Ids /\ rec.folder \in FoldersOf(rec.jid)
  /\ Registering(rec) => rec.then # "access"
  /\ (rec.at \in {"access", "send_slot"} \/ (AtSlot(rec) /\ rec.then = "access")) =>
       rec.jid \in DOMAIN groups

ImOK(rec) ==
  /\ rec.arg[1] \in Endpoints
  /\ rec.at \notin {"store_in", "run", "route", "store_out", "done"} => rec.jid = Im(rec.arg[1])
  /\ (AtSlot(rec) \/ rec.at = "resolve") => rec.jid \in DOMAIN groups

CallOK(rec) ==
  /\ IsCall(rec) /\ CourseOK(rec)
  /\ Registering(rec) => RegOK(rec)
  /\ rec.op \in Opens => OpenOK(rec)
  /\ rec.op = "create" => CreateOK(rec)
  /\ rec.op = "send" => SendOK(rec)
  /\ rec.op = "im" => ImOK(rec)

CallsOK ==
  /\ calls = [r \in Calls |-> calls[r]]
  /\ \A r \in Calls : calls[r] = NoCall \/ (calls[r].at # "new" /\ CallOK(calls[r]))

Courses == TablesOK /\ CallsOK

-----------------------------------------------------------------------------
\* Unless the creation of a workspace was disputed: it has one creator, who stays its only
\* owner, and has no members before he is one; a call on its members that has looked at an
\* owner still finds him one. A workspace is in creation from its row to its owner.
Creating(rec) ==
  rec.op = "create" /\ rec.at \in {"refresh", "slot", "slot_insert", "member_check", "merge"}
Owned(g, u) == <<g, u>> \in DOMAIN members /\ members[<<g, u>>] = "owner"

\* A call that adds a member has found the workspace, one that removes one has found him.
Attends(rec) ==
  \/ rec.op = "add" /\ rec.at \notin {"find", "done"}
  \/ rec.op = "remove" /\ rec.at = "delete"

\* A workspace that is being created has no members, and no other call is at them.
Alone(r) ==
  /\ Creating(calls[r]) =>
       /\ \A q \in Calls : (Creating(calls[q]) /\ calls[q].folder = calls[r].folder) => q = r
       /\ \A k \in DOMAIN members : k[1] # calls[r].folder
  /\ Attends(calls[r]) => \A q \in Calls : Creating(calls[q]) => calls[q].folder # calls[r].folder

CreationOK(rec) ==
  /\ rec.op = "create" => rec.at # "update"
  /\ Creating(rec) =>
       /\ rec.jid \in DOMAIN groups /\ groups[rec.jid].by = rec.by
       /\ rec.at = "merge" => rec.seen = NoRole

CreatedOK(rec) ==
  (rec.op = "create" /\ rec.answer = "200") =>
    /\ rec.jid \in DOMAIN groups /\ groups[rec.jid].by = rec.by
    /\ Owned(rec.folder, rec.by)

AddOK(rec) ==
  (rec.op = "add" /\ rec.at \in {"member_check", "merge"}) =>
    ((RoleAsked(rec) = "owner") <=> Owned(rec.folder, Subject(rec)))

RemoveOK(rec) == (rec.op = "remove" /\ rec.at = "delete") => ~Owned(rec.folder, Subject(rec))

OwnerOK(rec) == CreationOK(rec) /\ CreatedOK(rec) /\ AddOK(rec) /\ RemoveOK(rec)

OwnersOK == \A k \in DOMAIN members : members[k] = "owner" => groups[JidOf(k[1])].by = k[2]

OwnersSafe == OwnersOK /\ \A r \in Calls : Alone(r) /\ OwnerOK(calls[r])
Ownership == ~disputed => OwnersSafe

-----------------------------------------------------------------------------
\* The last change of a binding is what an endpoint is bound to; unless two overlapped, a
\* change under way has seen that.
TargetOf(e) == IF Im(e) \in DOMAIN groups THEN groups[Im(e)].target ELSE Unbound
ChangeOK(r) ==
  calls[r].at = "binding" =>
    /\ \A q \in Calls : (calls[q].at = "binding" /\ calls[q].arg = calls[r].arg) => q = r
    /\ TargetOf(calls[r].arg[1]) = IF calls[r].op = "bind" THEN Unbound ELSE calls[r].jid

\* One of the changes of an endpoint is the last.
ChangesOf(e, n) == {i \in 1 .. n : bindLog[i].endpoint = e}
LatestOK ==
  \A e \in Endpoints, n \in 0 .. Len(bindLog) :
    ChangesOf(e, n) # {} => \E x \in ChangesOf(e, n) : \A y \in ChangesOf(e, n) : x >= y

Bindings ==
  /\ LatestOK
  /\ \A e \in Endpoints : TargetOf(e) = BoundAt(e, Len(bindLog))
  /\ BindingNotStolen
  /\ ~racedBind => \A r \in Calls : ChangeOK(r)

-----------------------------------------------------------------------------
\* What is stored and sent of a call at its place
ReplyOK(r) ==
  /\ calls[r].at \in {"run", "route", "store_out"} => <<"in", r>> \in stored
  /\ outcome[r] # "none" => calls[r].at \in {"route", "store_out", "done"} /\ <<"in", r>> \in stored
  /\ calls[r].at \in {"route", "store_out"} => outcome[r] = "completed"
  /\ (calls[r].at = "store_out" /\ calls[r].op = "im") => r \in sent
  /\ (r \in sent \/ <<"out", r>> \in stored) => outcome[r] = "completed"
  /\ (calls[r].op = "im" /\ calls[r].answer = "200" /\ outcome[r] = "completed") =>
       r \in sent /\ <<"out", r>> \in stored

Replies ==
  /\ outcome = [r \in Calls |-> outcome[r]]
  /\ sent \subseteq Calls
  /\ \A r \in Calls : ReplyOK(r)

DispatchInv == Courses /\ Ownership /\ Bindings /\ RoutedToBinding /\ Replies

-----------------------------------------------------------------------------
\* What the kinds of strings and the ids of users tell apart
LEMMA JidFacts ==
  /\ \A f : Web(f) \notin ImJids /\ IsWeb(Web(f)) /\ JidOf(Plain(f)) = Web(f) /\ JidOf(Web(f)) = Web(f)
  /\ \A e : ~IsWeb(Im(e)) /\ Im(e) \notin WebJids
  /\ \A e1, e2 : Im(e1) = Im(e2) => e1 = e2
  /\ \A f, g : Plain(f) = Plain(g) => f = g
  /\ Nobody \notin Users
<1>1. \A f, g : Web(f) = Web(g) => f = g
  BY DEF Web
<1>2. \A f, e : Web(f) # Im(e)
  BY DEF Web, Im
<1>3. Nobody \notin Users
  BY WorkspacesAssumption DEF Nobody, Users
<1>4. \A f : IsWeb(Web(f)) /\ JidOf(Plain(f)) = Web(f) /\ JidOf(Web(f)) = Web(f)
  BY DEF Web, IsWeb, JidOf, Plain
<1>5. \A e : ~IsWeb(Im(e))
  BY DEF Im, IsWeb
<1>6. \A e1, e2 : Im(e1) = Im(e2) => e1 = e2
  BY DEF Im
<1>7. \A f, g : Plain(f) = Plain(g) => f = g
  BY DEF Plain
<1>8. \A f : Web(f) \notin ImJids
  BY <1>2 DEF ImJids
<1>9. \A e : Im(e) \notin WebJids
  <2> TAKE e
  <2>1. \A f : Im(e) # Web(f)
    BY <1>2
  <2> QED
    BY <2>1 DEF WebJids
<1> QED
  BY <1>3, <1>4, <1>5, <1>6, <1>7, <1>8, <1>9

\* The ids of requests
LEMMA IdFacts ==
  /\ \A n \in Names : Web(n) \in Ids /\ Plain(n) \in Ids
  /\ \A e \in Endpoints : Im(e) \in Ids
  /\ \A j \in Ids : IsWeb(j) => j \in WebJids
  /\ \A f \in Shared : f \in Names
  /\ \A u \in Users : HomeName(u) \in Names
<1>1. \A n \in Names : Web(n) \in Ids /\ Plain(n) \in Ids
  BY DEF Web, Plain, Ids
<1>2. \A e \in Endpoints : Im(e) \in Ids
  BY DEF Im, Ids
<1>3. ASSUME NEW j \in Ids, IsWeb(j)
      PROVE  j \in WebJids
  <2>1. j \notin {"im", "chat"} \X Endpoints
    BY <1>3 DEF IsWeb
  <2>2. j \in {"plain", "web"} \X Names
    BY <2>1 DEF Ids
  <2>3. j = Web(j[2]) /\ j[2] \in Names
    BY <1>3, <2>2 DEF IsWeb, Web
  <2> QED
    BY <2>3 DEF WebJids
<1>4. \A f \in Shared : f \in Names
  BY DEF Names, Folders
<1>5. \A u \in Users : HomeName(u) \in Names
  BY DEF HomeName, Names, Folders
<1> QED
  BY <1>1, <1>2, <1>3, <1>4, <1>5

\* The workspaces and their folders
LEMMA FolderFacts ==
  /\ SharedJids \subseteq WebJids
  /\ \A j \in WebJids : j \notin ImJids /\ IsWeb(j) /\ j \in Ids
  /\ \A j \in WebJids : \A g \in FoldersOf(j) : j = JidOf(g)
  /\ \A f : Plain(f) \in FoldersOf(Web(f))
  /\ \A e : Chat(e) \in FoldersOf(Im(e))
  /\ \A j : j \in FoldersOf(j)
  /\ Unbound \notin WebJids
<1>1. \A f : Web(f) # Unbound
  BY DEF Web, Unbound
<1>2. \A j \in WebJids : j \notin ImJids /\ IsWeb(j) /\ j # Unbound /\ j \in Ids
  BY JidFacts, IdFacts, <1>1 DEF WebJids
<1>3. ASSUME NEW j \in WebJids, NEW g \in FoldersOf(j)
      PROVE  j = JidOf(g)
  <2>1. PICK n \in Names : j = Web(n)
    BY DEF WebJids
  <2>2. j[2] = n
    BY <2>1 DEF Web
  <2>3. g \in {j, Plain(n)}
    BY <1>2, <2>2 DEF FoldersOf
  <2> QED
    BY <2>1, <2>3, JidFacts
<1>4. \A f : Plain(f) \in FoldersOf(Web(f))
  <2> TAKE f
  <2>1. IsWeb(Web(f)) /\ Web(f)[2] = f
    BY JidFacts DEF Web
  <2> QED
    BY <2>1 DEF FoldersOf
<1>5. \A e : Chat(e) \in FoldersOf(Im(e))
  <2> TAKE e
  <2>1. ~IsWeb(Im(e)) /\ Im(e)[1] = "im" /\ Im(e)[2] = e
    BY JidFacts DEF Im
  <2> QED
    BY <2>1 DEF FoldersOf
<1>6. \A j : j \in FoldersOf(j)
  BY DEF FoldersOf
<1>7. SharedJids \subseteq WebJids
  BY IdFacts DEF SharedJids, WebJids
<1> QED
  BY <1>2, <1>3, <1>4, <1>5, <1>6, <1>7

Moved(rec, at) == [rec EXCEPT !.at = at]

\* The fields of a call that is moved to another place
LEMMA MovedFields ==
  ASSUME NEW rec, IsCall(rec), NEW at, NEW new, new = Moved(rec, at)
  PROVE  /\ IsCall(new) /\ new.at = at /\ new.op = rec.op /\ new.answer = rec.answer
         /\ new.by = rec.by /\ new.jid = rec.jid /\ new.folder = rec.folder /\ new.arg = rec.arg /\ new.then = rec.then
         /\ new.reg = rec.reg /\ new.row = rec.row /\ new.seen = rec.seen
         /\ new.found = rec.found /\ new.from = rec.from
<1>1. /\ new.at = at /\ new.op = rec.op /\ new.answer = rec.answer
      /\ new.by = rec.by /\ new.jid = rec.jid /\ new.folder = rec.folder /\ new.arg = rec.arg /\ new.then = rec.then
      /\ new.reg = rec.reg /\ new.row = rec.row /\ new.seen = rec.seen
      /\ new.found = rec.found /\ new.from = rec.from
  BY DEF IsCall, CallFields, Moved
<1>2. new = [f \in CallFields |-> new[f]]
  BY DEF IsCall, CallFields, Moved
<1> QED
  BY <1>1, <1>2 DEF IsCall

\* The fields of a call that ends
LEMMA EndedFields ==
  ASSUME NEW rec, IsCall(rec), NEW status, NEW new, new = Ended(rec, status)
  PROVE  /\ IsCall(new) /\ new.at = "done" /\ new.op = rec.op /\ new.answer = status
         /\ new.by = rec.by /\ new.jid = rec.jid /\ new.folder = rec.folder /\ new.arg = rec.arg /\ new.then = rec.then
         /\ new.reg = rec.reg /\ new.row = rec.row /\ new.seen = rec.seen
         /\ new.found = rec.found /\ new.from = rec.from
<1>1. /\ new.at = "done" /\ new.op = rec.op /\ new.answer = status
      /\ new.by = rec.by /\ new.jid = rec.jid /\ new.folder = rec.folder /\ new.arg = rec.arg /\ new.then = rec.then
      /\ new.reg = rec.reg /\ new.row = rec.row /\ new.seen = rec.seen
      /\ new.found = rec.found /\ new.from = rec.from
  BY DEF IsCall, CallFields, Ended
<1>2. new = [f \in CallFields |-> new[f]]
  BY DEF IsCall, CallFields, Ended
<1> QED
  BY <1>1, <1>2 DEF IsCall

\* The fields of a call that registers a group next
LEMMA EnsuresFields ==
  ASSUME NEW rec, IsCall(rec), NEW jid, NEW name, NEW folder, NEW by, NEW home, NEW then,
         NEW new, new = Ensures(rec, jid, name, folder, by, home, then)
  PROVE  /\ IsCall(new) /\ new.at = "get" /\ new.op = rec.op /\ new.answer = rec.answer
         /\ new.by = rec.by /\ new.jid = rec.jid /\ new.folder = rec.folder /\ new.arg = rec.arg /\ new.then = then
         /\ new.reg.jid = jid /\ new.reg.by = by /\ new.reg.home = home /\ new.reg.name = name
         /\ new.reg.folder = folder
         /\ new.row = rec.row /\ new.seen = rec.seen
         /\ new.found = rec.found /\ new.from = rec.from
<1>1. /\ new.at = "get" /\ new.op = rec.op /\ new.answer = rec.answer
      /\ new.by = rec.by /\ new.jid = rec.jid /\ new.folder = rec.folder /\ new.arg = rec.arg /\ new.then = then
      /\ new.reg = [jid |-> jid, name |-> name, folder |-> folder, by |-> by, home |-> home]
      /\ new.row = rec.row /\ new.seen = rec.seen
      /\ new.found = rec.found /\ new.from = rec.from
  BY DEF IsCall, CallFields, Ensures
<1>2. new = [f \in CallFields |-> new[f]]
  BY DEF IsCall, CallFields, Ensures
<1>3. IsReg(new.reg)
  BY <1>1 DEF IsReg
<1> QED
  BY <1>1, <1>2, <1>3 DEF IsCall

\* The fields of a new call
LEMMA CallIsCall ==
  ASSUME NEW op, NEW u, NEW jid, NEW arg, NEW at, NEW new, new = Call(op, u, jid, arg, at)
  PROVE  /\ IsCall(new) /\ new.at = at /\ new.op = op /\ new.answer = "none"
         /\ new.by = u /\ new.jid = jid /\ new.folder = jid /\ new.arg = arg /\ new.then = "none"
         /\ new.reg.jid = jid /\ new.from = Len(bindLog)
<1>1. /\ new.at = at /\ new.op = op /\ new.answer = "none"
      /\ new.by = u /\ new.jid = jid /\ new.folder = jid /\ new.arg = arg /\ new.then = "none"
      /\ new.reg = [jid |-> jid, name |-> Given, folder |-> jid, by |-> Nobody, home |-> FALSE]
      /\ new.from = Len(bindLog)
  BY DEF Call
<1>2. new = [f \in CallFields |-> new[f]]
  BY DEF Call, CallFields
<1>3. IsReg(new.reg)
  BY <1>1 DEF IsReg
<1> QED
  BY <1>1, <1>2, <1>3 DEF IsCall

-----------------------------------------------------------------------------
Others(r) == \A q \in Calls \ {r} : calls'[q] = calls[q]
Grows == DOMAIN groups \subseteq DOMAIN groups' /\ slots \subseteq slots' /\ Len(bindLog) <= Len(bindLog')

\* What a call has found out stays true while the tables grow.
LEMMA CallKept ==
  ASSUME NEW rec, CallOK(rec), Grows, bindLog \in Seq(BindingType), bindLog' \in Seq(BindingType)
  PROVE  CallOK(rec)'
<1>1. CourseOK(rec)'
  <2>1. 0 .. Len(bindLog) \subseteq 0 .. Len(bindLog')
    <3>1. Len(bindLog) \in Nat /\ Len(bindLog') \in Nat
      OBVIOUS
    <3> QED
      BY <3>1 DEF Grows
  <2> QED
    BY <2>1 DEF CallOK, CourseOK
<1>2. Registering(rec) => RegOK(rec)'
  BY DEF CallOK, RegOK, Grows
<1>3. rec.op \in Opens => OpenOK(rec)'
  BY DEF CallOK, OpenOK, Grows
<1>4. rec.op = "send" => SendOK(rec)'
  BY DEF CallOK, SendOK, Grows
<1>5. rec.op = "im" => ImOK(rec)'
  BY DEF CallOK, ImOK, Grows
<1>6. rec.op = "create" => CreateOK(rec)'
  BY DEF CallOK, CreateOK, Grows
<1> QED
  BY <1>1, <1>2, <1>3, <1>4, <1>5, <1>6 DEF CallOK

\* A call that moves leaves the others alone.
LEMMA CallsKept ==
  ASSUME CallsOK, Grows, bindLog \in Seq(BindingType), bindLog' \in Seq(BindingType),
         NEW r \in Calls, NEW new, calls' = [calls EXCEPT ![r] = new], new.at # "new", CallOK(new)'
  PROVE  CallsOK' /\ Others(r) /\ calls'[r] = new
<1>1. calls' = [q \in Calls |-> calls'[q]] /\ calls'[r] = new /\ Others(r)
  BY DEF CallsOK, Others
<1>2. ASSUME NEW q \in Calls
      PROVE (calls[q] = NoCall \/ (calls[q].at # "new" /\ CallOK(calls[q])))'
  <2>1. CASE q = r
    BY <1>1, <2>1
  <2>2. CASE q # r
    <3> PICK rec : rec = calls[q]
      OBVIOUS
    <3>1. calls'[q] = rec
      BY <1>1, <2>2 DEF Others
    <3>2. CASE rec = NoCall
      BY <3>1, <3>2
    <3>3. CASE rec # NoCall
      <4>1. CallOK(rec) /\ rec.at # "new"
        BY <3>3 DEF CallsOK
      <4>2. CallOK(rec)'
        BY <4>1, CallKept
      <4> QED
        BY <3>1, <4>1, <4>2
    <3> QED
      BY <3>2, <3>3
  <2> QED
    BY <2>1, <2>2
<1> QED
  BY <1>1, <1>2 DEF CallsOK

-----------------------------------------------------------------------------
\* A call keeps what it asks for, and its workspace from the find on; only the message of an
\* endpoint comes to another folder.
SameCall(rec, new) ==
  /\ new.op = rec.op /\ new.by = rec.by /\ new.arg = rec.arg /\ new.from = rec.from
  /\ rec.op # "im" => new.folder = rec.folder
  /\ (rec.op \notin {"send", "im"} /\ rec.at # "find") => new.jid = rec.jid

Base(r) == /\ Courses' /\ Grows /\ Others(r) /\ calls'[r].at # "new"
           /\ calls[r].at # "new" => SameCall(calls[r], calls'[r])

\* A step that says nothing about the bindings
BindQuiet(r) ==
  /\ UNCHANGED <<bindLog, racedBind>>
  /\ \A e \in Endpoints : TargetOf(e)' = TargetOf(e)
  /\ calls'[r].at # "binding" /\ (calls'[r].op = "im" => calls'[r].at # "store_in")

\* A step that says nothing about who owns a workspace
Past(rec, new) ==
  /\ Creating(new) => Creating(rec) /\ new.at # "merge"
  /\ new.op = "create" => new.answer # "200" /\ new.at # "update"
  /\ (new.op = "add" /\ new.at \notin {"find", "done"}) =>
       /\ rec.op = "add" /\ rec.at \notin {"new", "find", "done"}
       /\ new.at \notin {"member_check", "merge"}
  /\ new.at # "delete"
RowsStay ==
  \A j \in WebJids : j \in DOMAIN groups => groups'[j].by = groups[j].by
OwnQuiet(r) ==
  /\ UNCHANGED <<members, disputed>> /\ RowsStay
  /\ Past(calls[r], calls'[r])

Quiet(r) == Base(r) /\ BindQuiet(r) /\ OwnQuiet(r)

\* A call that moves and changes no table
LEMMA Moves ==
  ASSUME Courses, NEW r \in Calls, NEW rec, rec = calls[r], NEW new,
         UNCHANGED <<wsTables, bindLog>>, disputed' \in BOOLEAN, racedBind' \in BOOLEAN,
         calls' = [calls EXCEPT ![r] = new], new.at # "new", CallOK(new),
         rec.at = "new" \/ SameCall(rec, new)
  PROVE  /\ Base(r) /\ calls'[r] = new /\ RowsStay
         /\ \A e \in Endpoints : TargetOf(e)' = TargetOf(e)
<1>1. groups' = groups /\ members' = members /\ slots' = slots /\ bindLog' = bindLog
  BY DEF wsTables
<1>2. Grows /\ bindLog \in Seq(BindingType)
  <2>1. bindLog \in Seq(BindingType)
    BY DEF Courses, TablesOK
  <2>2. Len(bindLog) \in Nat
    BY <2>1
  <2> QED
    BY <1>1, <2>1, <2>2 DEF Grows
<1>3. TablesOK'
  BY <1>1 DEF Courses, TablesOK
<1>4. CallOK(new)'
  BY <1>1, <1>2, CallKept
<1>5. CallsOK' /\ Others(r) /\ calls'[r] = new
  BY <1>1, <1>2, <1>4, CallsKept DEF Courses
<1>6. RowsStay /\ \A e \in Endpoints : TargetOf(e)' = TargetOf(e)
  BY <1>1 DEF RowsStay, TargetOf
<1> QED
  BY <1>2, <1>3, <1>5, <1>6 DEF Base, Courses

\* Such a call which is not near a binding and not near an owner
LEMMA QuietMoves ==
  ASSUME Courses, NEW r \in Calls, NEW rec, rec = calls[r], NEW new,
         UNCHANGED <<wsTables, wsHistory>>, calls' = [calls EXCEPT ![r] = new],
         new.at # "new", CallOK(new), rec.at = "new" \/ SameCall(rec, new),
         new.at # "binding", new.op = "im" => new.at # "store_in", Past(rec, new)
  PROVE  Quiet(r) /\ calls'[r] = new
<1>1. UNCHANGED <<bindLog, racedBind, disputed, members>>
  BY DEF wsHistory, wsTables
<1>2. disputed' \in BOOLEAN /\ racedBind' \in BOOLEAN
  BY <1>1 DEF Courses, TablesOK
<1>3. /\ Base(r) /\ calls'[r] = new /\ RowsStay
      /\ \A e \in Endpoints : TargetOf(e)' = TargetOf(e)
  BY <1>1, <1>2, Moves
<1> QED
  BY <1>1, <1>3 DEF Quiet, BindQuiet, OwnQuiet

\* A call under way at its place
LEMMA UnderWayOK ==
  ASSUME Courses, NEW r \in Calls, calls[r].at # "new"
  PROVE  CallOK(calls[r])
BY DEF Courses, CallsOK, NoCall

\* A call that ends is a call at the end of its course.
LEMMA EndedOK ==
  ASSUME NEW rec, CallOK(rec), rec.at # "done", NEW status,
         status = "200" => rec.op # "slots", NEW new, new = Ended(rec, status)
  PROVE  CallOK(new) /\ SameCall(rec, new) /\ new.at = "done" /\ new.op = rec.op /\ new.answer = status
<1>1. IsCall(rec)
  BY DEF CallOK
<1>2. /\ IsCall(new) /\ new.at = "done" /\ new.op = rec.op /\ new.answer = status
      /\ new.by = rec.by /\ new.jid = rec.jid /\ new.folder = rec.folder /\ new.arg = rec.arg /\ new.then = rec.then
      /\ new.reg = rec.reg /\ new.row = rec.row /\ new.seen = rec.seen
      /\ new.found = rec.found /\ new.from = rec.from
  BY <1>1, EndedFields
<1>3. rec.op \in Operations
  BY DEF CallOK, CourseOK, OpsAt, Operations, Opens
<1>4. CourseOK(new)
  BY <1>2, <1>3 DEF CallOK, CourseOK, OpsAt, Registering, AtSlot
<1>5. new.op \in Opens => OpenOK(new)
  BY <1>2 DEF CallOK, OpenOK, AtSlot, CourseOK
<1>6. new.op = "create" => CreateOK(new)
  BY <1>2 DEF CallOK, CreateOK, AtSlot
<1>7. new.op = "send" => SendOK(new)
  BY <1>2 DEF CallOK, SendOK, AtSlot, Registering
<1>8. new.op = "im" => ImOK(new)
  BY <1>2 DEF CallOK, ImOK, AtSlot
<1> QED
  BY <1>2, <1>4, <1>5, <1>6, <1>7, <1>8 DEF CallOK, SameCall, Registering

\* A call that ends says nothing more, unless it made an owner.
LEMMA Ends ==
  ASSUME Courses, NEW r \in Calls, calls[r].at \notin {"new", "done"}, NEW status,
         status = "200" => calls[r].op \notin {"slots", "create"},
         UNCHANGED <<wsTables, wsHistory>>, Answer(r, status)
  PROVE  Quiet(r) /\ calls'[r].at = "done"
<1> PICK rec : rec = calls[r]
  OBVIOUS
<1> PICK new : new = Ended(rec, status)
  OBVIOUS
<1>1. CallOK(rec)
  BY UnderWayOK
<1>2. CallOK(new) /\ SameCall(rec, new) /\ new.at = "done" /\ new.op = rec.op /\ new.answer = status
  BY <1>1, EndedOK
<1>3. calls' = [calls EXCEPT ![r] = new]
  BY DEF Answer, Set
<1>4. Past(rec, new)
  BY <1>2 DEF Past, Creating
<1> QED
  BY <1>2, <1>3, <1>4, QuietMoves

-----------------------------------------------------------------------------
Loaded(rec, at, row) == [rec EXCEPT !.at = at, !.row = row]

\* The fields of a call that has loaded or written a row
LEMMA LoadedFields ==
  ASSUME NEW rec, IsCall(rec), NEW at, NEW row, NEW new, new = Loaded(rec, at, row)
  PROVE  /\ IsCall(new) /\ new.at = at /\ new.op = rec.op /\ new.answer = rec.answer
         /\ new.by = rec.by /\ new.jid = rec.jid /\ new.folder = rec.folder /\ new.arg = rec.arg /\ new.then = rec.then
         /\ new.reg = rec.reg /\ new.row = row /\ new.seen = rec.seen
         /\ new.found = rec.found /\ new.from = rec.from
<1>1. /\ new.at = at /\ new.op = rec.op /\ new.answer = rec.answer
      /\ new.by = rec.by /\ new.jid = rec.jid /\ new.folder = rec.folder /\ new.arg = rec.arg /\ new.then = rec.then
      /\ new.reg = rec.reg /\ new.row = row /\ new.seen = rec.seen
      /\ new.found = rec.found /\ new.from = rec.from
  BY DEF IsCall, CallFields, Loaded
<1>2. new = [f \in CallFields |-> new[f]]
  BY DEF IsCall, CallFields, Loaded
<1> QED
  BY <1>1, <1>2 DEF IsCall

\* get_group of a registration; the creation of a workspace is looked at below.
LEMMA GetGroupStep ==
  ASSUME Courses, NEW r \in Calls, GetGroup(r)
  PROVE  Base(r) /\ BindQuiet(r) /\ (calls[r].op # "create" => OwnQuiet(r))
<1> PICK rec : rec = calls[r]
  OBVIOUS
<1>1. /\ rec.at = "get" /\ UNCHANGED <<wsTables, racedBind, bindLog>>
      /\ disputed' = (disputed \/ (rec.op = "create" /\ rec.reg.jid \in DOMAIN groups))
  BY DEF GetGroup
<1>2. CallOK(rec) /\ IsCall(rec) /\ RegOK(rec) /\ rec.op \in {"list", "create", "send", "im"}
  <2>1. CallOK(rec)
    BY <1>1, UnderWayOK
  <2> QED
    BY <1>1, <2>1 DEF CallOK, CourseOK, OpsAt, Registering
<1>3. ASSUME NEW new, calls' = [calls EXCEPT ![r] = new], CallOK(new), SameCall(rec, new),
             new.at \in {"insert", "update"}
      PROVE  Base(r) /\ BindQuiet(r) /\ (calls[r].op # "create" => OwnQuiet(r))
  <2>1. /\ UNCHANGED <<bindLog, racedBind, members>>
        /\ rec.op # "create" => UNCHANGED disputed
    <3>1. disputed \in BOOLEAN
      BY DEF Courses, TablesOK
    <3> QED
      BY <1>1, <3>1 DEF wsTables
  <2>2. disputed' \in BOOLEAN /\ racedBind' \in BOOLEAN
    <3>1. disputed \in BOOLEAN /\ racedBind \in BOOLEAN
      BY DEF Courses, TablesOK
    <3> QED
      BY <1>1, <3>1
  <2>3. /\ Base(r) /\ calls'[r] = new /\ RowsStay
        /\ \A e \in Endpoints : TargetOf(e)' = TargetOf(e)
    BY <1>1, <1>3, <2>1, <2>2, Moves
  <2>4. rec.op # "create" => Past(rec, new)
    BY <1>1, <1>2, <1>3 DEF Past, Creating, SameCall
  <2> QED
    BY <1>3, <2>1, <2>3, <2>4 DEF BindQuiet, OwnQuiet
<1>4. CASE rec.reg.jid \in DOMAIN groups
  <2> PICK row : row = groups[rec.reg.jid]
    OBVIOUS
  <2> PICK new : new = Loaded(rec, "update", row)
    OBVIOUS
  <2>1. calls' = [calls EXCEPT ![r] = new]
    BY <1>4 DEF GetGroup, Set, Loaded
  <2>2. /\ IsCall(new) /\ new.at = "update" /\ new.op = rec.op /\ new.answer = rec.answer
        /\ new.by = rec.by /\ new.jid = rec.jid /\ new.folder = rec.folder /\ new.arg = rec.arg /\ new.then = rec.then
        /\ new.reg = rec.reg /\ new.row = row /\ new.from = rec.from
    BY <1>2, LoadedFields
  <2>3. CourseOK(new)
    BY <1>1, <1>2, <2>2 DEF CallOK, CourseOK, OpsAt, Registering, AtSlot
  <2>4. RegOK(new)
    BY <1>2, <1>4, <2>2 DEF RegOK, Courses, TablesOK
  <2>5. CallOK(new)
    BY <1>1, <1>2, <2>2, <2>3, <2>4
    DEF CallOK, CreateOK, SendOK, ImOK, Opens, AtSlot, CourseOK, Registering
  <2> QED
    BY <1>3, <2>1, <2>2, <2>5 DEF SameCall
<1>5. CASE rec.reg.jid \notin DOMAIN groups
  <2> PICK new : new = Moved(rec, "insert")
    OBVIOUS
  <2>1. calls' = [calls EXCEPT ![r] = new]
    BY <1>5 DEF GetGroup, Set, Goto, Moved
  <2>2. /\ IsCall(new) /\ new.at = "insert" /\ new.op = rec.op /\ new.answer = rec.answer
        /\ new.by = rec.by /\ new.jid = rec.jid /\ new.folder = rec.folder /\ new.arg = rec.arg /\ new.then = rec.then
        /\ new.reg = rec.reg /\ new.from = rec.from
    BY <1>2, MovedFields
  <2>3. CourseOK(new)
    BY <1>1, <1>2, <2>2 DEF CallOK, CourseOK, OpsAt, Registering, AtSlot
  <2>4. RegOK(new)
    BY <1>2, <2>2 DEF RegOK
  <2>5. CallOK(new)
    BY <1>1, <1>2, <2>2, <2>3, <2>4
    DEF CallOK, CreateOK, SendOK, ImOK, Opens, AtSlot, CourseOK, Registering
  <2> QED
    BY <1>3, <2>1, <2>2, <2>5 DEF SameCall
<1> QED
  BY <1>4, <1>5

\* A call that has written a row reads it again.
LEMMA RereadOK ==
  ASSUME NEW rec, CallOK(rec), rec.at \in {"update", "insert"}, NEW new,
         new = Moved(rec, "refresh"), rec.reg.jid \in DOMAIN groups
  PROVE  /\ CallOK(new) /\ SameCall(rec, new) /\ new.at = "refresh" /\ new.op = rec.op
         /\ new.answer = "none"
<1>1. IsCall(rec) /\ RegOK(rec) /\ rec.op \in {"list", "create", "send", "im"} /\ rec.answer = "none"
  BY DEF CallOK, CourseOK, OpsAt, Registering
<1>2. /\ IsCall(new) /\ new.at = "refresh" /\ new.op = rec.op /\ new.answer = rec.answer
      /\ new.by = rec.by /\ new.jid = rec.jid /\ new.folder = rec.folder /\ new.arg = rec.arg /\ new.then = rec.then
      /\ new.reg = rec.reg /\ new.from = rec.from
  BY <1>1, MovedFields
<1>3. CourseOK(new)
  BY <1>1, <1>2 DEF CallOK, CourseOK, OpsAt, Registering, AtSlot
<1>4. RegOK(new)
  BY <1>1, <1>2 DEF RegOK
<1>5. new.op = "send" => SendOK(new)
  BY <1>1, <1>2 DEF CallOK, SendOK, AtSlot, Registering
<1>6. new.op = "im" => ImOK(new)
  BY <1>1, <1>2 DEF CallOK, ImOK, AtSlot, RegOK
<1>7. new.op = "create" => CreateOK(new)
  BY <1>1, <1>2 DEF CallOK, CreateOK, AtSlot, RegOK
<1> QED
  BY <1>1, <1>2, <1>3, <1>4, <1>5, <1>6, <1>7 DEF CallOK, Opens, SameCall

\* The UPDATE of a registered group leaves its creator and its binding alone.
LEMMA UpdateGroupStep ==
  ASSUME Courses, NEW r \in Calls, UpdateGroup(r)
  PROVE  Base(r) /\ BindQuiet(r) /\ (calls[r].op # "create" => OwnQuiet(r))
<1> PICK rec : rec = calls[r]
  OBVIOUS
<1> PICK jid : jid = rec.reg.jid
  OBVIOUS
<1> PICK now : now = groups[jid]
  OBVIOUS
<1> PICK row : row = Updated(now, rec.row, rec.reg)
  OBVIOUS
<1> PICK new : new = Moved(rec, "refresh")
  OBVIOUS
<1>1. /\ rec.at = "update" /\ UNCHANGED <<members, slots, wsHistory>>
      /\ groups' = [groups EXCEPT ![jid] = row]
      /\ calls' = [calls EXCEPT ![r] = new]
  BY DEF UpdateGroup, Set, Goto, Moved
<1>2. UNCHANGED <<bindLog, racedBind, disputed>>
  BY <1>1 DEF wsHistory
<1>3. CallOK(rec) /\ RegOK(rec) /\ jid \in DOMAIN groups
  <2>1. CallOK(rec)
    BY <1>1, UnderWayOK
  <2> QED
    BY <1>1, <2>1 DEF CallOK, Registering, RegOK
<1>4. IsRow(now) /\ IsRow(row) /\ row.target = now.target /\ row.folder \in {now.folder, rec.reg.folder}
  <2>1. IsRow(now)
    BY <1>3 DEF Courses, TablesOK
  <2> QED
    BY <2>1 DEF IsRow, Updated
<1>5. jid \notin ImJids => row.by = now.by
  <2>1. jid \notin ImJids => rec.row.by # Nobody
    BY <1>1, <1>3, JidFacts DEF RegOK
  <2> QED
    BY <2>1, <1>4 DEF IsRow, Updated
<1>6. /\ DOMAIN groups' = DOMAIN groups /\ groups' = [j \in DOMAIN groups' |-> groups'[j]]
      /\ groups'[jid] = row /\ \A j \in DOMAIN groups : j # jid => groups'[j] = groups[j]
  BY <1>1, <1>3 DEF Courses, TablesOK
<1>7. ASSUME NEW j \in DOMAIN groups
      PROVE  IsRow(groups'[j]) /\ groups'[j].target = groups[j].target
             /\ (j \notin ImJids => groups'[j].by = groups[j].by)
  BY <1>4, <1>5, <1>6 DEF Courses, TablesOK
<1>8. TablesOK'
  <2>1. ASSUME NEW j \in DOMAIN groups'
        PROVE  groups'[j].target = Unbound
               \/ (groups'[j].target \in DOMAIN groups' /\ IsWeb(groups'[j].target))
    <3>1. j \in DOMAIN groups /\ groups'[j].target = groups[j].target
      BY <1>6, <1>7
    <3> QED
      BY <1>6, <3>1 DEF Courses, TablesOK
  <2>2. ASSUME NEW j \in DOMAIN groups', j \notin ImJids PROVE groups'[j].by \in Users
    BY <1>6, <1>7, <2>2 DEF Courses, TablesOK
  <2>3. ASSUME NEW k \in DOMAIN members'
        PROVE  k = <<k[1], k[2]>> /\ JidOf(k[1]) \in DOMAIN groups'
    BY <1>1, <1>6 DEF Courses, TablesOK
  <2>4. /\ members' = [k \in DOMAIN members' |-> members'[k]] /\ bindLog' \in Seq(BindingType)
        /\ disputed' \in BOOLEAN /\ racedBind' \in BOOLEAN
    BY <1>1, <1>2 DEF Courses, TablesOK
  <2>5. ASSUME NEW j \in DOMAIN groups' PROVE j \in Ids /\ groups'[j].folder \in FoldersOf(j)
    <3>1. j \in Ids /\ groups[j].folder \in FoldersOf(j) /\ j \in DOMAIN groups
      BY <1>6 DEF Courses, TablesOK
    <3>2. rec.reg.folder \in FoldersOf(jid)
      BY <1>3 DEF RegOK
    <3> QED
      BY <1>4, <1>6, <3>1, <3>2
  <2> QED
    BY <1>6, <1>7, <2>1, <2>2, <2>3, <2>4, <2>5 DEF TablesOK
<1>9. bindLog \in Seq(BindingType) /\ Grows
  <2>1. bindLog \in Seq(BindingType)
    BY DEF Courses, TablesOK
  <2>2. Len(bindLog) \in Nat
    BY <2>1
  <2> QED
    BY <1>1, <1>2, <1>6, <2>1, <2>2 DEF Grows
<1>10. CallOK(new) /\ SameCall(rec, new) /\ new.at = "refresh" /\ new.op = rec.op /\ new.answer = "none"
  BY <1>1, <1>3, RereadOK
<1>11. CallOK(new)'
  BY <1>2, <1>9, <1>10, CallKept
<1>12. CallsOK' /\ Others(r) /\ calls'[r] = new
  BY <1>1, <1>2, <1>9, <1>10, <1>11, CallsKept DEF Courses
<1>13. \A e \in Endpoints : TargetOf(e)' = TargetOf(e)
  BY <1>6, <1>7 DEF TargetOf
<1>14. RowsStay
  BY <1>6, <1>7, FolderFacts DEF RowsStay
<1>15. rec.op # "create" => Past(rec, new)
  BY <1>1, <1>10 DEF Past, Creating
<1> QED
  BY <1>1, <1>2, <1>8, <1>9, <1>10, <1>12, <1>13, <1>14, <1>15
  DEF Base, BindQuiet, OwnQuiet, Courses

\* The INSERT of a group that is not there; the creation of a workspace is looked at below.
LEMMA InsertGroupStep ==
  ASSUME Courses, NEW r \in Calls, InsertGroup(r)
  PROVE  Base(r) /\ BindQuiet(r) /\ RowsStay /\ (calls[r].op # "create" => OwnQuiet(r))
<1> PICK rec : rec = calls[r]
  OBVIOUS
<1> PICK jid : jid = rec.reg.jid
  OBVIOUS
<1> PICK row : row = Row(rec.reg.name, rec.reg.folder, rec.reg.by, rec.reg.home)
  OBVIOUS
<1> PICK new : new = Moved(rec, "refresh")
  OBVIOUS
<1>1. rec.at = "insert" /\ UNCHANGED <<members, slots, wsHistory>>
  BY DEF InsertGroup
<1>2. UNCHANGED <<bindLog, racedBind, disputed>>
  BY <1>1 DEF wsHistory
<1>3. CallOK(rec) /\ RegOK(rec) /\ rec.op \in {"list", "create", "send", "im"}
  <2>1. CallOK(rec)
    BY <1>1, UnderWayOK
  <2> QED
    BY <1>1, <2>1 DEF CallOK, CourseOK, OpsAt, Registering
<1>4. CASE jid \in DOMAIN groups
  <2>1. Answer(r, "500") /\ UNCHANGED <<wsTables, wsHistory>>
    BY <1>1, <1>4 DEF InsertGroup, wsTables
  <2>2. Quiet(r)
    BY <1>1, <2>1, Ends
  <2> QED
    BY <2>2 DEF Quiet, OwnQuiet
<1>5. CASE jid \notin DOMAIN groups
  <2>1. /\ groups' = [j \in DOMAIN groups \cup {jid} |-> IF j = jid THEN row ELSE groups[j]]
        /\ calls' = [calls EXCEPT ![r] = new]
    BY <1>5 DEF InsertGroup, Set, Goto, Moved
  <2>2. /\ DOMAIN groups' = DOMAIN groups \cup {jid} /\ groups' = [j \in DOMAIN groups' |-> groups'[j]]
        /\ groups'[jid] = row /\ \A j \in DOMAIN groups : groups'[j] = groups[j]
    BY <1>5, <2>1
  <2>3. IsRow(row) /\ row.target = Unbound /\ row.by = rec.reg.by /\ row.folder = rec.reg.folder
    BY DEF Row, IsRow
  <2>4. /\ jid \notin ImJids => row.by \in Users
        /\ jid \in Ids /\ row.folder \in FoldersOf(jid)
    BY <1>3, <2>3 DEF RegOK, CallOK, CourseOK
  <2>5. TablesOK'
    BY <1>1, <1>2, <2>2, <2>3, <2>4 DEF Courses, TablesOK
  <2>6. bindLog \in Seq(BindingType) /\ Grows
    <3>1. bindLog \in Seq(BindingType)
      BY DEF Courses, TablesOK
    <3>2. Len(bindLog) \in Nat
      BY <3>1
    <3> QED
      BY <1>1, <1>2, <2>2, <3>1, <3>2 DEF Grows
  <2>7. rec.at # "done" /\ IsCall(rec)
    BY <1>1, <1>3 DEF CallOK
  <2>8. CallOK(rec)'
    BY <1>2, <1>3, <2>6, CallKept
  <2>9. CallOK(new)' /\ SameCall(rec, new) /\ new.at = "refresh" /\ new.op = rec.op /\ new.answer = "none"
    <3>1. /\ IsCall(new) /\ new.at = "refresh" /\ new.op = rec.op /\ new.answer = rec.answer
          /\ new.by = rec.by /\ new.jid = rec.jid /\ new.folder = rec.folder /\ new.arg = rec.arg /\ new.then = rec.then
          /\ new.reg = rec.reg /\ new.from = rec.from
      BY <2>7, MovedFields
    <3>2. CourseOK(new)'
      BY <1>1, <1>3, <2>8, <3>1 DEF CallOK, CourseOK, OpsAt, Registering, AtSlot, Operations
    <3>3. new.op = "send" => SendOK(new)'
      BY <1>1, <1>3, <3>1 DEF CallOK, SendOK, AtSlot, Registering
    <3>4. new.op = "im" => ImOK(new)'
      BY <1>1, <1>3, <2>2, <3>1 DEF CallOK, ImOK, AtSlot, RegOK
    <3>5. new.op = "create" => CreateOK(new)'
      BY <1>1, <1>3, <2>2, <3>1 DEF CallOK, CreateOK, AtSlot, RegOK
    <3>6. rec.answer = "none"
      BY <1>1, <1>3 DEF CallOK, CourseOK
    <3>7. RegOK(new)'
      BY <1>3, <2>2, <3>1 DEF RegOK
    <3> QED
      BY <1>1, <1>3, <3>1, <3>2, <3>3, <3>4, <3>5, <3>6, <3>7 DEF CallOK, Opens, Registering, SameCall
  <2>10. CallsOK' /\ Others(r) /\ calls'[r] = new
    BY <1>1, <1>2, <2>1, <2>6, <2>9, CallsKept DEF Courses
  <2>11. \A e \in Endpoints : TargetOf(e)' = TargetOf(e)
    BY <2>2, <2>3, <1>5 DEF TargetOf
  <2>12. RowsStay
    BY <2>2 DEF RowsStay
  <2>13. rec.op # "create" => Past(rec, new)
    BY <1>1, <1>3, <2>9 DEF Past, Creating
  <2> QED
    BY <1>1, <1>2, <2>5, <2>6, <2>9, <2>10, <2>11, <2>12, <2>13
    DEF Base, BindQuiet, OwnQuiet, Courses
<1> QED
  BY <1>4, <1>5

\* A call that has registered a group goes on at its main slot.
LEMMA RefreshGroupStep ==
  ASSUME Courses, NEW r \in Calls, RefreshGroup(r)
  PROVE  Quiet(r)
<1> PICK rec : rec = calls[r]
  OBVIOUS
<1> PICK row : row = groups[rec.reg.jid]
  OBVIOUS
<1> PICK new : new = Loaded(rec, "slot", row)
  OBVIOUS
<1>1. /\ rec.at = "refresh" /\ UNCHANGED <<wsTables, wsHistory>>
      /\ calls' = [calls EXCEPT ![r] = new]
  BY DEF RefreshGroup, Set, ThenSlot, Loaded
<1>2. CallOK(rec)
  BY <1>1, UnderWayOK
<1>3. IsCall(rec) /\ RegOK(rec) /\ rec.op \in {"list", "create", "send", "im"} /\ rec.answer = "none"
  BY <1>1, <1>2 DEF CallOK, CourseOK, OpsAt, Registering
<1>4. /\ IsCall(new) /\ new.at = "slot" /\ new.op = rec.op /\ new.answer = rec.answer
      /\ new.by = rec.by /\ new.jid = rec.jid /\ new.folder = rec.folder /\ new.arg = rec.arg /\ new.then = rec.then
      /\ new.reg = rec.reg /\ new.from = rec.from
  BY <1>3, LoadedFields
<1>5. CourseOK(new)
  BY <1>1, <1>2, <1>3, <1>4 DEF CallOK, CourseOK, OpsAt, Registering, AtSlot, Operations
<1>6. new.op = "send" => SendOK(new)
  BY <1>1, <1>2, <1>4 DEF CallOK, SendOK, AtSlot, Registering
<1>7. new.op = "im" => ImOK(new)
  BY <1>1, <1>2, <1>3, <1>4 DEF CallOK, ImOK, AtSlot, RegOK
<1>8. new.op = "create" => CreateOK(new)
  BY <1>1, <1>2, <1>3, <1>4 DEF CallOK, CreateOK, AtSlot, RegOK
<1>9. CallOK(new)
  BY <1>3, <1>4, <1>5, <1>6, <1>7, <1>8 DEF CallOK, Opens, Registering
<1>10. Past(rec, new) /\ SameCall(rec, new)
  BY <1>1, <1>3, <1>4 DEF Past, Creating, SameCall
<1> QED
  BY <1>1, <1>4, <1>9, <1>10, QuietMoves

\* Where a call may be after its main slot
LEMMA ThenPlaces ==
  ASSUME NEW rec, CallOK(rec), AtSlot(rec), NEW then, then = rec.then,
         NEW new, new = Moved(rec, then)
  PROVE  /\ IsCall(new) /\ new.at = rec.then /\ new.op = rec.op /\ new.answer = "none"
         /\ new.by = rec.by /\ new.jid = rec.jid /\ new.folder = rec.folder /\ new.arg = rec.arg /\ new.then = rec.then
         /\ new.reg = rec.reg /\ new.from = rec.from /\ rec.then \in ThensOf(rec.op)
         /\ rec.op \in Operations /\ rec.answer = "none" /\ SameCall(rec, new)
         /\ new.op \in OpsAt(new.at)
         /\ new.at \notin {"new", "find", "binding", "done"} /\ ~AtSlot(new) /\ ~Registering(new)
         /\ new.op = "im" => new.at # "store_in"
         /\ Past(rec, new)
<1>1. IsCall(rec) /\ rec.answer = "none" /\ rec.then \in ThensOf(rec.op) /\ rec.op \in Operations
  BY DEF CallOK, CourseOK, AtSlot, OpsAt
<1>2. /\ IsCall(new) /\ new.at = rec.then /\ new.op = rec.op /\ new.answer = rec.answer
      /\ new.by = rec.by /\ new.jid = rec.jid /\ new.folder = rec.folder /\ new.arg = rec.arg /\ new.then = rec.then
      /\ new.reg = rec.reg /\ new.from = rec.from
  BY <1>1, MovedFields
<1>3. /\ new.op = "list" => new.at = "list"
      /\ new.op = "create" => new.at = "member_check"
      /\ new.op = "im" => new.at = "resolve"
      /\ new.op = "send" => new.at \in {"send_to", "access", "store_in"}
      /\ new.op \in Opens => new.at = "access"
  BY <1>1, <1>2 DEF ThensOf, Opens
<1>4. new.op \in {"list", "create", "im", "send"} \cup Opens
  BY <1>1, <1>2 DEF Operations
<1>5. new.op \in OpsAt(new.at)
  <2>1. new.op \in {"list", "create", "im"} => new.op \in OpsAt(new.at)
    BY <1>3 DEF OpsAt
  <2>2. new.op = "send" => new.op \in OpsAt(new.at)
    BY <1>3 DEF OpsAt
  <2>3. new.op \in Opens => new.op \in OpsAt(new.at)
    BY <1>3 DEF OpsAt
  <2> QED
    BY <1>4, <2>1, <2>2, <2>3
<1>6. /\ new.at \notin {"new", "find", "binding", "done"} /\ ~AtSlot(new) /\ ~Registering(new)
      /\ new.op = "im" => new.at # "store_in"
  BY <1>3, <1>4 DEF AtSlot, Registering
<1>7. Past(rec, new)
  BY <1>1, <1>2, <1>3, <1>4 DEF Past, Creating, AtSlot, Opens
<1> QED
  BY <1>1, <1>2, <1>5, <1>6, <1>7 DEF SameCall

\* The main slot is looked for.
LEMMA GetMainSlotStep ==
  ASSUME Courses, NEW r \in Calls, GetMainSlot(r)
  PROVE  Quiet(r)
<1> PICK rec : rec = calls[r]
  OBVIOUS
<1>1. rec.at = "slot" /\ UNCHANGED <<wsTables, wsHistory>>
  BY DEF GetMainSlot
<1>2. CallOK(rec) /\ AtSlot(rec)
  BY <1>1, UnderWayOK DEF AtSlot
<1>3. CASE SlotOf(rec) \in slots
  <2> PICK then : then = rec.then
    OBVIOUS
  <2> PICK new : new = Moved(rec, then)
    OBVIOUS
  <2>1. calls' = [calls EXCEPT ![r] = new]
    BY <1>3 DEF GetMainSlot, Set, Goto, Moved
  <2>2. /\ IsCall(new) /\ new.at = rec.then /\ new.op = rec.op /\ new.answer = "none"
        /\ new.by = rec.by /\ new.jid = rec.jid /\ new.folder = rec.folder /\ new.arg = rec.arg /\ new.then = rec.then
        /\ new.reg = rec.reg /\ new.from = rec.from /\ SameCall(rec, new)
        /\ new.op \in OpsAt(new.at)
        /\ new.at \notin {"new", "find", "binding", "done"} /\ ~AtSlot(new) /\ ~Registering(new)
        /\ new.op = "im" => new.at # "store_in"
        /\ Past(rec, new)
    BY <1>2, ThenPlaces
  <2>3. CourseOK(new)
    BY <1>2, <2>2 DEF CallOK, CourseOK
  <2>4. new.op \in Opens => OpenOK(new)
    <3>1. ASSUME new.op \in Opens PROVE SlotOf(rec) = <<rec.folder, "main">>
      BY <1>2, <2>2, <3>1, FolderFacts DEF SlotOf, CallOK, OpenOK
    <3> QED
      BY <1>2, <1>3, <2>2, <3>1 DEF CallOK, OpenOK, AtSlot
  <2>5. new.op = "send" => SendOK(new)
    BY <1>2, <2>2 DEF CallOK, SendOK, CourseOK, ThensOf, AtSlot
  <2>6. new.op = "im" => ImOK(new)
    BY <1>2, <2>2 DEF CallOK, ImOK, AtSlot, CourseOK, ThensOf
  <2>7. new.op = "create" => CreateOK(new)
    BY <1>2, <2>2 DEF CallOK, CreateOK, AtSlot, ThensOf
  <2>8. CallOK(new)
    BY <2>2, <2>3, <2>4, <2>5, <2>6, <2>7 DEF CallOK
  <2> QED
    BY <1>1, <2>1, <2>2, <2>8, QuietMoves
<1>4. CASE SlotOf(rec) \notin slots
  <2> PICK at : at = "slot_insert"
    OBVIOUS
  <2> PICK new : new = Moved(rec, at)
    OBVIOUS
  <2>1. calls' = [calls EXCEPT ![r] = new]
    BY <1>4 DEF GetMainSlot, Set, Goto, Moved
  <2>2. IsCall(rec)
    BY <1>2 DEF CallOK
  <2>3. /\ IsCall(new) /\ new.at = "slot_insert" /\ new.op = rec.op /\ new.answer = rec.answer
        /\ new.by = rec.by /\ new.jid = rec.jid /\ new.folder = rec.folder /\ new.arg = rec.arg /\ new.then = rec.then
        /\ new.reg = rec.reg /\ new.from = rec.from /\ new.row = rec.row
    BY <2>2, MovedFields
  <2>4. CallOK(new)
    BY <1>1, <1>2, <2>3
    DEF CallOK, CourseOK, OpsAt, Registering, AtSlot, OpenOK, CreateOK, SendOK, ImOK
  <2>5. Past(rec, new)
    BY <1>1, <1>2, <2>3 DEF Past, Creating, CallOK, CourseOK
  <2> QED
    BY <1>1, <2>1, <2>3, <2>4, <2>5, QuietMoves DEF SameCall
<1> QED
  BY <1>3, <1>4

\* The main slot is written: a call that goes on finds it.
LEMMA InsertMainSlotStep ==
  ASSUME Courses, NEW r \in Calls, InsertMainSlot(r)
  PROVE  Quiet(r)
<1> PICK rec : rec = calls[r]
  OBVIOUS
<1>1. /\ rec.at = "slot_insert" /\ UNCHANGED <<groups, members, wsHistory>>
      /\ slots' = slots \cup {SlotOf(rec)}
  BY DEF InsertMainSlot
<1>2. UNCHANGED <<bindLog, racedBind, disputed>>
  BY <1>1 DEF wsHistory
<1>3. CallOK(rec) /\ AtSlot(rec) /\ rec.answer = "none" /\ rec.op \in Operations
  <2>1. CallOK(rec)
    BY <1>1, UnderWayOK
  <2> QED
    BY <1>1, <2>1 DEF CallOK, CourseOK, AtSlot, OpsAt
<1>4. CASE SlotOf(rec) \in slots
  <2>1. UNCHANGED <<wsTables, wsHistory>> /\ Answer(r, "500")
    BY <1>1, <1>4 DEF InsertMainSlot, wsTables
  <2> QED
    BY <1>1, <2>1, Ends
<1>5. CASE SlotOf(rec) \notin slots
  <2> PICK then : then = rec.then
    OBVIOUS
  <2> PICK new : new = Moved(rec, then)
    OBVIOUS
  <2>1. calls' = [calls EXCEPT ![r] = new]
    BY <1>5 DEF InsertMainSlot, Set, Goto, Moved
  <2>2. bindLog \in Seq(BindingType) /\ Grows
    <3>1. bindLog \in Seq(BindingType)
      BY DEF Courses, TablesOK
    <3>2. Len(bindLog) \in Nat
      BY <3>1
    <3> QED
      BY <1>1, <1>2, <3>1, <3>2 DEF Grows
  <2>3. TablesOK'
    BY <1>1, <1>2 DEF Courses, TablesOK
  <2>4. /\ IsCall(new) /\ new.at = rec.then /\ new.op = rec.op /\ new.answer = "none"
        /\ new.by = rec.by /\ new.jid = rec.jid /\ new.folder = rec.folder /\ new.arg = rec.arg /\ new.then = rec.then
        /\ new.reg = rec.reg /\ new.from = rec.from /\ SameCall(rec, new)
        /\ new.op \in OpsAt(new.at)
        /\ new.at \notin {"new", "find", "binding", "done"} /\ ~AtSlot(new) /\ ~Registering(new)
        /\ new.op = "im" => new.at # "store_in"
        /\ Past(rec, new)
    BY <1>3, ThenPlaces
  <2>5. CallOK(rec)'
    BY <1>2, <1>3, <2>2, CallKept
  <2>6. CourseOK(new)'
    BY <2>4, <2>5 DEF CallOK, CourseOK
  <2>7. new.op \in Opens => OpenOK(new)'
    <3>1. ASSUME new.op \in Opens PROVE SlotOf(rec) = <<rec.folder, "main">>
      BY <1>3, <2>4, <3>1, FolderFacts DEF SlotOf, CallOK, OpenOK
    <3> QED
      BY <1>1, <1>3, <2>4, <2>5, <3>1 DEF CallOK, OpenOK, AtSlot
  <2>8. new.op = "send" => SendOK(new)'
    BY <1>3, <2>4, <2>5 DEF CallOK, SendOK, CourseOK, ThensOf, AtSlot
  <2>9. new.op = "im" => ImOK(new)'
    BY <1>3, <2>4, <2>5 DEF CallOK, ImOK, AtSlot, CourseOK, ThensOf
  <2>10. new.op = "create" => CreateOK(new)'
    BY <1>3, <2>4, <2>5 DEF CallOK, CreateOK, AtSlot
  <2>11. CallOK(new)'
    BY <2>4, <2>6, <2>7, <2>8, <2>9, <2>10 DEF CallOK
  <2>12. CallsOK' /\ Others(r) /\ calls'[r] = new
    BY <1>2, <2>1, <2>2, <2>4, <2>11, CallsKept DEF Courses
  <2>13. RowsStay /\ \A e \in Endpoints : TargetOf(e)' = TargetOf(e)
    BY <1>1 DEF RowsStay, TargetOf
  <2> QED
    BY <1>1, <1>2, <2>2, <2>3, <2>4, <2>12, <2>13 DEF Quiet, Base, BindQuiet, OwnQuiet, Courses
<1> QED
  BY <1>4, <1>5

\* A write that waits too long ends its call.
LEMMA LockedStep ==
  ASSUME Courses, NEW r \in Calls, Locked(r)
  PROVE  Quiet(r)
BY Ends DEF Locked

-----------------------------------------------------------------------------
\* The places that ask nothing of a call but its operation
Onwards == {"rename", "new_slot", "new_slot_insert", "read", "endpoint", "binding", "role_change",
            "member_check", "merge", "own_role", "member_get", "delete", "run", "route", "store_out"}

\* A call that moves to one of them
LEMMA MovedOK ==
  ASSUME NEW rec, CallOK(rec), rec.at \notin {"find", "done"}, NEW at, at \in Onwards,
         rec.op \in OpsAt(at), NEW new, new = Moved(rec, at),
         at = "binding" => Im(rec.arg[1]) \in DOMAIN groups,
         rec.op = "slots" => rec.at = "access", rec.op # "create"
  PROVE  /\ CallOK(new) /\ SameCall(rec, new) /\ new.at = at /\ new.op = rec.op /\ new.answer = "none"
         /\ new.jid = rec.jid /\ new.folder = rec.folder /\ new.arg = rec.arg /\ new.seen = rec.seen
<1>1. IsCall(rec) /\ rec.answer = "none" /\ rec.op \in Operations
  BY DEF CallOK, CourseOK, Onwards, OpsAt, Operations, Opens
<1>2. /\ IsCall(new) /\ new.at = at /\ new.op = rec.op /\ new.answer = rec.answer
      /\ new.by = rec.by /\ new.jid = rec.jid /\ new.folder = rec.folder /\ new.arg = rec.arg /\ new.then = rec.then
      /\ new.reg = rec.reg /\ new.seen = rec.seen /\ new.from = rec.from
  BY <1>1, MovedFields
<1>3. ~Registering(new) /\ ~AtSlot(new) /\ at \notin {"new", "find", "done", "access", "send_slot", "resolve"}
  BY <1>2 DEF Registering, AtSlot, Onwards
<1>4. CourseOK(new)
  BY <1>1, <1>2, <1>3 DEF CallOK, CourseOK
<1>5. new.op \in Opens => OpenOK(new)
  BY <1>1, <1>2, <1>3 DEF CallOK, OpenOK
<1>6. new.op = "send" => SendOK(new)
  BY <1>2, <1>3 DEF CallOK, SendOK
<1>7. new.op = "im" => at \in {"run", "route", "store_out"}
  BY <1>2 DEF Onwards, OpsAt
<1>8. new.op = "im" => ImOK(new)
  BY <1>2, <1>3, <1>7 DEF CallOK, ImOK
<1> QED
  BY <1>1, <1>2, <1>3, <1>4, <1>5, <1>6, <1>8 DEF CallOK, SameCall

\* A call that begins
LEMMA Begins ==
  ASSUME Courses, NEW r \in Calls, calls[r].at = "new", UNCHANGED <<wsTables, wsHistory>>,
         NEW new, calls' = [calls EXCEPT ![r] = new], CallOK(new),
         new.at \in {"get", "vacant", "find", "im_get", "done"}, new.answer # "200" \/ new.op # "create",
         new.op = "create" => new.at # "get"
  PROVE  Quiet(r) /\ calls'[r] = new
<1> PICK rec : rec = calls[r]
  OBVIOUS
<1>1. Past(rec, new) /\ new.at # "new"
  <2>1. new.op = "add" => new.at \in {"find", "done"}
    BY DEF CallOK, CourseOK, OpsAt
  <2>2. new.op = "create" => new.at \in {"vacant", "done"}
    BY DEF CallOK, CourseOK, OpsAt, Opens
  <2> QED
    BY <2>1, <2>2 DEF Past, Creating
<1> QED
  BY <1>1, QuietMoves

\* The fields of a call that registers the home of its user next
LEMMA HomeFields ==
  ASSUME NEW rec, IsCall(rec), NEW then, NEW new, new = EnsuresHome(rec, then)
  PROVE  /\ IsCall(new) /\ new.at = "get" /\ new.op = rec.op /\ new.answer = rec.answer
         /\ new.by = rec.by /\ new.jid = rec.jid /\ new.folder = rec.folder /\ new.arg = rec.arg /\ new.then = then
         /\ new.reg.jid = HomeOf(rec.by) /\ new.reg.folder = Plain(HomeName(rec.by))
         /\ new.reg.by = rec.by /\ new.from = rec.from
<1>1. /\ new.at = "get" /\ new.op = rec.op /\ new.answer = rec.answer
      /\ new.by = rec.by /\ new.jid = rec.jid /\ new.folder = rec.folder /\ new.arg = rec.arg /\ new.then = then
      /\ new.reg = [jid |-> HomeOf(rec.by), name |-> Given, folder |-> Plain(HomeName(rec.by)),
                     by |-> rec.by, home |-> TRUE]
      /\ new.from = rec.from
  BY DEF IsCall, CallFields, Ensures, EnsuresHome
<1>2. new = [f \in CallFields |-> new[f]]
  BY DEF IsCall, CallFields, Ensures, EnsuresHome
<1>3. /\ IsReg(new.reg) /\ new.reg.jid = HomeOf(rec.by) /\ new.reg.by = rec.by
      /\ new.reg.folder = Plain(HomeName(rec.by))
  BY <1>1 DEF IsReg
<1> QED
  BY <1>1, <1>2, <1>3 DEF IsCall

\* list_groups: the home comes first.
LEMMA ListGroupsStep ==
  ASSUME Courses, NEW r \in Calls, NEW u \in Users, ListGroups(r, u)
  PROVE  Quiet(r)
<1> PICK home : home = HomeOf(u)
  OBVIOUS
<1> PICK first : first = Call("list", u, home, <<>>, "new")
  OBVIOUS
<1> PICK new : new = EnsuresHome(first, "list")
  OBVIOUS
<1>1. /\ IsCall(first) /\ first.op = "list" /\ first.answer = "none" /\ first.by = u
      /\ first.jid = home /\ first.from = Len(bindLog)
  BY CallIsCall
<1>2. /\ IsCall(new) /\ new.at = "get" /\ new.op = "list" /\ new.answer = "none"
      /\ new.by = u /\ new.then = "list" /\ new.reg.jid = home /\ new.reg.by = u
      /\ new.reg.folder = Plain(HomeName(u)) /\ new.from = Len(bindLog)
  BY <1>1, HomeFields
<1>3. calls[r].at = "new" /\ UNCHANGED <<wsTables, wsHistory>> /\ calls' = [calls EXCEPT ![r] = new]
  BY <1>1 DEF ListGroups, Set
<1>4. new.from \in 0 .. Len(bindLog)
  <2>1. bindLog \in Seq(BindingType)
    BY DEF Courses, TablesOK
  <2>2. Len(bindLog) \in Nat
    BY <2>1
  <2> QED
    BY <1>2, <2>2
<1>5. CourseOK(new) /\ RegOK(new)
  <2>1. home \in Ids /\ Plain(HomeName(u)) \in FoldersOf(home)
    BY IdFacts, FolderFacts DEF HomeOf
  <2> QED
    BY <1>2, <1>4, <2>1 DEF CourseOK, RegOK, OpsAt, ThensOf, Registering
<1>6. CallOK(new)
  BY <1>2, <1>5 DEF CallOK, Opens
<1> QED
  BY <1>2, <1>3, <1>6, Begins

\* create_group up to the look for the folder
LEMMA CreateGroupStep ==
  ASSUME Courses, NEW r \in Calls, NEW u \in Users, NEW g \in Ids, CreateGroup(r, u, g)
  PROVE  Quiet(r)
<1> PICK arg : arg = <<u, "owner">>
  OBVIOUS
<1> PICK first : first = Call("create", u, g, arg, "vacant")
  OBVIOUS
<1> PICK rec : rec = [first EXCEPT !.jid = Web(g[2])]
  OBVIOUS
<1>1. /\ IsCall(rec) /\ rec.op = "create" /\ rec.at = "vacant" /\ rec.answer = "none" /\ rec.by = u
      /\ rec.jid = JidOf(g) /\ rec.folder = g /\ rec.arg = arg /\ rec.from = Len(bindLog)
  <2>1. /\ IsCall(first) /\ first.op = "create" /\ first.at = "vacant" /\ first.answer = "none"
        /\ first.by = u /\ first.folder = g /\ first.arg = arg /\ first.from = Len(bindLog)
    BY CallIsCall
  <2>2. /\ rec.op = "create" /\ rec.at = "vacant" /\ rec.answer = "none" /\ rec.by = u
        /\ rec.jid = JidOf(g) /\ rec.folder = g /\ rec.arg = arg /\ rec.from = Len(bindLog)
        /\ rec.reg = first.reg
    BY <2>1 DEF IsCall, CallFields, JidOf
  <2>3. rec = [f \in CallFields |-> rec[f]]
    BY <2>1 DEF IsCall, CallFields
  <2> QED
    BY <2>1, <2>2, <2>3 DEF IsCall
<1>2. rec.from \in 0 .. Len(bindLog)
  <2>1. Len(bindLog) \in Nat
    BY DEF Courses, TablesOK
  <2> QED
    BY <1>1, <2>1
<1>3. ASSUME NEW new, calls' = [calls EXCEPT ![r] = new], CallOK(new), new.op = "create",
             new.at \in {"vacant", "done"}, new.answer # "200"
      PROVE  Quiet(r)
  BY <1>3, Begins DEF CreateGroup
<1>4. CASE MayWrite(u) /\ g \in {Plain(f) : f \in Shared}
  <2>1. calls' = [calls EXCEPT ![r] = rec]
    BY <1>4 DEF CreateGroup, Set
  <2>2. CourseOK(rec)
    BY <1>1, <1>2 DEF CourseOK, OpsAt, Registering, AtSlot
  <2>3. CreateOK(rec)
    BY <1>1, <1>4 DEF CreateOK, AtSlot
  <2>4. CallOK(rec)
    BY <1>1, <2>2, <2>3 DEF CallOK, Opens, Registering
  <2> QED
    BY <1>1, <1>3, <2>1, <2>4
<1>5. CASE ~(MayWrite(u) /\ g \in {Plain(f) : f \in Shared})
  <2> PICK status : /\ status \in {"403", "400"}
                    /\ status = IF MayWrite(u) THEN "400" ELSE "403"
    OBVIOUS
  <2> PICK new : new = Ended(rec, status)
    OBVIOUS
  <2>1. calls' = [calls EXCEPT ![r] = new]
    BY <1>5 DEF CreateGroup, Set
  <2>2. /\ IsCall(new) /\ new.at = "done" /\ new.op = rec.op /\ new.answer = status
        /\ new.by = rec.by /\ new.jid = rec.jid /\ new.folder = rec.folder /\ new.arg = rec.arg /\ new.from = rec.from
    BY ONLY <1>1, new = Ended(rec, status), EndedFields
  <2>3. CourseOK(new)
    BY <1>1, <1>2, <2>2 DEF CourseOK, OpsAt, Registering, AtSlot, Operations
  <2>4. CreateOK(new)
    BY <1>1, <2>2 DEF CreateOK, AtSlot
  <2>5. CallOK(new)
    BY <1>1, <2>2, <2>3, <2>4 DEF CallOK, Opens, Registering
  <2> QED
    BY <1>1, <1>3, <2>1, <2>2, <2>5
<1> QED
  BY <1>4, <1>5

\* The other calls on workspaces begin by looking for theirs.
LEMMA OpenWorkspaceStep ==
  ASSUME Courses, NEW r \in Calls, NEW op \in Opens, NEW u \in Users, NEW g \in Ids, NEW arg,
         NEW allowed \in BOOLEAN, OpenWorkspace(r, op, u, g, arg, allowed),
         op \in {"bind", "unbind"} => arg = <<arg[1]>> /\ arg[1] \in Endpoints
  PROVE  Quiet(r)
<1> PICK rec : rec = Call(op, u, g, arg, "find")
  OBVIOUS
<1>1. /\ IsCall(rec) /\ rec.op = op /\ rec.at = "find" /\ rec.answer = "none" /\ rec.by = u
      /\ rec.arg = arg /\ rec.from = Len(bindLog)
  BY CallIsCall
<1>2. rec.from \in 0 .. Len(bindLog)
  <2>1. Len(bindLog) \in Nat
    BY DEF Courses, TablesOK
  <2> QED
    BY <1>1, <2>1
<1>3. op \notin {"list", "create", "send", "im"} /\ op \in Operations
  BY DEF Opens, Operations
<1>5. CourseOK(rec)
  BY <1>1, <1>2, <1>3 DEF CourseOK, OpsAt, Registering, AtSlot
<1>6. OpenOK(rec)
  BY <1>1 DEF OpenOK, AtSlot
<1>7. CallOK(rec)
  BY <1>1, <1>3, <1>5, <1>6 DEF CallOK, Registering
<1>8. CASE allowed
  <2>1. calls' = [calls EXCEPT ![r] = rec]
    BY <1>8 DEF OpenWorkspace, Set
  <2> QED
    BY <1>1, <1>3, <1>7, <2>1, Begins DEF OpenWorkspace
<1>9. CASE ~allowed
  <2> PICK new : new = Ended(rec, "403")
    OBVIOUS
  <2>1. calls' = [calls EXCEPT ![r] = new]
    BY <1>9 DEF OpenWorkspace, Set
  <2>2. CallOK(new) /\ new.at = "done" /\ new.op = rec.op /\ new.answer = "403"
    BY <1>1, <1>7, EndedOK
  <2> QED
    BY <1>1, <1>3, <2>1, <2>2, Begins DEF OpenWorkspace
<1> QED
  BY <1>8, <1>9

Found(rec, X) == Ended([rec EXCEPT !.found = X], "200")

\* The fields of a call that ends with what it has read
LEMMA FoundFields ==
  ASSUME NEW rec, IsCall(rec), NEW X, NEW new, new = Found(rec, X)
  PROVE  /\ IsCall(new) /\ new.at = "done" /\ new.op = rec.op /\ new.answer = "200"
         /\ new.by = rec.by /\ new.jid = rec.jid /\ new.folder = rec.folder /\ new.arg = rec.arg /\ new.then = rec.then
         /\ new.reg = rec.reg /\ new.found = X /\ new.from = rec.from
<1>1. /\ new.at = "done" /\ new.op = rec.op /\ new.answer = "200"
      /\ new.by = rec.by /\ new.jid = rec.jid /\ new.folder = rec.folder /\ new.arg = rec.arg /\ new.then = rec.then
      /\ new.reg = rec.reg /\ new.found = X /\ new.from = rec.from
  BY DEF IsCall, CallFields, Ended, Found
<1>2. new = [f \in CallFields |-> new[f]]
  BY DEF IsCall, CallFields, Ended, Found
<1> QED
  BY <1>1, <1>2 DEF IsCall

\* A call that only reads ends with what it has read.
LEMMA FoundMoves ==
  ASSUME Courses, NEW r \in Calls, NEW rec, rec = calls[r], rec.at \in {"list", "read"}, NEW X,
         rec.op = "slots" => <<rec.folder, "main">> \in X,
         UNCHANGED <<wsTables, wsHistory>>, Set(r, Found(rec, X))
  PROVE  Quiet(r)
<1> PICK new : new = Found(rec, X)
  OBVIOUS
<1>1. CallOK(rec) /\ IsCall(rec) /\ rec.op \in Opens \cup {"list"}
  <2>1. CallOK(rec)
    BY UnderWayOK
  <2> QED
    BY <2>1 DEF CallOK, CourseOK, OpsAt, Opens
<1>2. /\ IsCall(new) /\ new.at = "done" /\ new.op = rec.op /\ new.answer = "200"
      /\ new.by = rec.by /\ new.jid = rec.jid /\ new.folder = rec.folder /\ new.arg = rec.arg
      /\ new.found = X /\ new.from = rec.from
  BY <1>1, FoundFields
<1>3. new.op \notin {"create", "send", "im"} /\ new.op \in Operations
  BY <1>1, <1>2 DEF Opens, Operations
<1>4. CourseOK(new)
  BY <1>1, <1>2, <1>3 DEF CallOK, CourseOK, OpsAt, Registering, AtSlot
<1>5. new.op \in Opens => OpenOK(new)
  BY <1>1, <1>2 DEF CallOK, OpenOK, AtSlot
<1>6. CallOK(new)
  BY <1>2, <1>3, <1>4, <1>5 DEF CallOK, Registering
<1>7. Past(rec, new) /\ SameCall(rec, new)
  BY <1>2, <1>3 DEF Past, Creating, SameCall
<1>8. calls' = [calls EXCEPT ![r] = new]
  BY DEF Set
<1> QED
  BY <1>2, <1>6, <1>7, <1>8, QuietMoves

\* list_groups after the home
LEMMA ListRegisteredGroupsStep ==
  ASSUME Courses, NEW r \in Calls, ListRegisteredGroups(r)
  PROVE  Quiet(r)
<1> PICK rec : rec = calls[r]
  OBVIOUS
<1> PICK X : X = {<<j, "seen">> : j \in {i \in DOMAIN groups : IsWeb(i) /\ CanAccess(rec.by, i, groups[i])}}
  OBVIOUS
<1>1. rec.at = "list" /\ UNCHANGED <<wsTables, wsHistory>> /\ Set(r, Found(rec, X))
  BY DEF ListRegisteredGroups, Found
<1>2. rec.op # "slots"
  <2>1. CallOK(rec)
    BY <1>1, UnderWayOK
  <2> QED
    BY <1>1, <2>1 DEF CallOK, CourseOK, OpsAt
<1> QED
  BY <1>1, <1>2, FoundMoves

\* The last read; the main slot is among the slots of a workspace that was found.
LEMMA ReadWorkspaceStep ==
  ASSUME Courses, NEW r \in Calls, ReadWorkspace(r)
  PROVE  Quiet(r)
<1> PICK rec : rec = calls[r]
  OBVIOUS
<1> PICK X : X = CASE rec.op = "slots" -> {k \in slots : k[1] = rec.folder}
                   [] rec.op = "members" -> {k \in DOMAIN members : k[1] = rec.folder}
                   [] OTHER -> {<<j, BindingState(j)>> : j \in {i \in DOMAIN groups : i[1] = "im"}}
  OBVIOUS
<1>1. rec.at = "read" /\ UNCHANGED <<wsTables, wsHistory>> /\ Set(r, Found(rec, X))
  BY DEF ReadWorkspace, Found
<1>2. ASSUME rec.op = "slots" PROVE <<rec.folder, "main">> \in X
  <2>1. CallOK(rec)
    BY <1>1, UnderWayOK
  <2>2. <<rec.folder, "main">> \in slots
    BY <1>1, <1>2, <2>1 DEF CallOK, OpenOK, Opens
  <2>3. X = {k \in slots : k[1] = rec.folder}
    BY <1>2
  <2> QED
    BY <2>2, <2>3
<1> QED
  BY <1>1, <1>2, FoundMoves

\* The look for the folder of a workspace to be created
LEMMA CheckVacantStep ==
  ASSUME Courses, NEW r \in Calls, CheckVacant(r)
  PROVE  Quiet(r)
<1> PICK rec : rec = calls[r]
  OBVIOUS
<1>1. rec.at = "vacant" /\ UNCHANGED <<wsTables, wsHistory>>
  BY DEF CheckVacant
<1>2. CallOK(rec) /\ rec.op = "create" /\ IsCall(rec) /\ rec.answer = "none"
  <2>1. CallOK(rec)
    BY <1>1, UnderWayOK
  <2> QED
    BY <1>1, <2>1 DEF CallOK, CourseOK, OpsAt
<1>3. CASE \E j \in DOMAIN groups : groups[j].folder = rec.folder
  <2>1. Answer(r, "409")
    BY <1>3 DEF CheckVacant, Answer
  <2> QED
    BY <1>1, <2>1, Ends
<1>4. CASE ~\E j \in DOMAIN groups : groups[j].folder = rec.folder
  <2> PICK jid : jid = rec.jid
    OBVIOUS
  <2> PICK folder : folder = rec.folder
    OBVIOUS
  <2> PICK by : by = rec.by
    OBVIOUS
  <2> PICK home : home = FALSE
    OBVIOUS
  <2> PICK new : new = Ensures(rec, jid, <<"call", r>>, folder, by, home, "member_check")
    OBVIOUS
  <2>1. calls' = [calls EXCEPT ![r] = new]
    BY <1>4 DEF CheckVacant, Set
  <2>2. /\ IsCall(new) /\ new.at = "get" /\ new.op = rec.op /\ new.answer = rec.answer
        /\ new.by = rec.by /\ new.jid = rec.jid /\ new.folder = rec.folder /\ new.arg = rec.arg /\ new.then = "member_check"
        /\ new.reg.jid = jid /\ new.reg.folder = folder /\ new.reg.by = by /\ new.from = rec.from
    BY <1>2, EnsuresFields
  <2>3. CourseOK(new)
    <3>1. rec.by \in Users /\ rec.from \in 0 .. Len(bindLog)
      BY <1>2 DEF CallOK, CourseOK
    <3>2. new.op = "create" /\ new.at = "get" /\ new.then = "member_check" /\ new.answer = "none"
      BY <1>2, <2>2
    <3>3. new.op \in OpsAt(new.at)
      BY <3>2 DEF OpsAt
    <3>4. new.then \in ThensOf(new.op)
      BY <3>2 DEF ThensOf
    <3> QED
      BY <2>2, <3>1, <3>2, <3>3, <3>4 DEF CourseOK
  <2>4. CreateOK(rec) /\ CreateOK(new)
    BY <1>1, <1>2, <2>2 DEF CallOK, CreateOK, AtSlot
  <2>5. jid \in Ids /\ folder \in FoldersOf(jid)
    <3> PICK f \in Shared : folder = Plain(f)
      BY <1>1, <2>4 DEF CreateOK
    <3>1. jid = Web(f)
      BY <2>4, JidFacts DEF CreateOK
    <3> QED
      BY <3>1, IdFacts, FolderFacts
  <2>6. RegOK(new)
    BY <1>2, <2>2, <2>5 DEF RegOK
  <2>7. CallOK(new)
    BY <1>2, <2>2, <2>3, <2>4, <2>6 DEF CallOK, Opens
  <2>8. SameCall(rec, new) /\ new.at # "new" /\ Past(rec, new)
    BY <1>2, <2>2 DEF SameCall, Past, Creating
  <2> QED
    BY <1>1, <1>2, <2>1, <2>2, <2>7, <2>8, QuietMoves
<1> QED
  BY <1>3, <1>4

\* The fields of a call that has found its workspace
LEMMA AfterFindFields ==
  ASSUME NEW rec, IsCall(rec), NEW j, NEW new, new = AfterFind(rec, j)
  PROVE  /\ IsCall(new) /\ new.at = "slot" /\ new.op = rec.op /\ new.answer = rec.answer
         /\ new.by = rec.by /\ new.jid = j /\ new.folder = rec.folder /\ new.arg = rec.arg /\ new.then = "access"
         /\ new.row = groups[j] /\ new.from = rec.from
<1>1. /\ new.at = "slot" /\ new.op = rec.op /\ new.answer = rec.answer
      /\ new.by = rec.by /\ new.jid = j /\ new.folder = rec.folder /\ new.arg = rec.arg /\ new.then = "access"
      /\ new.row = groups[j] /\ new.from = rec.from /\ new.reg = rec.reg
  BY DEF IsCall, CallFields, AfterFind, ThenSlot
<1>2. new = [f \in CallFields |-> new[f]]
  BY DEF IsCall, CallFields, AfterFind, ThenSlot
<1> QED
  BY <1>1, <1>2 DEF IsCall

\* A call that has found its workspace goes on at the main slot.
LEMMA AfterFindOK ==
  ASSUME Courses, NEW rec, CallOK(rec), rec.op \in Opens \/ rec.op = "send",
         rec.at \in {"find", "send_to"}, NEW j \in Having(rec.folder),
         NEW new, new = AfterFind(rec, j)
  PROVE  /\ CallOK(new) /\ SameCall(rec, new) /\ new.at = "slot" /\ new.op = rec.op
         /\ new.answer = "none"
<1>1. IsCall(rec) /\ rec.answer = "none" /\ rec.op \notin {"list", "create", "im"} /\ rec.op \in Operations
  BY DEF CallOK, CourseOK, Opens, Operations
<1>2. /\ IsCall(new) /\ new.at = "slot" /\ new.op = rec.op /\ new.answer = rec.answer
      /\ new.by = rec.by /\ new.jid = j /\ new.folder = rec.folder /\ new.arg = rec.arg /\ new.then = "access"
      /\ new.row = groups[j] /\ new.from = rec.from
  BY <1>1, AfterFindFields
<1>3. new.then \in ThensOf(new.op)
  BY <1>1, <1>2 DEF ThensOf
<1>4. CourseOK(new)
  BY <1>1, <1>2, <1>3 DEF CallOK, CourseOK, OpsAt
<1>5. /\ j \in DOMAIN groups /\ j \in WebJids /\ j \in Ids /\ groups[j].folder = rec.folder
      /\ rec.folder \in FoldersOf(j) /\ j = JidOf(rec.folder)
  <2>1. j \in DOMAIN groups /\ IsWeb(j) /\ groups[j].folder = rec.folder
    BY DEF Having
  <2>2. j \in Ids /\ rec.folder \in FoldersOf(j)
    BY <2>1 DEF Courses, TablesOK
  <2> QED
    BY <2>1, <2>2, IdFacts, FolderFacts
<1>6. new.op \in Opens => OpenOK(new)
  BY <1>1, <1>2, <1>5 DEF CallOK, OpenOK
<1>7. new.op = "send" => SendOK(new)
  BY <1>2, <1>5 DEF CallOK, SendOK, Registering
<1>8. rec.at = "send_to" => rec.op = "send"
  BY DEF CallOK, CourseOK, OpsAt
<1> QED
  BY <1>1, <1>2, <1>4, <1>6, <1>7, <1>8 DEF CallOK, Registering, SameCall

\* The look for the workspace; a call that adds a member is looked at below.
LEMMA FindWorkspaceStep ==
  ASSUME Courses, NEW r \in Calls, FindWorkspace(r)
  PROVE  /\ Base(r) /\ BindQuiet(r) /\ RowsStay /\ UNCHANGED members
         /\ calls[r].op \in Opens /\ calls'[r].at \in {"done", "slot"} /\ calls'[r].answer # "200"
         /\ calls[r].op # "add" => OwnQuiet(r)
<1> PICK rec : rec = calls[r]
  OBVIOUS
<1>1. rec.at = "find" /\ UNCHANGED <<wsTables, racedBind, bindLog>>
  BY DEF FindWorkspace
<1>2. CallOK(rec) /\ rec.op \in Opens /\ IsCall(rec) /\ rec.op \notin {"list", "create", "send", "im"}
  <2>1. CallOK(rec)
    BY <1>1, UnderWayOK
  <2> QED
    BY <1>1, <2>1 DEF CallOK, CourseOK, OpsAt, Opens
<1>3. /\ disputed' \in BOOLEAN /\ racedBind' \in BOOLEAN
      /\ rec.op # "add" => disputed' = disputed
  <2>1. disputed' = (disputed \/ (rec.op = "add" /\ InCreation(r, rec.folder)))
    BY DEF FindWorkspace
  <2> QED
    BY <1>1, <2>1 DEF Courses, TablesOK
<1>4. ASSUME NEW new, calls' = [calls EXCEPT ![r] = new], CallOK(new), SameCall(rec, new),
             new.at \in {"done", "slot"}, new.answer # "200"
      PROVE  /\ Base(r) /\ BindQuiet(r) /\ RowsStay /\ UNCHANGED members
             /\ calls[r].op \in Opens /\ calls'[r].at \in {"done", "slot"} /\ calls'[r].answer # "200"
             /\ calls[r].op # "add" => OwnQuiet(r)
  <2>1. /\ Base(r) /\ calls'[r] = new /\ RowsStay
        /\ \A e \in Endpoints : TargetOf(e)' = TargetOf(e)
    BY <1>1, <1>3, <1>4, Moves
  <2>2. rec.op # "add" => Past(rec, new)
    BY <1>2, <1>4 DEF Past, Creating, SameCall
  <2> QED
    BY <1>1, <1>2, <1>3, <1>4, <2>1, <2>2 DEF BindQuiet, OwnQuiet, wsTables
<1>5. CASE \E j \in Having(rec.folder) : Set(r, AfterFind(rec, j))
  <2> PICK j \in Having(rec.folder) : Set(r, AfterFind(rec, j))
    BY <1>5
  <2> PICK new : new = AfterFind(rec, j)
    OBVIOUS
  <2>1. calls' = [calls EXCEPT ![r] = new]
    BY DEF Set
  <2>2. CallOK(new) /\ SameCall(rec, new) /\ new.at = "slot" /\ new.op = rec.op /\ new.answer = "none"
    BY <1>1, <1>2, AfterFindOK
  <2> QED
    BY <1>4, <2>1, <2>2
<1>6. CASE Answer(r, "404")
  <2> PICK new : new = Ended(rec, "404")
    OBVIOUS
  <2>1. calls' = [calls EXCEPT ![r] = new]
    BY <1>6 DEF Answer, Set
  <2>2. CallOK(new) /\ SameCall(rec, new) /\ new.at = "done" /\ new.op = rec.op /\ new.answer = "404"
    BY <1>1, <1>2, EndedOK
  <2> QED
    BY <1>4, <2>1, <2>2
<1> QED
  BY <1>5, <1>6 DEF FindWorkspace

-----------------------------------------------------------------------------
\* Where a call goes that may see the workspace
LEMMA ProceedsTo ==
  ASSUME NEW rec, rec.op \in Opens
  PROVE  \/ \E status \in {"400", "403", "404"} : Proceeds(rec) = Ended(rec, status)
         \/ \E at \in {"rename", "new_slot", "read", "endpoint", "role_change", "own_role", "member_get"} :
              Proceeds(rec) = Moved(rec, at) /\ rec.op \in OpsAt(at)
<1>1. CASE rec.op = "rename"
  BY <1>1 DEF Proceeds, Moved, OpsAt
<1>2. CASE rec.op = "new_slot"
  BY <1>2 DEF Proceeds, Moved, OpsAt
<1>3. CASE rec.op \in {"bind", "unbind"}
  BY <1>3 DEF Proceeds, Moved, OpsAt
<1>4. CASE rec.op = "members"
  BY <1>4 DEF Proceeds, Moved, OpsAt
<1>5. CASE rec.op = "add"
  BY <1>5 DEF Proceeds, Moved, OpsAt
<1>6. CASE rec.op = "remove"
  BY <1>6 DEF Proceeds, Moved, OpsAt
<1>7. CASE rec.op \in {"slots", "bindings"}
  BY <1>7 DEF Proceeds, Moved, OpsAt
<1> QED
  BY <1>1, <1>2, <1>3, <1>4, <1>5, <1>6, <1>7 DEF Opens

\* A call that moves on from a place past the find, not to a binding or an owner
LEMMA PlainMoves ==
  ASSUME Courses, NEW r \in Calls, NEW rec, rec = calls[r], rec.at \notin {"new", "find", "done"},
         NEW at, at \in Onwards, rec.op \in OpsAt(at), rec.op = "slots" => rec.at = "access",
         at \notin {"member_check", "merge", "delete", "binding"},
         UNCHANGED <<wsTables, wsHistory>>, Set(r, Moved(rec, at))
  PROVE  Quiet(r)
<1> PICK new : new = Moved(rec, at)
  OBVIOUS
<1>1. CallOK(rec) /\ rec.op # "create"
  <2>1. CallOK(rec)
    BY UnderWayOK
  <2> QED
    BY <2>1 DEF Onwards, OpsAt
<1>2. /\ CallOK(new) /\ SameCall(rec, new) /\ new.at = at /\ new.op = rec.op /\ new.answer = "none"
  BY <1>1, MovedOK
<1>3. calls' = [calls EXCEPT ![r] = new]
  BY DEF Set
<1>4. at # "store_in" /\ at \notin {"new", "binding"}
  BY DEF Onwards
<1>5. new.op # "create"
  BY <1>2 DEF Onwards, OpsAt
<1>6. Past(rec, new)
  BY <1>2, <1>5 DEF Past, Creating
<1> QED
  BY <1>2, <1>3, <1>4, <1>6, QuietMoves

\* The access check
LEMMA CheckAccessStep ==
  ASSUME Courses, NEW r \in Calls, CheckAccess(r)
  PROVE  Quiet(r)
<1> PICK rec : rec = calls[r]
  OBVIOUS
<1>1. rec.at = "access" /\ rec.op # "send" /\ UNCHANGED <<wsTables, wsHistory>>
  BY DEF CheckAccess
<1>2. rec.op \in Opens
  <2>1. CallOK(rec)
    BY <1>1, UnderWayOK
  <2> QED
    BY <1>1, <2>1 DEF CallOK, CourseOK, OpsAt
<1>3. ASSUME NEW status \in {"400", "403", "404"}, Set(r, Ended(rec, status))
      PROVE  Quiet(r)
  BY <1>1, <1>3, Ends DEF Answer
<1>4. CASE CanAccess(rec.by, rec.jid, rec.row)
  <2>1. Set(r, Proceeds(rec))
    BY <1>4 DEF CheckAccess
  <2>2. CASE \E status \in {"400", "403", "404"} : Proceeds(rec) = Ended(rec, status)
    BY <1>3, <2>1, <2>2
  <2>3. CASE \E at \in {"rename", "new_slot", "read", "endpoint", "role_change", "own_role", "member_get"} :
               Proceeds(rec) = Moved(rec, at) /\ rec.op \in OpsAt(at)
    <3> PICK at \in {"rename", "new_slot", "read", "endpoint", "role_change", "own_role", "member_get"} :
               Proceeds(rec) = Moved(rec, at) /\ rec.op \in OpsAt(at)
      BY <2>3
    <3>1. at \in Onwards /\ at \notin {"member_check", "merge", "delete", "binding"}
      BY DEF Onwards
    <3> QED
      BY <1>1, <2>1, <3>1, PlainMoves
  <2> QED
    BY <1>2, <2>2, <2>3, ProceedsTo
<1>5. CASE ~CanAccess(rec.by, rec.jid, rec.row)
  <2>1. Set(r, Ended(rec, "404"))
    BY <1>5 DEF CheckAccess
  <2> QED
    BY <1>3, <2>1
<1> QED
  BY <1>4, <1>5

\* A call that ends with a change of the tables
LEMMA EndsBase ==
  ASSUME Courses, NEW r \in Calls, calls[r].at \notin {"new", "done"}, NEW status,
         status = "200" => calls[r].op # "slots", TablesOK', Grows, Answer(r, status)
  PROVE  /\ Base(r) /\ calls'[r].at = "done" /\ calls'[r].op = calls[r].op
         /\ calls'[r].answer = status
<1> PICK rec : rec = calls[r]
  OBVIOUS
<1> PICK new : new = Ended(rec, status)
  OBVIOUS
<1>1. CallOK(rec)
  BY UnderWayOK
<1>2. CallOK(new) /\ SameCall(rec, new) /\ new.at = "done" /\ new.op = rec.op /\ new.answer = status
  BY <1>1, EndedOK
<1>3. calls' = [calls EXCEPT ![r] = new]
  BY DEF Answer, Set
<1>4. bindLog \in Seq(BindingType) /\ bindLog' \in Seq(BindingType)
  BY DEF Courses, TablesOK
<1>5. CallOK(new)'
  BY <1>2, <1>4, CallKept
<1>6. CallsOK' /\ Others(r) /\ calls'[r] = new
  BY <1>2, <1>3, <1>4, <1>5, CallsKept DEF Courses
<1> QED
  BY <1>2, <1>6 DEF Base, Courses

\* The length of the log, unless it changes
LEMMA LogStays ==
  ASSUME Courses, bindLog' = bindLog
  PROVE  Len(bindLog) <= Len(bindLog')
<1>1. bindLog \in Seq(BindingType)
  BY DEF Courses, TablesOK
<1>2. Len(bindLog) \in Nat
  BY <1>1
<1> QED
  BY <1>2

\* A rename changes the name only.
LEMMA RenameWorkspaceStep ==
  ASSUME Courses, NEW r \in Calls, RenameWorkspace(r)
  PROVE  Quiet(r)
<1> PICK jid : jid = calls[r].jid
  OBVIOUS
<1> PICK name : name = <<"call", r>>
  OBVIOUS
<1>1. /\ calls[r].at = "rename" /\ groups' = [groups EXCEPT ![jid].name = name]
      /\ Answer(r, "200") /\ UNCHANGED <<members, slots, wsHistory>>
  BY DEF RenameWorkspace
<1>2. UNCHANGED <<bindLog, racedBind, disputed>>
  BY <1>1 DEF wsHistory
<1>3. calls[r].op = "rename" /\ jid \in DOMAIN groups
  <2>1. CallOK(calls[r])
    BY <1>1, UnderWayOK
  <2> QED
    BY <1>1, <2>1 DEF CallOK, CourseOK, OpsAt, OpenOK, Opens
<1>4. /\ DOMAIN groups' = DOMAIN groups /\ groups' = [j \in DOMAIN groups' |-> groups'[j]]
      /\ groups'[jid] = [groups[jid] EXCEPT !.name = name]
      /\ \A j \in DOMAIN groups : j # jid => groups'[j] = groups[j]
  BY <1>1, <1>3 DEF Courses, TablesOK
<1>5. IsRow(groups[jid])
  BY <1>3 DEF Courses, TablesOK
<1>6. /\ IsRow([groups[jid] EXCEPT !.name = name])
      /\ [groups[jid] EXCEPT !.name = name].by = groups[jid].by
      /\ [groups[jid] EXCEPT !.name = name].target = groups[jid].target
      /\ [groups[jid] EXCEPT !.name = name].folder = groups[jid].folder
  BY <1>5 DEF IsRow
<1>7. \A j \in DOMAIN groups : /\ IsRow(groups'[j]) /\ groups'[j].by = groups[j].by
                               /\ groups'[j].target = groups[j].target
                               /\ groups'[j].folder = groups[j].folder
  BY <1>4, <1>6 DEF Courses, TablesOK
<1>8. TablesOK'
  <2>1. ASSUME NEW j \in DOMAIN groups'
        PROVE  /\ groups'[j].target = Unbound
                    \/ (groups'[j].target \in DOMAIN groups' /\ IsWeb(groups'[j].target))
               /\ j \notin ImJids => groups'[j].by \in Users
               /\ j \in Ids /\ groups'[j].folder \in FoldersOf(j)
    <3>1. /\ j \in DOMAIN groups /\ groups'[j].target = groups[j].target /\ groups'[j].by = groups[j].by
          /\ groups'[j].folder = groups[j].folder
      BY <1>4, <1>7
    <3> QED
      BY <1>4, <3>1 DEF Courses, TablesOK
  <2>2. ASSUME NEW k \in DOMAIN members'
        PROVE  k = <<k[1], k[2]>> /\ JidOf(k[1]) \in DOMAIN groups'
    BY <1>1, <1>4 DEF Courses, TablesOK
  <2>3. /\ members' = [k \in DOMAIN members' |-> members'[k]] /\ bindLog' \in Seq(BindingType)
        /\ disputed' \in BOOLEAN /\ racedBind' \in BOOLEAN
    BY <1>1, <1>2 DEF Courses, TablesOK
  <2> QED
    BY <1>4, <1>7, <2>1, <2>2, <2>3 DEF TablesOK
<1>9. Grows
  BY <1>1, <1>2, <1>4, LogStays DEF Grows
<1>10. Base(r) /\ calls'[r].at = "done" /\ calls'[r].op = calls[r].op
  BY <1>1, <1>3, <1>8, <1>9, EndsBase
<1>11. \A e \in Endpoints : TargetOf(e)' = TargetOf(e)
  BY <1>4, <1>7 DEF TargetOf
<1>12. RowsStay
  BY <1>4, <1>7 DEF RowsStay
<1>13. Past(calls[r], calls'[r])
  BY <1>3, <1>10 DEF Past, Creating
<1> QED
  BY <1>1, <1>2, <1>10, <1>11, <1>12, <1>13 DEF Quiet, BindQuiet, OwnQuiet

\* create_slot looks for the slot.
LEMMA GetSlotStep ==
  ASSUME Courses, NEW r \in Calls, GetSlot(r)
  PROVE  Quiet(r)
<1> PICK rec : rec = calls[r]
  OBVIOUS
<1>1. rec.at = "new_slot" /\ UNCHANGED <<wsTables, wsHistory>>
  BY DEF GetSlot
<1>2. rec.op = "new_slot"
  <2>1. CallOK(rec)
    BY <1>1, UnderWayOK
  <2> QED
    BY <1>1, <2>1 DEF CallOK, CourseOK, OpsAt
<1>3. CASE <<rec.folder, rec.arg[1]>> \in slots
  <2>1. Answer(r, "200")
    BY <1>3 DEF GetSlot
  <2> QED
    BY <1>1, <1>2, <2>1, Ends
<1>4. CASE <<rec.folder, rec.arg[1]>> \notin slots
  <2>1. Set(r, Moved(rec, "new_slot_insert"))
    BY <1>4 DEF GetSlot, Goto, Moved
  <2>2. "new_slot_insert" \in Onwards /\ rec.op \in OpsAt("new_slot_insert")
    BY <1>2 DEF Onwards, OpsAt
  <2> QED
    BY <1>1, <1>2, <2>1, <2>2, PlainMoves
<1> QED
  BY <1>3, <1>4

\* create_slot writes the slot.
LEMMA InsertSlotStep ==
  ASSUME Courses, NEW r \in Calls, InsertSlot(r)
  PROVE  Quiet(r)
<1> PICK k : k = <<calls[r].folder, calls[r].arg[1]>>
  OBVIOUS
<1> PICK status : status = IF k \in slots THEN "500" ELSE "200"
  OBVIOUS
<1>1. /\ calls[r].at = "new_slot_insert" /\ Answer(r, status) /\ slots' = slots \cup {k}
      /\ UNCHANGED <<groups, members, wsHistory>>
  BY DEF InsertSlot
<1>2. UNCHANGED <<bindLog, racedBind, disputed>>
  BY <1>1 DEF wsHistory
<1>3. calls[r].op = "new_slot"
  <2>1. CallOK(calls[r])
    BY <1>1, UnderWayOK
  <2> QED
    BY <1>1, <2>1 DEF CallOK, CourseOK, OpsAt
<1>4. TablesOK'
  BY <1>1, <1>2 DEF Courses, TablesOK
<1>5. Grows
  BY <1>1, <1>2, LogStays DEF Grows
<1>6. Base(r) /\ calls'[r].at = "done" /\ calls'[r].op = calls[r].op
  BY <1>1, <1>3, <1>4, <1>5, EndsBase
<1>7. Past(calls[r], calls'[r])
  BY <1>3, <1>6 DEF Past, Creating
<1>8. RowsStay /\ \A e \in Endpoints : TargetOf(e)' = TargetOf(e)
  BY <1>1 DEF RowsStay, TargetOf
<1> QED
  BY <1>1, <1>2, <1>6, <1>7, <1>8 DEF Quiet, BindQuiet, OwnQuiet

\* A call that changes no table and moves on near an owner or a binding
LEMMA NearMoves ==
  ASSUME Courses, NEW r \in Calls, NEW rec, rec = calls[r], rec.at \notin {"new", "find", "done"},
         NEW at, at \in Onwards, rec.op \in OpsAt(at), rec.op \notin {"slots", "create"},
         at = "binding" => Im(rec.arg[1]) \in DOMAIN groups,
         UNCHANGED <<wsTables, bindLog, disputed>>, racedBind' \in BOOLEAN, Set(r, Moved(rec, at))
  PROVE  /\ Base(r) /\ calls'[r].at = at /\ calls'[r].answer = "none" /\ RowsStay
         /\ calls'[r].op = rec.op /\ calls'[r].jid = rec.jid /\ calls'[r].folder = rec.folder /\ calls'[r].arg = rec.arg
         /\ calls'[r].seen = rec.seen
         /\ \A e \in Endpoints : TargetOf(e)' = TargetOf(e)
<1> PICK new : new = Moved(rec, at)
  OBVIOUS
<1>1. CallOK(rec)
  BY UnderWayOK
<1>2. /\ CallOK(new) /\ SameCall(rec, new) /\ new.at = at /\ new.op = rec.op /\ new.answer = "none"
      /\ new.jid = rec.jid /\ new.folder = rec.folder /\ new.arg = rec.arg /\ new.seen = rec.seen
  BY <1>1, MovedOK
<1>3. calls' = [calls EXCEPT ![r] = new]
  BY DEF Set
<1>4. at # "new"
  BY DEF Onwards
<1>5. disputed' \in BOOLEAN
  BY DEF Courses, TablesOK
<1>6. UNCHANGED <<wsTables, bindLog>> /\ new.at # "new" /\ CallOK(new)
      /\ (rec.at = "new" \/ SameCall(rec, new)) /\ racedBind' \in BOOLEAN
  BY <1>2, <1>4
<1>7. /\ Base(r) /\ calls'[r] = new /\ RowsStay
      /\ \A e \in Endpoints : TargetOf(e)' = TargetOf(e)
  BY ONLY Courses, r \in Calls, rec = calls[r], <1>3, <1>5, <1>6, Moves
<1> QED
  BY <1>2, <1>7

\* The look at the owner role before a member is added
LEMMA CheckRoleChangeStep ==
  ASSUME Courses, NEW r \in Calls, CheckRoleChange(r)
  PROVE  /\ Base(r) /\ BindQuiet(r) /\ RowsStay /\ UNCHANGED <<members, disputed>>
         /\ calls[r].op = "add" /\ calls'[r].at \in {"done", "member_check"}
         /\ calls'[r].at = "done" => OwnQuiet(r)
<1> PICK rec : rec = calls[r]
  OBVIOUS
<1>1. rec.at = "role_change" /\ UNCHANGED <<wsTables, wsHistory>>
  BY DEF CheckRoleChange
<1>2. UNCHANGED <<bindLog, racedBind, disputed, members>> /\ racedBind' \in BOOLEAN
  BY <1>1 DEF wsHistory, wsTables, Courses, TablesOK
<1>3. rec.op = "add"
  <2>1. CallOK(rec)
    BY <1>1, UnderWayOK
  <2> QED
    BY <1>1, <2>1 DEF CallOK, CourseOK, OpsAt
<1>4. CASE RoleChangeSupported(RoleAsked(rec), RoleNow(rec))
  <2>1. Set(r, Moved(rec, "member_check"))
    BY <1>4 DEF CheckRoleChange, Goto, Moved
  <2>2. "member_check" \in Onwards /\ rec.op \in OpsAt("member_check")
    BY <1>3 DEF Onwards, OpsAt
  <2>3. /\ Base(r) /\ calls'[r].at = "member_check" /\ RowsStay
        /\ calls'[r].op = rec.op
        /\ \A e \in Endpoints : TargetOf(e)' = TargetOf(e)
    BY <1>1, <1>2, <1>3, <2>1, <2>2, NearMoves
  <2> QED
    BY <1>2, <1>3, <2>3 DEF BindQuiet
<1>5. CASE ~RoleChangeSupported(RoleAsked(rec), RoleNow(rec))
  <2>1. Answer(r, "400")
    BY <1>5 DEF CheckRoleChange
  <2>2. Quiet(r) /\ calls'[r].at = "done"
    BY <1>1, <1>3, <2>1, Ends
  <2> QED
    BY <1>3, <2>2 DEF Quiet, OwnQuiet
<1> QED
  BY <1>4, <1>5

SeenAs(rec, role) == [rec EXCEPT !.at = "merge", !.seen = role]

\* add_member has looked for the member.
LEMMA CheckMemberStep ==
  ASSUME Courses, NEW r \in Calls, CheckMember(r)
  PROVE  /\ Base(r) /\ BindQuiet(r) /\ RowsStay /\ UNCHANGED <<members, disputed>>
         /\ calls[r].at = "member_check" /\ calls[r].op \in {"add", "create"}
         /\ calls'[r].at \in {"done", "merge"}
         /\ calls'[r].at = "merge" => calls'[r].seen = RoleNow(calls[r]) /\ calls'[r].answer = "none"
         /\ calls'[r].at = "done" => OwnQuiet(r)
<1> PICK rec : rec = calls[r]
  OBVIOUS
<1> PICK role : role = RoleNow(rec)
  OBVIOUS
<1>1. rec.at = "member_check" /\ UNCHANGED <<wsTables, wsHistory>>
  BY DEF CheckMember
<1>2. UNCHANGED <<bindLog, racedBind, disputed, members>> /\ racedBind' \in BOOLEAN
      /\ disputed' \in BOOLEAN
  BY <1>1 DEF wsHistory, wsTables, Courses, TablesOK
<1>3. CallOK(rec) /\ rec.op \in {"add", "create"} /\ IsCall(rec) /\ rec.answer = "none"
  <2>1. CallOK(rec)
    BY <1>1, UnderWayOK
  <2> QED
    BY <1>1, <2>1 DEF CallOK, CourseOK, OpsAt
<1>4. CASE role # NoRole /\ ((RoleAsked(rec) = "owner") # (role = "owner"))
  <2>1. Answer(r, "400")
    BY <1>4 DEF CheckMember, Answer
  <2>2. Quiet(r) /\ calls'[r].at = "done"
    BY <1>1, <1>3, <2>1, Ends
  <2> QED
    BY <1>1, <1>3, <2>2 DEF Quiet, OwnQuiet
<1>5. CASE ~(role # NoRole /\ ((RoleAsked(rec) = "owner") # (role = "owner")))
  <2> PICK new : new = SeenAs(rec, role)
    OBVIOUS
  <2>1. calls' = [calls EXCEPT ![r] = new]
    BY <1>5 DEF CheckMember, Set, SeenAs
  <2>2. /\ new.at = "merge" /\ new.op = rec.op /\ new.answer = rec.answer
        /\ new.by = rec.by /\ new.jid = rec.jid /\ new.folder = rec.folder /\ new.arg = rec.arg /\ new.then = rec.then
        /\ new.reg = rec.reg /\ new.seen = role /\ new.from = rec.from
    BY <1>3 DEF IsCall, CallFields, SeenAs
  <2>3. new = [f \in CallFields |-> new[f]]
    BY <1>3 DEF IsCall, CallFields, SeenAs
  <2>4. IsCall(new)
    BY <1>3, <2>2, <2>3 DEF IsCall
  <2>5. CourseOK(new)
    BY <1>3, <2>2 DEF CallOK, CourseOK, OpsAt, Registering, AtSlot
  <2>6. new.op \in Opens => OpenOK(new)
    BY <1>1, <1>3, <2>2 DEF CallOK, OpenOK, AtSlot
  <2>7. new.op = "create" => CreateOK(new)
    BY <1>1, <1>3, <2>2 DEF CallOK, CreateOK
  <2>8. CallOK(new)
    BY <1>3, <2>2, <2>4, <2>5, <2>6, <2>7 DEF CallOK, Registering
  <2>9. SameCall(rec, new) /\ new.at # "new"
    BY <2>2 DEF SameCall
  <2>10. UNCHANGED <<wsTables, bindLog>>
    BY <1>1, <1>2
  <2>11. /\ Base(r) /\ calls'[r] = new /\ RowsStay
         /\ \A e \in Endpoints : TargetOf(e)' = TargetOf(e)
    BY <1>2, <2>1, <2>8, <2>9, <2>10, Moves
  <2> QED
    BY <1>1, <1>2, <1>3, <2>2, <2>11 DEF BindQuiet
<1> QED
  BY <1>4, <1>5

\* The members change, or not, and the call ends.
LEMMA MembersBase ==
  ASSUME Courses, NEW r \in Calls, calls[r].at \notin {"new", "done"}, NEW status,
         calls[r].op # "slots", Answer(r, status), UNCHANGED <<groups, slots, wsHistory>>,
         members' = [k \in DOMAIN members' |-> members'[k]],
         \A k \in DOMAIN members' : k = <<k[1], k[2]>> /\ JidOf(k[1]) \in DOMAIN groups
  PROVE  /\ Base(r) /\ BindQuiet(r) /\ RowsStay /\ UNCHANGED disputed
         /\ calls'[r].at = "done" /\ calls'[r].op = calls[r].op /\ calls'[r].answer = status
<1>1. UNCHANGED <<bindLog, racedBind, disputed>>
  BY DEF wsHistory
<1>2. TablesOK'
  BY <1>1 DEF Courses, TablesOK
<1>3. Grows
  BY <1>1, LogStays DEF Grows
<1>4. /\ Base(r) /\ calls'[r].at = "done" /\ calls'[r].op = calls[r].op
      /\ calls'[r].answer = status
  BY <1>2, <1>3, EndsBase
<1>5. RowsStay /\ \A e \in Endpoints : TargetOf(e)' = TargetOf(e)
  BY DEF RowsStay, TargetOf
<1> QED
  BY <1>1, <1>4, <1>5 DEF BindQuiet

\* The role a call writes
Written(r) ==
  LET k == <<calls[r].folder, Subject(calls[r])>> IN
  members' = [m \in DOMAIN members \cup {k} |-> IF m = k THEN RoleAsked(calls[r]) ELSE members[m]]

\* add_member writes the role, finds it written, or fails.
LEMMA MergeMemberStep ==
  ASSUME Courses, NEW r \in Calls, MergeMember(r)
  PROVE  /\ Base(r) /\ BindQuiet(r) /\ RowsStay /\ UNCHANGED disputed
         /\ calls[r].at = "merge" /\ calls[r].op \in {"add", "create"}
         /\ calls'[r].at = "done" /\ calls'[r].op = calls[r].op
         /\ Written(r) \/ members' = members
         /\ calls[r].seen = NoRole /\ calls'[r].answer = "200" => Written(r)
<1> PICK rec : rec = calls[r]
  OBVIOUS
<1> PICK k : k = <<rec.folder, Subject(rec)>>
  OBVIOUS
<1>1. rec.at = "merge" /\ UNCHANGED <<groups, slots, wsHistory>>
  BY DEF MergeMember
<1>2. /\ CallOK(rec) /\ rec.op \in {"add", "create"} /\ rec.op # "slots"
  <2>1. CallOK(rec)
    BY <1>1, UnderWayOK
  <2> QED
    BY <1>1, <2>1 DEF CallOK, CourseOK, OpsAt
<1>3. PICK status \in {"200", "500"} :
        /\ Answer(r, status)
        /\ Written(r) \/ (members' = members /\ (status = "500" \/ rec.seen # NoRole))
  <2>1. CASE rec.seen = NoRole
    BY <2>1 DEF MergeMember, Written
  <2>2. CASE rec.seen # NoRole
    BY <2>2 DEF MergeMember, Written
  <2> QED
    BY <2>1, <2>2
<1>4. CASE members' = members /\ (status = "500" \/ rec.seen # NoRole)
  <2>1. /\ members' = [m \in DOMAIN members' |-> members'[m]]
        /\ \A m \in DOMAIN members' : m = <<m[1], m[2]>> /\ JidOf(m[1]) \in DOMAIN groups
    BY <1>4 DEF Courses, TablesOK
  <2>2. /\ Base(r) /\ BindQuiet(r) /\ RowsStay /\ UNCHANGED disputed
        /\ calls'[r].at = "done" /\ calls'[r].op = calls[r].op /\ calls'[r].answer = status
    BY <1>1, <1>2, <1>3, <2>1, MembersBase
  <2> QED
    BY <1>1, <1>2, <1>4, <2>2
<1>5. CASE Written(r)
  <2>1. DOMAIN members' = DOMAIN members \cup {k} /\ members' = [m \in DOMAIN members' |-> members'[m]]
    BY <1>5 DEF Written
  <2>2. k = <<k[1], k[2]>> /\ k[1] = rec.folder
    OBVIOUS
  <2>3. JidOf(rec.folder) \in DOMAIN groups
    <3>1. CASE rec.op = "add"
      BY <1>1, <1>2, <3>1 DEF CallOK, OpenOK, Opens
    <3>2. CASE rec.op = "create"
      <4>1. CreateOK(rec)
        BY <1>2, <3>2 DEF CallOK
      <4> QED
        BY <1>1, <4>1 DEF CreateOK
    <3> QED
      BY <1>2, <3>1, <3>2
  <2>4. \A m \in DOMAIN members' : m = <<m[1], m[2]>> /\ JidOf(m[1]) \in DOMAIN groups
    BY <2>1, <2>2, <2>3 DEF Courses, TablesOK
  <2>5. /\ Base(r) /\ BindQuiet(r) /\ RowsStay /\ UNCHANGED disputed
        /\ calls'[r].at = "done" /\ calls'[r].op = calls[r].op /\ calls'[r].answer = status
    BY <1>1, <1>2, <1>3, <2>1, <2>4, MembersBase
  <2> QED
    BY <1>1, <1>2, <1>5, <2>5
<1> QED
  BY <1>3, <1>4, <1>5

\* A member who leaves is no owner.
LEMMA CheckOwnRoleStep ==
  ASSUME Courses, NEW r \in Calls, CheckOwnRole(r)
  PROVE  Quiet(r)
<1> PICK rec : rec = calls[r]
  OBVIOUS
<1>1. rec.at = "own_role" /\ UNCHANGED <<wsTables, wsHistory>>
  BY DEF CheckOwnRole
<1>2. rec.op = "remove"
  <2>1. CallOK(rec)
    BY <1>1, UnderWayOK
  <2> QED
    BY <1>1, <2>1 DEF CallOK, CourseOK, OpsAt
<1>3. \/ \E status \in {"404", "400"} : Answer(r, status)
      \/ Set(r, Moved(rec, "member_get"))
  BY DEF CheckOwnRole, Goto, Moved
<1>4. ASSUME NEW status \in {"404", "400"}, Answer(r, status) PROVE Quiet(r)
  BY <1>1, <1>4, Ends
<1>5. ASSUME Set(r, Moved(rec, "member_get")) PROVE Quiet(r)
  <2>1. "member_get" \in Onwards /\ rec.op \in OpsAt("member_get")
    BY <1>2 DEF Onwards, OpsAt
  <2> QED
    BY <1>1, <1>2, <1>5, <2>1, PlainMoves
<1> QED
  BY <1>3, <1>4, <1>5

\* remove_member has looked at the role: whoever is deleted was there, and was no owner.
LEMMA GetMemberStep ==
  ASSUME Courses, NEW r \in Calls, GetMember(r)
  PROVE  /\ Base(r) /\ BindQuiet(r) /\ RowsStay /\ UNCHANGED <<members, disputed>>
         /\ calls[r].op = "remove" /\ calls[r].at = "member_get" /\ calls'[r].at \in {"done", "delete"}
         /\ calls'[r].at = "delete" => RoleNow(calls[r]) \notin {NoRole, "owner"}
         /\ calls'[r].at = "done" => OwnQuiet(r)
<1> PICK rec : rec = calls[r]
  OBVIOUS
<1>1. rec.at = "member_get" /\ UNCHANGED <<wsTables, wsHistory>>
  BY DEF GetMember
<1>2. UNCHANGED <<bindLog, racedBind, disputed, members>> /\ racedBind' \in BOOLEAN
  BY <1>1 DEF wsHistory, wsTables, Courses, TablesOK
<1>3. rec.op = "remove"
  <2>1. CallOK(rec)
    BY <1>1, UnderWayOK
  <2> QED
    BY <1>1, <2>1 DEF CallOK, CourseOK, OpsAt
<1>4. \/ \E status \in {"404", "400", "500"} : Answer(r, status)
      \/ Set(r, Moved(rec, "delete")) /\ RoleNow(rec) \notin {NoRole, "owner"}
  <2>1. CASE RoleNow(rec) \in {NoRole, "owner"}
    BY <2>1 DEF GetMember
  <2>2. CASE RoleNow(rec) \notin {NoRole, "owner"}
    BY <2>2 DEF GetMember, Goto, Moved
  <2> QED
    BY <2>1, <2>2
<1>5. CASE \E status \in {"404", "400", "500"} : Answer(r, status)
  <2> PICK status \in {"404", "400", "500"} : Answer(r, status)
    BY <1>5
  <2>1. Quiet(r) /\ calls'[r].at = "done"
    BY <1>1, <1>3, Ends
  <2> QED
    BY <1>1, <1>3, <2>1 DEF Quiet, OwnQuiet
<1>6. CASE Set(r, Moved(rec, "delete")) /\ RoleNow(rec) \notin {NoRole, "owner"}
  <2>1. "delete" \in Onwards /\ rec.op \in OpsAt("delete")
    BY <1>3 DEF Onwards, OpsAt
  <2>2. /\ Base(r) /\ calls'[r].at = "delete" /\ RowsStay
        /\ calls'[r].op = rec.op
        /\ \A e \in Endpoints : TargetOf(e)' = TargetOf(e)
    BY <1>1, <1>2, <1>3, <1>6, <2>1, NearMoves
  <2> QED
    BY <1>1, <1>2, <1>3, <1>6, <2>2 DEF BindQuiet
<1> QED
  BY <1>4, <1>5, <1>6

\* remove_member deletes the row.
LEMMA DeleteMemberStep ==
  ASSUME Courses, NEW r \in Calls, DeleteMember(r)
  PROVE  /\ Base(r) /\ BindQuiet(r) /\ RowsStay /\ UNCHANGED disputed
         /\ calls[r].op = "remove" /\ calls[r].at = "delete" /\ calls'[r].at = "done"
         /\ calls'[r].op = "remove"
         /\ members' = [k \in DOMAIN members \ {<<calls[r].folder, Subject(calls[r])>>} |-> members[k]]
<1>1. /\ calls[r].at = "delete" /\ Answer(r, "200") /\ UNCHANGED <<groups, slots, wsHistory>>
      /\ members' = [k \in DOMAIN members \ {<<calls[r].folder, Subject(calls[r])>>} |-> members[k]]
  BY DEF DeleteMember
<1>2. calls[r].op = "remove"
  <2>1. CallOK(calls[r])
    BY <1>1, UnderWayOK
  <2> QED
    BY <1>1, <2>1 DEF CallOK, CourseOK, OpsAt
<1>3. members' = [k \in DOMAIN members' |-> members'[k]] /\ DOMAIN members' \subseteq DOMAIN members
  BY <1>1
<1>4. \A k \in DOMAIN members' : k = <<k[1], k[2]>> /\ JidOf(k[1]) \in DOMAIN groups
  BY <1>3 DEF Courses, TablesOK
<1>5. /\ Base(r) /\ BindQuiet(r) /\ RowsStay /\ UNCHANGED disputed
      /\ calls'[r].at = "done" /\ calls'[r].op = calls[r].op
  BY <1>1, <1>2, <1>3, <1>4, MembersBase
<1> QED
  BY <1>1, <1>2, <1>5

\* The look at the endpoint: a change that goes on has seen that it may.
LEMMA GetEndpointStep ==
  ASSUME Courses, NEW r \in Calls, GetEndpoint(r)
  PROVE  /\ Base(r) /\ OwnQuiet(r) /\ UNCHANGED bindLog
         /\ \A e \in Endpoints : TargetOf(e)' = TargetOf(e)
         /\ calls[r].op \in {"bind", "unbind"} /\ calls[r].at = "endpoint"
         /\ calls'[r].at \in {"done", "binding"} /\ calls'[r].op = calls[r].op
         /\ calls'[r].at = "binding" =>
              /\ Im(calls[r].arg[1]) \in DOMAIN groups
              /\ IF calls[r].op = "unbind" THEN groups[Im(calls[r].arg[1])].target = calls[r].jid
                 ELSE Free(groups[Im(calls[r].arg[1])].target)
         /\ racedBind' = (racedBind \/ \E q \in Calls :
              calls[q].at = "binding" /\ calls[q].arg = calls[r].arg)
<1> PICK rec : rec = calls[r]
  OBVIOUS
<1> PICK j : j = Im(rec.arg[1])
  OBVIOUS
<1>1. /\ rec.at = "endpoint" /\ UNCHANGED <<wsTables, disputed, bindLog>>
      /\ racedBind' = (racedBind \/ \E q \in Calls : calls[q].at = "binding" /\ calls[q].arg = rec.arg)
  BY DEF GetEndpoint
<1>2. racedBind' \in BOOLEAN /\ disputed' \in BOOLEAN
  <2>1. racedBind' \in BOOLEAN
    BY <1>1
  <2>2. disputed' \in BOOLEAN
    BY <1>1 DEF Courses, TablesOK
  <2> QED
    BY <2>1, <2>2
<1>3. rec.op \in {"bind", "unbind"} /\ CallOK(rec)
  <2>1. CallOK(rec)
    BY <1>1, UnderWayOK
  <2> QED
    BY <1>1, <2>1 DEF CallOK, CourseOK, OpsAt
<1>4. \/ \E status \in {"404", "400", "409", "200"} : Set(r, Ended(rec, status))
      \/ /\ Set(r, Moved(rec, "binding")) /\ j \in DOMAIN groups
         /\ rec.op = "unbind" => groups[j].target = rec.jid
         /\ rec.op # "unbind" => Free(groups[j].target)
  <2>1. CASE j \notin DOMAIN groups
    BY <2>1 DEF GetEndpoint
  <2>2. CASE j \in DOMAIN groups /\ rec.op = "unbind"
    BY <2>2 DEF GetEndpoint, Moved
  <2>3. CASE j \in DOMAIN groups /\ rec.op # "unbind"
    BY <2>3 DEF GetEndpoint, Moved
  <2> QED
    BY <2>1, <2>2, <2>3
<1>5. CASE \E status \in {"404", "400", "409", "200"} : Set(r, Ended(rec, status))
  <2> PICK status \in {"404", "400", "409", "200"} : Set(r, Ended(rec, status))
    BY <1>5
  <2> PICK new : new = Ended(rec, status)
    OBVIOUS
  <2>1. CallOK(new) /\ SameCall(rec, new) /\ new.at = "done" /\ new.op = rec.op
    BY <1>1, <1>3, EndedOK
  <2>2. calls' = [calls EXCEPT ![r] = new] /\ UNCHANGED <<wsTables, bindLog>>
    BY <1>1 DEF Set
  <2>3. new.at # "new" /\ (rec.at = "new" \/ SameCall(rec, new))
    BY <2>1
  <2>4. /\ Base(r) /\ calls'[r] = new /\ RowsStay
        /\ \A e \in Endpoints : TargetOf(e)' = TargetOf(e)
    BY ONLY Courses, r \in Calls, rec = calls[r], <1>2, <2>1, <2>2, <2>3, Moves
  <2>5. OwnQuiet(r)
    <3>1. Past(rec, new)
      BY <1>3, <2>1 DEF Past, Creating
    <3> QED
      BY <1>1, <2>4, <3>1 DEF OwnQuiet, wsTables
  <2> QED
    BY <1>1, <1>3, <2>1, <2>4, <2>5
<1>6. CASE /\ Set(r, Moved(rec, "binding")) /\ j \in DOMAIN groups
           /\ rec.op = "unbind" => groups[j].target = rec.jid
           /\ rec.op # "unbind" => Free(groups[j].target)
  <2>1. "binding" \in Onwards /\ rec.op \in OpsAt("binding")
    BY <1>3 DEF Onwards, OpsAt
  <2>2. /\ Base(r) /\ calls'[r].at = "binding" /\ RowsStay
        /\ calls'[r].op = rec.op
        /\ \A e \in Endpoints : TargetOf(e)' = TargetOf(e)
    BY <1>1, <1>2, <1>3, <1>6, <2>1, NearMoves
  <2>3. OwnQuiet(r)
    <3>1. Past(rec, calls'[r])
      BY <1>3, <2>2 DEF Past, Creating
    <3> QED
      BY <1>1, <2>2, <3>1 DEF OwnQuiet, wsTables
  <2> QED
    BY <1>1, <1>3, <1>6, <2>2, <2>3
<1> QED
  BY <1>4, <1>5, <1>6

\* A binding is written, and logged.
LEMMA WriteBindingStep ==
  ASSUME Courses, NEW r \in Calls, WriteBinding(r)
  PROVE  /\ Base(r) /\ OwnQuiet(r) /\ UNCHANGED racedBind
         /\ calls[r].op \in {"bind", "unbind"} /\ calls[r].at = "binding"
         /\ calls'[r].at = "done" /\ calls'[r].op = calls[r].op
         /\ \E e \in Endpoints, to \in WebJids \cup {Unbound} :
              /\ e = calls[r].arg[1] /\ to = (IF calls[r].op = "bind" THEN calls[r].jid ELSE Unbound)
              /\ bindLog' = Append(bindLog, [endpoint |-> e, to |-> to, for |-> calls[r].jid])
              /\ TargetOf(e)' = to
              /\ \A d \in Endpoints \ {e} : TargetOf(d)' = TargetOf(d)
<1> PICK rec : rec = calls[r]
  OBVIOUS
<1> PICK e : e = rec.arg[1]
  OBVIOUS
<1> PICK to : to = IF rec.op = "bind" THEN rec.jid ELSE Unbound
  OBVIOUS
<1> PICK j : j = Im(e)
  OBVIOUS
<1> PICK entry : entry = [endpoint |-> e, to |-> to, for |-> rec.jid]
  OBVIOUS
<1>1. /\ rec.at = "binding" /\ UNCHANGED <<members, slots, disputed, racedBind>>
      /\ groups' = [groups EXCEPT ![j].target = to] /\ bindLog' = Append(bindLog, entry)
      /\ Answer(r, "200")
  BY DEF WriteBinding
<1>2. /\ rec.op \in {"bind", "unbind"} /\ CallOK(rec) /\ OpenOK(rec) /\ e \in Endpoints
      /\ j \in DOMAIN groups /\ rec.jid \in DOMAIN groups /\ rec.jid \in WebJids
      /\ to \in WebJids \cup {Unbound}
  <2>1. CallOK(rec)
    BY <1>1, UnderWayOK
  <2>2. rec.op \in {"bind", "unbind"} /\ OpenOK(rec)
    BY <1>1, <2>1 DEF CallOK, CourseOK, OpsAt, Opens
  <2> QED
    BY <1>1, <2>1, <2>2 DEF OpenOK
<1>3. /\ DOMAIN groups' = DOMAIN groups /\ groups' = [i \in DOMAIN groups' |-> groups'[i]]
      /\ groups'[j] = [groups[j] EXCEPT !.target = to]
      /\ \A i \in DOMAIN groups : i # j => groups'[i] = groups[i]
  BY <1>1, <1>2 DEF Courses, TablesOK
<1>4. IsRow(groups[j])
  BY <1>2 DEF Courses, TablesOK
<1>5. /\ IsRow([groups[j] EXCEPT !.target = to])
      /\ [groups[j] EXCEPT !.target = to].by = groups[j].by
      /\ [groups[j] EXCEPT !.target = to].target = to
      /\ [groups[j] EXCEPT !.target = to].folder = groups[j].folder
  BY <1>4 DEF IsRow
<1>6. \A i \in DOMAIN groups : /\ IsRow(groups'[i]) /\ groups'[i].by = groups[i].by
                               /\ groups'[i].folder = groups[i].folder
                               /\ i # j => groups'[i].target = groups[i].target
  BY <1>3, <1>5 DEF Courses, TablesOK
<1>7. groups'[j].target = to
  BY <1>3, <1>5
<1>8. to = Unbound \/ (to \in DOMAIN groups /\ IsWeb(to))
  BY <1>2, FolderFacts
<1>9. bindLog \in Seq(BindingType) /\ bindLog' \in Seq(BindingType) /\ Len(bindLog') = Len(bindLog) + 1
  <2>1. entry \in BindingType
    BY <1>2 DEF BindingType
  <2>2. bindLog \in Seq(BindingType)
    BY DEF Courses, TablesOK
  <2> QED
    BY <1>1, <2>1, <2>2
<1>10. TablesOK'
  <2>1. ASSUME NEW i \in DOMAIN groups'
        PROVE  /\ groups'[i].target = Unbound
                    \/ (groups'[i].target \in DOMAIN groups' /\ IsWeb(groups'[i].target))
               /\ i \notin ImJids => groups'[i].by \in Users
               /\ i \in Ids /\ groups'[i].folder \in FoldersOf(i)
    <3>1. i \in DOMAIN groups /\ groups'[i].by = groups[i].by /\ groups'[i].folder = groups[i].folder
      BY <1>3, <1>6
    <3>2. /\ i \notin ImJids => groups'[i].by \in Users
          /\ i \in Ids /\ groups'[i].folder \in FoldersOf(i)
      BY <3>1 DEF Courses, TablesOK
    <3>3. CASE i = j
      BY <1>3, <1>7, <1>8, <3>2, <3>3
    <3>4. CASE i # j
      <4>1. groups'[i].target = groups[i].target
        BY <1>6, <3>1, <3>4
      <4> QED
        BY <1>3, <3>1, <3>2, <4>1 DEF Courses, TablesOK
    <3> QED
      BY <3>3, <3>4
  <2>2. ASSUME NEW k \in DOMAIN members'
        PROVE  k = <<k[1], k[2]>> /\ JidOf(k[1]) \in DOMAIN groups'
    BY <1>1, <1>3 DEF Courses, TablesOK
  <2>3. /\ members' = [k \in DOMAIN members' |-> members'[k]]
        /\ disputed' \in BOOLEAN /\ racedBind' \in BOOLEAN
    BY <1>1 DEF Courses, TablesOK
  <2> QED
    BY <1>3, <1>6, <1>9, <2>1, <2>2, <2>3 DEF TablesOK
<1>11. Grows
  <2>1. Len(bindLog) \in Nat
    BY <1>9
  <2> QED
    BY <1>1, <1>3, <1>9, <2>1 DEF Grows
<1>12. Base(r) /\ calls'[r].at = "done" /\ calls'[r].op = calls[r].op
  BY <1>1, <1>2, <1>10, <1>11, EndsBase
<1>13. OwnQuiet(r)
  <2>1. Past(calls[r], calls'[r])
    BY <1>2, <1>12 DEF Past, Creating
  <2>2. RowsStay
    BY <1>3, <1>6 DEF RowsStay
  <2> QED
    BY <1>1, <2>1, <2>2 DEF OwnQuiet
<1>14. TargetOf(e)' = to /\ \A d \in Endpoints \ {e} : TargetOf(d)' = TargetOf(d)
  <2>1. TargetOf(e)' = to
    BY <1>2, <1>3, <1>7 DEF TargetOf
  <2>2. ASSUME NEW d \in Endpoints, d # e PROVE TargetOf(d)' = TargetOf(d)
    <3>1. Im(d) # j
      BY <2>2, JidFacts
    <3> QED
      BY <1>3, <1>6, <3>1 DEF TargetOf
  <2> QED
    BY <2>1, <2>2
<1> QED
  BY <1>1, <1>2, <1>12, <1>13, <1>14

-----------------------------------------------------------------------------
\* A message from the web begins at the home of its sender.
LEMMA SendMessageStep ==
  ASSUME Courses, NEW r \in Calls, NEW u \in Users, NEW g \in Ids, NEW slot, NEW text,
         SendMessage(r, u, g, slot, text)
  PROVE  Quiet(r) /\ calls[r].at = "new" /\ calls'[r].at = "get" /\ calls'[r].answer = "none"
<1> PICK arg : arg = <<slot, text>>
  OBVIOUS
<1> PICK first : first = Call("send", u, g, arg, "new")
  OBVIOUS
<1> PICK new : new = EnsuresHome(first, "send_to")
  OBVIOUS
<1>1. /\ IsCall(first) /\ first.op = "send" /\ first.answer = "none" /\ first.by = u
      /\ first.jid = g /\ first.folder = g /\ first.from = Len(bindLog)
  BY CallIsCall
<1>2. /\ IsCall(new) /\ new.at = "get" /\ new.op = "send" /\ new.answer = "none" /\ new.jid = g
      /\ new.folder = g /\ new.reg.folder = Plain(HomeName(u))
      /\ new.by = u /\ new.then = "send_to" /\ new.reg.jid = HomeOf(u) /\ new.reg.by = u
      /\ new.from = Len(bindLog)
  BY <1>1, HomeFields
<1>3. calls[r].at = "new" /\ UNCHANGED <<wsTables, wsHistory>> /\ calls' = [calls EXCEPT ![r] = new]
  BY DEF SendMessage, Set
<1>4. new.from \in 0 .. Len(bindLog)
  <2>1. bindLog \in Seq(BindingType)
    BY DEF Courses, TablesOK
  <2>2. Len(bindLog) \in Nat
    BY <2>1
  <2> QED
    BY <1>2, <2>2
<1>5. CourseOK(new)
  BY <1>2, <1>4 DEF CourseOK, OpsAt, ThensOf, Registering
<1>6. RegOK(new) /\ SendOK(new)
  <2>1. HomeOf(u) \in Ids /\ Plain(HomeName(u)) \in FoldersOf(HomeOf(u)) /\ g \in FoldersOf(g)
    BY IdFacts, FolderFacts DEF HomeOf
  <2>2. RegOK(new)
    BY <1>2, <2>1 DEF RegOK
  <2>3. SendOK(new)
    BY <1>2, <2>1 DEF SendOK, AtSlot, Registering
  <2> QED
    BY <2>2, <2>3
<1>7. CallOK(new)
  BY <1>2, <1>5, <1>6 DEF CallOK, Opens
<1>8. /\ new.at \in {"get", "vacant", "find", "im_get", "done"} /\ (new.answer # "200" \/ new.op # "create")
      /\ new.op = "create" => new.at # "get"
  BY <1>2
<1>9. Quiet(r) /\ calls'[r] = new
  BY ONLY Courses, r \in Calls, <1>3, <1>7, <1>8, Begins
<1> QED
  BY <1>2, <1>3, <1>9

\* A call that changes no table, of a message, and does not come to its inbound message
LEMMA MessageMoves ==
  ASSUME Courses, NEW r \in Calls, NEW rec, rec = calls[r], rec.op \in {"send", "im"}, NEW new,
         UNCHANGED <<wsTables, wsHistory>>, calls' = [calls EXCEPT ![r] = new], CallOK(new),
         SameCall(rec, new), new.at \notin {"new", "binding", "delete"}, new.op = "im" => new.at # "store_in"
  PROVE  Quiet(r) /\ calls'[r] = new
<1>1. Past(rec, new)
  BY DEF Past, Creating, SameCall
<1>2. new.at # "new" /\ (rec.at = "new" \/ SameCall(rec, new)) /\ new.at # "binding"
  OBVIOUS
<1> QED
  BY <1>1, <1>2, QuietMoves

\* A message from the web registers its group, in its folder.
LEMMA RegistersOK ==
  ASSUME NEW rec, CallOK(rec), rec.op = "send", rec.at # "done", NEW new, new = Registers(rec)
  PROVE  CallOK(new) /\ SameCall(rec, new) /\ new.at \in {"done", "get"} /\ new.answer # "200"
<1>1. IsCall(rec) /\ rec.answer = "none"
  BY DEF CallOK, CourseOK
<1>2. CASE rec.arg[2] = Blank
  <2>1. new = Ended(rec, "400")
    BY <1>2 DEF Registers
  <2> QED
    BY <2>1, EndedOK
<1>3. CASE rec.arg[2] # Blank
  <2> PICK jid : jid = rec.jid
    OBVIOUS
  <2> PICK folder : folder = rec.folder
    OBVIOUS
  <2> PICK by : by = rec.by
    OBVIOUS
  <2> PICK home : home = FALSE
    OBVIOUS
  <2>1. new = Ensures(rec, jid, folder, folder, by, home, "store_in")
    BY <1>3 DEF Registers
  <2>2. /\ IsCall(new) /\ new.at = "get" /\ new.op = rec.op /\ new.answer = rec.answer
        /\ new.by = rec.by /\ new.jid = rec.jid /\ new.folder = rec.folder /\ new.arg = rec.arg
        /\ new.then = "store_in" /\ new.reg.jid = jid /\ new.reg.by = by /\ new.reg.folder = folder
        /\ new.from = rec.from
    BY <1>1, <2>1, EnsuresFields
  <2>3. rec.by \in Users /\ rec.from \in 0 .. Len(bindLog) /\ SendOK(rec)
    BY DEF CallOK, CourseOK
  <2>4. new.op \in OpsAt(new.at) /\ new.then \in ThensOf(new.op)
    BY <2>2 DEF OpsAt, ThensOf
  <2>5. CourseOK(new)
    BY <1>1, <2>2, <2>3, <2>4 DEF CourseOK
  <2>6. RegOK(new) /\ SendOK(new)
    BY <2>2, <2>3 DEF RegOK, SendOK, AtSlot, Registering
  <2>7. CallOK(new)
    BY <2>2, <2>5, <2>6 DEF CallOK, Opens
  <2> QED
    BY <1>1, <2>2, <2>7 DEF SameCall
<1> QED
  BY <1>2, <1>3

\* A step of a call that is about a message, on its way to be stored
OnItsWay(r) == calls[r].at \notin {"run", "route", "store_out", "done"}
               /\ calls'[r].at \notin {"run", "route", "store_out"}

\* The workspace a message from the web is for
LEMMA ResolveHttpTargetStep ==
  ASSUME Courses, NEW r \in Calls, ResolveHttpTarget(r)
  PROVE  Quiet(r) /\ OnItsWay(r)
<1> PICK rec : rec = calls[r]
  OBVIOUS
<1>1. rec.at = "send_to" /\ UNCHANGED <<wsTables, wsHistory>>
  BY DEF ResolveHttpTarget
<1>2. CallOK(rec) /\ rec.op = "send"
  <2>1. CallOK(rec)
    BY <1>1, UnderWayOK
  <2> QED
    BY <1>1, <2>1 DEF CallOK, CourseOK, OpsAt
<1>3. ASSUME NEW new, calls' = [calls EXCEPT ![r] = new], CallOK(new), SameCall(rec, new),
             new.at \in {"done", "get", "slot"}
      PROVE  Quiet(r) /\ OnItsWay(r)
  <2>1. new.at \notin {"new", "binding", "delete"} /\ (new.op = "im" => new.at # "store_in")
    BY <1>3
  <2> QED
    BY <1>1, <1>2, <1>3, <2>1, MessageMoves DEF OnItsWay
<1>4. CASE \E j \in Having(rec.folder) : Set(r, AfterFind(rec, j))
  <2> PICK j \in Having(rec.folder) : Set(r, AfterFind(rec, j))
    BY <1>4
  <2> PICK new : new = AfterFind(rec, j)
    OBVIOUS
  <2>1. calls' = [calls EXCEPT ![r] = new]
    BY DEF Set
  <2>2. CallOK(new) /\ SameCall(rec, new) /\ new.at = "slot"
    BY <1>1, <1>2, AfterFindOK
  <2> QED
    BY <1>3, <2>1, <2>2
<1>5. CASE Set(r, Ended(rec, "404"))
  <2> PICK new : new = Ended(rec, "404")
    OBVIOUS
  <2>1. calls' = [calls EXCEPT ![r] = new]
    BY <1>5 DEF Set
  <2>2. CallOK(new) /\ SameCall(rec, new) /\ new.at = "done"
    BY <1>1, <1>2, EndedOK
  <2> QED
    BY <1>3, <2>1, <2>2
<1>6. CASE Set(r, Registers(rec))
  <2> PICK new : new = Registers(rec)
    OBVIOUS
  <2>1. calls' = [calls EXCEPT ![r] = new]
    BY <1>6 DEF Set
  <2>2. CallOK(new) /\ SameCall(rec, new) /\ new.at \in {"done", "get"}
    BY <1>1, <1>2, RegistersOK
  <2> QED
    BY <1>3, <2>1, <2>2
<1> QED
  BY <1>4, <1>5, <1>6 DEF ResolveHttpTarget

\* Whether its sender may see it
LEMMA CheckSendAccessStep ==
  ASSUME Courses, NEW r \in Calls, CheckSendAccess(r)
  PROVE  Quiet(r) /\ OnItsWay(r)
<1> PICK rec : rec = calls[r]
  OBVIOUS
<1>1. rec.at = "access" /\ rec.op = "send" /\ UNCHANGED <<wsTables, wsHistory>>
  BY DEF CheckSendAccess
<1>2. CallOK(rec) /\ SendOK(rec) /\ IsCall(rec) /\ rec.jid \in DOMAIN groups
  <2>1. CallOK(rec)
    BY <1>1, UnderWayOK
  <2> QED
    BY <1>1, <2>1 DEF CallOK, SendOK
<1>3. ASSUME NEW new, calls' = [calls EXCEPT ![r] = new], CallOK(new), SameCall(rec, new),
             new.at \in {"done", "get", "send_slot"}
      PROVE  Quiet(r) /\ OnItsWay(r)
  <2>1. new.at \notin {"new", "binding", "delete"} /\ (new.op = "im" => new.at # "store_in")
    BY <1>3
  <2> QED
    BY <1>1, <1>3, <2>1, MessageMoves DEF OnItsWay
<1>4. CASE ~CanAccess(rec.by, rec.jid, rec.row)
  <2> PICK new : new = Ended(rec, "404")
    OBVIOUS
  <2>1. calls' = [calls EXCEPT ![r] = new]
    BY <1>4 DEF CheckSendAccess, Set
  <2>2. CallOK(new) /\ SameCall(rec, new) /\ new.at = "done"
    BY <1>1, <1>2, EndedOK
  <2> QED
    BY <1>3, <2>1, <2>2
<1>5. CASE CanAccess(rec.by, rec.jid, rec.row) /\ rec.arg[1] = "main"
  <2> PICK new : new = Registers(rec)
    OBVIOUS
  <2>1. calls' = [calls EXCEPT ![r] = new]
    BY <1>5 DEF CheckSendAccess, Set
  <2>2. CallOK(new) /\ SameCall(rec, new) /\ new.at \in {"done", "get"}
    BY <1>1, <1>2, RegistersOK
  <2> QED
    BY <1>3, <2>1, <2>2
<1>6. CASE CanAccess(rec.by, rec.jid, rec.row) /\ rec.arg[1] # "main"
  <2> PICK new : new = Moved(rec, "send_slot")
    OBVIOUS
  <2>1. calls' = [calls EXCEPT ![r] = new]
    BY <1>6 DEF CheckSendAccess, Set, Moved
  <2>2. /\ IsCall(new) /\ new.at = "send_slot" /\ new.op = rec.op /\ new.answer = rec.answer
        /\ new.by = rec.by /\ new.jid = rec.jid /\ new.folder = rec.folder /\ new.arg = rec.arg /\ new.then = rec.then
        /\ new.reg = rec.reg /\ new.from = rec.from
    BY <1>2, MovedFields
  <2>3. CourseOK(new)
    BY <1>1, <1>2, <2>2 DEF CallOK, CourseOK, OpsAt, Registering, AtSlot
  <2>4. SendOK(new)
    BY <1>2, <2>2 DEF SendOK, Registering
  <2>5. CallOK(new) /\ SameCall(rec, new)
    BY <1>1, <2>2, <2>3, <2>4 DEF CallOK, SameCall, Registering, Opens
  <2> QED
    BY <1>3, <2>1, <2>2, <2>5
<1> QED
  BY <1>4, <1>5, <1>6

\* Whether its slot is there
LEMMA CheckSendSlotStep ==
  ASSUME Courses, NEW r \in Calls, CheckSendSlot(r)
  PROVE  Quiet(r) /\ OnItsWay(r)
<1> PICK rec : rec = calls[r]
  OBVIOUS
<1>1. rec.at = "send_slot" /\ UNCHANGED <<wsTables, wsHistory>>
  BY DEF CheckSendSlot
<1>2. CallOK(rec) /\ rec.op = "send"
  <2>1. CallOK(rec)
    BY <1>1, UnderWayOK
  <2>2. rec.op = "send"
    BY <1>1, <2>1 DEF CallOK, CourseOK, OpsAt
  <2> QED
    BY <1>1, <2>1, <2>2 DEF CallOK, SendOK
<1>3. ASSUME NEW new, calls' = [calls EXCEPT ![r] = new], CallOK(new), SameCall(rec, new),
             new.at \in {"done", "get"}
      PROVE  Quiet(r) /\ OnItsWay(r)
  <2>1. new.at \notin {"new", "binding", "delete"} /\ (new.op = "im" => new.at # "store_in")
    BY <1>3
  <2>2. Quiet(r) /\ calls'[r] = new
    BY ONLY Courses, r \in Calls, rec = calls[r], <1>1, <1>2, <1>3, <2>1, MessageMoves
  <2> QED
    BY <1>1, <1>3, <2>2 DEF OnItsWay
<1>4. CASE <<rec.folder, rec.arg[1]>> \notin slots
  <2> PICK new : new = Ended(rec, "404")
    OBVIOUS
  <2>1. calls' = [calls EXCEPT ![r] = new]
    BY <1>4 DEF CheckSendSlot, Set
  <2>2. CallOK(new) /\ SameCall(rec, new) /\ new.at = "done"
    BY <1>1, <1>2, EndedOK
  <2> QED
    BY <1>3, <2>1, <2>2
<1>5. CASE <<rec.folder, rec.arg[1]>> \in slots
  <2> PICK new : new = Registers(rec)
    OBVIOUS
  <2>1. calls' = [calls EXCEPT ![r] = new]
    BY <1>5 DEF CheckSendSlot, Set
  <2>2. CallOK(new) /\ SameCall(rec, new) /\ new.at \in {"done", "get"}
    BY <1>1, <1>2, RegistersOK
  <2> QED
    BY <1>3, <2>1, <2>2
<1> QED
  BY <1>4, <1>5

\* A delivery from a channel begins, or a blank one is answered.
LEMMA WebhookStep ==
  ASSUME Courses, NEW r \in Calls, NEW e \in Endpoints, NEW m, Webhook(r, e, m)
  PROVE  Quiet(r) /\ OnItsWay(r) /\ calls[r].at = "new"
<1> PICK jid : jid = Im(e)
  OBVIOUS
<1> PICK arg : arg = <<e, m>>
  OBVIOUS
<1> PICK by : by = Nobody
  OBVIOUS
<1> PICK rec : rec = Call("im", by, jid, arg, "im_get")
  OBVIOUS
<1>1. /\ IsCall(rec) /\ rec.op = "im" /\ rec.at = "im_get" /\ rec.answer = "none" /\ rec.by = by
      /\ rec.jid = jid /\ rec.arg = arg /\ rec.from = Len(bindLog)
  BY CallIsCall
<1>2. rec.from \in 0 .. Len(bindLog)
  <2>1. bindLog \in Seq(BindingType)
    BY DEF Courses, TablesOK
  <2>2. Len(bindLog) \in Nat
    BY <2>1
  <2> QED
    BY <1>1, <2>2
<1>3. CourseOK(rec)
  BY <1>1, <1>2 DEF CourseOK, OpsAt, Registering, AtSlot
<1>4. ImOK(rec)
  BY <1>1 DEF ImOK, AtSlot
<1>5. CallOK(rec)
  BY <1>1, <1>3, <1>4 DEF CallOK, Registering, Opens
<1>6. calls[r].at = "new" /\ UNCHANGED <<wsTables, wsHistory>>
  BY DEF Webhook
<1>7. ASSUME NEW new, calls' = [calls EXCEPT ![r] = new], CallOK(new), new.op = "im",
             new.at \in {"im_get", "done"}
      PROVE  Quiet(r) /\ OnItsWay(r) /\ calls[r].at = "new"
  <2>1. /\ new.at \in {"get", "vacant", "find", "im_get", "done"} /\ (new.answer # "200" \/ new.op # "create")
        /\ new.op = "create" => new.at # "get"
    BY <1>7
  <2>2. Quiet(r) /\ calls'[r] = new
    BY ONLY Courses, r \in Calls, <1>6, <1>7, <2>1, Begins
  <2> QED
    BY <1>6, <1>7, <2>2 DEF OnItsWay
<1>8. CASE m = Blank
  <2>1. PICK a \in {"200", "400"} : Set(r, Ended(rec, a))
    BY <1>8 DEF Webhook
  <2> PICK new : new = Ended(rec, a)
    OBVIOUS
  <2>2. CallOK(new) /\ new.at = "done" /\ new.op = rec.op
    BY <1>1, <1>5, EndedOK
  <2>3. calls' = [calls EXCEPT ![r] = new]
    BY <2>1 DEF Set
  <2> QED
    BY <1>1, <1>7, <2>2, <2>3
<1>9. CASE m # Blank
  <2>1. calls' = [calls EXCEPT ![r] = rec]
    BY <1>9 DEF Webhook, Set
  <2> QED
    BY <1>1, <1>5, <1>7, <2>1
<1> QED
  BY <1>8, <1>9

KnownEndpoint(rec, j) == [ThenSlot(rec, j) EXCEPT !.then = "resolve"]

\* The endpoint a message comes from
LEMMA EnsureImEndpointStep ==
  ASSUME Courses, NEW r \in Calls, EnsureImEndpoint(r)
  PROVE  Quiet(r) /\ OnItsWay(r)
<1> PICK rec : rec = calls[r]
  OBVIOUS
<1>1. rec.at = "im_get" /\ UNCHANGED <<wsTables, wsHistory>>
  BY DEF EnsureImEndpoint
<1>2. CallOK(rec) /\ rec.op = "im" /\ IsCall(rec) /\ ImOK(rec) /\ CourseOK(rec) /\ rec.jid \in ImJids
  <2>1. CallOK(rec)
    BY <1>1, UnderWayOK
  <2>2. rec.op = "im"
    BY <1>1, <2>1 DEF CallOK, CourseOK, OpsAt
  <2> QED
    BY <1>1, <2>1, <2>2 DEF CallOK, ImOK, ImJids
<1>3. ASSUME NEW new, calls' = [calls EXCEPT ![r] = new], CallOK(new), SameCall(rec, new),
             new.at \in {"get", "slot"}
      PROVE  Quiet(r) /\ OnItsWay(r)
  <2>1. new.at \notin {"new", "binding", "delete"} /\ (new.op = "im" => new.at # "store_in")
    BY <1>3
  <2>2. Quiet(r) /\ calls'[r] = new
    BY ONLY Courses, r \in Calls, rec = calls[r], <1>1, <1>2, <1>3, <2>1, MessageMoves
  <2> QED
    BY <1>1, <1>3, <2>2 DEF OnItsWay
<1>4. CASE rec.jid \in DOMAIN groups
  <2> PICK j : j = rec.jid
    OBVIOUS
  <2> PICK new : new = KnownEndpoint(rec, j)
    OBVIOUS
  <2>1. calls' = [calls EXCEPT ![r] = new]
    BY <1>4 DEF EnsureImEndpoint, Set, KnownEndpoint
  <2>2. /\ new.at = "slot" /\ new.op = rec.op /\ new.answer = rec.answer
        /\ new.by = rec.by /\ new.jid = rec.jid /\ new.folder = rec.folder /\ new.arg = rec.arg /\ new.then = "resolve"
        /\ new.reg = rec.reg /\ new.from = rec.from
    BY <1>2 DEF IsCall, CallFields, ThenSlot, KnownEndpoint
  <2>3. new = [f \in CallFields |-> new[f]]
    BY <1>2 DEF IsCall, CallFields, ThenSlot, KnownEndpoint
  <2>4. IsCall(new)
    BY <1>2, <2>2, <2>3 DEF IsCall
  <2>5. CourseOK(new)
    BY <1>1, <1>2, <2>2 DEF CourseOK, OpsAt, ThensOf, Operations
  <2>6. ImOK(new)
    BY <1>1, <1>2, <1>4, <2>2 DEF ImOK
  <2>7. CallOK(new) /\ SameCall(rec, new)
    BY <1>2, <2>2, <2>4, <2>5, <2>6 DEF CallOK, SameCall, Registering, Opens
  <2> QED
    BY <1>3, <2>1, <2>2, <2>7
<1>5. CASE rec.jid \notin DOMAIN groups
  <2> PICK jid : jid = rec.jid
    OBVIOUS
  <2> PICK folder : folder = Chat(rec.arg[1])
    OBVIOUS
  <2> PICK name : name = Given
    OBVIOUS
  <2> PICK by : by = Nobody
    OBVIOUS
  <2> PICK home : home = FALSE
    OBVIOUS
  <2> PICK new : new = Ensures(rec, jid, name, folder, by, home, "resolve")
    OBVIOUS
  <2>1. calls' = [calls EXCEPT ![r] = new]
    BY <1>5 DEF EnsureImEndpoint, Set
  <2>2. /\ new.at = "get" /\ new.op = rec.op /\ new.answer = rec.answer
        /\ new.by = rec.by /\ new.jid = rec.jid /\ new.folder = rec.folder /\ new.arg = rec.arg
        /\ new.then = "resolve" /\ new.from = rec.from
        /\ IsCall(new) /\ new.reg.jid = jid /\ new.reg.folder = folder
    BY <1>2, EnsuresFields
  <2>4. jid \in Ids /\ folder \in FoldersOf(jid)
    <3>1. rec.arg[1] \in Endpoints /\ jid = Im(rec.arg[1])
      BY <1>1, <1>2 DEF ImOK
    <3> QED
      BY <3>1, IdFacts, FolderFacts
  <2>5. CourseOK(new)
    <3>1. rec.answer = "none" /\ rec.from \in 0 .. Len(bindLog)
      BY <1>1, <1>2 DEF CourseOK
    <3>2. new.at = "get" /\ new.op = "im" /\ new.then = "resolve" /\ new.answer = "none"
      BY ONLY <1>2, <2>2, <3>1
    <3>3. new.op \in OpsAt(new.at) /\ new.then \in ThensOf(new.op)
      BY ONLY <3>2 DEF OpsAt, ThensOf
    <3>4. new.from \in 0 .. Len(bindLog)
      BY ONLY <2>2, <3>1
    <3> QED
      BY ONLY <3>2, <3>3, <3>4 DEF CourseOK
  <2>6. ImOK(new) /\ RegOK(new)
    BY <1>1, <1>2, <2>2, <2>4 DEF ImOK, RegOK, AtSlot
  <2>7. CallOK(new) /\ SameCall(rec, new)
    BY <1>2, <2>2, <2>4, <2>5, <2>6 DEF CallOK, SameCall, Opens
  <2> QED
    BY <1>3, <2>1, <2>2, <2>7
<1> QED
  BY <1>4, <1>5

ForWorkspace(rec, j) == [rec EXCEPT !.jid = j, !.folder = groups[j].folder, !.at = "store_in"]

\* The workspace its endpoint is bound to
LEMMA ResolveImWorkspaceStep ==
  ASSUME Courses, NEW r \in Calls, ResolveImWorkspace(r)
  PROVE  /\ Base(r) /\ OwnQuiet(r) /\ OnItsWay(r) /\ UNCHANGED <<bindLog, racedBind>>
         /\ \A e \in Endpoints : TargetOf(e)' = TargetOf(e)
         /\ calls[r].op = "im" /\ calls[r].jid = Im(calls[r].arg[1]) /\ calls[r].jid \in DOMAIN groups
         /\ calls'[r].at = "store_in" /\ calls'[r].arg = calls[r].arg
         /\ calls'[r].folder = groups[WorkspaceOf(calls[r].jid)].folder
<1> PICK rec : rec = calls[r]
  OBVIOUS
<1> PICK j : j = WorkspaceOf(rec.jid)
  OBVIOUS
<1> PICK new : new = ForWorkspace(rec, j)
  OBVIOUS
<1>1. rec.at = "resolve" /\ UNCHANGED <<wsTables, wsHistory>>
  BY DEF ResolveImWorkspace
<1>2. UNCHANGED <<bindLog, racedBind, disputed, members>> /\ racedBind' \in BOOLEAN
      /\ disputed' \in BOOLEAN
  BY <1>1 DEF wsHistory, wsTables, Courses, TablesOK
<1>3. CallOK(rec) /\ rec.op = "im" /\ IsCall(rec) /\ ImOK(rec) /\ CourseOK(rec)
  <2>1. CallOK(rec)
    BY <1>1, UnderWayOK
  <2>2. rec.op = "im"
    BY <1>1, <2>1 DEF CallOK, CourseOK, OpsAt
  <2> QED
    BY <1>1, <2>1, <2>2 DEF CallOK
<1>4. calls' = [calls EXCEPT ![r] = new]
  BY DEF ResolveImWorkspace, Set, ForWorkspace
<1>5. /\ new.at = "store_in" /\ new.op = rec.op /\ new.answer = rec.answer
      /\ new.by = rec.by /\ new.jid = j /\ new.folder = groups[j].folder /\ new.arg = rec.arg
      /\ new.then = rec.then
      /\ new.reg = rec.reg /\ new.from = rec.from
  BY <1>3 DEF IsCall, CallFields, ForWorkspace
<1>6. new = [f \in CallFields |-> new[f]]
  BY <1>3 DEF IsCall, CallFields, ForWorkspace
<1>7. IsCall(new)
  BY <1>3, <1>5, <1>6 DEF IsCall
<1>8. CourseOK(new)
  BY <1>1, <1>3, <1>5 DEF CourseOK, OpsAt, Registering, AtSlot
<1>9. ImOK(new)
  BY <1>3, <1>5 DEF ImOK, AtSlot
<1>10. CallOK(new) /\ SameCall(rec, new)
  BY <1>3, <1>5, <1>7, <1>8, <1>9 DEF CallOK, SameCall, Registering, Opens
<1>11. UNCHANGED <<wsTables, bindLog>> /\ new.at # "new" /\ (rec.at = "new" \/ SameCall(rec, new))
  BY <1>1, <1>2, <1>5, <1>10
<1>12. /\ Base(r) /\ calls'[r] = new /\ RowsStay
       /\ \A e \in Endpoints : TargetOf(e)' = TargetOf(e)
  BY ONLY Courses, r \in Calls, rec = calls[r], <1>2, <1>4, <1>10, <1>11, Moves
<1>13. OwnQuiet(r)
  <2>1. Past(rec, new)
    BY <1>3, <1>5 DEF Past, Creating
  <2> QED
    BY <1>2, <1>12, <2>1 DEF OwnQuiet
<1> QED
  BY <1>1, <1>2, <1>3, <1>5, <1>12, <1>13 DEF OnItsWay, ImOK

\* The inbound message is stored.
LEMMA StoreInboundStep ==
  ASSUME Courses, NEW r \in Calls, StoreInbound(r)
  PROVE  Quiet(r) /\ calls'[r].at = "run" /\ calls'[r].answer = "none" /\ calls'[r].op = calls[r].op
<1> PICK rec : rec = calls[r]
  OBVIOUS
<1>1. /\ rec.at = "store_in" /\ UNCHANGED <<wsTables, wsHistory>> /\ Set(r, Moved(rec, "run"))
  BY DEF StoreInbound, Goto, Moved
<1>2. rec.op \in {"send", "im"}
  <2>1. CallOK(rec)
    BY <1>1, UnderWayOK
  <2> QED
    BY <1>1, <2>1 DEF CallOK, CourseOK, OpsAt
<1>3. "run" \in Onwards /\ rec.op \in OpsAt("run")
  BY <1>2 DEF Onwards, OpsAt
<1>4. Quiet(r)
  BY <1>1, <1>2, <1>3, PlainMoves
<1>5. calls'[r].at = "run" /\ calls'[r].answer = "none" /\ calls'[r].op = rec.op
  <2>1. CallOK(rec) /\ IsCall(rec) /\ rec.answer = "none"
    BY <1>1, UnderWayOK DEF CallOK, CourseOK
  <2>2. calls'[r] = Moved(rec, "run")
    BY <1>1 DEF Set, Courses, CallsOK
  <2> QED
    BY <2>1, <2>2, MovedFields
<1> QED
  BY <1>4, <1>5

\* The run has ended: a reply comes next, or the answer.
LEMMA RunEndsStep ==
  ASSUME Courses, NEW r \in Calls, NEW o, RunEnds(r, o)
  PROVE  /\ Quiet(r) /\ calls'[r].op = calls[r].op
         /\ \/ o = "completed" /\ calls'[r].at = "route" /\ calls'[r].answer = "none"
            \/ o # "completed" /\ calls'[r].at = "done"
<1> PICK rec : rec = calls[r]
  OBVIOUS
<1>1. /\ rec.at = "run" /\ UNCHANGED <<wsTables, wsHistory>>
      /\ Set(r, AfterRun(rec, o))
  BY DEF RunEnds
<1>2. rec.op \in {"send", "im"} /\ CallOK(rec) /\ IsCall(rec) /\ rec.answer = "none"
  <2>1. CallOK(rec)
    BY <1>1, UnderWayOK
  <2> QED
    BY <1>1, <2>1 DEF CallOK, CourseOK, OpsAt
<1>3. CASE o = "completed"
  <2>1. Set(r, Moved(rec, "route"))
    BY <1>1, <1>3 DEF AfterRun, Moved
  <2>2. "route" \in Onwards /\ rec.op \in OpsAt("route")
    BY <1>2 DEF Onwards, OpsAt
  <2>3. Quiet(r)
    BY <1>1, <1>2, <2>1, <2>2, PlainMoves
  <2>4. calls'[r] = Moved(rec, "route")
    BY <2>1 DEF Set, Courses, CallsOK
  <2>5. calls'[r].at = "route" /\ calls'[r].answer = "none" /\ calls'[r].op = rec.op
    BY <1>2, <2>4, MovedFields
  <2> QED
    BY <1>3, <2>3, <2>5
<1>4. CASE o # "completed"
  <2>1. PICK status \in {"200", "400", "500"} : Answer(r, status)
    BY <1>1, <1>4 DEF AfterRun, Answer
  <2>2. Quiet(r) /\ calls'[r].at = "done"
    BY <1>1, <1>2, <2>1, Ends
  <2>3. calls'[r].op = rec.op
    BY <1>1, <2>2 DEF Quiet, Base, SameCall
  <2> QED
    BY <1>4, <2>2, <2>3
<1> QED
  BY <1>3, <1>4

\* The reply is sent, or the channel fails.
LEMMA RouteMessageStep ==
  ASSUME Courses, NEW r \in Calls, RouteMessage(r)
  PROVE  /\ Quiet(r) /\ calls'[r].op = calls[r].op
         /\ \/ /\ calls'[r].at = "store_out" /\ calls'[r].answer = "none"
               /\ sent' = IF calls[r].op = "im" THEN sent \cup {r} ELSE sent
            \/ /\ calls'[r].at = "done" /\ calls'[r].answer \in {"400", "500"}
               /\ sent' \in {sent, sent \cup {r}}
<1> PICK rec : rec = calls[r]
  OBVIOUS
<1>1. /\ rec.at = "route" /\ UNCHANGED <<wsTables, wsHistory>>
      /\ \/ /\ Set(r, Moved(rec, "store_out"))
            /\ sent' = IF rec.op = "im" THEN sent \cup {r} ELSE sent
         \/ \E status \in {"400", "500"} : Answer(r, status) /\ sent' \in {sent, sent \cup {r}}
  BY DEF RouteMessage, Goto, Moved, SendFailed, Answer
<1>2. rec.op \in {"send", "im"} /\ CallOK(rec) /\ IsCall(rec) /\ rec.answer = "none"
  <2>1. CallOK(rec)
    BY <1>1, UnderWayOK
  <2> QED
    BY <1>1, <2>1 DEF CallOK, CourseOK, OpsAt
<1>3. CASE Set(r, Moved(rec, "store_out")) /\ sent' = IF rec.op = "im" THEN sent \cup {r} ELSE sent
  <2>1. "store_out" \in Onwards /\ rec.op \in OpsAt("store_out")
    BY <1>2 DEF Onwards, OpsAt
  <2>2. Quiet(r)
    BY <1>1, <1>2, <1>3, <2>1, PlainMoves
  <2>3. calls'[r] = Moved(rec, "store_out")
    BY <1>3 DEF Set, Courses, CallsOK
  <2>4. calls'[r].at = "store_out" /\ calls'[r].answer = "none" /\ calls'[r].op = rec.op
    BY <1>2, <2>3, MovedFields
  <2> QED
    BY <1>3, <2>2, <2>4
<1>4. ASSUME NEW status \in {"400", "500"}, Answer(r, status) PROVE
        Quiet(r) /\ calls'[r].op = rec.op /\ calls'[r].at = "done" /\ calls'[r].answer = status
  <2>1. Quiet(r) /\ calls'[r].at = "done"
    BY <1>1, <1>2, <1>4, Ends
  <2>2. calls'[r].op = rec.op
    BY <1>1, <2>1 DEF Quiet, Base, SameCall
  <2>3. calls'[r] = Ended(rec, status)
    BY <1>4 DEF Answer, Set, Courses, CallsOK
  <2>4. calls'[r].answer = status
    BY <1>2, <2>3, EndedFields
  <2> QED
    BY <2>1, <2>2, <2>4
<1> QED
  BY <1>1, <1>3, <1>4

\* The reply is stored.
LEMMA StoreOutboundStep ==
  ASSUME Courses, NEW r \in Calls, StoreOutbound(r)
  PROVE  Quiet(r) /\ calls'[r].at = "done" /\ calls'[r].op = calls[r].op
<1>1. calls[r].at = "store_out" /\ UNCHANGED <<wsTables, wsHistory>> /\ Answer(r, "200")
  BY DEF StoreOutbound
<1>2. calls[r].op \in {"send", "im"}
  <2>1. CallOK(calls[r])
    BY <1>1, UnderWayOK
  <2> QED
    BY <1>1, <2>1 DEF CallOK, CourseOK, OpsAt
<1>3. Quiet(r) /\ calls'[r].at = "done"
  BY <1>1, <1>2, Ends
<1> QED
  BY <1>1, <1>3 DEF Quiet, Base, SameCall

\* A message cannot be stored.
LEMMA StoreFailsStep ==
  ASSUME Courses, NEW r \in Calls, StoreFails(r)
  PROVE  Quiet(r) /\ calls'[r].at = "done" /\ calls'[r].answer = "500" /\ calls'[r].op = calls[r].op
<1>1. calls[r].at \in {"store_in", "store_out"} /\ UNCHANGED <<wsTables, wsHistory>> /\ Answer(r, "500")
  BY DEF StoreFails
<1>2. CallOK(calls[r]) /\ IsCall(calls[r])
  BY <1>1, UnderWayOK DEF CallOK
<1>3. Quiet(r) /\ calls'[r].at = "done"
  BY <1>1, Ends
<1>4. calls'[r].answer = "500"
  <2> PICK rec : rec = calls[r]
    OBVIOUS
  <2>1. calls'[r] = Ended(rec, "500")
    BY <1>1 DEF Answer, Set, Courses, CallsOK
  <2> QED
    BY <1>2, <2>1, EndedFields
<1> QED
  BY <1>1, <1>3, <1>4 DEF Quiet, Base, SameCall

-----------------------------------------------------------------------------
\* What a step may do about the owners, whoever takes it: it begins to create no workspace
\* that is there, no member comes to one that is being created, a call that comes to the
\* members of a workspace does so when nobody creates it, an owner stays one, and only the
\* creator becomes one.
Fresh(r) ==
  Creating(calls'[r]) => Creating(calls[r]) \/ JidOf(calls'[r].folder) \notin DOMAIN groups
NoMemberComes(r) ==
  \A k \in DOMAIN members' :
    k \in DOMAIN members \/ \A q \in Calls : Creating(calls'[q]) => calls'[q].folder # k[1]
ComesAlone(r) ==
  Attends(calls'[r]) =>
    /\ calls[r].at # "new"
    /\ Attends(calls[r]) \/ \A q \in Calls : Creating(calls[q]) => calls[q].folder # calls[r].folder
OwnersStay(r) ==
  /\ \A w, u : Owned(w, u) => Owned(w, u)'
  /\ \A w, u : Owned(w, u)' =>
       \/ Owned(w, u)
       \/ /\ Creating(calls[r]) /\ calls[r].at = "merge" /\ calls[r].folder = w /\ calls[r].by = u

\* Where calls that create or are at the members are
LEMMA Whereabouts ==
  ASSUME Courses, NEW q \in Calls
  PROVE  /\ Creating(calls[q]) =>
              calls[q].jid = JidOf(calls[q].folder) /\ calls[q].jid \in WebJids
         /\ Attends(calls[q]) => JidOf(calls[q].folder) \in DOMAIN groups
         /\ (calls[q].op = "create" /\ calls[q].answer = "200") =>
              calls[q].jid = JidOf(calls[q].folder) /\ calls[q].jid \in WebJids
<1>1. CASE calls[q].at = "new"
  <2>1. calls[q] = NoCall
    BY <1>1 DEF Courses, CallsOK
  <2> QED
    BY <2>1 DEF Creating, Attends, NoCall
<1>2. CASE calls[q].at # "new"
  <2>1. CallOK(calls[q])
    BY <1>2, UnderWayOK
  <2>2. calls[q].op = "create" => CreateOK(calls[q])
    BY <2>1 DEF CallOK
  <2>3. ASSUME calls[q].op = "create", calls[q].at # "done" \/ calls[q].answer = "200"
        PROVE  calls[q].jid = JidOf(calls[q].folder) /\ calls[q].jid \in WebJids
    <3> PICK f \in Shared : calls[q].folder = Plain(f)
      BY <2>2, <2>3 DEF CreateOK
    <3>1. calls[q].jid = JidOf(calls[q].folder) /\ calls[q].jid = Web(f)
      BY <2>2, <2>3, JidFacts DEF CreateOK
    <3>2. f \in Names
      BY IdFacts
    <3> QED
      BY <3>1, <3>2 DEF WebJids
  <2>4. Creating(calls[q]) => calls[q].op = "create" /\ calls[q].at # "done"
    BY DEF Creating
  <2>5. Attends(calls[q]) => JidOf(calls[q].folder) \in DOMAIN groups
    BY <2>1 DEF Attends, CallOK, OpenOK, Opens
  <2> QED
    BY <2>3, <2>4, <2>5
<1> QED
  BY <1>1, <1>2

\* The workspace a call creates or attends stays the same.
LEMMA SameWorkspace ==
  ASSUME Courses, NEW r \in Calls, Base(r)
  PROVE  /\ (Creating(calls[r]) /\ Creating(calls'[r])) =>
              calls'[r].folder = calls[r].folder /\ calls'[r].jid = calls[r].jid
         /\ (Attends(calls'[r]) /\ calls[r].at # "new") => calls'[r].folder = calls[r].folder
<1>1. calls[r].at # "new" => SameCall(calls[r], calls'[r])
  BY DEF Base
<1>2. Creating(calls[r]) => calls[r].op = "create" /\ calls[r].at \notin {"new", "find"}
  BY DEF Creating
<1>3. Attends(calls'[r]) => calls'[r].op \in {"add", "remove"}
  BY DEF Attends
<1> QED
  BY <1>1, <1>2, <1>3 DEF SameCall

\* Creations stay alone.
LEMMA AloneKept ==
  ASSUME Courses, OwnersSafe, NEW r \in Calls, Base(r), Fresh(r), NoMemberComes(r), ComesAlone(r)
  PROVE  \A q \in Calls : Alone(q)'
<1>1. \A q \in Calls \ {r} : calls'[q] = calls[q]
  BY DEF Base, Others
<1>2. \A p, q \in Calls :
        (Creating(calls[p]) /\ Creating(calls[q]) /\ calls[q].folder = calls[p].folder) => q = p
  BY DEF OwnersSafe, Alone
<1>3. \A p, q \in Calls : (Attends(calls[p]) /\ Creating(calls[q])) => calls[q].folder # calls[p].folder
  BY DEF OwnersSafe, Alone
<1>4. \A p \in Calls, k \in DOMAIN members : Creating(calls[p]) => k[1] # calls[p].folder
  BY DEF OwnersSafe, Alone
<1>5. /\ (Creating(calls[r]) /\ Creating(calls'[r])) => calls'[r].folder = calls[r].folder
      /\ (Attends(calls'[r]) /\ calls[r].at # "new") => calls'[r].folder = calls[r].folder
  BY SameWorkspace
<1>6. ASSUME NEW q \in Calls, Creating(calls[q])
      PROVE  JidOf(calls[q].folder) \in DOMAIN groups
  <2>1. calls[q].jid = JidOf(calls[q].folder)
    BY <1>6, Whereabouts
  <2>2. calls[q].jid \in DOMAIN groups
    BY <1>6 DEF OwnersSafe, OwnerOK, CreationOK
  <2> QED
    BY <2>1, <2>2
<1>7. \A p, q \in Calls :
        (Creating(calls'[p]) /\ Creating(calls'[q]) /\ calls'[q].folder = calls'[p].folder) => q = p
  <2> SUFFICES ASSUME NEW p \in Calls, NEW q \in Calls, Creating(calls'[p]), Creating(calls'[q]),
                      calls'[q].folder = calls'[p].folder, q # p
               PROVE  FALSE
    OBVIOUS
  <2>1. CASE p = r
    BY <1>1, <1>2, <1>5, <1>6, <2>1 DEF Fresh
  <2>2. CASE q = r
    BY <1>1, <1>2, <1>5, <1>6, <2>2 DEF Fresh
  <2>3. CASE p # r /\ q # r
    BY <1>1, <1>2, <2>3
  <2> QED
    BY <2>1, <2>2, <2>3
<1>8. \A p \in Calls, k \in DOMAIN members' : Creating(calls'[p]) => k[1] # calls'[p].folder
  <2> SUFFICES ASSUME NEW p \in Calls, NEW k \in DOMAIN members', Creating(calls'[p])
               PROVE  k[1] # calls'[p].folder
    OBVIOUS
  <2>1. CASE k \notin DOMAIN members
    BY <2>1 DEF NoMemberComes
  <2>2. CASE k \in DOMAIN members /\ p # r
    BY <1>1, <1>4, <2>2
  <2>3. CASE k \in DOMAIN members /\ p = r
    <3>1. JidOf(k[1]) \in DOMAIN groups
      BY <2>3 DEF Courses, TablesOK
    <3> QED
      BY <1>4, <1>5, <2>3, <3>1 DEF Fresh
  <2> QED
    BY <2>1, <2>2, <2>3
<1>9. \A p, q \in Calls : (Attends(calls'[p]) /\ Creating(calls'[q])) => calls'[q].folder # calls'[p].folder
  <2> SUFFICES ASSUME NEW p \in Calls, NEW q \in Calls, Attends(calls'[p]), Creating(calls'[q])
               PROVE  calls'[q].folder # calls'[p].folder
    OBVIOUS
  <2>1. p # q
    BY DEF Attends, Creating
  <2>2. CASE p = r
    <3>1. calls'[q] = calls[q] /\ calls'[p].folder = calls[r].folder
      BY <1>1, <1>5, <2>1, <2>2 DEF ComesAlone
    <3> QED
      BY <1>3, <2>2, <3>1 DEF ComesAlone
  <2>3. CASE p # r /\ q # r
    BY <1>1, <1>3, <2>3
  <2>4. CASE p # r /\ q = r
    <3>1. Attends(calls[p]) /\ calls'[p] = calls[p]
      BY <1>1, <2>4
    <3>2. JidOf(calls[p].folder) \in DOMAIN groups
      BY <3>1, Whereabouts
    <3> QED
      BY <1>3, <1>5, <2>4, <3>1, <3>2 DEF Fresh
  <2> QED
    BY <2>2, <2>3, <2>4
<1> QED
  BY <1>7, <1>8, <1>9 DEF Alone

\* The owners stay the creators.
LEMMA OwnersKept ==
  ASSUME Courses, OwnersSafe, NEW r \in Calls, Base(r), RowsStay, OwnersStay(r)
  PROVE  OwnersOK'
<1> SUFFICES ASSUME NEW k \in DOMAIN members', members'[k] = "owner"
             PROVE  groups'[JidOf(k[1])].by = k[2]
  BY DEF OwnersOK
<1> PICK j : j = JidOf(k[1])
  OBVIOUS
<1>1. k = <<k[1], k[2]>>
  BY DEF Base, Courses, TablesOK
<1>2. Owned(k[1], k[2])'
  BY <1>1 DEF Owned
<1>3. ASSUME j \in DOMAIN groups PROVE j \in WebJids
  <2>1. j \in Ids /\ IsWeb(j)
    BY <1>3, JidFacts DEF Courses, TablesOK, JidOf
  <2> QED
    BY <2>1, IdFacts
<1>4. CASE Owned(k[1], k[2])
  <2>1. k \in DOMAIN members /\ members[k] = "owner"
    BY <1>1, <1>4 DEF Owned
  <2>2. groups[j].by = k[2] /\ j \in DOMAIN groups
    BY <2>1 DEF OwnersSafe, OwnersOK, Courses, TablesOK
  <2> QED
    BY <1>3, <2>2 DEF RowsStay
<1>5. CASE ~Owned(k[1], k[2])
  <2>1. Creating(calls[r]) /\ calls[r].folder = k[1] /\ calls[r].by = k[2]
    BY <1>2, <1>5 DEF OwnersStay
  <2>2. calls[r].jid = j
    BY <2>1, Whereabouts
  <2>3. j \in DOMAIN groups /\ groups[j].by = k[2]
    BY <2>1, <2>2 DEF OwnersSafe, OwnerOK, CreationOK
  <2> QED
    BY <1>3, <2>3 DEF RowsStay
<1> QED
  BY <1>4, <1>5

\* What another call knows of its workspace and of its member stays true.
LEMMA OwnerKept ==
  ASSUME Courses, OwnersSafe, NEW r \in Calls, Base(r), RowsStay, OwnersStay(r),
         NEW q \in Calls, q # r
  PROVE  OwnerOK(calls[q])' /\ calls'[q] = calls[q]
<1> PICK rec : rec = calls[q]
  OBVIOUS
<1>1. calls'[q] = rec /\ Grows
  BY DEF Base, Others
<1>2. Alone(q) /\ Alone(r) /\ OwnerOK(rec)
  BY DEF OwnersSafe
<1>3. /\ Creating(rec) => rec.jid \in WebJids
      /\ (rec.op = "create" /\ rec.answer = "200") => rec.jid \in WebJids
  BY Whereabouts
<1>4. CreationOK(rec)'
  <2>1. Creating(rec) => rec.jid \in DOMAIN groups' /\ groups'[rec.jid].by = rec.by
    BY <1>1, <1>2, <1>3 DEF OwnerOK, CreationOK, RowsStay, Grows
  <2> QED
    BY <1>2, <2>1 DEF OwnerOK, CreationOK
<1>5. CreatedOK(rec)'
  <2> SUFFICES ASSUME rec.op = "create", rec.answer = "200"
               PROVE  CreatedOK(rec)'
    BY DEF CreatedOK
  <2>1. rec.jid \in DOMAIN groups /\ groups[rec.jid].by = rec.by /\ Owned(rec.folder, rec.by)
    BY <1>2 DEF OwnerOK, CreatedOK
  <2>2. Owned(rec.folder, rec.by)'
    BY <2>1 DEF OwnersStay
  <2> QED
    BY <1>1, <1>3, <2>1, <2>2 DEF CreatedOK, RowsStay, Grows
<1>6. Attends(rec) => (Owned(rec.folder, Subject(rec))' <=> Owned(rec.folder, Subject(rec)))
  <2>0. PICK w, u : w = rec.folder /\ u = Subject(rec)
    OBVIOUS
  <2>1. Attends(rec) => ~(Creating(calls[r]) /\ calls[r].folder = w)
    BY <1>2, <2>0 DEF Alone
  <2>2. Attends(rec) => (Owned(w, u)' <=> Owned(w, u))
    BY <2>1 DEF OwnersStay
  <2> QED
    BY <2>0, <2>2 DEF Owned, Subject
<1>7. AddOK(rec)'
  BY <1>2, <1>6 DEF OwnerOK, AddOK, Attends
<1>8. RemoveOK(rec)'
  BY <1>2, <1>6 DEF OwnerOK, RemoveOK, Attends
<1>9. OwnerOK(rec)'
  BY <1>4, <1>5, <1>7, <1>8 DEF OwnerOK
<1> QED
  BY <1>1, <1>9 DEF OwnerOK, CreationOK, CreatedOK, AddOK, RemoveOK, Creating, Owned, Subject, RoleAsked

\* What the moving call has to show for the rest
OwnsStep(r) ==
  Fresh(r) /\ NoMemberComes(r) /\ ComesAlone(r) /\ OwnersStay(r) /\ OwnerOK(calls[r])'

\* A step whose call stays within these bounds keeps the owners.
LEMMA OwnershipKept ==
  ASSUME Courses, Ownership, NEW r \in Calls, Base(r), RowsStay,
         ~disputed' => (~disputed /\ (OwnersSafe => OwnsStep(r)))
  PROVE  Ownership'
<1> SUFFICES ASSUME ~disputed'
             PROVE  OwnersSafe'
  BY DEF Ownership
<1>1. OwnersSafe /\ OwnsStep(r)
  BY DEF Ownership
<1>2. \A q \in Calls : Alone(q)'
  BY <1>1, AloneKept DEF OwnsStep
<1>3. OwnersOK'
  BY <1>1, OwnersKept DEF OwnsStep
<1>4. \A q \in Calls : OwnerOK(calls[q])'
  <2> TAKE q \in Calls
  <2>1. CASE q = r
    BY <1>1, <2>1 DEF OwnsStep
  <2>2. CASE q # r
    BY <1>1, <2>2, OwnerKept DEF OwnsStep
  <2> QED
    BY <2>1, <2>2
<1> QED
  BY <1>2, <1>3, <1>4 DEF OwnersSafe

\* Where no member changes, the owners stay.
LEMMA SameMembers ==
  ASSUME NEW r, members' = members
  PROVE  NoMemberComes(r) /\ OwnersStay(r) /\ \A w, u : Owned(w, u)' <=> Owned(w, u)
<1>1. \A w, u : Owned(w, u)' <=> Owned(w, u)
  BY DEF Owned
<1> QED
  BY <1>1 DEF NoMemberComes, OwnersStay

\* A step that says nothing about who owns a workspace
LEMMA QuietOwns ==
  ASSUME Courses, Ownership, NEW r \in Calls, Base(r), OwnQuiet(r)
  PROVE  Ownership'
<1> PICK rec, new : rec = calls[r] /\ new = calls'[r]
  OBVIOUS
<1>1. Past(rec, new) /\ members' = members /\ disputed' = disputed /\ RowsStay
  BY DEF OwnQuiet
<1>2. rec.at # "new" => new.by = rec.by
  BY DEF Base, SameCall
<1>3. SUFFICES ASSUME OwnersSafe
               PROVE  OwnsStep(r)
  BY <1>1, OwnershipKept
<1>4. /\ Creating(new) => Creating(rec) /\ new.at # "merge"
      /\ new.op = "create" => new.at # "update" /\ new.answer # "200"
  BY <1>1 DEF Past
<1>5. Fresh(r)
  BY <1>4 DEF Fresh
<1>6. ComesAlone(r)
  BY <1>1 DEF ComesAlone, Attends, Past
<1>7. NoMemberComes(r) /\ OwnersStay(r)
  BY <1>1, SameMembers
<1>8. OwnerOK(calls[r])'
  <2>1. ASSUME Creating(new)
        PROVE  new.jid \in DOMAIN groups' /\ groups'[new.jid].by = new.by
    <3>1. Creating(rec) /\ rec.at # "new"
      BY <1>4, <2>1 DEF Creating
    <3>2. rec.jid \in DOMAIN groups /\ groups[rec.jid].by = rec.by
      BY <1>3, <3>1 DEF OwnersSafe, OwnerOK, CreationOK
    <3>3. new.jid = rec.jid /\ rec.jid \in WebJids /\ new.by = rec.by
      BY <1>2, <2>1, <3>1, SameWorkspace, Whereabouts
    <3> QED
      BY <1>1, <3>2, <3>3 DEF RowsStay, Base, Grows
  <2>2. CreationOK(calls[r])'
    BY <1>4, <2>1 DEF CreationOK, Creating
  <2>3. CreatedOK(calls[r])'
    BY <1>4 DEF CreatedOK
  <2>4. AddOK(calls[r])'
    BY <1>1 DEF AddOK, Past
  <2>5. RemoveOK(calls[r])'
    BY <1>1 DEF RemoveOK, Past
  <2> QED
    BY <2>2, <2>3, <2>4, <2>5 DEF OwnerOK
<1> QED
  BY <1>5, <1>6, <1>7, <1>8 DEF OwnsStep

\* Whether another call creates the workspace
LEMMA CreationElsewhere ==
  ASSUME NEW r \in Calls, NEW g, ~InCreation(r, g)
  PROVE  \A q \in Calls \ {r} : Creating(calls[q]) => calls[q].folder # g
BY DEF InCreation, Creating, Begun

\* The role a call finds is that of an owner, or not.
LEMMA RoleFound ==
  ASSUME NEW rec
  PROVE  /\ RoleNow(rec) = "owner" <=> Owned(rec.folder, Subject(rec))
         /\ RoleNow(rec) = NoRole => ~Owned(rec.folder, Subject(rec))
         /\ RoleNow(rec) # NoRole => <<rec.folder, Subject(rec)>> \in DOMAIN members
BY DEF RoleNow, RoleOfMember, NoRole, Owned

\* The creator looks for the row: it is not there, or the creation is disputed.
LEMMA GetGroupOwns ==
  ASSUME Courses, Ownership, NEW r \in Calls, GetGroup(r)
  PROVE  Ownership'
<1> PICK rec, new : rec = calls[r] /\ new = calls'[r]
  OBVIOUS
<1>1. Base(r) /\ (rec.op # "create" => OwnQuiet(r))
  BY GetGroupStep
<1>2. CASE rec.op # "create"
  BY <1>1, <1>2, QuietOwns
<1>3. CASE rec.op = "create"
  <2>1. /\ rec.at = "get" /\ groups' = groups /\ members' = members
        /\ disputed' = (disputed \/ rec.reg.jid \in DOMAIN groups)
    BY <1>3 DEF GetGroup, wsTables
  <2>2. CallOK(rec) /\ IsCall(rec) /\ rec.answer = "none"
    BY <1>3, <2>1, UnderWayOK DEF CallOK, CourseOK
  <2>3. RowsStay
    BY <2>1 DEF RowsStay
  <2>4. CASE disputed'
    BY <2>4 DEF Ownership
  <2>5. CASE ~disputed'
    <3>1. ~disputed /\ rec.reg.jid \notin DOMAIN groups
      BY <2>1, <2>5
    <3>2. disputed' = disputed
      <4>1. disputed \in BOOLEAN /\ disputed' \in BOOLEAN
        BY <1>1 DEF Base, Courses, TablesOK
      <4> QED
        BY <2>5, <3>1, <4>1
    <3>3. new = Moved(rec, "insert")
      BY <3>1 DEF GetGroup, Goto, Set, Moved, Courses, CallsOK
    <3>4. new.at = "insert" /\ new.answer = "none" /\ new.op = rec.op
      BY <2>2, <3>3, MovedFields
    <3>5. Past(rec, new)
      BY <1>3, <3>4 DEF Past, Creating
    <3>6. OwnQuiet(r)
      BY <2>1, <2>3, <3>2, <3>5 DEF OwnQuiet
    <3> QED
      BY <1>1, <3>6, QuietOwns
  <2> QED
    BY <2>4, <2>5
<1> QED
  BY <1>2, <1>3

\* A creation that is not disputed does not write a row that was there.
LEMMA UpdateGroupOwns ==
  ASSUME Courses, Ownership, NEW r \in Calls, UpdateGroup(r)
  PROVE  Ownership'
<1>1. Base(r) /\ (calls[r].op # "create" => OwnQuiet(r)) /\ calls[r].at = "update" /\ disputed' = disputed
  BY UpdateGroupStep DEF UpdateGroup, wsHistory
<1>2. CASE calls[r].op # "create"
  BY <1>1, <1>2, QuietOwns
<1>3. CASE calls[r].op = "create"
  <2>1. ~OwnersSafe
    BY <1>1, <1>3 DEF OwnersSafe, OwnerOK, CreationOK
  <2> QED
    BY <1>1, <2>1 DEF Ownership
<1> QED
  BY <1>2, <1>3

\* The row of a new workspace names its creator.
LEMMA InsertGroupOwns ==
  ASSUME Courses, Ownership, NEW r \in Calls, InsertGroup(r)
  PROVE  Ownership'
<1> PICK rec, new : rec = calls[r] /\ new = calls'[r]
  OBVIOUS
<1>1. Base(r) /\ RowsStay /\ (rec.op # "create" => OwnQuiet(r))
  BY InsertGroupStep
<1>2. CASE rec.op # "create"
  BY <1>1, <1>2, QuietOwns
<1>3. CASE rec.op = "create"
  <2>1. rec.at = "insert" /\ members' = members /\ disputed' = disputed
    BY DEF InsertGroup, wsHistory
  <2>2. CallOK(rec) /\ IsCall(rec) /\ rec.answer = "none"
    BY <1>3, <2>1, UnderWayOK DEF CallOK, CourseOK
  <2>3. new.op = "create" /\ new.jid = rec.jid /\ new.folder = rec.folder /\ new.by = rec.by
    BY <1>1, <1>3, <2>1 DEF Base, SameCall
  <2>4. rec.jid = JidOf(rec.folder) /\ rec.reg.jid = rec.jid /\ rec.reg.by = rec.by
    BY <1>3, <2>1, <2>2 DEF CallOK, RegOK, CreateOK, Registering
  <2>5. NoMemberComes(r) /\ OwnersStay(r)
    BY <2>1, SameMembers
  <2> PICK jid : jid = rec.jid
    OBVIOUS
  <2>6. CASE jid \in DOMAIN groups
    <3>1. new = Ended(rec, "500")
      BY <2>4, <2>6 DEF InsertGroup, Answer, Set, Courses, CallsOK
    <3>2. new.at = "done" /\ new.answer = "500"
      BY <2>2, <3>1, EndedFields
    <3>3. Past(rec, new)
      BY <2>3, <3>2 DEF Past, Creating
    <3>4. OwnQuiet(r)
      BY <1>1, <2>1, <3>3 DEF OwnQuiet
    <3> QED
      BY <1>1, <3>4, QuietOwns
  <2>7. CASE jid \notin DOMAIN groups
    <3> PICK row : row = Row(rec.reg.name, rec.reg.folder, rec.reg.by, rec.reg.home)
      OBVIOUS
    <3>1. /\ groups' = [j \in DOMAIN groups \cup {jid} |-> IF j = jid THEN row ELSE groups[j]]
          /\ new = Moved(rec, "refresh")
      BY <2>4, <2>7 DEF InsertGroup, Goto, Set, Moved, Courses, CallsOK
    <3>2. new.at = "refresh" /\ new.answer = "none"
      BY <2>2, <3>1, MovedFields
    <3>3. jid \in DOMAIN groups' /\ groups'[jid].by = rec.by
      BY <2>4, <3>1 DEF Row
    <3>4. Fresh(r) /\ ComesAlone(r)
      BY <2>3, <2>4, <2>7 DEF Fresh, ComesAlone, Attends
    <3>5. OwnerOK(calls[r])'
      BY <2>3, <3>2, <3>3 DEF OwnerOK, CreationOK, CreatedOK, AddOK, RemoveOK
    <3>6. OwnersSafe => OwnsStep(r)
      BY <2>5, <3>4, <3>5 DEF OwnsStep
    <3> QED
      BY <1>1, <2>1, <3>6, OwnershipKept
  <2> QED
    BY <2>6, <2>7
<1> QED
  BY <1>2, <1>3

\* A call that is to add a member finds the workspace.
LEMMA FindWorkspaceOwns ==
  ASSUME Courses, Ownership, NEW r \in Calls, FindWorkspace(r)
  PROVE  Ownership'
<1> PICK rec, new : rec = calls[r] /\ new = calls'[r]
  OBVIOUS
<1>1. /\ Base(r) /\ RowsStay /\ members' = members
      /\ new.at \in {"done", "slot"} /\ new.answer # "200"
      /\ rec.op # "add" => OwnQuiet(r)
  BY FindWorkspaceStep
<1>2. CASE rec.op # "add"
  BY <1>1, <1>2, QuietOwns
<1>3. CASE rec.op = "add"
  <2>1. rec.at = "find" /\ disputed' = (disputed \/ InCreation(r, rec.folder))
    BY <1>3 DEF FindWorkspace
  <2>2. new.op = "add"
    BY <1>1, <1>3, <2>1 DEF Base, SameCall
  <2> SUFFICES ASSUME ~disputed', OwnersSafe
               PROVE  OwnsStep(r)
    BY <1>1, <2>1, OwnershipKept
  <2>3. \A q \in Calls : Creating(calls[q]) => calls[q].folder # rec.folder
    <3>1. \A q \in Calls \ {r} : Creating(calls[q]) => calls[q].folder # rec.folder
      BY <2>1, CreationElsewhere
    <3> QED
      BY <1>3, <3>1 DEF Creating
  <2>4. Fresh(r) /\ ComesAlone(r)
    BY <1>1, <2>1, <2>2, <2>3 DEF Fresh, Creating, ComesAlone
  <2>5. NoMemberComes(r) /\ OwnersStay(r)
    BY <1>1, SameMembers
  <2>6. OwnerOK(calls[r])'
    BY <1>1, <2>2 DEF OwnerOK, CreationOK, CreatedOK, AddOK, RemoveOK, Creating
  <2> QED
    BY <2>4, <2>5, <2>6 DEF OwnsStep
<1> QED
  BY <1>2, <1>3

\* The route looks at the owner role.
LEMMA CheckRoleChangeOwns ==
  ASSUME Courses, Ownership, NEW r \in Calls, CheckRoleChange(r)
  PROVE  Ownership'
<1> PICK rec, new : rec = calls[r] /\ new = calls'[r]
  OBVIOUS
<1>1. /\ Base(r) /\ RowsStay /\ UNCHANGED <<members, disputed>>
      /\ rec.op = "add" /\ new.at \in {"done", "member_check"}
      /\ new.at = "done" => OwnQuiet(r)
  BY CheckRoleChangeStep
<1>2. CASE new.at = "done"
  BY <1>1, <1>2, QuietOwns
<1>3. CASE new.at = "member_check"
  <2>1. rec.at = "role_change" /\ CallOK(rec) /\ IsCall(rec)
    BY UnderWayOK DEF CheckRoleChange, CallOK
  <2>2. new.op = "add" /\ new.folder = rec.folder /\ new.arg = rec.arg
    BY <1>1, <2>1 DEF Base, SameCall
  <2>3. RoleChangeSupported(RoleAsked(rec), RoleNow(rec))
    <3> SUFFICES ASSUME ~RoleChangeSupported(RoleAsked(rec), RoleNow(rec))
                 PROVE  FALSE
      OBVIOUS
    <3>1. Answer(r, "400")
      BY DEF CheckRoleChange
    <3>2. new = Ended(rec, "400")
      BY <3>1 DEF Answer, Set, Courses, CallsOK
    <3> QED
      BY <1>3, <2>1, <3>2, EndedFields
  <2> SUFFICES ASSUME OwnersSafe
               PROVE  OwnsStep(r)
    BY <1>1, OwnershipKept
  <2>4. Attends(rec)
    BY <1>1, <2>1 DEF Attends
  <2>5. Fresh(r) /\ ComesAlone(r)
    BY <1>1, <2>1, <2>2, <2>4 DEF Fresh, Creating, ComesAlone
  <2>6. NoMemberComes(r) /\ OwnersStay(r) /\ \A w, u : Owned(w, u)' <=> Owned(w, u)
    BY <1>1, SameMembers
  <2>7. (RoleAsked(rec) = "owner") <=> Owned(rec.folder, Subject(rec))
    BY <2>3, RoleFound DEF RoleChangeSupported
  <2>8. RoleAsked(new) = RoleAsked(rec) /\ Subject(new) = Subject(rec)
    BY <2>2 DEF RoleAsked, Subject
  <2>9. (RoleAsked(new) = "owner") <=> Owned(new.folder, Subject(new))'
    <3> PICK w, u : w = rec.folder /\ u = Subject(rec)
      OBVIOUS
    <3>1. Owned(w, u)' <=> (RoleAsked(rec) = "owner")
      BY <2>6, <2>7
    <3> QED
      BY <2>2, <2>8, <3>1 DEF Owned, Subject
  <2>10. AddOK(calls[r])'
    BY <2>9 DEF AddOK, RoleAsked, Subject, Owned
  <2>11. OwnerOK(calls[r])'
    BY <2>2, <2>10 DEF OwnerOK, CreationOK, CreatedOK, RemoveOK, Creating
  <2> QED
    BY <2>5, <2>6, <2>11 DEF OwnsStep
<1> QED
  BY <1>1, <1>2, <1>3

\* The service looks again.
LEMMA CheckMemberOwns ==
  ASSUME Courses, Ownership, NEW r \in Calls, CheckMember(r)
  PROVE  Ownership'
<1> PICK rec, new : rec = calls[r] /\ new = calls'[r]
  OBVIOUS
<1>1. /\ Base(r) /\ RowsStay /\ UNCHANGED <<members, disputed>>
      /\ rec.at = "member_check" /\ rec.op \in {"add", "create"} /\ new.at \in {"done", "merge"}
      /\ new.at = "merge" => new.seen = RoleNow(rec) /\ new.answer = "none"
      /\ new.at = "done" => OwnQuiet(r)
  BY CheckMemberStep
<1>2. CASE new.at = "done"
  BY <1>1, <1>2, QuietOwns
<1>3. CASE new.at = "merge"
  <2>1. /\ new.op = rec.op /\ new.jid = rec.jid /\ new.folder = rec.folder
        /\ new.arg = rec.arg /\ new.by = rec.by
    BY <1>1 DEF Base, SameCall
  <2> SUFFICES ASSUME OwnersSafe
               PROVE  OwnsStep(r)
    BY <1>1, OwnershipKept
  <2>2. Alone(r) /\ OwnerOK(rec)
    BY DEF OwnersSafe
  <2>3. (Creating(new) => Creating(rec)) /\ (Attends(new) => Attends(rec))
    BY <1>1, <1>3, <2>1 DEF Creating, Attends
  <2>4. Fresh(r) /\ ComesAlone(r)
    BY <1>1, <2>3 DEF Fresh, ComesAlone
  <2>5. NoMemberComes(r) /\ OwnersStay(r) /\ \A w, u : Owned(w, u)' <=> Owned(w, u)
    BY <1>1, SameMembers
  <2>6. AddOK(calls[r])'
    <3> PICK w, u : w = rec.folder /\ u = Subject(rec)
      OBVIOUS
    <3>1. rec.op = "add" => (Owned(w, u)' <=> (RoleAsked(rec) = "owner"))
      BY <1>1, <2>2, <2>5 DEF OwnerOK, AddOK
    <3> QED
      BY <2>1, <3>1 DEF AddOK, Owned, Subject, RoleAsked
  <2>7. CreationOK(calls[r])'
    <3> SUFFICES ASSUME Creating(new)
                 PROVE  CreationOK(calls[r])'
      BY <1>3 DEF CreationOK, Creating
    <3>1. rec.jid \in DOMAIN groups /\ groups[rec.jid].by = rec.by /\ rec.jid \in WebJids
      BY <1>1, <2>2, <2>3, Whereabouts DEF OwnerOK, CreationOK
    <3>2. rec.jid \in DOMAIN groups' /\ groups'[rec.jid].by = rec.by
      BY <1>1, <3>1 DEF RowsStay, Base, Grows
    <3>3. new.seen = NoRole
      <4>1. <<rec.folder, Subject(rec)>> \notin DOMAIN members
        BY <2>2, <2>3 DEF Alone
      <4>2. RoleNow(rec) = NoRole
        BY <4>1, RoleFound
      <4> QED
        BY <1>1, <1>3, <4>2
    <3> QED
      BY <1>3, <2>1, <3>2, <3>3 DEF CreationOK
  <2>8. OwnerOK(calls[r])'
    BY <1>1, <1>3, <2>6, <2>7 DEF OwnerOK, CreatedOK, RemoveOK
  <2> QED
    BY <2>4, <2>5, <2>8 DEF OwnsStep
<1> QED
  BY <1>1, <1>2, <1>3

\* A member who is no owner is to be removed.
LEMMA GetMemberOwns ==
  ASSUME Courses, Ownership, NEW r \in Calls, GetMember(r)
  PROVE  Ownership'
<1> PICK rec, new : rec = calls[r] /\ new = calls'[r]
  OBVIOUS
<1>1. /\ Base(r) /\ RowsStay /\ UNCHANGED <<members, disputed>>
      /\ rec.op = "remove" /\ rec.at = "member_get" /\ new.at \in {"done", "delete"}
      /\ new.at = "delete" => RoleNow(rec) \notin {NoRole, "owner"}
      /\ new.at = "done" => OwnQuiet(r)
  BY GetMemberStep
<1>2. CASE new.at = "done"
  BY <1>1, <1>2, QuietOwns
<1>3. CASE new.at = "delete"
  <2>1. new.op = "remove" /\ new.folder = rec.folder /\ new.arg = rec.arg
    BY <1>1 DEF Base, SameCall
  <2> SUFFICES ASSUME OwnersSafe
               PROVE  OwnsStep(r)
    BY <1>1, OwnershipKept
  <2> PICK w, u : w = rec.folder /\ u = Subject(rec)
    OBVIOUS
  <2>2. ~Owned(w, u) /\ <<w, u>> \in DOMAIN members
    BY <1>1, <1>3, RoleFound
  <2>3. \A q \in Calls : Creating(calls[q]) => calls[q].folder # w
    <3>1. \A q \in Calls : Alone(q)
      BY DEF OwnersSafe
    <3> QED
      BY <2>2, <3>1 DEF Alone
  <2>4. Fresh(r) /\ ComesAlone(r)
    BY <1>1, <2>1, <2>3 DEF Fresh, Creating, ComesAlone
  <2>5. NoMemberComes(r) /\ OwnersStay(r) /\ ~Owned(w, u)'
    BY <1>1, <2>2, SameMembers
  <2>6. RemoveOK(calls[r])'
    BY <2>1, <2>5 DEF RemoveOK, Owned, Subject
  <2>7. OwnerOK(calls[r])'
    BY <2>1, <2>6 DEF OwnerOK, CreationOK, CreatedOK, AddOK, Creating
  <2> QED
    BY <2>4, <2>5, <2>7 DEF OwnsStep
<1> QED
  BY <1>1, <1>2, <1>3

\* He is removed.
LEMMA DeleteMemberOwns ==
  ASSUME Courses, Ownership, NEW r \in Calls, DeleteMember(r)
  PROVE  Ownership'
<1> PICK rec, new : rec = calls[r] /\ new = calls'[r]
  OBVIOUS
<1> PICK gone : gone = <<rec.folder, Subject(rec)>>
  OBVIOUS
<1>1. /\ Base(r) /\ RowsStay /\ UNCHANGED disputed
      /\ rec.op = "remove" /\ rec.at = "delete" /\ new.at = "done" /\ new.op = "remove"
      /\ members' = [k \in DOMAIN members \ {gone} |-> members[k]]
  BY DeleteMemberStep
<1> SUFFICES ASSUME OwnersSafe
             PROVE  OwnsStep(r)
  BY <1>1, OwnershipKept
<1>2. ~Owned(rec.folder, Subject(rec))
  BY <1>1 DEF OwnersSafe, OwnerOK, RemoveOK
<1>3. \A w, u : Owned(w, u)' <=> Owned(w, u)
  <2> TAKE w, u
  <2>1. CASE <<w, u>> = gone
    <3>1. w = rec.folder /\ u = Subject(rec)
      BY <2>1
    <3> QED
      BY <1>1, <1>2, <2>1, <3>1 DEF Owned
  <2>2. CASE <<w, u>> # gone
    BY <1>1, <2>2 DEF Owned
  <2> QED
    BY <2>1, <2>2
<1>4. Fresh(r) /\ ComesAlone(r) /\ NoMemberComes(r)
  BY <1>1 DEF Fresh, Creating, ComesAlone, Attends, NoMemberComes
<1>5. OwnersStay(r)
  BY <1>3 DEF OwnersStay
<1>6. OwnerOK(calls[r])'
  BY <1>1 DEF OwnerOK, CreationOK, CreatedOK, AddOK, RemoveOK, Creating
<1> QED
  BY <1>4, <1>5, <1>6 DEF OwnsStep

\* The creator becomes the owner; a member that is added gets or keeps a role that leaves
\* the owners as they are.
LEMMA MergeMemberOwns ==
  ASSUME Courses, Ownership, NEW r \in Calls, MergeMember(r)
  PROVE  Ownership'
<1> PICK rec, new : rec = calls[r] /\ new = calls'[r]
  OBVIOUS
<1> PICK w, s, role : w = rec.folder /\ s = Subject(rec) /\ role = RoleAsked(rec)
  OBVIOUS
<1>1. /\ Base(r) /\ RowsStay /\ UNCHANGED disputed
      /\ rec.at = "merge" /\ rec.op \in {"add", "create"} /\ new.at = "done" /\ new.op = rec.op
      /\ Written(r) \/ members' = members
      /\ (rec.seen = NoRole /\ new.answer = "200") => Written(r)
  BY MergeMemberStep
<1>2. new.jid = rec.jid /\ new.folder = rec.folder /\ new.by = rec.by
  BY <1>1 DEF Base, SameCall
<1>3. Written(r) => members' = [m \in DOMAIN members \cup {<<w, s>>} |-> IF m = <<w, s>> THEN role ELSE members[m]]
  BY DEF Written
<1> SUFFICES ASSUME OwnersSafe
             PROVE  OwnsStep(r)
  BY <1>1, OwnershipKept
<1>4. Alone(r) /\ OwnerOK(rec)
  BY DEF OwnersSafe
<1>5. Fresh(r) /\ ComesAlone(r)
  BY <1>1 DEF Fresh, Creating, ComesAlone, Attends
<1>6. Written(r) => /\ \A v, u : <<v, u>> # <<w, s>> => (Owned(v, u)' <=> Owned(v, u))
                    /\ Owned(w, s)' <=> (role = "owner")
  <2> SUFFICES ASSUME Written(r)
               PROVE  /\ \A v, u : <<v, u>> # <<w, s>> => (Owned(v, u)' <=> Owned(v, u))
                      /\ Owned(w, s)' <=> (role = "owner")
    OBVIOUS
  <2> PICK key : key = <<w, s>>
    OBVIOUS
  <2>1. members' = [m \in DOMAIN members \cup {key} |-> IF m = key THEN role ELSE members[m]]
    BY <1>3
  <2>2. ASSUME NEW m, m # key
        PROVE  /\ m \in DOMAIN members' <=> m \in DOMAIN members
               /\ (m \in DOMAIN members) => (members'[m] = members[m])
    BY ONLY <2>1, <2>2
  <2>3. key \in DOMAIN members' /\ members'[key] = role
    BY ONLY <2>1
  <2>4. ASSUME NEW v, NEW u, <<v, u>> # key PROVE Owned(v, u)' <=> Owned(v, u)
    <3> PICK m : m = <<v, u>>
      OBVIOUS
    <3>1. /\ m \in DOMAIN members' <=> m \in DOMAIN members
          /\ (m \in DOMAIN members) => (members'[m] = members[m])
      BY <2>2, <2>4
    <3> QED
      BY <3>1 DEF Owned
  <2>5. Owned(w, s)' <=> (role = "owner")
    BY <2>3 DEF Owned
  <2> QED
    BY <2>4, <2>5
<1>7. NoMemberComes(r)
  <2>1. CASE members' = members
    BY <2>1, SameMembers
  <2>2. CASE Written(r)
    <3> SUFFICES ASSUME NEW q \in Calls, Creating(calls'[q])
                 PROVE  calls'[q].folder # w
      BY <1>3, <2>2 DEF NoMemberComes
    <3>1. q # r /\ calls'[q] = calls[q]
      BY <1>1 DEF Creating, Base, Others
    <3>2. CASE rec.op = "create"
      BY <1>1, <1>4, <3>1, <3>2 DEF Alone, Creating
    <3>3. CASE rec.op = "add"
      BY <1>1, <1>4, <3>1, <3>3 DEF Alone, Attends
    <3> QED
      BY <1>1, <3>2, <3>3
  <2> QED
    BY <1>1, <2>1, <2>2
<1>8. CASE rec.op = "add"
  <2>1. (role = "owner") <=> Owned(w, s)
    BY <1>1, <1>4, <1>8 DEF OwnerOK, AddOK
  <2>2. \A v, u : Owned(v, u)' <=> Owned(v, u)
    <3>1. CASE members' = members
      BY <3>1, SameMembers
    <3>2. CASE Written(r)
      BY <1>6, <2>1, <3>2 DEF Owned
    <3> QED
      BY <1>1, <3>1, <3>2
  <2>3. OwnersStay(r)
    BY <2>2 DEF OwnersStay
  <2>4. OwnerOK(calls[r])'
    BY <1>1, <1>8 DEF OwnerOK, CreationOK, CreatedOK, AddOK, RemoveOK, Creating
  <2> QED
    BY <1>5, <1>7, <2>3, <2>4 DEF OwnsStep
<1>9. CASE rec.op = "create"
  <2>1. CallOK(rec) /\ Creating(rec)
    BY <1>1, <1>9, UnderWayOK DEF Creating
  <2>2. rec.arg = <<rec.by, "owner">> /\ s = rec.by /\ role = "owner"
    BY <1>9, <2>1 DEF CallOK, CreateOK, Subject, RoleAsked
  <2>3. rec.seen = NoRole /\ rec.jid \in DOMAIN groups /\ groups[rec.jid].by = rec.by /\ rec.jid \in WebJids
    BY <1>1, <1>4, <2>1, Whereabouts DEF OwnerOK, CreationOK
  <2>4. OwnersStay(r)
    <3>1. CASE members' = members
      BY <3>1, SameMembers
    <3>2. CASE Written(r)
      <4>1. \A v, u : <<v, u>> # <<w, s>> => (Owned(v, u)' <=> Owned(v, u))
        BY <1>6, <3>2
      <4>2. Owned(w, s)'
        BY <1>6, <2>2, <3>2
      <4>3. ASSUME NEW v, NEW u, Owned(v, u) PROVE Owned(v, u)'
        <5>1. CASE <<v, u>> = <<w, s>>
          <6>1. v = w /\ u = s
            BY <5>1
          <6> QED
            BY <4>2, <6>1
        <5>2. CASE <<v, u>> # <<w, s>>
          BY <4>1, <4>3, <5>2
        <5> QED
          BY <5>1, <5>2
      <4>4. ASSUME NEW v, NEW u, Owned(v, u)', ~Owned(v, u) PROVE v = w /\ u = rec.by
        <5>1. <<v, u>> = <<w, s>>
          BY <4>1, <4>4
        <5> QED
          BY <2>2, <5>1
      <4> QED
        BY <1>1, <2>1, <4>3, <4>4 DEF OwnersStay
    <3> QED
      BY <1>1, <3>1, <3>2
  <2>5. CreatedOK(calls[r])'
    <3> SUFFICES ASSUME new.answer = "200"
                 PROVE  CreatedOK(calls[r])'
      BY DEF CreatedOK
    <3>1. Owned(w, s)'
      BY <1>1, <1>6, <2>2, <2>3
    <3>2. rec.jid \in DOMAIN groups' /\ groups'[rec.jid].by = rec.by
      BY <1>1, <2>3 DEF Base, Grows, RowsStay
    <3>3. Owned(calls[r].folder, calls[r].by)'
      BY <1>2, <2>2, <3>1 DEF Owned
    <3> QED
      BY <1>2, <3>2, <3>3 DEF CreatedOK
  <2>6. OwnerOK(calls[r])'
    BY <1>1, <1>9, <2>5 DEF OwnerOK, CreationOK, AddOK, RemoveOK, Creating
  <2> QED
    BY <1>5, <1>7, <2>4, <2>6 DEF OwnsStep
<1> QED
  BY <1>1, <1>8, <1>9

-----------------------------------------------------------------------------
\* What an endpoint was bound to stays what it was; a change tells what it is bound to now.
LEMMA BoundAppend ==
  ASSUME bindLog \in Seq(BindingType), LatestOK, NEW b \in BindingType, bindLog' = Append(bindLog, b),
         NEW N, N = Len(bindLog)
  PROVE  /\ N \in Nat /\ Len(bindLog') = N + 1 /\ bindLog'[N + 1] = b
         /\ \A i \in 1 .. N : bindLog'[i] = bindLog[i]
         /\ \A e \in Endpoints, n \in 0 .. N : BoundAt(e, n)' = BoundAt(e, n)
         /\ \A e \in Endpoints : BoundAt(e, N + 1)' = IF b.endpoint = e THEN b.to ELSE BoundAt(e, N)
         /\ LatestOK'
<1>1. N \in Nat /\ Len(bindLog') = N + 1 /\ bindLog'[N + 1] = b
      /\ \A i \in 1 .. N : bindLog'[i] = bindLog[i]
  OBVIOUS
<1>2. ASSUME NEW e, NEW n \in 0 .. N PROVE ChangesOf(e, n)' = ChangesOf(e, n)
  <2>1. \A i \in 1 .. n : bindLog'[i] = bindLog[i]
    BY <1>1
  <2> QED
    BY <2>1 DEF ChangesOf
<1>3. ASSUME NEW e \in Endpoints, NEW n \in 0 .. N, ChangesOf(e, n) # {}
      PROVE  Max(ChangesOf(e, n)) \in 1 .. N
  <2>1. \E x \in ChangesOf(e, n) : \A y \in ChangesOf(e, n) : x >= y
    BY <1>3 DEF LatestOK
  <2>2. Max(ChangesOf(e, n)) \in ChangesOf(e, n)
    BY <2>1 DEF Max
  <2>3. ChangesOf(e, n) \subseteq 1 .. n
    BY DEF ChangesOf
  <2> QED
    BY <1>1, <2>2, <2>3
<1>4. \A e \in Endpoints, n \in 0 .. N : BoundAt(e, n)' = BoundAt(e, n)
  <2> TAKE e \in Endpoints, n \in 0 .. N
  <2> PICK S : S = ChangesOf(e, n)
    OBVIOUS
  <2>1. BoundAt(e, n) = IF S = {} THEN Unbound ELSE bindLog[Max(S)].to
    BY DEF BoundAt, ChangesOf
  <2>2. BoundAt(e, n)' = IF S = {} THEN Unbound ELSE bindLog'[Max(S)].to
    <3>1. ChangesOf(e, n)' = S
      BY <1>2
    <3> QED
      BY <3>1 DEF BoundAt, ChangesOf
  <2>3. S # {} => bindLog'[Max(S)] = bindLog[Max(S)]
    BY <1>1, <1>3
  <2> QED
    BY ONLY <2>1, <2>2, <2>3
<1>5. ASSUME NEW e \in Endpoints, b.endpoint # e
      PROVE  ChangesOf(e, N + 1)' = ChangesOf(e, N)
  <2>1. ChangesOf(e, N + 1)' = ChangesOf(e, N)'
    BY <1>1, <1>5 DEF ChangesOf
  <2> QED
    BY <1>1, <1>2, <2>1
<1>6. ASSUME NEW e \in Endpoints, b.endpoint = e
      PROVE  N + 1 \in ChangesOf(e, N + 1)' /\ \A y \in ChangesOf(e, N + 1)' : N + 1 >= y /\ y \in Int
  BY <1>1, <1>6 DEF ChangesOf
<1>7. \A e \in Endpoints : BoundAt(e, N + 1)' = IF b.endpoint = e THEN b.to ELSE BoundAt(e, N)
  <2> TAKE e \in Endpoints
  <2>1. CASE b.endpoint # e
    <3>1. ChangesOf(e, N + 1)' = ChangesOf(e, N)'
      BY <1>1, <1>2, <1>5, <2>1
    <3>2. BoundAt(e, N + 1)' = BoundAt(e, N)'
      BY <3>1 DEF BoundAt, ChangesOf
    <3> QED
      BY <1>1, <1>4, <2>1, <3>2
  <2>2. CASE b.endpoint = e
    <3> PICK S : S = ChangesOf(e, N + 1)'
      OBVIOUS
    <3>1. N + 1 \in S /\ \A y \in S : N + 1 >= y /\ y \in Int
      BY <1>6, <2>2
    <3>2. \A x \in S : (\A y \in S : x >= y) => x = N + 1
      BY <1>1, <3>1
    <3>3. Max(S) = N + 1
      BY <3>1, <3>2 DEF Max
    <3>4. BoundAt(e, N + 1)' = bindLog'[Max(S)].to
      BY <3>1 DEF BoundAt, ChangesOf
    <3> QED
      BY <1>1, <2>2, <3>3, <3>4
  <2> QED
    BY <2>1, <2>2
<1>8. LatestOK'
  <2> SUFFICES ASSUME NEW e \in Endpoints, NEW n \in 0 .. (N + 1), ChangesOf(e, n)' # {}
               PROVE  \E x \in ChangesOf(e, n)' : \A y \in ChangesOf(e, n)' : x >= y
    BY <1>1 DEF LatestOK
  <2>1. CASE n \in 0 .. N
    BY <1>2, <2>1 DEF LatestOK
  <2>2. CASE n = N + 1 /\ b.endpoint = e
    BY <1>6, <2>2
  <2>3. CASE n = N + 1 /\ b.endpoint # e
    <3>1. ChangesOf(e, n)' = ChangesOf(e, N) /\ N \in 0 .. N
      BY <1>1, <1>5, <2>3
    <3> QED
      BY <3>1 DEF LatestOK
  <2> QED
    BY <1>1, <2>1, <2>2, <2>3
<1> QED
  BY <1>1, <1>4, <1>7, <1>8

-----------------------------------------------------------------------------
\* A call that is to change a binding names an endpoint.
LEMMA AtBinding ==
  ASSUME Courses, NEW q \in Calls, calls[q].at = "binding"
  PROVE  /\ calls[q].op \in {"bind", "unbind"} /\ calls[q].jid \in WebJids
         /\ calls[q].arg = <<calls[q].arg[1]>> /\ calls[q].arg[1] \in Endpoints
<1>1. CallOK(calls[q])
  BY UnderWayOK
<1>2. calls[q].op \in {"bind", "unbind"}
  BY <1>1 DEF CallOK, CourseOK, OpsAt
<1> QED
  BY <1>1, <1>2 DEF CallOK, OpenOK, Opens

\* A step that says nothing about the bindings
LEMMA QuietBinds ==
  ASSUME Courses, Bindings, NEW r \in Calls, Base(r), UNCHANGED <<bindLog, racedBind>>,
         \A e \in Endpoints : TargetOf(e)' = TargetOf(e), calls'[r].at # "binding"
  PROVE  Bindings'
<1>1. /\ bindLog' = bindLog /\ racedBind' = racedBind /\ Others(r)
      /\ \A e \in Endpoints : TargetOf(e)' = TargetOf(e)
      /\ calls'[r].at # "binding"
  BY DEF Base
<1>2. LatestOK' /\ BindingNotStolen'
  BY <1>1 DEF Bindings, LatestOK, ChangesOf, BindingNotStolen, BoundAt
<1>3. \A e \in Endpoints : TargetOf(e)' = BoundAt(e, Len(bindLog))'
  <2> TAKE e \in Endpoints
  <2>1. BoundAt(e, Len(bindLog))' = BoundAt(e, Len(bindLog))
    BY <1>1 DEF BoundAt
  <2> QED
    BY <1>1, <2>1 DEF Bindings
<1>4. ASSUME ~racedBind', NEW q \in Calls PROVE ChangeOK(q)'
  <2> SUFFICES ASSUME calls'[q].at = "binding"
               PROVE  ChangeOK(q)'
    BY DEF ChangeOK
  <2>1. q # r /\ calls'[q] = calls[q] /\ calls[q].at = "binding"
    BY <1>1 DEF Others
  <2>2. ChangeOK(q) /\ calls[q].arg[1] \in Endpoints
    BY <1>1, <1>4, <2>1, AtBinding DEF Bindings
  <2>3. \A p \in Calls : (calls'[p].at = "binding" /\ calls'[p].arg = calls'[q].arg) => p = q
    BY <1>1, <2>1, <2>2 DEF ChangeOK, Others
  <2> PICK e : e = calls[q].arg[1]
    OBVIOUS
  <2>4. TargetOf(e)' = IF calls[q].op = "bind" THEN Unbound ELSE calls[q].jid
    BY <1>1, <2>1, <2>2 DEF ChangeOK
  <2>5. TargetOf(calls[q].arg[1])' = TargetOf(e)'
    BY <2>1 DEF TargetOf
  <2> QED
    BY <2>1, <2>3, <2>4, <2>5 DEF ChangeOK
<1> QED
  BY <1>2, <1>3, <1>4 DEF Bindings

\* A change of a binding that is about to be written has seen what it changes.
LEMMA GetEndpointBinds ==
  ASSUME Courses, Bindings, NEW r \in Calls, GetEndpoint(r)
  PROVE  Bindings'
<1> PICK rec, new : rec = calls[r] /\ new = calls'[r]
  OBVIOUS
<1>1. /\ Base(r) /\ bindLog' = bindLog
      /\ \A e \in Endpoints : TargetOf(e)' = TargetOf(e)
      /\ rec.op \in {"bind", "unbind"} /\ rec.at = "endpoint"
      /\ new.at \in {"done", "binding"} /\ new.op = rec.op
      /\ new.at = "binding" =>
           /\ Im(rec.arg[1]) \in DOMAIN groups
           /\ IF rec.op = "unbind" THEN groups[Im(rec.arg[1])].target = rec.jid
              ELSE Free(groups[Im(rec.arg[1])].target)
  BY GetEndpointStep
<1>2. /\ racedBind' = (racedBind \/ \E q \in Calls : calls[q].at = "binding" /\ calls[q].arg = rec.arg)
  BY DEF GetEndpoint
<1>3. Others(r) /\ new.jid = rec.jid /\ new.folder = rec.folder /\ new.arg = rec.arg
  BY <1>1 DEF Base, SameCall
<1>4. LatestOK'
  BY <1>1 DEF Bindings, LatestOK, ChangesOf
<1>5. BindingNotStolen'
  BY <1>1, <1>2 DEF Bindings, BindingNotStolen, BoundAt
<1>6. \A e \in Endpoints : TargetOf(e)' = BoundAt(e, Len(bindLog))'
  <2> TAKE e \in Endpoints
  <2>1. BoundAt(e, Len(bindLog))' = BoundAt(e, Len(bindLog))
    BY <1>1 DEF BoundAt
  <2> QED
    BY <1>1, <2>1 DEF Bindings
<1>7. ASSUME ~racedBind', NEW q \in Calls, calls'[q].at = "binding"
      PROVE  \A p \in Calls : (calls'[p].at = "binding" /\ calls'[p].arg = calls'[q].arg) => p = q
  <2>1. \A p \in Calls : calls[p].at = "binding" => calls[p].arg # rec.arg
    BY <1>2, <1>7
  <2>2. CASE q = r
    BY <1>3, <1>7, <2>1, <2>2 DEF Others
  <2>3. CASE q # r
    <3>1. calls'[q] = calls[q] /\ calls[q].at = "binding" /\ calls[q].arg # rec.arg
      BY <1>3, <1>7, <2>1, <2>3 DEF Others
    <3>2. ChangeOK(q)
      BY <1>2, <1>7 DEF Bindings
    <3> QED
      BY <1>3, <2>1, <3>1, <3>2 DEF Others, ChangeOK
  <2> QED
    BY <2>2, <2>3
<1>8. ASSUME ~racedBind', NEW q \in Calls, calls'[q].at = "binding"
      PROVE  TargetOf(calls[q].arg[1])' = IF calls'[q].op = "bind" THEN Unbound ELSE calls'[q].jid
  <2> PICK e : e = calls'[q].arg[1]
    OBVIOUS
  <2>1. e \in Endpoints
    <3>1. CASE q = r
      <4>1. CallOK(rec)
        BY <1>1, UnderWayOK
      <4>2. OpenOK(rec)
        BY <1>1, <4>1 DEF CallOK, Opens
      <4> QED
        BY <1>1, <1>3, <3>1, <4>2 DEF OpenOK
    <3>2. CASE q # r
      <4>1. calls'[q] = calls[q] /\ calls[q].at = "binding"
        BY <1>3, <1>8, <3>2 DEF Others
      <4> QED
        BY <4>1, AtBinding
    <3> QED
      BY <3>1, <3>2
  <2>2. CASE q # r
    <3>1. calls'[q] = calls[q] /\ calls[q].at = "binding" /\ ChangeOK(q)
      BY <1>2, <1>3, <1>8, <2>2 DEF Others, Bindings
    <3>2. TargetOf(e) = IF calls'[q].op = "bind" THEN Unbound ELSE calls'[q].jid
      BY <3>1 DEF ChangeOK
    <3>3. TargetOf(e)' = IF calls'[q].op = "bind" THEN Unbound ELSE calls'[q].jid
      BY <1>1, <2>1, <3>2
    <3> QED
      BY <3>3 DEF TargetOf
  <2>3. CASE q = r
    <3>1. e = rec.arg[1] /\ Im(e) \in DOMAIN groups /\ TargetOf(e) = groups[Im(e)].target
      BY <1>1, <1>3, <1>8, <2>3 DEF TargetOf
    <3>2. groups[Im(e)].target = Unbound \/ (groups[Im(e)].target \in DOMAIN groups /\ IsWeb(groups[Im(e)].target))
      BY <3>1 DEF Courses, TablesOK
    <3>3. IF rec.op = "unbind" THEN groups[Im(e)].target = rec.jid ELSE Free(groups[Im(e)].target)
      BY <1>1, <1>8, <2>3, <3>1
    <3>4. TargetOf(e) = IF rec.op = "bind" THEN Unbound ELSE rec.jid
      BY <1>1, <3>1, <3>2, <3>3 DEF Free
    <3>5. TargetOf(e)' = IF calls'[q].op = "bind" THEN Unbound ELSE calls'[q].jid
      BY <1>1, <1>3, <2>1, <2>3, <3>4
    <3> QED
      BY <3>5 DEF TargetOf
  <2> QED
    BY <2>2, <2>3
<1>9. ~racedBind' => \A q \in Calls : ChangeOK(q)'
  BY <1>7, <1>8 DEF ChangeOK, TargetOf
<1> QED
  BY <1>4, <1>5, <1>6, <1>9 DEF Bindings

\* A change of a binding is the last one of its endpoint.
LEMMA WriteBindingBinds ==
  ASSUME Courses, Bindings, NEW r \in Calls, WriteBinding(r)
  PROVE  Bindings'
<1> PICK rec, new : rec = calls[r] /\ new = calls'[r]
  OBVIOUS
<1>1. /\ Base(r) /\ racedBind' = racedBind
      /\ rec.op \in {"bind", "unbind"} /\ rec.at = "binding"
      /\ new.at = "done"
      /\ \E e \in Endpoints, to \in WebJids \cup {Unbound} :
           /\ e = rec.arg[1] /\ to = (IF rec.op = "bind" THEN rec.jid ELSE Unbound)
           /\ bindLog' = Append(bindLog, [endpoint |-> e, to |-> to, for |-> rec.jid])
           /\ TargetOf(e)' = to
           /\ \A d \in Endpoints \ {e} : TargetOf(d)' = TargetOf(d)
  BY WriteBindingStep
<1>2. PICK e \in Endpoints, to \in WebJids \cup {Unbound} :
        /\ e = rec.arg[1]
        /\ bindLog' = Append(bindLog, [endpoint |-> e, to |-> to, for |-> rec.jid])
        /\ TargetOf(e)' = to
        /\ \A d \in Endpoints \ {e} : TargetOf(d)' = TargetOf(d)
  BY <1>1
<1> PICK b, N : b = [endpoint |-> e, to |-> to, for |-> rec.jid] /\ N = Len(bindLog)
  OBVIOUS
<1>3. b \in BindingType /\ rec.arg = <<rec.arg[1]>>
  BY <1>1, AtBinding DEF BindingType
<1>4. /\ N \in Nat /\ Len(bindLog') = N + 1 /\ bindLog'[N + 1] = b
      /\ \A i \in 1 .. N : bindLog'[i] = bindLog[i]
      /\ \A d \in Endpoints, n \in 0 .. N : BoundAt(d, n)' = BoundAt(d, n)
      /\ \A d \in Endpoints : BoundAt(d, N + 1)' = IF b.endpoint = d THEN b.to ELSE BoundAt(d, N)
      /\ LatestOK'
  <2>1. bindLog \in Seq(BindingType) /\ LatestOK
    BY DEF Courses, TablesOK, Bindings
  <2> QED
    BY <1>2, <1>3, <2>1, BoundAppend
<1>5. \A d \in Endpoints : TargetOf(d) = BoundAt(d, N)
  BY DEF Bindings
<1>6. \A d \in Endpoints : TargetOf(d)' = BoundAt(d, Len(bindLog))'
  <2> TAKE d \in Endpoints
  <2>1. BoundAt(d, Len(bindLog))' = BoundAt(d, N + 1)'
    BY <1>4 DEF BoundAt
  <2>2. BoundAt(d, N + 1)' = IF e = d THEN to ELSE BoundAt(d, N)
    BY <1>4
  <2>3. TargetOf(d)' = IF e = d THEN to ELSE TargetOf(d)
    BY <1>2
  <2> QED
    BY <1>5, <2>1, <2>2, <2>3
<1>7. ~racedBind => /\ BoundAt(e, N) \in {Unbound, rec.jid}
                    /\ \A q \in Calls : (calls[q].at = "binding" /\ calls[q].arg = rec.arg) => q = r
  <2> SUFFICES ASSUME ~racedBind
               PROVE  /\ BoundAt(e, N) \in {Unbound, rec.jid}
                      /\ \A q \in Calls : (calls[q].at = "binding" /\ calls[q].arg = rec.arg) => q = r
    OBVIOUS
  <2>1. ChangeOK(r)
    BY DEF Bindings
  <2> QED
    BY <1>1, <1>2, <1>5, <2>1 DEF ChangeOK
<1>8. BindingNotStolen'
  <2> SUFFICES ASSUME ~racedBind, NEW i \in DOMAIN bindLog'
               PROVE  BoundAt(bindLog[i].endpoint, i - 1)' \in {Unbound, bindLog'[i].for}
    BY <1>1 DEF BindingNotStolen
  <2> PICK d : d = bindLog'[i].endpoint
    OBVIOUS
  <2>1. bindLog \in Seq(BindingType) /\ bindLog' \in Seq(BindingType)
    BY <1>1 DEF Base, Courses, TablesOK
  <2>2. i \in 1 .. (N + 1)
    BY <1>4, <2>1
  <2>3. CASE i = N + 1
    <3>1. BoundAt(e, N)' = BoundAt(e, N) /\ d = e /\ bindLog'[i].for = rec.jid /\ i - 1 = N
      BY <1>4, <2>3
    <3>2. BoundAt(d, N)' \in {Unbound, bindLog'[i].for}
      BY <1>7, <3>1 DEF BoundAt
    <3> QED
      BY <3>1, <3>2 DEF BoundAt
  <2>4. CASE i \in 1 .. N
    <3>1. bindLog'[i] = bindLog[i] /\ i \in DOMAIN bindLog /\ i - 1 \in 0 .. N
      BY <1>4, <2>1, <2>4
    <3>2. d \in Endpoints
      <4>1. bindLog[i] \in BindingType
        BY <2>1, <3>1
      <4> QED
        BY <3>1, <4>1 DEF BindingType
    <3>3. BoundAt(d, i - 1)' = BoundAt(d, i - 1)
      BY <1>4, <3>1, <3>2
    <3>4. BoundAt(d, i - 1) \in {Unbound, bindLog[i].for}
      BY <3>1 DEF Bindings, BindingNotStolen
    <3>5. BoundAt(d, i - 1)' \in {Unbound, bindLog'[i].for}
      BY <3>1, <3>3, <3>4
    <3> QED
      BY <3>5 DEF BoundAt
  <2> QED
    BY <1>4, <2>2, <2>3, <2>4
<1>9. ASSUME ~racedBind', NEW q \in Calls PROVE ChangeOK(q)'
  <2> SUFFICES ASSUME calls'[q].at = "binding"
               PROVE  ChangeOK(q)'
    BY DEF ChangeOK
  <2>1. q # r /\ calls'[q] = calls[q] /\ calls[q].at = "binding"
    BY <1>1 DEF Base, Others
  <2>2. ChangeOK(q) /\ calls[q].arg[1] \in Endpoints /\ calls[q].arg = <<calls[q].arg[1]>>
    BY <1>1, <1>9, <2>1, AtBinding DEF Bindings
  <2>3. calls[q].arg[1] # e
    BY <1>1, <1>2, <1>3, <1>7, <1>9, <2>1, <2>2
  <2>4. \A p \in Calls : (calls'[p].at = "binding" /\ calls'[p].arg = calls'[q].arg) => p = q
    BY <1>1, <2>1, <2>2 DEF ChangeOK, Base, Others
  <2> PICK d : d = calls[q].arg[1]
    OBVIOUS
  <2>5. TargetOf(d)' = IF calls[q].op = "bind" THEN Unbound ELSE calls[q].jid
    BY <1>2, <2>1, <2>2, <2>3 DEF ChangeOK
  <2>6. TargetOf(calls[q].arg[1])' = TargetOf(d)'
    BY <2>1 DEF TargetOf
  <2> QED
    BY <2>1, <2>4, <2>5, <2>6 DEF ChangeOK
<1> QED
  BY <1>4, <1>6, <1>8, <1>9 DEF Bindings

-----------------------------------------------------------------------------
\* The folders a message may run in, if its endpoint is bound to to
Destinations(e, to) == FoldersOf(IF to = Unbound THEN Im(e) ELSE to)

\* What is under way to its run has been routed.
LEMMA RoutedKept ==
  ASSUME Courses, Bindings, RoutedToBinding, NEW r \in Calls, Base(r),
         bindLog' = bindLog \/ \E b \in BindingType : bindLog' = Append(bindLog, b),
         calls'[r].op = "im" => calls'[r].at # "store_in"
  PROVE  RoutedToBinding'
<1> SUFFICES ASSUME NEW q \in Calls, calls'[q].op = "im", calls'[q].at = "store_in"
             PROVE  \E n \in calls'[q].from .. Len(bindLog') :
                      calls'[q].folder \in Destinations(calls'[q].arg[1], BoundAt(calls[q].arg[1], n)')
  BY DEF RoutedToBinding, Destinations
<1> SUFFICES ASSUME NEW e, e = calls'[q].arg[1], NEW from, from = calls'[q].from
             PROVE  \E n \in from .. Len(bindLog') : calls'[q].folder \in Destinations(e, BoundAt(e, n)')
  BY DEF BoundAt
<1> PICK N, folder : N = Len(bindLog) /\ folder = calls'[q].folder
  OBVIOUS
<1>1. q # r /\ calls'[q] = calls[q] /\ calls[q].op = "im" /\ calls[q].at = "store_in"
  BY DEF Base, Others
<1>2. CallOK(calls[q])
  BY <1>1, UnderWayOK
<1>3. e \in Endpoints /\ from \in 0 .. N
  BY <1>1, <1>2 DEF CallOK, ImOK, CourseOK
<1>4. PICK n \in from .. N : folder \in Destinations(e, BoundAt(e, n))
  BY <1>1 DEF RoutedToBinding, Destinations
<1>5. N \in Nat /\ bindLog \in Seq(BindingType)
  BY DEF Courses, TablesOK
<1>6. CASE bindLog' = bindLog
  <2>1. BoundAt(e, n)' = BoundAt(e, n)
    BY <1>6 DEF BoundAt
  <2> QED
    BY <1>4, <1>6, <2>1
<1>7. ASSUME NEW b \in BindingType, bindLog' = Append(bindLog, b)
      PROVE  \E m \in from .. Len(bindLog') : folder \in Destinations(e, BoundAt(e, m)')
  <2>1. Len(bindLog') = N + 1 /\ \A d \in Endpoints, m \in 0 .. N : BoundAt(d, m)' = BoundAt(d, m)
    BY <1>5, <1>7, BoundAppend DEF Bindings
  <2>2. n \in 0 .. N /\ n \in from .. (N + 1)
    BY <1>3, <1>4, <1>5
  <2>3. BoundAt(e, n)' = BoundAt(e, n)
    BY <1>3, <2>1, <2>2
  <2> QED
    BY <1>4, <2>1, <2>2, <2>3
<1> QED
  BY <1>6, <1>7

\* A message is routed by what its endpoint is bound to at that moment.
LEMMA ResolveRoutes ==
  ASSUME Courses, Bindings, RoutedToBinding, NEW r \in Calls, ResolveImWorkspace(r)
  PROVE  Bindings' /\ RoutedToBinding' /\ Base(r) /\ OwnQuiet(r) /\ OnItsWay(r) /\ calls'[r].at = "store_in"
<1> PICK rec, new : rec = calls[r] /\ new = calls'[r]
  OBVIOUS
<1> PICK e, N : e = rec.arg[1] /\ N = Len(bindLog)
  OBVIOUS
<1>1. /\ Base(r) /\ OwnQuiet(r) /\ OnItsWay(r) /\ UNCHANGED <<bindLog, racedBind>>
      /\ \A d \in Endpoints : TargetOf(d)' = TargetOf(d)
      /\ rec.op = "im" /\ rec.jid = Im(e) /\ rec.jid \in DOMAIN groups
      /\ new.at = "store_in" /\ new.folder = groups[WorkspaceOf(rec.jid)].folder
  BY ResolveImWorkspaceStep
<1>2. rec.at = "resolve" /\ CallOK(rec)
  BY UnderWayOK DEF ResolveImWorkspace
<1>3. e \in Endpoints /\ rec.from \in 0 .. N
  BY <1>1, <1>2 DEF CallOK, ImOK, CourseOK
<1>4. new.op = "im" /\ new.arg = rec.arg /\ new.from = rec.from
  BY <1>1, <1>2 DEF Base, SameCall
<1>5. new.folder \in Destinations(e, TargetOf(e))
  <2>1. groups[rec.jid].target = Unbound
        \/ (groups[rec.jid].target \in DOMAIN groups /\ IsWeb(groups[rec.jid].target))
    BY <1>1 DEF Courses, TablesOK
  <2>2. TargetOf(e) = groups[rec.jid].target
    BY <1>1 DEF TargetOf
  <2> PICK j : j = WorkspaceOf(rec.jid)
    OBVIOUS
  <2>3. j = (IF TargetOf(e) = Unbound THEN Im(e) ELSE TargetOf(e)) /\ j \in DOMAIN groups
    BY <1>1, <2>1, <2>2 DEF WorkspaceOf, BindingState
  <2>4. groups[j].folder \in FoldersOf(j)
    BY <2>3 DEF Courses, TablesOK
  <2> QED
    BY <1>1, <2>3, <2>4 DEF Destinations
<1>6. TargetOf(e) = BoundAt(e, N) /\ N \in rec.from .. N
  <2>1. N \in Nat
    BY DEF Courses, TablesOK
  <2> QED
    BY <1>3, <2>1 DEF Bindings
<1>7. RoutedToBinding'
  <2> SUFFICES ASSUME NEW q \in Calls, calls'[q].op = "im", calls'[q].at = "store_in"
               PROVE  \E n \in calls'[q].from .. Len(bindLog') :
                        calls'[q].folder \in Destinations(calls'[q].arg[1], BoundAt(calls[q].arg[1], n)')
    BY DEF RoutedToBinding, Destinations
  <2> SUFFICES ASSUME NEW d, d = calls'[q].arg[1], NEW from, from = calls'[q].from
               PROVE  \E n \in from .. Len(bindLog') : calls'[q].folder \in Destinations(d, BoundAt(d, n)')
    BY DEF BoundAt
  <2>1. bindLog' = bindLog /\ \A n : BoundAt(d, n)' = BoundAt(d, n)
    BY <1>1 DEF BoundAt
  <2>2. CASE q = r
    <3>1. d = e /\ from = rec.from /\ calls'[q].folder \in Destinations(e, BoundAt(e, N))
      BY <1>4, <1>5, <1>6, <2>2
    <3> QED
      BY <1>6, <2>1, <3>1
  <2>3. CASE q # r
    <3>1. calls'[q] = calls[q]
      BY <1>1, <2>3 DEF Base, Others
    <3>2. \E n \in from .. N : calls[q].folder \in Destinations(d, BoundAt(d, n))
      BY <3>1 DEF RoutedToBinding, Destinations
    <3> QED
      BY <2>1, <3>1, <3>2
  <2> QED
    BY <2>2, <2>3
<1>8. Bindings'
  BY <1>1, QuietBinds
<1> QED
  BY <1>1, <1>7, <1>8

-----------------------------------------------------------------------------
\* What is stored and sent of the others stays.
OthersReplied(r) ==
  /\ \A q \in Calls \ {r} : outcome'[q] = outcome[q] /\ (q \in sent' <=> q \in sent)
  /\ \A q \in Calls \ {r} : <<"in", q>> \in stored' <=> <<"in", q>> \in stored
  /\ \A q \in Calls \ {r} : <<"out", q>> \in stored' <=> <<"out", q>> \in stored
  /\ outcome' = [q \in Calls |-> outcome'[q]] /\ sent' \subseteq Calls

\* A step has to show what is stored and sent of its own call.
LEMMA RepliesKept ==
  ASSUME Replies, NEW r \in Calls, Base(r), OthersReplied(r), ReplyOK(r)'
  PROVE  Replies'
<1>1. \A q \in Calls : ReplyOK(q)'
  <2> TAKE q \in Calls
  <2>1. CASE q = r
    BY <2>1
  <2>2. CASE q # r
    <3>1. calls'[q] = calls[q] /\ ReplyOK(q)
      BY <2>2 DEF Base, Others, Replies
    <3> QED
      BY <2>2, <3>1 DEF ReplyOK, OthersReplied
  <2> QED
    BY <2>1, <2>2
<1> QED
  BY <1>1 DEF Replies, OthersReplied

\* A call that is on its way to its run has no outcome and no reply.
LEMMA OnItsWayReplies ==
  ASSUME Courses, Replies, NEW r \in Calls, Base(r), OnItsWay(r), UNCHANGED mdVars
  PROVE  Replies'
<1>1. stored' = stored /\ sent' = sent /\ outcome' = outcome
  BY DEF mdVars
<1>2. OthersReplied(r)
  BY <1>1 DEF OthersReplied, Replies
<1>3. outcome[r] = "none" /\ r \notin sent /\ <<"out", r>> \notin stored
  BY DEF Replies, ReplyOK, OnItsWay
<1>4. ReplyOK(r)'
  BY <1>1, <1>3 DEF ReplyOK, OnItsWay
<1> QED
  BY <1>2, <1>4, RepliesKept

\* The message is stored before its run.
LEMMA StoreInboundReplies ==
  ASSUME Courses, Replies, NEW r \in Calls, StoreInbound(r)
  PROVE  Quiet(r) /\ Replies'
<1>1. Quiet(r) /\ calls'[r].at = "run" /\ calls'[r].answer = "none" /\ Base(r)
  BY StoreInboundStep DEF Quiet
<1>2. calls[r].at = "store_in" /\ stored' = stored \cup {<<"in", r>>} /\ UNCHANGED <<sent, outcome>>
  BY DEF StoreInbound
<1>3. OthersReplied(r)
  BY <1>2 DEF OthersReplied, Replies
<1>4. outcome[r] = "none" /\ r \notin sent /\ <<"out", r>> \notin stored
  BY <1>2 DEF Replies, ReplyOK
<1>5. ReplyOK(r)'
  BY <1>1, <1>2, <1>4 DEF ReplyOK
<1> QED
  BY <1>1, <1>3, <1>5, RepliesKept

\* A run that ends leaves a reply to be sent, or none.
LEMMA RunEndsReplies ==
  ASSUME Courses, Replies, NEW r \in Calls, NEW o, o # "none", RunEnds(r, o)
  PROVE  Quiet(r) /\ Replies'
<1>1. /\ Quiet(r) /\ Base(r)
      /\ \/ o = "completed" /\ calls'[r].at = "route" /\ calls'[r].answer = "none"
         \/ o # "completed" /\ calls'[r].at = "done"
  BY RunEndsStep DEF Quiet
<1>2. calls[r].at = "run" /\ outcome' = [outcome EXCEPT ![r] = o] /\ UNCHANGED <<stored, sent>>
  BY DEF RunEnds
<1>3. OthersReplied(r) /\ outcome'[r] = o
  BY <1>2 DEF OthersReplied, Replies
<1>4. outcome[r] # "completed" /\ r \notin sent /\ <<"out", r>> \notin stored /\ <<"in", r>> \in stored
  BY <1>2 DEF Replies, ReplyOK
<1>5. ReplyOK(r)'
  BY <1>1, <1>2, <1>3, <1>4 DEF ReplyOK
<1> QED
  BY <1>1, <1>3, <1>5, RepliesKept

\* The reply is sent, or may have been.
LEMMA RouteMessageReplies ==
  ASSUME Courses, Replies, NEW r \in Calls, RouteMessage(r)
  PROVE  Quiet(r) /\ Replies'
<1>1. /\ Quiet(r) /\ Base(r) /\ calls'[r].op = calls[r].op
      /\ \/ /\ calls'[r].at = "store_out" /\ calls'[r].answer = "none"
            /\ sent' = IF calls[r].op = "im" THEN sent \cup {r} ELSE sent
         \/ /\ calls'[r].at = "done" /\ calls'[r].answer \in {"400", "500"}
            /\ sent' \in {sent, sent \cup {r}}
  BY RouteMessageStep DEF Quiet
<1>2. calls[r].at = "route" /\ UNCHANGED <<stored, outcome>>
  BY DEF RouteMessage
<1>3. outcome[r] = "completed" /\ <<"in", r>> \in stored
  BY <1>2 DEF Replies, ReplyOK
<1>4. sent' \in {sent, sent \cup {r}}
  BY <1>1
<1>5. OthersReplied(r)
  BY <1>2, <1>4 DEF OthersReplied, Replies
<1>6. ReplyOK(r)'
  BY <1>1, <1>2, <1>3 DEF ReplyOK
<1> QED
  BY <1>1, <1>5, <1>6, RepliesKept

\* The reply is stored last.
LEMMA StoreOutboundReplies ==
  ASSUME Courses, Replies, NEW r \in Calls, StoreOutbound(r)
  PROVE  Quiet(r) /\ Replies'
<1>1. Quiet(r) /\ Base(r) /\ calls'[r].at = "done" /\ calls'[r].op = calls[r].op
  BY StoreOutboundStep DEF Quiet
<1>2. calls[r].at = "store_out" /\ stored' = stored \cup {<<"out", r>>} /\ UNCHANGED <<sent, outcome>>
  BY DEF StoreOutbound
<1>3. OthersReplied(r)
  BY <1>2 DEF OthersReplied, Replies
<1>4. outcome[r] = "completed" /\ <<"in", r>> \in stored /\ (calls[r].op = "im" => r \in sent)
  BY <1>2 DEF Replies, ReplyOK
<1>5. ReplyOK(r)'
  BY <1>1, <1>2, <1>4 DEF ReplyOK
<1> QED
  BY <1>1, <1>3, <1>5, RepliesKept

\* A message that cannot be stored ends its call.
LEMMA StoreFailsReplies ==
  ASSUME Courses, Replies, NEW r \in Calls, StoreFails(r)
  PROVE  Quiet(r) /\ Replies'
<1>1. Quiet(r) /\ Base(r) /\ calls'[r].at = "done" /\ calls'[r].answer = "500"
  BY StoreFailsStep DEF Quiet
<1>2. calls[r].at \in {"store_in", "store_out"} /\ stored' = stored /\ sent' = sent /\ outcome' = outcome
  BY DEF StoreFails, mdVars
<1>3. OthersReplied(r)
  BY <1>2 DEF OthersReplied, Replies
<1>4. ReplyOK(r)
  BY DEF Replies
<1>5. ReplyOK(r)'
  BY <1>1, <1>2, <1>4 DEF ReplyOK
<1> QED
  BY <1>1, <1>3, <1>5, RepliesKept

-----------------------------------------------------------------------------
\* What a call is set to, and where an answer and a move lead it
LEMMA SetCall ==
  ASSUME Courses, NEW r \in Calls, NEW new, Set(r, new)
  PROVE  calls'[r] = new
BY DEF Set, Courses, CallsOK

\* An answer ends the call.
LEMMA AnswerEnds ==
  ASSUME Courses, NEW r \in Calls, calls[r].at # "new", NEW status, Answer(r, status)
  PROVE  calls'[r].at = "done"
<1>1. IsCall(calls[r])
  BY UnderWayOK DEF CallOK
<1>2. calls'[r] = Ended(calls[r], status)
  BY DEF Answer, Set, Courses, CallsOK
<1> QED
  BY <1>1, <1>2, EndedFields

\* A move leads the call to its place.
LEMMA GotoMoves ==
  ASSUME Courses, NEW r \in Calls, calls[r].at # "new", NEW at, Goto(r, at)
  PROVE  calls'[r].at = at
<1>1. IsCall(calls[r])
  BY UnderWayOK DEF CallOK
<1>2. calls'[r] = Moved(calls[r], at)
  BY DEF Goto, Set, Moved, Courses, CallsOK
<1> QED
  BY <1>1, <1>2, MovedFields

\* Only messages come to a run.
LEMMA OnlyMessagesRun ==
  ASSUME Courses, NEW r \in Calls, Base(r), calls[r].at \notin {"new", "done"},
         calls[r].op \notin {"send", "im"}
  PROVE  OnItsWay(r)
<1>1. calls'[r].op = calls[r].op
  BY DEF Base, SameCall
<1>2. CallOK(calls[r])'
  BY DEF Base, Courses, CallsOK, NoCall
<1> QED
  BY <1>1, <1>2, UnderWayOK DEF OnItsWay, CallOK, CourseOK, OpsAt

\* The steps that list and send share
LEMMA SharedStepsOnItsWay ==
  ASSUME Courses, NEW r \in Calls,
         \/ GetGroup(r) \/ UpdateGroup(r) \/ InsertGroup(r) \/ RefreshGroup(r)
         \/ GetMainSlot(r) \/ InsertMainSlot(r) \/ Locked(r)
  PROVE  OnItsWay(r)
<1> PICK rec : rec = calls[r]
  OBVIOUS
<1>1. rec.at \notin {"run", "route", "store_out", "done", "new"}
  <2>1. GetGroup(r) => rec.at = "get"
    BY DEF GetGroup
  <2>2. UpdateGroup(r) => rec.at = "update"
    BY DEF UpdateGroup
  <2>3. InsertGroup(r) => rec.at = "insert"
    BY DEF InsertGroup
  <2>4. GetMainSlot(r) => rec.at = "slot"
    BY DEF GetMainSlot
  <2>5. InsertMainSlot(r) => rec.at = "slot_insert"
    BY DEF InsertMainSlot
  <2>6. Locked(r) => rec.at \in {"update", "insert", "slot_insert", "merge", "delete", "rename",
                                 "new_slot_insert", "binding"}
    BY DEF Locked
  <2>7. RefreshGroup(r) => rec.at = "refresh"
    BY DEF RefreshGroup
  <2> QED
    BY <2>1, <2>2, <2>3, <2>4, <2>5, <2>6, <2>7
<1>2. CallOK(rec) /\ IsCall(rec)
  BY <1>1, UnderWayOK DEF CallOK
<1>3. SUFFICES calls'[r].at \notin {"run", "route", "store_out"}
  BY <1>1 DEF OnItsWay
<1>4. ASSUME NEW at, NEW row, Set(r, Loaded(rec, at, row)), at \in {"update", "slot"}
      PROVE  calls'[r].at \notin {"run", "route", "store_out"}
  BY <1>2, <1>4, SetCall, LoadedFields
<1>5. CASE GetGroup(r)
  <2>1. CASE rec.reg.jid \in DOMAIN groups
    <3>1. Set(r, Loaded(rec, "update", groups[rec.reg.jid]))
      BY <1>5, <2>1 DEF GetGroup, Loaded
    <3> QED
      BY <1>4, <3>1
  <2>2. CASE rec.reg.jid \notin DOMAIN groups
    <3>1. Goto(r, "insert")
      BY <1>5, <2>2 DEF GetGroup
    <3> QED
      BY <1>1, <3>1, GotoMoves
  <2> QED
    BY <2>1, <2>2
<1>6. CASE UpdateGroup(r) \/ InsertGroup(r)
  <2>1. Goto(r, "refresh") \/ Answer(r, "500")
    BY <1>6 DEF UpdateGroup, InsertGroup
  <2> QED
    BY <1>1, <2>1, AnswerEnds, GotoMoves
<1>7. CASE RefreshGroup(r)
  <2> PICK row : row = groups[rec.reg.jid]
    OBVIOUS
  <2>1. Set(r, Loaded(rec, "slot", row))
    BY <1>7 DEF RefreshGroup, ThenSlot, Loaded
  <2> QED
    BY <1>4, <2>1
<1>8. CASE GetMainSlot(r) \/ InsertMainSlot(r)
  <2>1. rec.then \notin {"run", "route", "store_out"}
    <3>1. AtSlot(rec)
      BY <1>8 DEF GetMainSlot, InsertMainSlot, AtSlot
    <3> QED
      BY <1>2, <3>1 DEF CallOK, CourseOK, ThensOf
  <2>2. Answer(r, "500") \/ \E at \in {rec.then, "slot_insert"} : Goto(r, at)
    BY <1>8 DEF GetMainSlot, InsertMainSlot
  <2> QED
    BY <1>1, <2>1, <2>2, AnswerEnds, GotoMoves
<1>9. CASE Locked(r)
  <2>1. Answer(r, "500")
    BY <1>9 DEF Locked
  <2> QED
    BY <1>1, <2>1, AnswerEnds
<1> QED
  BY <1>5, <1>6, <1>7, <1>8, <1>9

\* The calls of users are no messages.
LEMMA BeginsOnItsWay ==
  ASSUME Courses, NEW r \in Calls, NEW op, NEW u, NEW g, NEW arg, NEW allowed,
         ListGroups(r, u) \/ CreateGroup(r, u, g) \/ OpenWorkspace(r, op, u, g, arg, allowed)
  PROVE  OnItsWay(r) /\ calls[r].at = "new"
<1>1. calls[r].at = "new"
  <2>1. ListGroups(r, u) => calls[r].at = "new"
    BY DEF ListGroups
  <2>2. CreateGroup(r, u, g) => calls[r].at = "new"
    BY DEF CreateGroup
  <2>3. OpenWorkspace(r, op, u, g, arg, allowed) => calls[r].at = "new"
    BY DEF OpenWorkspace
  <2> QED
    BY <2>1, <2>2, <2>3
<1>2. ASSUME NEW rec, IsCall(rec), rec.at \in {"vacant", "find"}, NEW status,
             calls'[r] = rec \/ calls'[r] = Ended(rec, status)
      PROVE  calls'[r].at \notin {"run", "route", "store_out"}
  BY <1>2, EndedFields
<1>3. CASE ListGroups(r, u)
  <2> PICK first : first = Call("list", u, HomeOf(u), <<>>, "new")
    OBVIOUS
  <2>1. Set(r, EnsuresHome(first, "list")) /\ IsCall(first)
    BY <1>3, CallIsCall DEF ListGroups
  <2>2. calls'[r].at = "get"
    BY <2>1, SetCall, HomeFields
  <2> QED
    BY <1>1, <2>2 DEF OnItsWay
<1>4. CASE CreateGroup(r, u, g)
  <2> PICK first : first = Call("create", u, g, <<u, "owner">>, "vacant")
    OBVIOUS
  <2> PICK jid : jid = Web(g[2])
    OBVIOUS
  <2> PICK rec : rec = [first EXCEPT !.jid = jid]
    OBVIOUS
  <2>1. IsCall(first) /\ first.at = "vacant"
    BY CallIsCall
  <2>2. rec.at = "vacant" /\ rec = [f \in CallFields |-> rec[f]] /\ rec.reg = first.reg
    BY <2>1 DEF IsCall, CallFields
  <2>3. IsCall(rec) /\ rec.at = "vacant"
    BY <2>1, <2>2 DEF IsCall
  <2>4. CASE MayWrite(u) /\ g \in {Plain(f) : f \in Shared}
    <3>1. Set(r, rec)
      BY <1>4, <2>4 DEF CreateGroup
    <3> QED
      BY <1>1, <1>2, <2>3, <3>1, SetCall DEF OnItsWay
  <2>5. CASE ~(MayWrite(u) /\ g \in {Plain(f) : f \in Shared})
    <3> PICK status : status = IF MayWrite(u) THEN "400" ELSE "403"
      OBVIOUS
    <3>1. Set(r, Ended(rec, status))
      BY <1>4, <2>5 DEF CreateGroup
    <3> QED
      BY <1>1, <1>2, <2>3, <3>1, SetCall DEF OnItsWay
  <2> QED
    BY <2>4, <2>5
<1>5. CASE OpenWorkspace(r, op, u, g, arg, allowed)
  <2> PICK rec : rec = Call(op, u, g, arg, "find")
    OBVIOUS
  <2>1. IsCall(rec) /\ rec.at = "find"
    BY CallIsCall
  <2>2. Set(r, rec) \/ Set(r, Ended(rec, "403"))
    BY <1>5 DEF OpenWorkspace
  <2> QED
    BY <1>1, <1>2, <2>1, <2>2, SetCall DEF OnItsWay
<1> QED
  BY <1>3, <1>4, <1>5

-----------------------------------------------------------------------------
\* The bindings and the routing, after a step that says nothing about them
LEMMA QuietRoutes ==
  ASSUME Courses, Bindings, RoutedToBinding, NEW r \in Calls, Base(r), BindQuiet(r)
  PROVE  Bindings' /\ RoutedToBinding'
<1>1. UNCHANGED <<bindLog, racedBind>> /\ calls'[r].at # "binding"
      /\ (calls'[r].op = "im" => calls'[r].at # "store_in")
      /\ \A e \in Endpoints : TargetOf(e)' = TargetOf(e)
  BY DEF BindQuiet
<1>2. Bindings'
  BY <1>1, QuietBinds
<1>3. RoutedToBinding'
  BY <1>1, RoutedKept
<1> QED
  BY <1>2, <1>3

\* The tables after a step that says nothing about owners and bindings
LEMMA QuietTables ==
  ASSUME Courses, Ownership, Bindings, RoutedToBinding, NEW r \in Calls, Quiet(r)
  PROVE  Courses' /\ Ownership' /\ Bindings' /\ RoutedToBinding' /\ Base(r)
<1>1. Base(r) /\ BindQuiet(r) /\ OwnQuiet(r)
  BY DEF Quiet
<1>2. Bindings' /\ RoutedToBinding'
  BY <1>1, QuietRoutes
<1>3. Ownership'
  BY <1>1, QuietOwns
<1> QED
  BY <1>1, <1>2, <1>3 DEF Base

\* The tables after a step about owners
LEMMA OwnerSteps ==
  ASSUME Courses, Ownership, Bindings, RoutedToBinding, NEW r \in Calls,
         \/ GetGroup(r) \/ UpdateGroup(r) \/ InsertGroup(r) \/ FindWorkspace(r) \/ CheckRoleChange(r)
         \/ CheckMember(r) \/ MergeMember(r) \/ GetMember(r) \/ DeleteMember(r)
  PROVE  Courses' /\ Ownership' /\ Bindings' /\ RoutedToBinding' /\ Base(r)
<1>1. Base(r) /\ BindQuiet(r)
  BY GetGroupStep, UpdateGroupStep, InsertGroupStep, FindWorkspaceStep, CheckRoleChangeStep,
     CheckMemberStep, MergeMemberStep, GetMemberStep, DeleteMemberStep
<1>2. Ownership'
  BY GetGroupOwns, UpdateGroupOwns, InsertGroupOwns, FindWorkspaceOwns, CheckRoleChangeOwns,
     CheckMemberOwns, MergeMemberOwns, GetMemberOwns, DeleteMemberOwns
<1>3. Bindings' /\ RoutedToBinding'
  BY <1>1, QuietRoutes
<1> QED
  BY <1>1, <1>2, <1>3 DEF Base

\* The tables after a step about a binding
LEMMA BindingSteps ==
  ASSUME Courses, Ownership, Bindings, RoutedToBinding, NEW r \in Calls,
         GetEndpoint(r) \/ WriteBinding(r)
  PROVE  Courses' /\ Ownership' /\ Bindings' /\ RoutedToBinding' /\ Base(r)
<1>1. CASE GetEndpoint(r)
  <2>1. Base(r) /\ OwnQuiet(r) /\ bindLog' = bindLog /\ calls'[r].at \in {"done", "binding"}
    BY <1>1, GetEndpointStep
  <2>2. Ownership' /\ Bindings'
    BY <1>1, <2>1, QuietOwns, GetEndpointBinds
  <2>3. RoutedToBinding'
    BY <2>1, RoutedKept
  <2> QED
    BY <2>1, <2>2, <2>3 DEF Base
<1>2. CASE WriteBinding(r)
  <2>1. /\ Base(r) /\ OwnQuiet(r) /\ calls'[r].at = "done" /\ calls[r].at = "binding"
        /\ \E e \in Endpoints, to \in WebJids \cup {Unbound} :
             bindLog' = Append(bindLog, [endpoint |-> e, to |-> to, for |-> calls[r].jid])
    BY <1>2, WriteBindingStep
  <2>2. \E b \in BindingType : bindLog' = Append(bindLog, b)
    <3>1. calls[r].jid \in WebJids
      BY <2>1, AtBinding
    <3> QED
      BY <2>1, <3>1 DEF BindingType
  <2>3. Ownership' /\ Bindings'
    BY <1>2, <2>1, QuietOwns, WriteBindingBinds
  <2>4. RoutedToBinding'
    BY <2>1, <2>2, RoutedKept
  <2> QED
    BY <2>1, <2>3, <2>4 DEF Base
<1> QED
  BY <1>1, <1>2

\* A step of a call that has begun
LEMMA WorkspaceStepInv ==
  ASSUME DispatchInv, NEW r \in Calls, WorkspaceStep(r), UNCHANGED mdVars
  PROVE  DispatchInv'
<1>1. Courses /\ Ownership /\ Bindings /\ RoutedToBinding /\ Replies
  BY DEF DispatchInv
<1>2. Courses' /\ Ownership' /\ Bindings' /\ RoutedToBinding' /\ Base(r)
  <2>1. CASE \/ GetGroup(r) \/ UpdateGroup(r) \/ InsertGroup(r) \/ FindWorkspace(r) \/ CheckRoleChange(r)
             \/ CheckMember(r) \/ MergeMember(r) \/ GetMember(r) \/ DeleteMember(r)
    BY <1>1, <2>1, OwnerSteps
  <2>2. CASE GetEndpoint(r) \/ WriteBinding(r)
    BY <1>1, <2>2, BindingSteps
  <2>3. CASE \/ RefreshGroup(r) \/ CheckVacant(r) \/ GetMainSlot(r) \/ InsertMainSlot(r) \/ Locked(r)
             \/ ListRegisteredGroups(r) \/ CheckAccess(r) \/ ReadWorkspace(r) \/ RenameWorkspace(r)
             \/ GetSlot(r) \/ InsertSlot(r) \/ CheckOwnRole(r)
    <3>1. Quiet(r)
      BY <1>1, <2>3, RefreshGroupStep, CheckVacantStep, GetMainSlotStep, InsertMainSlotStep, LockedStep,
         ListRegisteredGroupsStep, CheckAccessStep, ReadWorkspaceStep, RenameWorkspaceStep,
         GetSlotStep, InsertSlotStep, CheckOwnRoleStep
    <3> QED
      BY <1>1, <3>1, QuietTables
  <2> QED
    BY <2>1, <2>2, <2>3 DEF WorkspaceStep
<1>3. OnItsWay(r)
  <2>1. CASE \/ GetGroup(r) \/ UpdateGroup(r) \/ InsertGroup(r) \/ RefreshGroup(r)
             \/ GetMainSlot(r) \/ InsertMainSlot(r) \/ Locked(r)
    BY <1>1, <2>1, SharedStepsOnItsWay
  <2>2. ASSUME calls[r].at \in {"list", "vacant", "find", "rename", "new_slot", "new_slot_insert",
                               "read", "endpoint", "binding", "role_change", "member_check", "merge",
                               "own_role", "member_get", "delete"}
               \/ (calls[r].at = "access" /\ calls[r].op # "send")
        PROVE  OnItsWay(r)
    <3>1. calls[r].at \notin {"new", "done"}
      BY <2>2
    <3>2. calls[r].op \in OpsAt(calls[r].at)
      BY <1>1, <3>1, UnderWayOK DEF CallOK, CourseOK
    <3>3. calls[r].op \notin {"send", "im"}
      BY <2>2, <3>2 DEF OpsAt, Opens
    <3> QED
      BY <1>1, <1>2, <3>1, <3>3, OnlyMessagesRun
  <2>3. CASE ListRegisteredGroups(r) \/ CheckVacant(r) \/ FindWorkspace(r) \/ CheckAccess(r)
    BY <2>2, <2>3 DEF ListRegisteredGroups, CheckVacant, FindWorkspace, CheckAccess
  <2>4. CASE ReadWorkspace(r) \/ RenameWorkspace(r) \/ GetSlot(r) \/ InsertSlot(r)
    BY <2>2, <2>4 DEF ReadWorkspace, RenameWorkspace, GetSlot, InsertSlot
  <2>5. CASE CheckRoleChange(r) \/ CheckMember(r) \/ MergeMember(r)
    BY <2>2, <2>5 DEF CheckRoleChange, CheckMember, MergeMember
  <2>6. CASE CheckOwnRole(r) \/ GetMember(r) \/ DeleteMember(r)
    BY <2>2, <2>6 DEF CheckOwnRole, GetMember, DeleteMember
  <2>7. CASE GetEndpoint(r) \/ WriteBinding(r)
    BY <2>2, <2>7 DEF GetEndpoint, WriteBinding
  <2> QED
    BY <2>1, <2>3, <2>4, <2>5, <2>6, <2>7 DEF WorkspaceStep
<1>4. Replies'
  BY <1>1, <1>2, <1>3, OnItsWayReplies
<1> QED
  BY <1>2, <1>4 DEF DispatchInv

\* A call of a user that is no message
LEMMA UserCallInv ==
  ASSUME DispatchInv, NEW r \in Calls, GroupCall(r) \/ MemberCall(r) \/ BindingCall(r), UNCHANGED mdVars
  PROVE  DispatchInv'
<1>1. Courses /\ Ownership /\ Bindings /\ RoutedToBinding /\ Replies
  BY DEF DispatchInv
<1>2. ASSUME NEW op \in Opens, NEW u \in Users, NEW g \in Ids, NEW arg, NEW allowed \in BOOLEAN,
             op \in {"bind", "unbind"} => arg = <<arg[1]>> /\ arg[1] \in Endpoints,
             OpenWorkspace(r, op, u, g, arg, allowed)
      PROVE  Quiet(r) /\ OnItsWay(r)
  BY <1>1, <1>2, OpenWorkspaceStep, BeginsOnItsWay
<1>3. Quiet(r) /\ OnItsWay(r)
  <2>1. CASE GroupCall(r)
    <3>1. PICK u \in Users :
            \/ ListGroups(r, u)
            \/ \E g \in Ids :
                 \/ CreateGroup(r, u, g) \/ RenameGroup(r, u, g) \/ ListGroupSlots(r, u, g)
                 \/ \E s \in SlotNames : CreateGroupSlot(r, u, g, s)
      BY <2>1 DEF GroupCall
    <3>2. CASE ListGroups(r, u)
      BY <1>1, <3>2, ListGroupsStep, BeginsOnItsWay
    <3>3. ASSUME NEW g \in Ids, CreateGroup(r, u, g) PROVE Quiet(r) /\ OnItsWay(r)
      BY <1>1, <3>3, CreateGroupStep, BeginsOnItsWay
    <3>4. ASSUME NEW g \in Ids, RenameGroup(r, u, g) PROVE Quiet(r) /\ OnItsWay(r)
      <4>1. OpenWorkspace(r, "rename", u, g, <<>>, TRUE) \/ OpenWorkspace(r, "rename", u, g, <<>>, FALSE)
        BY <3>4 DEF RenameGroup, MayWrite, OpenWorkspace
      <4> QED
        BY <1>2, <4>1 DEF Opens
    <3>5. ASSUME NEW g \in Ids, ListGroupSlots(r, u, g) PROVE Quiet(r) /\ OnItsWay(r)
      BY <1>2, <3>5 DEF ListGroupSlots, Opens
    <3>6. ASSUME NEW g \in Ids, NEW s, CreateGroupSlot(r, u, g, s) PROVE Quiet(r) /\ OnItsWay(r)
      BY <1>2, <3>6 DEF CreateGroupSlot, Opens
    <3> QED
      BY <3>1, <3>2, <3>3, <3>4, <3>5, <3>6
  <2>2. CASE MemberCall(r)
    <3>1. PICK u \in Users, g \in Ids :
            \/ ListGroupMembers(r, u, g)
            \/ \E v \in Users \cup {"unknown"} :
                 \/ RemoveGroupMember(r, u, g, v)
                 \/ \E role \in {"owner", "admin", "member"} : AddGroupMember(r, u, g, v, role)
      BY <2>2 DEF MemberCall
    <3>2. CASE ListGroupMembers(r, u, g)
      BY <1>2, <3>2 DEF ListGroupMembers, Opens
    <3>3. ASSUME NEW v, RemoveGroupMember(r, u, g, v) PROVE Quiet(r) /\ OnItsWay(r)
      BY <1>2, <3>3 DEF RemoveGroupMember, Opens
    <3>4. ASSUME NEW v, NEW role, AddGroupMember(r, u, g, v, role) PROVE Quiet(r) /\ OnItsWay(r)
      <4>1. OpenWorkspace(r, "add", u, g, <<v, role>>, TRUE) \/ OpenWorkspace(r, "add", u, g, <<v, role>>, FALSE)
        BY <3>4 DEF AddGroupMember, MayWrite, OpenWorkspace
      <4> QED
        BY <1>2, <4>1 DEF Opens
    <3> QED
      BY <3>1, <3>2, <3>3, <3>4
  <2>3. CASE BindingCall(r)
    <3>1. PICK u \in Users, g \in Ids :
            \/ ListGroupImBindings(r, u, g)
            \/ \E e \in Endpoints : BindGroupImEndpoint(r, u, g, e) \/ UnbindGroupImEndpoint(r, u, g, e)
      BY <2>3 DEF BindingCall
    <3>2. CASE ListGroupImBindings(r, u, g)
      <4>1. OpenWorkspace(r, "bindings", u, g, <<>>, TRUE) \/ OpenWorkspace(r, "bindings", u, g, <<>>, FALSE)
        BY <3>2 DEF ListGroupImBindings, OpenWorkspace
      <4> QED
        BY <1>2, <4>1 DEF Opens
    <3>3. ASSUME NEW e \in Endpoints, BindGroupImEndpoint(r, u, g, e) PROVE Quiet(r) /\ OnItsWay(r)
      <4>1. OpenWorkspace(r, "bind", u, g, <<e>>, TRUE) \/ OpenWorkspace(r, "bind", u, g, <<e>>, FALSE)
        BY <3>3 DEF BindGroupImEndpoint, OpenWorkspace
      <4> QED
        BY <1>2, <4>1 DEF Opens
    <3>4. ASSUME NEW e \in Endpoints, UnbindGroupImEndpoint(r, u, g, e) PROVE Quiet(r) /\ OnItsWay(r)
      <4>1. OpenWorkspace(r, "unbind", u, g, <<e>>, TRUE) \/ OpenWorkspace(r, "unbind", u, g, <<e>>, FALSE)
        BY <3>4 DEF UnbindGroupImEndpoint, OpenWorkspace
      <4> QED
        BY <1>2, <4>1 DEF Opens
    <3> QED
      BY <3>1, <3>2, <3>3, <3>4
  <2> QED
    BY <2>1, <2>2, <2>3
<1>4. Courses' /\ Ownership' /\ Bindings' /\ RoutedToBinding' /\ Base(r)
  BY <1>1, <1>3, QuietTables
<1>5. Replies'
  BY <1>1, <1>3, <1>4, OnItsWayReplies
<1> QED
  BY <1>4, <1>5 DEF DispatchInv

\* A message, and its way to its run and back
LEMMA MessageInv ==
  ASSUME DispatchInv, NEW r \in Calls, MessageCall(r) \/ DispatchStep(r)
  PROVE  DispatchInv'
<1>1. Courses /\ Ownership /\ Bindings /\ RoutedToBinding /\ Replies
  BY DEF DispatchInv
<1>2. ASSUME Quiet(r), OnItsWay(r), UNCHANGED mdVars
      PROVE  DispatchInv'
  <2>1. Courses' /\ Ownership' /\ Bindings' /\ RoutedToBinding' /\ Base(r)
    BY <1>1, <1>2, QuietTables
  <2>2. Replies'
    BY <1>1, <1>2, <2>1, OnItsWayReplies
  <2> QED
    BY <2>1, <2>2 DEF DispatchInv
<1>3. ASSUME Quiet(r), Replies'
      PROVE  DispatchInv'
  BY <1>1, <1>3, QuietTables DEF DispatchInv
<1>4. CASE MessageCall(r)
  <2>1. ASSUME NEW u \in Users, NEW g \in Ids, NEW slot, NEW text, SendMessage(r, u, g, slot, text)
        PROVE  DispatchInv'
    <3>1. Quiet(r) /\ calls[r].at = "new" /\ calls'[r].at = "get"
      BY <1>1, <2>1, SendMessageStep
    <3>2. OnItsWay(r) /\ UNCHANGED mdVars
      BY <2>1, <3>1 DEF OnItsWay, SendMessage
    <3> QED
      BY <1>2, <3>1, <3>2
  <2>2. ASSUME NEW e \in Endpoints, NEW m, Webhook(r, e, m)
        PROVE  DispatchInv'
    <3>1. Quiet(r) /\ OnItsWay(r)
      BY <1>1, <2>2, WebhookStep
    <3>2. UNCHANGED mdVars
      BY <2>2 DEF Webhook
    <3> QED
      BY <1>2, <3>1, <3>2
  <2> QED
    BY <1>4, <2>1, <2>2 DEF MessageCall
<1>5. CASE ResolveHttpTarget(r) \/ CheckSendAccess(r) \/ CheckSendSlot(r) \/ EnsureImEndpoint(r)
  <2>1. Quiet(r) /\ OnItsWay(r)
    BY <1>1, <1>5, ResolveHttpTargetStep, CheckSendAccessStep, CheckSendSlotStep, EnsureImEndpointStep
  <2>2. UNCHANGED mdVars
    BY <1>5 DEF ResolveHttpTarget, CheckSendAccess, CheckSendSlot, EnsureImEndpoint
  <2> QED
    BY <1>2, <2>1, <2>2
<1>6. CASE ResolveImWorkspace(r)
  <2>1. Bindings' /\ RoutedToBinding' /\ Base(r) /\ OwnQuiet(r) /\ OnItsWay(r)
    BY <1>1, <1>6, ResolveRoutes
  <2>2. UNCHANGED mdVars
    BY <1>6 DEF ResolveImWorkspace
  <2>3. Ownership' /\ Replies'
    BY <1>1, <2>1, <2>2, QuietOwns, OnItsWayReplies
  <2> QED
    BY <2>1, <2>3 DEF DispatchInv, Base
<1>7. CASE StoreInbound(r) \/ RouteMessage(r) \/ StoreOutbound(r) \/ StoreFails(r)
  BY <1>1, <1>3, <1>7, StoreInboundReplies, RouteMessageReplies, StoreOutboundReplies, StoreFailsReplies
<1>8. ASSUME NEW o \in {"completed", "no_output", "refused", "unsuccessful"}, RunEnds(r, o)
      PROVE  DispatchInv'
  <2>1. o # "none"
    BY <1>8
  <2> QED
    BY <1>1, <1>3, <1>8, <2>1, RunEndsReplies
<1> QED
  BY <1>4, <1>5, <1>6, <1>7, <1>8 DEF DispatchStep

-----------------------------------------------------------------------------
\* At the beginning there are complete workspaces, and no calls.
LEMMA DispatchStarts ==
  ASSUME WorkspacesInit, DispatchInit
  PROVE  DispatchInv
<1>1. PICK W \in {{}, Shared}, E \in SUBSET Endpoints, u \in Owners \cup Admins :
        /\ groups = [j \in {Web(f) : f \in W} \cup {Im(e) : e \in E} |->
                       IF IsWeb(j) THEN Row(Given, Plain(j[2]), u, FALSE)
                       ELSE Row(Given, Chat(j[2]), Nobody, FALSE)]
        /\ members = [k \in {<<Plain(f), u>> : f \in W} |-> "owner"]
  BY DEF WorkspacesInit
<1>2. /\ calls = [r \in Calls |-> NoCall] /\ disputed = FALSE /\ racedBind = FALSE /\ bindLog = <<>>
      /\ stored = {} /\ sent = {} /\ outcome = [r \in Calls |-> "none"]
  BY DEF WorkspacesInit, DispatchInit
<1> PICK J, K : J = {Web(f) : f \in W} \cup {Im(e) : e \in E} /\ K = {<<Plain(f), u>> : f \in W}
  OBVIOUS
<1>3. DOMAIN groups = J /\ \A j \in J :
        groups[j] = IF IsWeb(j) THEN Row(Given, Plain(j[2]), u, FALSE) ELSE Row(Given, Chat(j[2]), Nobody, FALSE)
  BY <1>1
<1>4. DOMAIN members = K /\ \A k \in K : members[k] = "owner"
  BY <1>1
<1>5. \A k \in K : \E f \in W : k = <<Plain(f), u>>
  OBVIOUS
<1>6. ASSUME NEW f \in W
      PROVE  /\ Web(f) \in J /\ IsWeb(Web(f)) /\ Web(f) \in Ids
             /\ groups[Web(f)] = Row(Given, Plain(f), u, FALSE)
  <2>1. IsWeb(Web(f)) /\ Web(f)[2] = f
    BY JidFacts DEF Web
  <2>2. Web(f) \in J /\ f \in Names
    BY IdFacts
  <2> QED
    BY <1>3, <2>1, <2>2, IdFacts
<1>7. ASSUME NEW e \in E
      PROVE  /\ Im(e) \in J /\ ~IsWeb(Im(e)) /\ Im(e) \in Ids /\ Im(e) \in ImJids
             /\ groups[Im(e)] = Row(Given, Chat(e), Nobody, FALSE)
  <2>1. ~IsWeb(Im(e)) /\ Im(e)[2] = e
    BY JidFacts DEF Im
  <2>2. Im(e) \in J /\ e \in Endpoints
    OBVIOUS
  <2> QED
    BY <1>3, <2>1, <2>2, IdFacts DEF ImJids
<1>8. TablesOK
  <2>1. groups = [j \in DOMAIN groups |-> groups[j]] /\ members = [k \in DOMAIN members |-> members[k]]
    BY <1>1
  <2>2. ASSUME NEW j \in J
        PROVE  /\ IsRow(groups[j]) /\ j \in Ids /\ groups[j].folder \in FoldersOf(j)
               /\ j \notin ImJids => groups[j].by \in Users
               /\ groups[j].target = Unbound
    <3>1. CASE \E f \in W : j = Web(f)
      <4> PICK f \in W : j = Web(f)
        BY <3>1
      <4>1. groups[j] = Row(Given, Plain(f), u, FALSE) /\ j \in Ids
        BY <1>6
      <4>2. Plain(f) \in FoldersOf(j) /\ u \in Users
        BY FolderFacts DEF Users
      <4> QED
        BY <4>1, <4>2 DEF IsRow, Row
    <3>2. CASE \E e \in E : j = Im(e)
      <4> PICK e \in E : j = Im(e)
        BY <3>2
      <4>1. groups[j] = Row(Given, Chat(e), Nobody, FALSE) /\ j \in Ids /\ j \in ImJids
        BY <1>7
      <4>2. Chat(e) \in FoldersOf(j)
        BY FolderFacts
      <4> QED
        BY <4>1, <4>2 DEF IsRow, Row
    <3> QED
      BY <3>1, <3>2
  <2>3. ASSUME NEW k \in K PROVE k = <<k[1], k[2]>> /\ JidOf(k[1]) \in J
    <3> PICK f \in W : k = <<Plain(f), u>>
      BY <1>5
    <3>1. JidOf(k[1]) = Web(f)
      BY JidFacts
    <3> QED
      BY <1>6, <3>1
  <2>4. bindLog \in Seq(BindingType)
    BY <1>2
  <2> QED
    BY <1>2, <1>3, <1>4, <2>1, <2>2, <2>3, <2>4 DEF TablesOK
<1>9. CallsOK
  BY <1>2 DEF CallsOK
<1>10. \A r \in Calls : calls[r].op = "none" /\ calls[r].at = "new" /\ calls[r].answer = "none"
  BY <1>2 DEF NoCall
<1>11. Ownership
  <2>1. OwnersOK
    <3> SUFFICES ASSUME NEW k \in K
                 PROVE  groups[JidOf(k[1])].by = k[2]
      BY <1>4 DEF OwnersOK
    <3>1. PICK f \in W : k = <<Plain(f), u>>
      BY <1>5
    <3>2. JidOf(k[1]) = Web(f)
      BY <3>1, JidFacts
    <3>3. groups[Web(f)].by = u
      <4>1. groups[Web(f)] = Row(Given, Plain(f), u, FALSE)
        BY <1>6
      <4> QED
        BY <4>1 DEF Row
    <3> QED
      BY <3>1, <3>2, <3>3
  <2>2. \A r \in Calls : Alone(r) /\ OwnerOK(calls[r])
    BY <1>10 DEF Alone, OwnerOK, Creating, Attends, CreationOK, CreatedOK, AddOK, RemoveOK
  <2> QED
    BY <2>1, <2>2 DEF Ownership, OwnersSafe
<1>12. Bindings
  <2>1. \A e \in Endpoints, n \in 0 .. 0 : ChangesOf(e, n) = {}
    BY <1>2 DEF ChangesOf
  <2>2. LatestOK
    BY <1>2, <2>1 DEF LatestOK
  <2>3. ASSUME NEW e \in Endpoints
        PROVE  TargetOf(e) = Unbound
    <3> PICK j : j = Im(e)
      OBVIOUS
    <3>1. ASSUME j \in J
          PROVE  groups[j].target = Unbound
      <4>1. CASE IsWeb(j)
        <5>1. groups[j] = Row(Given, Plain(j[2]), u, FALSE)
          BY <1>3, <3>1, <4>1
        <5> QED
          BY <5>1 DEF Row
      <4>2. CASE ~IsWeb(j)
        <5>1. groups[j] = Row(Given, Chat(j[2]), Nobody, FALSE)
          BY <1>3, <3>1, <4>2
        <5> QED
          BY <5>1 DEF Row
      <4> QED
        BY <4>1, <4>2
    <3> QED
      BY <1>3, <3>1 DEF TargetOf
  <2>4. \A e \in Endpoints : BoundAt(e, Len(bindLog)) = Unbound
    <3> TAKE e \in Endpoints
    <3>1. ChangesOf(e, Len(bindLog)) = {}
      BY <1>2, <2>1
    <3> QED
      BY <3>1 DEF BoundAt, ChangesOf
  <2>5. BindingNotStolen
    BY <1>2 DEF BindingNotStolen
  <2>6. \A r \in Calls : ChangeOK(r)
    BY <1>10 DEF ChangeOK
  <2> QED
    BY <2>2, <2>3, <2>4, <2>5, <2>6 DEF Bindings
<1>13. RoutedToBinding
  BY <1>10 DEF RoutedToBinding
<1>14. Replies
  BY <1>2, <1>10 DEF Replies, ReplyOK
<1> QED
  BY <1>8, <1>9, <1>11, <1>12, <1>13, <1>14 DEF DispatchInv, Courses

\* A step that changes nothing
LEMMA DispatchStutters ==
  ASSUME DispatchInv, UNCHANGED wmVars
  PROVE  DispatchInv'
<1>1. /\ groups' = groups /\ members' = members /\ slots' = slots /\ calls' = calls
      /\ disputed' = disputed /\ racedBind' = racedBind /\ bindLog' = bindLog
      /\ stored' = stored /\ sent' = sent /\ outcome' = outcome
  BY DEF wmVars, wsVars, wsTables, wsHistory, mdVars
<1>2. TablesOK'
  BY <1>1 DEF DispatchInv, Courses, TablesOK
<1>3. CallsOK'
  <2>1. \A r \in Calls : CallOK(calls[r])' <=> CallOK(calls[r])
    BY <1>1 DEF CallOK, CourseOK, RegOK, OpenOK, CreateOK, SendOK, ImOK, Registering, AtSlot, IsCall
  <2> QED
    BY <1>1, <2>1 DEF DispatchInv, Courses, CallsOK
<1>4. Ownership'
  BY <1>1 DEF DispatchInv, Ownership, OwnersSafe, OwnersOK, Alone, OwnerOK, CreationOK, CreatedOK,
              AddOK, RemoveOK, Owned
<1>5. Bindings'
  <2>1. Bindings
    BY DEF DispatchInv
  <2>2. LatestOK'
    BY <1>1, <2>1 DEF Bindings, LatestOK, ChangesOf
  <2>3. \A e \in Endpoints : TargetOf(e)' = BoundAt(e, Len(bindLog))'
    <3> TAKE e \in Endpoints
    <3>1. BoundAt(e, Len(bindLog))' = BoundAt(e, Len(bindLog)) /\ TargetOf(e)' = TargetOf(e)
      BY <1>1 DEF BoundAt, TargetOf
    <3> QED
      BY <2>1, <3>1 DEF Bindings
  <2>4. BindingNotStolen'
    BY <1>1, <2>1 DEF Bindings, BindingNotStolen, BoundAt
  <2>5. ~racedBind' => \A q \in Calls : ChangeOK(q)'
    BY <1>1, <2>1 DEF Bindings, ChangeOK, TargetOf
  <2> QED
    BY <2>2, <2>3, <2>4, <2>5 DEF Bindings
<1>6. RoutedToBinding'
  <2> SUFFICES ASSUME NEW q \in Calls, calls'[q].op = "im", calls'[q].at = "store_in"
               PROVE  \E n \in calls'[q].from .. Len(bindLog') :
                        calls'[q].folder \in Destinations(calls'[q].arg[1], BoundAt(calls[q].arg[1], n)')
    BY DEF RoutedToBinding, Destinations
  <2> SUFFICES ASSUME NEW e, e = calls'[q].arg[1], NEW from, from = calls'[q].from
               PROVE  \E n \in from .. Len(bindLog') : calls'[q].folder \in Destinations(e, BoundAt(e, n)')
    BY DEF BoundAt
  <2>1. \A n : BoundAt(e, n)' = BoundAt(e, n)
    BY <1>1 DEF BoundAt
  <2>2. \E n \in from .. Len(bindLog) : calls[q].folder \in Destinations(e, BoundAt(e, n))
    BY <1>1 DEF DispatchInv, RoutedToBinding, Destinations
  <2> QED
    BY <1>1, <2>1, <2>2
<1>7. Replies'
  BY <1>1 DEF DispatchInv, Replies, ReplyOK
<1> QED
  BY <1>2, <1>3, <1>4, <1>5, <1>6, <1>7 DEF DispatchInv, Courses

-----------------------------------------------------------------------------
\* The inductive invariant of the workspaces and of the messages dispatched to them.
THEOREM DispatchInvariant == DispatchSpec => []DispatchInv
<1>1. WorkspacesInit /\ DispatchInit => DispatchInv
  BY DispatchStarts
<1>2. DispatchInv /\ [DispatchNext]_<<wsVars, mdVars>> => DispatchInv'
  <2> SUFFICES ASSUME DispatchInv, [DispatchNext]_<<wsVars, mdVars>>
               PROVE  DispatchInv'
    OBVIOUS
  <2>1. CASE DispatchNext
    <3>1. PICK r \in Calls :
            \/ (GroupCall(r) \/ MemberCall(r) \/ BindingCall(r) \/ WorkspaceStep(r)) /\ UNCHANGED mdVars
            \/ MessageCall(r) \/ DispatchStep(r)
      BY <2>1 DEF DispatchNext
    <3> QED
      BY <3>1, UserCallInv, WorkspaceStepInv, MessageInv
  <2>2. CASE UNCHANGED <<wsVars, mdVars>>
    BY <2>2, DispatchStutters DEF wmVars
  <2> QED
    BY <2>1, <2>2
<1> QED
  BY <1>1, <1>2, PTL DEF DispatchSpec

\* What the calls know of the owners, of their slots and of the bindings is what the
\* properties say of them.
LEMMA InvShowsWorkspaces ==
  ASSUME DispatchInv
  PROVE  WorkspacesSound
<1>1. Courses /\ Ownership /\ Bindings
  BY DEF DispatchInv
<1>2. OwnerIsCreator
  <2> SUFFICES ASSUME ~disputed
               PROVE  /\ \A k \in DOMAIN members : members[k] = "owner" => groups[Web(k[1][2])].by = k[2]
                      /\ \A r \in Calls : (calls[r].op = "create" /\ calls[r].answer = "200") =>
                           /\ groups[calls[r].jid].by = calls[r].by
                           /\ RoleOfMember(calls[r].folder, calls[r].by) = "owner"
    BY DEF OwnerIsCreator
  <2>1. OwnersOK /\ \A r \in Calls : CreatedOK(calls[r])
    BY <1>1 DEF Ownership, OwnersSafe, OwnerOK
  <2> QED
    BY <2>1 DEF OwnersOK, JidOf, CreatedOK, Owned, RoleOfMember
<1>3. MainSlotServed
  <2> SUFFICES ASSUME NEW r \in Calls, calls[r].op = "slots", calls[r].answer = "200"
               PROVE  <<calls[r].folder, "main">> \in calls[r].found
    BY DEF MainSlotServed
  <2>1. calls[r].at # "new"
    BY <1>1 DEF Courses, CallsOK, NoCall
  <2>2. CallOK(calls[r])
    BY <1>1, <2>1, UnderWayOK
  <2> QED
    BY <2>2 DEF CallOK, OpenOK, Opens
<1> QED
  BY <1>1, <1>2, <1>3 DEF WorkspacesSound, Bindings

\* Workspaces stay with their creators, also when a message moves them to another folder,
\* unless a creation has found its workspace's row there or an addition of a member has
\* found its workspace in creation; endpoints stay with their workspaces unless two changes
\* of a binding overlapped; and a list of slots has the main one: whatever calls act
\* between any two statements of each other (group_registry.py, group_member_service.py,
\* conversation_slot_service.py).
THEOREM WorkspacesStaySound == DispatchSpec => []WorkspacesSound
<1>1. DispatchInv => WorkspacesSound
  BY InvShowsWorkspaces
<1> QED
  BY <1>1, DispatchInvariant, PTL

\* What is stored and sent is what the sender is told.
LEMMA InvShowsDispatch ==
  ASSUME DispatchInv
  PROVE  DispatchSound
<1>1. Replies /\ RoutedToBinding
  BY DEF DispatchInv
<1>2. \A r \in Calls : ReplyOK(r)
  BY <1>1 DEF Replies
<1>3. RepliesInOrder
  BY <1>1, <1>2 DEF RepliesInOrder, Replies, ReplyOK
<1>4. AnsweredMeansReplied
  BY <1>2 DEF AnsweredMeansReplied, ReplyOK
<1> QED
  BY <1>1, <1>3, <1>4 DEF DispatchSound

\* A message runs where its endpoint is bound, and its reply is stored and sent exactly if
\* its sender may believe so (message_dispatch.py, message_router.py).
THEOREM DispatchStaysSound == DispatchSpec => []DispatchSound
<1>1. DispatchInv => DispatchSound
  BY InvShowsDispatch
<1> QED
  BY <1>1, DispatchInvariant, PTL
=============================================================================
