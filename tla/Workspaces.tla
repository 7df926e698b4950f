----------------------------- MODULE Workspaces -----------------------------
(***************************************************************************)
(* Workspaces, their conversation slots, members and IM bindings           *)
(* (services/group_registry.py, group_member_service.py,                   *)
(* conversation_slot_service.py and app/routes/groups.py). Every call has  *)
(* a database session of its own and each statement is an await, so other  *)
(* calls act between any two of them. A session does not read a row it     *)
(* holds again, and an UPDATE writes only the columns that were changed.   *)
(* The jid of a group and its folder are columns of their own: whoever     *)
(* registers a group that is there moves it to the folder he names. The    *)
(* tables exist: _ensure_schema is left out; who made a slot is not kept.  *)
(***************************************************************************)
EXTENDS FiniteSetsExt, Naturals, Sequences

CONSTANTS
  Calls,                    \* the calls of a run, each made once
  Owners, Admins, Members,  \* the users of each role
  Shared,                   \* folders of workspaces that may be created
  SlotNames,                \* the conversation slots that calls name
  Endpoints                 \* chats of the IM channels

\* The folder main is reserved, as are those of homes, which are named by their users; and
\* no user has the null for an id.
ASSUME WorkspacesAssumption ==
  /\ "main" \notin Shared /\ "nobody" \notin Owners \cup Admins \cup Members
  /\ (Shared \cup {"main"}) \cap (Owners \cup Admins \cup Members) = {}

VARIABLES
  groups,      \* registered_groups: the rows by jid
  members,     \* group_members: the role by <<folder, user>>
  slots,       \* conversation_slots: <<folder, slot>>
  calls,       \* the calls
  disputed,    \* history: a creation found its workspace's row there, or an addition of a
               \* member found its workspace in creation
  racedBind,   \* history: two changes of a binding overlapped
  bindLog      \* history: the changes of bindings: endpoint, new target, for which workspace

wsTables == <<groups, members, slots>>
wsHistory == <<disputed, racedBind, bindLog>>
wsVars == <<wsTables, calls, wsHistory>>

Users == Owners \cup Admins \cup Members
MayWrite(u) == u \in Owners \cup Admins
Folders == Shared \cup {"main"}
Nobody == "nobody"
Unbound == <<"none", "none">>
NoRole == "no_role"

\* Jids and folders are strings of a kind: a plain name, web: and a name, the jid of an
\* endpoint, or chat- and a hash of it. A group id in a request may be any of them.
Names == Folders \cup Users
Ids == {"plain", "web"} \X Names \cup {"im", "chat"} \X Endpoints
Plain(n) == <<"plain", n>>
Web(n) == <<"web", n>>
Im(e) == <<"im", e>>
Chat(e) == <<"chat", e>>
IsWeb(j) == j[1] = "web"

\* A home is named by its user, that of the owners main.
HomeName(u) == IF u \in Owners THEN "main" ELSE u
HomeOf(u) == Web(HomeName(u))

RoleOfMember(g, u) == IF <<g, u>> \in DOMAIN members THEN members[<<g, u>>] ELSE NoRole
Row(name, folder, by, home) ==
  [name |-> name, folder |-> folder, by |-> by, home |-> home, target |-> Unbound]
Given == <<"given", "name">>

NoCall == [op |-> "none", at |-> "new", answer |-> "none"]
Begun(r) == calls[r].at \notin {"new", "done"}
Ended(rec, status) == [rec EXCEPT !.at = "done", !.answer = status]

\* A call: what it asks for, where it is, the group it is about and its folder (at first
\* the group id for both), the row (row, seen) it has loaded, what it goes on with once the
\* main slot is there (then), what it was given to read (found), and how many changes of
\* bindings there had been (from, history).
Call(op, u, id, arg, at) ==
  [op |-> op, at |-> at, answer |-> "none", by |-> u, jid |-> id, folder |-> id, arg |-> arg,
   then |-> "none", reg |-> [jid |-> id, name |-> Given, folder |-> id, by |-> Nobody, home |-> FALSE],
   row |-> Row(Given, id, Nobody, FALSE), seen |-> NoRole, found |-> {}, from |-> Len(bindLog)]

\* The arguments of ensure_registered_group, called at this point of the call
Ensures(rec, jid, name, folder, by, home, then) ==
  [rec EXCEPT !.at = "get", !.then = then,
              !.reg = [jid |-> jid, name |-> name, folder |-> folder, by |-> by, home |-> home]]
EnsuresHome(rec, then) ==
  Ensures(rec, HomeOf(rec.by), Given, Plain(HomeName(rec.by)), rec.by, TRUE, then)

Set(r, rec) == calls' = [calls EXCEPT ![r] = rec]
Goto(r, at) == Set(r, [calls[r] EXCEPT !.at = at])
Answer(r, status) == Set(r, Ended(calls[r], status))

\* A shared workspace may be there, complete, and an endpoint that has been seen.
WorkspacesInit ==
  /\ \E W \in {{}, Shared}, E \in SUBSET Endpoints, u \in Owners \cup Admins :
       /\ groups = [j \in {Web(f) : f \in W} \cup {Im(e) : e \in E} |->
                      IF IsWeb(j) THEN Row(Given, Plain(j[2]), u, FALSE)
                      ELSE Row(Given, Chat(j[2]), Nobody, FALSE)]
       /\ members = [k \in {<<Plain(f), u>> : f \in W} |-> "owner"]
       /\ slots = {<<groups[j].folder, "main">> : j \in DOMAIN groups}
  /\ calls = [r \in Calls |-> NoCall]
  /\ disputed = FALSE /\ racedBind = FALSE /\ bindLog = <<>>

-----------------------------------------------------------------------------
GetGroup(r) ==
  LET rec == calls[r] IN
  /\ rec.at = "get"
  /\ IF rec.reg.jid \in DOMAIN groups
     THEN Set(r, [rec EXCEPT !.at = "update", !.row = groups[rec.reg.jid]])
     ELSE Goto(r, "insert")
  /\ disputed' = (disputed \/ (rec.op = "create" /\ rec.reg.jid \in DOMAIN groups))
  /\ UNCHANGED <<wsTables, racedBind, bindLog>>

\* What the UPDATE makes of the row as it is now: the columns whose new value differs from
\* the loaded one.
Updated(now, row, reg) ==
  [now EXCEPT !.name = IF reg.name # row.name THEN reg.name ELSE @,
              !.folder = IF reg.folder # row.folder THEN reg.folder ELSE @,
              !.by = IF row.by = Nobody /\ reg.by # Nobody THEN reg.by ELSE @,
              !.home = @ \/ reg.home]

UpdateGroup(r) ==
  LET rec == calls[r] IN
  /\ rec.at = "update"
  /\ groups' = [groups EXCEPT ![rec.reg.jid] = Updated(@, rec.row, rec.reg)]
  /\ Goto(r, "refresh")
  /\ UNCHANGED <<members, slots, wsHistory>>

\* A row that has appeared since makes the INSERT fail: 500.
InsertGroup(r) ==
  LET reg == calls[r].reg
      row == Row(reg.name, reg.folder, reg.by, reg.home)
  IN /\ calls[r].at = "insert"
     /\ IF reg.jid \in DOMAIN groups
        THEN Answer(r, "500") /\ UNCHANGED groups
        ELSE /\ groups' = [j \in DOMAIN groups \cup {reg.jid} |-> IF j = reg.jid THEN row ELSE groups[j]]
             /\ Goto(r, "refresh")
     /\ UNCHANGED <<members, slots, wsHistory>>

\* The main slot of the group that was just loaded comes next.
ThenSlot(rec, j) == [rec EXCEPT !.at = "slot", !.row = groups[j]]

\* The row is read again after it was written.
RefreshGroup(r) ==
  /\ calls[r].at = "refresh"
  /\ Set(r, ThenSlot(calls[r], calls[r].reg.jid))
  /\ UNCHANGED <<wsTables, wsHistory>>

SlotOf(rec) == <<rec.row.folder, "main">>

GetMainSlot(r) ==
  /\ calls[r].at = "slot"
  /\ Goto(r, IF SlotOf(calls[r]) \in slots THEN calls[r].then ELSE "slot_insert")
  /\ UNCHANGED <<wsTables, wsHistory>>

InsertMainSlot(r) ==
  LET rec == calls[r] IN
  /\ rec.at = "slot_insert"
  /\ IF SlotOf(rec) \in slots THEN Answer(r, "500") ELSE Goto(r, rec.then)
  /\ slots' = slots \cup {SlotOf(rec)}
  /\ UNCHANGED <<groups, members, wsHistory>>

\* SQLite refuses a write that has waited too long for the lock: 500, nothing written.
Locked(r) ==
  /\ calls[r].at \in {"update", "insert", "slot_insert", "merge", "delete", "rename",
                      "new_slot_insert", "binding"}
  /\ calls[r].at = "update" => Updated(calls[r].row, calls[r].row, calls[r].reg) # calls[r].row
  /\ Answer(r, "500")
  /\ UNCHANGED <<wsTables, wsHistory>>

-----------------------------------------------------------------------------
\* user_can_access_group of a web workspace; the members are asked for only when the row
\* does not decide.
CanAccess(u, j, row) ==
  IF row.home THEN row.by = u \/ (j = Web("main") /\ row.folder = Plain("main") /\ u \in Owners)
  ELSE row.by = u \/ RoleOfMember(row.folder, u) # NoRole
CanManage(u, row) == ~row.home /\ row.by = u

\* list_groups: the home first, then all there are
ListGroups(r, u) ==
  /\ calls[r].at = "new"
  /\ Set(r, EnsuresHome(Call("list", u, HomeOf(u), <<>>, "new"), "list"))
  /\ UNCHANGED <<wsTables, wsHistory>>

ListRegisteredGroups(r) ==
  LET rec == calls[r] IN
  /\ rec.at = "list"
  /\ Set(r, Ended([rec EXCEPT !.found =
       {<<j, "seen">> : j \in {i \in DOMAIN groups : IsWeb(i) /\ CanAccess(rec.by, i, groups[i])}}], "200"))
  /\ UNCHANGED <<wsTables, wsHistory>>

\* create_group: without the permission 403; main and home folders are reserved, and a
\* folder is a plain name.
CreateGroup(r, u, g) ==
  /\ calls[r].at = "new"
  /\ LET rec == [Call("create", u, g, <<u, "owner">>, "vacant") EXCEPT !.jid = Web(g[2])]
     IN Set(r, IF ~MayWrite(u) THEN Ended(rec, "403")
               ELSE IF g \notin {Plain(f) : f \in Shared} THEN Ended(rec, "400") ELSE rec)
  /\ UNCHANGED <<wsTables, wsHistory>>

CheckVacant(r) ==
  LET rec == calls[r] IN
  /\ rec.at = "vacant"
  /\ Set(r, IF \E j \in DOMAIN groups : groups[j].folder = rec.folder THEN Ended(rec, "409")
            ELSE Ensures(rec, rec.jid, <<"call", r>>, rec.folder, rec.by, FALSE, "member_check"))
  /\ UNCHANGED <<wsTables, wsHistory>>

\* The other calls first look for the workspace of the folder and its main slot, and
\* whether the user may see it. Some need a permission or the owner role before that.
OpenWorkspace(r, op, u, g, arg, allowed) ==
  /\ calls[r].at = "new"
  /\ LET rec == Call(op, u, g, arg, "find")
     IN Set(r, IF allowed THEN rec ELSE Ended(rec, "403"))
  /\ UNCHANGED <<wsTables, wsHistory>>

RenameGroup(r, u, g) == OpenWorkspace(r, "rename", u, g, <<>>, MayWrite(u))
ListGroupSlots(r, u, g) == OpenWorkspace(r, "slots", u, g, <<>>, TRUE)
CreateGroupSlot(r, u, g, s) == OpenWorkspace(r, "new_slot", u, g, <<s>>, TRUE)
ListGroupImBindings(r, u, g) == OpenWorkspace(r, "bindings", u, g, <<>>, u \in Owners)
BindGroupImEndpoint(r, u, g, e) == OpenWorkspace(r, "bind", u, g, <<e>>, u \in Owners)
UnbindGroupImEndpoint(r, u, g, e) == OpenWorkspace(r, "unbind", u, g, <<e>>, u \in Owners)
ListGroupMembers(r, u, g) == OpenWorkspace(r, "members", u, g, <<>>, TRUE)
AddGroupMember(r, u, g, v, role) == OpenWorkspace(r, "add", u, g, <<v, role>>, MayWrite(u))
RemoveGroupMember(r, u, g, v) == OpenWorkspace(r, "remove", u, g, <<v, "none">>, TRUE)

\* The web workspaces with a folder; there is one at most.
Having(folder) == {j \in DOMAIN groups : IsWeb(j) /\ groups[j].folder = folder}

\* Seeded fault: the workspace is found without a look at its main slot.
AfterFindNoSlot(rec, j) == [rec EXCEPT !.at = "access", !.jid = j, !.row = groups[j]]

\* get_web_workspace_by_folder ends with the main slot of the workspace it has found.
AfterFind(rec, j) == [ThenSlot(rec, j) EXCEPT !.jid = j, !.then = "access"]

\* A call other than r is creating a workspace with this folder.
InCreation(r, g) ==
  \E q \in Calls \ {r} : Begun(q) /\ calls[q].op = "create" /\ calls[q].folder = g
                         /\ calls[q].at # "vacant"

FindWorkspace(r) ==
  LET rec == calls[r] IN
  /\ rec.at = "find"
  /\ \/ \E j \in Having(rec.folder) : Set(r, AfterFind(rec, j))
     \/ Having(rec.folder) = {} /\ Answer(r, "404")
  /\ disputed' = (disputed \/ (rec.op = "add" /\ InCreation(r, rec.folder)))
  /\ UNCHANGED <<wsTables, racedBind, bindLog>>

\* What a call does with a workspace it may see
Proceeds(rec) ==
  CASE rec.op = "rename" ->
         IF rec.row.home THEN Ended(rec, "400")
         ELSE IF ~CanManage(rec.by, rec.row) THEN Ended(rec, "403")
         ELSE [rec EXCEPT !.at = "rename"]
    [] rec.op = "new_slot" ->
         IF rec.arg[1] = "main" THEN Ended(rec, "400") ELSE [rec EXCEPT !.at = "new_slot"]
    [] rec.op \in {"bind", "unbind"} -> [rec EXCEPT !.at = "endpoint"]
    [] rec.op = "members" -> IF rec.row.home THEN Ended(rec, "400") ELSE [rec EXCEPT !.at = "read"]
    [] rec.op = "add" ->
         IF rec.row.home THEN Ended(rec, "400")
         ELSE IF ~CanManage(rec.by, rec.row) THEN Ended(rec, "403")
         ELSE IF rec.arg[1] \notin Users THEN Ended(rec, "404")
         ELSE [rec EXCEPT !.at = "role_change"]
    [] rec.op = "remove" ->
         IF rec.row.home THEN Ended(rec, "400")
         ELSE IF rec.arg[1] = rec.by THEN [rec EXCEPT !.at = "own_role"]
         ELSE IF ~CanManage(rec.by, rec.row) THEN Ended(rec, "403")
         ELSE [rec EXCEPT !.at = "member_get"]
    [] OTHER -> [rec EXCEPT !.at = "read"]

\* _require_accessible_workspace
CheckAccess(r) ==
  LET rec == calls[r] IN
  /\ rec.at = "access" /\ rec.op # "send"
  /\ Set(r, IF CanAccess(rec.by, rec.jid, rec.row) THEN Proceeds(rec) ELSE Ended(rec, "404"))
  /\ UNCHANGED <<wsTables, wsHistory>>

\* list_im_endpoint_bindings: the state of each endpoint
BindingState(j) ==
  IF groups[j].target = Unbound THEN "unbound"
  ELSE IF groups[j].target \in DOMAIN groups /\ IsWeb(groups[j].target) THEN "bound"
  ELSE "orphaned"

\* The last read of the calls that only list
ReadWorkspace(r) ==
  LET rec == calls[r] IN
  /\ rec.at = "read"
  /\ Set(r, Ended([rec EXCEPT !.found =
       CASE rec.op = "slots" -> {k \in slots : k[1] = rec.folder}
         [] rec.op = "members" -> {k \in DOMAIN members : k[1] = rec.folder}
         [] OTHER -> {<<j, BindingState(j)>> : j \in {i \in DOMAIN groups : i[1] = "im"}}], "200"))
  /\ UNCHANGED <<wsTables, wsHistory>>

RenameWorkspace(r) ==
  /\ calls[r].at = "rename"
  /\ groups' = [groups EXCEPT ![calls[r].jid].name = <<"call", r>>]
  /\ Answer(r, "200")
  /\ UNCHANGED <<members, slots, wsHistory>>

\* create_slot: a slot that is there is returned.
GetSlot(r) ==
  LET rec == calls[r] IN
  /\ rec.at = "new_slot"
  /\ IF <<rec.folder, rec.arg[1]>> \in slots THEN Answer(r, "200") ELSE Goto(r, "new_slot_insert")
  /\ UNCHANGED <<wsTables, wsHistory>>

InsertSlot(r) ==
  LET k == <<calls[r].folder, calls[r].arg[1]>> IN
  /\ calls[r].at = "new_slot_insert"
  /\ Answer(r, IF k \in slots THEN "500" ELSE "200")
  /\ slots' = slots \cup {k}
  /\ UNCHANGED <<groups, members, wsHistory>>

-----------------------------------------------------------------------------
\* Members. The user a call is about, and the role it asks for.
Subject(rec) == rec.arg[1]
RoleAsked(rec) == rec.arg[2]
RoleNow(rec) == RoleOfMember(rec.folder, Subject(rec))

\* Seeded fault: the route does not look at the owner role.
RoleChangeUnchecked(asked, role) == TRUE

\* _ensure_owner_role_change_supported: nobody becomes owner or stops to be one.
RoleChangeSupported(asked, role) == (asked = "owner") <=> (role = "owner")

CheckRoleChange(r) ==
  LET rec == calls[r] IN
  /\ rec.at = "role_change"
  /\ IF RoleChangeSupported(RoleAsked(rec), RoleNow(rec)) THEN Goto(r, "member_check")
     ELSE Answer(r, "400")
  /\ UNCHANGED <<wsTables, wsHistory>>

\* add_member looks again; a member's role does not change to or from owner.
CheckMember(r) ==
  LET rec == calls[r]
      role == RoleNow(rec)
  IN /\ rec.at = "member_check"
     /\ Set(r, IF role # NoRole /\ ((RoleAsked(rec) = "owner") # (role = "owner"))
               THEN Ended(rec, "400")
               ELSE [rec EXCEPT !.at = "merge", !.seen = role])
     /\ UNCHANGED <<wsTables, wsHistory>>

\* merge: a member that was loaded is updated if its role changes, and 500 if it is gone
\* by now; one that was not is inserted. When it has appeared since, its row is
\* overwritten if merge still saw it, and the INSERT fails if not.
MergeMember(r) ==
  LET rec == calls[r]
      k == <<rec.folder, Subject(rec)>>
      Written == /\ members' = [m \in DOMAIN members \cup {k} |->
                                  IF m = k THEN RoleAsked(rec) ELSE members[m]]
                 /\ Answer(r, "200")
      Refused == Answer(r, "500") /\ UNCHANGED members
  IN /\ rec.at = "merge"
     /\ IF rec.seen = NoRole
        THEN Written \/ (k \in DOMAIN members /\ Refused)
        ELSE IF k \notin DOMAIN members THEN Refused
        ELSE IF rec.seen = RoleAsked(rec) THEN Answer(r, "200") /\ UNCHANGED members
        ELSE Written
     /\ UNCHANGED <<groups, slots, wsHistory>>

\* remove_group_member of the caller itself: the role first
CheckOwnRole(r) ==
  LET role == RoleNow(calls[r]) IN
  /\ calls[r].at = "own_role"
  /\ IF role = NoRole THEN Answer(r, "404")
     ELSE IF role = "owner" THEN Answer(r, "400")
     ELSE Goto(r, "member_get")
  /\ UNCHANGED <<wsTables, wsHistory>>

\* remove_member; the refusal to remove an owner is not expected after CheckOwnRole.
GetMember(r) ==
  LET rec == calls[r]
      role == RoleNow(rec)
  IN /\ rec.at = "member_get"
     /\ IF role = NoRole THEN Answer(r, "404")
        ELSE IF role = "owner" THEN Answer(r, IF Subject(rec) = rec.by THEN "500" ELSE "400")
        ELSE Goto(r, "delete")
     /\ UNCHANGED <<wsTables, wsHistory>>

\* A row that is gone by now is only warned about.
DeleteMember(r) ==
  /\ calls[r].at = "delete"
  /\ members' = [k \in DOMAIN members \ {<<calls[r].folder, Subject(calls[r])>>} |-> members[k]]
  /\ Answer(r, "200")
  /\ UNCHANGED <<groups, slots, wsHistory>>

-----------------------------------------------------------------------------
\* Bindings. Seeded fault: an endpoint is bound whoever has it.
FreeWhoeverHasIt(target) == TRUE

\* An endpoint is free unless it is bound to a workspace that is there.
Free(target) == target = Unbound \/ target \notin DOMAIN groups \/ ~IsWeb(target)

GetEndpoint(r) ==
  LET rec == calls[r]
      j == Im(rec.arg[1])
  IN /\ rec.at = "endpoint"
     /\ Set(r,
          IF j \notin DOMAIN groups THEN Ended(rec, "404")
          ELSE IF rec.op = "unbind"
            THEN IF groups[j].target = rec.jid THEN [rec EXCEPT !.at = "binding"]
                 ELSE Ended(rec, "400")
          ELSE IF groups[j].target = rec.jid THEN Ended(rec, "200")
          ELSE IF ~Free(groups[j].target) THEN Ended(rec, "409")
          ELSE [rec EXCEPT !.at = "binding"])
     /\ racedBind' = (racedBind \/ \E q \in Calls :
          calls[q].at = "binding" /\ calls[q].arg = rec.arg)
     /\ UNCHANGED <<wsTables, disputed, bindLog>>

WriteBinding(r) ==
  LET rec == calls[r]
      to == IF rec.op = "bind" THEN rec.jid ELSE Unbound
  IN /\ rec.at = "binding"
     /\ groups' = [groups EXCEPT ![Im(rec.arg[1])].target = to]
     /\ bindLog' = Append(bindLog, [endpoint |-> rec.arg[1], to |-> to, for |-> rec.jid])
     /\ Answer(r, "200")
     /\ UNCHANGED <<members, slots, disputed, racedBind>>

\* The calls of users, of any permission: about workspaces and slots, members, bindings.
\* A user who is to be added may be unknown.
GroupCall(r) ==
  \E u \in Users :
    \/ ListGroups(r, u)
    \/ \E g \in Ids :
         \/ CreateGroup(r, u, g) \/ RenameGroup(r, u, g) \/ ListGroupSlots(r, u, g)
         \/ \E s \in SlotNames : CreateGroupSlot(r, u, g, s)

MemberCall(r) ==
  \E u \in Users, g \in Ids :
    \/ ListGroupMembers(r, u, g)
    \/ \E v \in Users \cup {"unknown"} :
         \/ RemoveGroupMember(r, u, g, v)
         \/ \E role \in {"owner", "admin", "member"} : AddGroupMember(r, u, g, v, role)

BindingCall(r) ==
  \E u \in Users, g \in Ids :
    \/ ListGroupImBindings(r, u, g)
    \/ \E e \in Endpoints : BindGroupImEndpoint(r, u, g, e) \/ UnbindGroupImEndpoint(r, u, g, e)

\* The steps of a call that has begun
WorkspaceStep(r) ==
  \/ GetGroup(r) \/ UpdateGroup(r) \/ InsertGroup(r) \/ RefreshGroup(r)
  \/ GetMainSlot(r) \/ InsertMainSlot(r) \/ Locked(r)
  \/ ListRegisteredGroups(r) \/ CheckVacant(r) \/ FindWorkspace(r) \/ CheckAccess(r)
  \/ ReadWorkspace(r) \/ RenameWorkspace(r) \/ GetSlot(r) \/ InsertSlot(r)
  \/ CheckRoleChange(r) \/ CheckMember(r) \/ MergeMember(r)
  \/ CheckOwnRole(r) \/ GetMember(r) \/ DeleteMember(r)
  \/ GetEndpoint(r) \/ WriteBinding(r)

-----------------------------------------------------------------------------
\* The creator of a workspace is the only owner among its members, and a creation that was
\* answered has made him one; nobody else gets the role, no call on the members takes it
\* from him, and a message that moves the workspace to another folder does not either. But
\* when a creation finds the row of its workspace there, since another creation or a message
\* has made it or a message has moved it, both creators own the workspace; and when a call
\* that adds a member finds it in creation, its owner may be made an admin.
OwnerIsCreator ==
  ~disputed =>
    /\ \A k \in DOMAIN members : members[k] = "owner" => groups[Web(k[1][2])].by = k[2]
    /\ \A r \in Calls : (calls[r].op = "create" /\ calls[r].answer = "200") =>
         /\ groups[calls[r].jid].by = calls[r].by
         /\ RoleOfMember(calls[r].folder, calls[r].by) = "owner"

\* The slots a workspace lists include the main one, although a failure may have left the
\* workspace without it.
MainSlotServed ==
  \A r \in Calls : (calls[r].op = "slots" /\ calls[r].answer = "200") =>
    <<calls[r].folder, "main">> \in calls[r].found

\* Unless two changes of a binding overlap, an endpoint goes from one workspace to another
\* only by being unbound first, and is unbound only for the workspace that has it.
BoundAt(e, n) ==
  LET S == {i \in 1..n : bindLog[i].endpoint = e}
  IN IF S = {} THEN Unbound ELSE bindLog[Max(S)].to
BindingNotStolen ==
  ~racedBind => \A i \in DOMAIN bindLog :
                  BoundAt(bindLog[i].endpoint, i - 1) \in {Unbound, bindLog[i].for}

\* Workspaces stay with their creators, endpoints with their workspaces, and the main slot
\* is always there.
WorkspacesSound == OwnerIsCreator /\ MainSlotServed /\ BindingNotStolen
=============================================================================
