--------------------------- MODULE MessageDispatch ---------------------------
(***************************************************************************)
(* Messages from the web and from IM channels, and their replies           *)
(* (services/message_dispatch.py, message_service.py, message_router.py,   *)
(* app/routes/messages.py and im.py). A call holds its request open until  *)
(* the run it has submitted ends; an IM platform delivers a message again  *)
(* when it has no good answer. Runs are those of ExecutionCoordinator, of  *)
(* which only the outcome matters here. A run is named by its call.        *)
(***************************************************************************)
EXTENDS Workspaces

CONSTANT Messages  \* messages of the chats, each delivered once or more

VARIABLES
  stored,   \* messages: <<"in", call>> and <<"out", call>>
  sent,     \* calls whose reply the chat has
  outcome   \* how the run of each call ended

mdVars == <<stored, sent, outcome>>

Blank == "blank"  \* a message of white space

DispatchInit ==
  /\ stored = {} /\ sent = {}
  /\ outcome = [r \in Calls |-> "none"]

-----------------------------------------------------------------------------
\* POST /messages: the sender's home, the workspace, the slot. The group id is not checked.
SendMessage(r, u, g, slot, text) ==
  /\ calls[r].at = "new"
  /\ Set(r, EnsuresHome(Call("send", u, g, <<slot, text>>, "new"), "send_to"))
  /\ UNCHANGED <<wsTables, wsHistory, mdVars>>

\* register_target of a web message, before it is stored: the group, in the folder and by
\* the folder's name. A blank message is refused before that.
Registers(rec) ==
  IF rec.arg[2] = Blank THEN Ended(rec, "400")
  ELSE Ensures(rec, rec.jid, rec.folder, rec.folder, rec.by, FALSE, "store_in")

\* A group id that no workspace has for its folder is dispatched to as it stands, for the
\* jid and for the folder: it may be the jid of a group.
ResolveHttpTarget(r) ==
  LET rec == calls[r] IN
  /\ rec.at = "send_to"
  /\ \/ \E j \in Having(rec.folder) : Set(r, AfterFind(rec, j))
     \/ /\ Having(rec.folder) = {}
        /\ Set(r, IF rec.arg[1] # "main" THEN Ended(rec, "404") ELSE Registers(rec))
  /\ UNCHANGED <<wsTables, wsHistory, mdVars>>

CheckSendAccess(r) ==
  LET rec == calls[r] IN
  /\ rec.at = "access" /\ rec.op = "send"
  /\ Set(r, IF ~CanAccess(rec.by, rec.jid, rec.row) THEN Ended(rec, "404")
            ELSE IF rec.arg[1] = "main" THEN Registers(rec)
            ELSE [rec EXCEPT !.at = "send_slot"])
  /\ UNCHANGED <<wsTables, wsHistory, mdVars>>

CheckSendSlot(r) ==
  LET rec == calls[r] IN
  /\ rec.at = "send_slot"
  /\ Set(r, IF <<rec.folder, rec.arg[1]>> \in slots THEN Registers(rec)
            ELSE Ended(rec, "404"))
  /\ UNCHANGED <<wsTables, wsHistory, mdVars>>

-----------------------------------------------------------------------------
\* The platform: a message is delivered, and again while no delivery of it was answered
\* well.
Deliverable(m) ==
  \A q \in Calls : (calls[q].op = "im" /\ calls[q].arg[2] = m) => calls[q].answer # "200"

\* feishu_webhook, telegram_update; telegram's blank messages are answered and ignored,
\* feishu's refused by the dispatch.
Webhook(r, e, m) ==
  /\ calls[r].at = "new" /\ Deliverable(m)
  /\ LET rec == Call("im", Nobody, Im(e), <<e, m>>, "im_get")
     IN IF m = Blank THEN \E a \in {"200", "400"} : Set(r, Ended(rec, a)) ELSE Set(r, rec)
  /\ UNCHANGED <<wsTables, wsHistory, mdVars>>

\* ensure_im_endpoint: an endpoint that is there stays as it is.
EnsureImEndpoint(r) ==
  LET rec == calls[r] IN
  /\ rec.at = "im_get"
  /\ Set(r, IF rec.jid \in DOMAIN groups
            THEN [ThenSlot(rec, rec.jid) EXCEPT !.then = "resolve"]
            ELSE Ensures(rec, rec.jid, Given, Chat(rec.arg[1]), Nobody, FALSE, "resolve"))
  /\ UNCHANGED <<wsTables, wsHistory, mdVars>>

\* Seeded fault: the message goes to the endpoint's own folder.
WorkspaceOfItself(j) == j

\* resolve_im_workspace: the workspace the endpoint is bound to, else the endpoint itself
WorkspaceOf(j) == IF BindingState(j) = "bound" THEN groups[j].target ELSE j

\* The message goes to the folder of that group.
ResolveImWorkspace(r) ==
  LET j == WorkspaceOf(calls[r].jid) IN
  /\ calls[r].at = "resolve"
  /\ Set(r, [calls[r] EXCEPT !.jid = j, !.folder = groups[j].folder, !.at = "store_in"])
  /\ UNCHANGED <<wsTables, wsHistory, mdVars>>

-----------------------------------------------------------------------------
\* dispatch_inbound_message from here on
StoreInbound(r) ==
  /\ calls[r].at = "store_in"
  /\ stored' = stored \cup {<<"in", r>>}
  /\ Goto(r, "run")
  /\ UNCHANGED <<wsTables, wsHistory, sent, outcome>>

\* Seeded fault: only a run without output has no reply.
AfterRunAny(rec, o) == IF o = "no_output" THEN Ended(rec, "400") ELSE [rec EXCEPT !.at = "route"]

\* A run that did not complete is answered as dispatched and has no reply; one that
\* completed without output is an error.
AfterRun(rec, o) ==
  CASE o = "completed" -> [rec EXCEPT !.at = "route"]
    [] o = "no_output" -> Ended(rec, "400")
    [] o = "refused" -> Ended(rec, "500")
    [] OTHER -> Ended(rec, "200")

\* submit_execution and wait_for_run
RunEnds(r, o) ==
  /\ calls[r].at = "run"
  /\ outcome' = [outcome EXCEPT ![r] = o]
  /\ Set(r, AfterRun(calls[r], o))
  /\ UNCHANGED <<wsTables, wsHistory, stored, sent>>

\* Seeded fault: an error of the channel is not passed on.
SendFailedIgnored(rec, a) == [rec EXCEPT !.at = "store_out"]

\* An error of the channel ends the call: 400 when it is the client's, 500 when another.
SendFailed(rec, a) == Ended(rec, a)

\* route_message: the handler of the web does nothing, the answer has the output. A send
\* that fails may have reached the chat.
RouteMessage(r) ==
  /\ calls[r].at = "route"
  /\ \/ /\ Goto(r, "store_out")
        /\ sent' = IF calls[r].op = "im" THEN sent \cup {r} ELSE sent
     \/ /\ calls[r].op = "im"
        /\ \E a \in {"400", "500"} : Set(r, SendFailed(calls[r], a))
        /\ sent' \in {sent, sent \cup {r}}
  /\ UNCHANGED <<wsTables, wsHistory, stored, outcome>>

StoreOutbound(r) ==
  /\ calls[r].at = "store_out"
  /\ stored' = stored \cup {<<"out", r>>}
  /\ Answer(r, "200")
  /\ UNCHANGED <<wsTables, wsHistory, sent, outcome>>

\* store_message fails: 500, nothing stored
StoreFails(r) ==
  /\ calls[r].at \in {"store_in", "store_out"}
  /\ Answer(r, "500")
  /\ UNCHANGED <<wsTables, wsHistory, mdVars>>

MessageCall(r) ==
  \/ \E u \in Users, g \in Ids, s \in SlotNames, text \in {"text", Blank} :
       SendMessage(r, u, g, s, text)
  \/ \E e \in Endpoints, m \in Messages : Webhook(r, e, m)

DispatchStep(r) ==
  \/ ResolveHttpTarget(r) \/ CheckSendAccess(r) \/ CheckSendSlot(r)
  \/ EnsureImEndpoint(r) \/ ResolveImWorkspace(r)
  \/ StoreInbound(r) \/ RouteMessage(r) \/ StoreOutbound(r) \/ StoreFails(r)
  \/ \E o \in {"completed", "no_output", "refused", "unsuccessful"} : RunEnds(r, o)

DispatchNext ==
  \E r \in Calls :
    \/ (GroupCall(r) \/ MemberCall(r) \/ BindingCall(r) \/ WorkspaceStep(r)) /\ UNCHANGED mdVars
    \/ MessageCall(r) \/ DispatchStep(r)

DispatchSpec == WorkspacesInit /\ DispatchInit /\ [][DispatchNext]_<<wsVars, mdVars>>

-----------------------------------------------------------------------------
\* A reply in a chat or in the history is that of a run that completed, whose message was
\* stored before; the history has no reply of an IM call that its chat may not have.
RepliesInOrder ==
  /\ \A r \in sent : outcome[r] = "completed"
  /\ \A r \in Calls : outcome[r] # "none" => <<"in", r>> \in stored
  /\ \A r \in Calls : <<"out", r>> \in stored => outcome[r] = "completed"

\* A platform that is told all is well does not deliver the message again, so a completed
\* run whose call was answered that way has its reply in the chat and in the history.
AnsweredMeansReplied ==
  \A r \in Calls : (calls[r].op = "im" /\ calls[r].answer = "200" /\ outcome[r] = "completed") =>
    r \in sent /\ {<<"in", r>>, <<"out", r>>} \subseteq stored

\* The folders a group may be in: its own, or the one named like its jid once a message had
\* that for its group id.
FoldersOf(j) ==
  {j} \cup (IF IsWeb(j) THEN {Plain(j[2])} ELSE IF j[1] = "im" THEN {Chat(j[2])} ELSE {})

\* The run of an IM message is in a folder of a workspace its endpoint was bound to at some
\* time between the message's arrival and the submission, or of the endpoint itself when it
\* was not bound at some such time: a binding that changes under way is not mixed up, nor
\* is a folder that changes.
RoutedToBinding ==
  \A r \in Calls : (calls[r].op = "im" /\ calls[r].at = "store_in") =>
    LET e == calls[r].arg[1]
        During == {BoundAt(e, n) : n \in calls[r].from..Len(bindLog)}
    IN \E b \in During : calls[r].folder \in FoldersOf(IF b = Unbound THEN Im(e) ELSE b)

\* A message is run where its endpoint is bound, and its reply is stored and sent exactly
\* if its sender may believe so.
DispatchSound == RepliesInOrder /\ AnsweredMeansReplied /\ RoutedToBinding

\* "home workspaces and `web:main` remain non-renamable": the name of a home is the one it
\* was given. Sending a message to it registers it again under the name of its folder.
HomeNotRenamed == \A j \in DOMAIN groups : groups[j].home => groups[j].name = Given

\* "workspace already exists": a folder is refused only when a workspace has it. A message
\* to a group id that is no workspace registers a group with that folder.
ConflictIsReal ==
  \A r \in Calls : (calls[r].op = "create" /\ calls[r].answer = "409") =>
    Having(calls[r].folder) # {}
=============================================================================
