--------------------------- MODULE MCControlPlane ---------------------------
(***************************************************************************)
(* The control plane: a behaviour has the calls of one topic, whichever it *)
(* is; tasks and accounts share no state with the rest.                    *)
(***************************************************************************)
EXTENDS MessageDispatch, TaskScheduler, Accounts

VARIABLE topic

mcVars == <<topic, wsVars, mdVars, tsVars, acVars>>

MCSchedules == {<<"interval", 2, 1>>, <<"cron", 0, Never>>, <<"once", 0, 1>>}

\* A topic has so many calls.
Budget == IF topic = "bindings" THEN 3 ELSE 2
Made == {r \in Calls : calls[r].at # "new"}

PlainIds == {Plain(f) : f \in Folders}

\* Group ids that messages have: jids too.
Posted == {Plain("main"), Plain("ws"), Web("ws"), Im("chat")}

Starts(r) ==
  \/ topic = "workspaces" /\ GroupCall(r) /\ calls'[r].folder \in PlainIds /\ UNCHANGED mdVars
  \/ /\ topic = "members" /\ UNCHANGED mdVars
     /\ MemberCall(r) \/ \E u \in Users : CreateGroup(r, u, Plain("ws"))
     /\ LET rec == calls'[r] IN
        /\ rec.folder = Plain("ws")
        /\ rec.op = "add" => rec.arg[2] # "member"
        /\ rec.op = "remove" => rec.arg[1] \in Users
  \/ topic = "bindings" /\ BindingCall(r) /\ calls'[r].folder \in PlainIds /\ UNCHANGED mdVars
  \/ /\ topic = "messages" /\ MessageCall(r)
     /\ LET rec == calls'[r] IN
        rec.op = "send" =>
          \/ rec.folder = Plain("ws") /\ (rec.arg[1] = "main" \/ rec.arg[2] # Blank)
          \/ rec.folder \in Posted /\ rec.arg = <<"main", "text">>
  \/ /\ topic = "messages" /\ UNCHANGED mdVars
     /\ \/ \E u \in Owners, f \in {"main", "ws"}, e \in Endpoints : BindGroupImEndpoint(r, u, Plain(f), e)
        \/ \E u \in Admins : CreateGroup(r, u, Plain("ws"))

MCInit ==
  /\ topic \in {"workspaces", "members", "bindings", "messages", "tasks", "accounts"}
  /\ WorkspacesInit /\ DispatchInit /\ SchedulerInit /\ AccountsInit
  /\ topic \in {"tasks", "accounts"} => groups = << >>
  /\ topic # "accounts" => policies = <<[allow |-> TRUE, invite |-> FALSE]>>

MCNext ==
  /\ UNCHANGED topic
  /\ \/ /\ \E r \in Calls :
             \/ Cardinality(Made) < Budget /\ Starts(r)
             \/ WorkspaceStep(r) /\ UNCHANGED mdVars
             \/ DispatchStep(r)
        /\ UNCHANGED <<tsVars, acVars>>
     \/ topic = "tasks" /\ SchedulerNext /\ UNCHANGED <<wsVars, mdVars, acVars>>
     \/ topic = "accounts" /\ AccountsNext /\ UNCHANGED <<wsVars, mdVars, tsVars>>

Symmetry == Permutations(Calls) \cup Permutations(Tasks)

MCSpec == MCInit /\ [][MCNext]_mcVars
=============================================================================
