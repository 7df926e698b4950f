------------------------- MODULE WorkspaceLifecycle -------------------------
(***************************************************************************)
(* The workspace/session lifecycle of services/workspace_lifecycle.py: one *)
(* WorkspaceSessionState per workspace key, and the three operations the   *)
(* execution coordinator applies to it. The operators are functions of a   *)
(* state record; the module that owns the store holds it in a variable.    *)
(*                                                                         *)
(* A workspace key is a <<group, slot>> pair. A session id is either the   *)
(* key itself ("base") or a freshly minted one. A minted id is a random    *)
(* hexadecimal suffix in the code; here it is named after the run that     *)
(* asked for it and the purpose it was asked for, which makes any two      *)
(* distinct requests yield distinct ids, as uuid4 does.                    *)
(***************************************************************************)

CONSTANT None      \* the Python None: no session, no backend, no value

\* The session id that is the workspace key itself (the bare string key).
BaseSession(key) == [key |-> key, by |-> None, use |-> "base"]

\* _default_new_session_id: a session id nobody has seen before.
NewSession(key, run, use) == [key |-> key, by |-> run, use |-> use]

\* WorkspaceSessionState(workspace_key): what setdefault creates on first use.
FreshState == [session |-> None, backend |-> None, everCommitted |-> FALSE]

(***************************************************************************)
(* preview_session_id: the committed session when it may be resumed, the   *)
(* bare key while nothing was ever committed, a minted id otherwise.       *)
(***************************************************************************)
PreviewSessionId(state, key, backend, fresh, minted) ==
  IF ~fresh /\ state.session # None /\ state.backend = backend
    THEN state.session
    ELSE IF state.session = None /\ ~state.everCommitted
           THEN BaseSession(key)
           ELSE minted

\* Seeded fault: a workspace that has a session keeps it.
CommitKeepsFirst(state, backend, session) ==
  [session |-> IF state.session = None THEN session ELSE state.session,
   backend |-> backend, everCommitted |-> TRUE]

\* commit_success: the session of a trusted success becomes the current one.
CommitSuccess(state, backend, session) ==
  [session |-> session, backend |-> backend, everCommitted |-> TRUE]

\* Seeded fault: the state is left as it was.
InvalidateNothing(state) == state

\* invalidate: forget the current session, and never hand out the bare key again.
Invalidate(state) ==
  [session |-> None, backend |-> None, everCommitted |-> TRUE]
=============================================================================
