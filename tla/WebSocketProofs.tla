--------------------------- MODULE WebSocketProofs ---------------------------
(***************************************************************************)
(* Proofs about WebSocketSession, for every set of connections, number of  *)
(* runs and choice of submitters, for every order of the endpoints, the    *)
(* waiters and the streams: the unfinished runs of a room belong to        *)
(* connections that are there, one each (RunsHaveConnection), and the      *)
(* peers are told of the end of a run, and once (ToldOnce).                *)
(***************************************************************************)
EXTENDS WebSocketSession, SequenceTheorems, FiniteSetTheorems, TLAPS

Phases == {"new", "queued", "running", "completed", "failed", "cancelled"}
Waiters == [run : Runs \cup {None}, at : {"none", "waiting", "sending", "reporting", "cancelled"},
            ev : {None, "failed", "cancelled"}, left : SUBSET Conns]
Casts == [ev : {None, "started", "token", "failed", "completed"}, left : SUBSET Conns]

\* What the variables hold.
QueueTypes ==
  /\ phase \in [Runs -> Phases]
  /\ line \in [{Room} -> SUBSET Runs] /\ ahead \in [Runs -> SUBSET Runs]
  /\ busy \in [{Room} -> Runs \cup {None}]

ConnTypes ==
  /\ sock \in [Conns -> {"new", "open", "dead"}] /\ room \subseteq Conns
  /\ pc \in [Conns -> {"new", "receive", "cancelling", "closing", "ended"}]
  /\ cancelRun \in [Conns -> Runs \cup {None}]
  /\ activeRun \in [Conns -> Runs \cup {None}]
  /\ waiter \in [Conns -> Waiters]
  /\ seen \in [Conns -> BOOLEAN]

EventTypes ==
  /\ owner \in [Runs -> Conns \cup {None}]
  /\ stream \in [Runs -> {"none", "open", "last", "stopped"}]
  /\ cast \in [Runs -> Casts]
  /\ reply \in [Runs -> {None, "failed", "completed", "raised"}]
  /\ inbox \in [Conns -> [Runs -> Seq(Terminal)]]
  /\ hurt \subseteq Runs

Types == QueueTypes /\ ConnTypes /\ EventTypes

-----------------------------------------------------------------------------
(***************************************************************************)
(* Runs, connections and streams.                                          *)
(***************************************************************************)
Unfinished(r) == phase[r] \in {"queued", "running"}

\* The waiter of c waits for the result of r.
WaitsFor(c, r) == waiter[c].run = r /\ waiter[c].at = "waiting"

\* A connection's endpoint, its waiter and its fields: the active run is the waiter's; a
\* waiter that waits has an endpoint that receives, one that was cancelled has a run
\* that the coordinator has ended.
Endpoint(c) ==
  /\ activeRun[c] = waiter[c].run
  /\ waiter[c].run = None <=> waiter[c].at = "none"
  /\ sock[c] = "new" <=> pc[c] = "new"
  /\ sock[c] = "open" => pc[c] \in {"receive", "cancelling"}
  /\ c \in room <=> pc[c] \in {"receive", "cancelling", "closing"}
  /\ pc[c] = "cancelling" <=> cancelRun[c] # None
  /\ pc[c] # "receive" => waiter[c].at \in {"none", "cancelled"}
  /\ pc[c] \in {"new", "ended"} => waiter[c].at = "none"

\* What a waiter does: it reports failures only, a second time only when hurt.
WaiterSound(c) ==
  \A r \in Runs : waiter[c].run = r =>
    /\ owner[r] = c
    /\ waiter[c].at = "waiting" => phase[r] # "cancelled"
    /\ waiter[c].at \in {"sending", "reporting"} => waiter[c].ev = "failed"
    /\ waiter[c].at = "sending" => phase[r] = "failed"
    /\ waiter[c].at = "reporting" => r \in hurt

\* An unfinished run is the active run of a connection whose waiter waits.
Served(r) ==
  /\ owner[r] = None <=> phase[r] = "new"
  /\ r \in line[Room] => phase[r] = "queued"
  /\ Unfinished(r) => \E c \in Conns : WaitsFor(c, r)

\* The stream of a run goes with its phase. A cancelled run whose stream still goes has
\* an endpoint that waits for it, or that has left.
StreamSound(r) ==
  /\ phase[r] \in {"new", "queued"} => stream[r] = "none"
  /\ phase[r] = "running" => stream[r] # "none"
  /\ phase[r] \in {"completed", "failed"} => stream[r] = "stopped"
  /\ stream[r] \in {"none", "stopped"} => cast[r] = Idle
  /\ stream[r] = "none" => reply[r] = None
  /\ stream[r] = "open" => /\ reply[r] \in {None, "failed"} /\ cast[r].ev # "completed"
                           /\ cast[r].ev = "failed" => reply[r] = "failed"
  /\ stream[r] = "last" => reply[r] = "completed"
  /\ phase[r] = "running" /\ stream[r] = "stopped" => reply[r] = "raised"
  /\ \A c \in Conns : owner[r] = c /\ phase[r] = "cancelled" /\ stream[r] \in {"open", "last"} =>
       cancelRun[c] = r \/ pc[c] \in {"closing", "ended"}

\* The run whose cancel command is being answered is the connection's own.
CancelSound(c) ==
  \A r \in Runs : cancelRun[c] = r => owner[r] = c /\ phase[r] \in Terminal

RoomInv ==
  /\ \A c \in Conns : Endpoint(c) /\ WaiterSound(c) /\ CancelSound(c)
  /\ \A r \in Runs : Served(r) /\ StreamSound(r)

-----------------------------------------------------------------------------
(***************************************************************************)
(* What the peers are told.                                                *)
(***************************************************************************)
\* Peer d has event ev about run r.
Occurs(ev, seq) == \E i \in DOMAIN seq : seq[i] = ev
Has(d, r, ev) == Occurs(ev, inbox[d][r])

\* No event is twice in the inbox.
NoDup(d, r) == \A i, j \in DOMAIN inbox[d][r] : inbox[d][r][i] = inbox[d][r][j] => i = j

\* The inbox has no event twice, and none that is still to be sent.
Once(d, r) ==
  /\ NoDup(d, r)
  /\ phase[r] = "new" => inbox[d][r] = <<>>
  /\ cast[r].ev \in Terminal /\ d \in cast[r].left => ~Has(d, r, cast[r].ev)
  /\ stream[r] \in {"none", "open"} => ~Has(d, r, "completed")
  /\ stream[r] \in {"none", "open"} /\ reply[r] = None => ~Has(d, r, "failed")
  /\ \A c \in Conns :
       /\ WaitsFor(c, r) /\ ~seen[c] => ~Has(d, r, "failed")
       /\ waiter[c].run = r /\ waiter[c].at = "sending" /\ d \in waiter[c].left =>
            ~Has(d, r, "failed")
       /\ waiter[c].run = r \/ cancelRun[c] = r => ~Has(d, r, "cancelled")

\* What the connection has noted of its run: a terminal event that is being sent or was
\* the last is noted, and what is noted is in the submitter's inbox or on its way there.
Noted(c, r) ==
  WaitsFor(c, r) =>
    /\ cast[r].ev \in Terminal \/ stream[r] = "last" \/ phase[r] = "completed" => seen[c]
    /\ seen[c] /\ sock[c] = "open" =>
         \/ inbox[c][r] # <<>>
         \/ cast[r].ev \in Terminal /\ c \in cast[r].left

\* Until the submitter has been told, somebody is there to tell it.
Told(c, r) ==
  owner[r] = c =>
    /\ sock[c] # "new"
    /\ sock[c] = "open" =>
         \/ inbox[c][r] # <<>>
         \/ WaitsFor(c, r)
         \/ waiter[c].run = r /\ waiter[c].at = "sending" /\ c \in waiter[c].left
         \/ cancelRun[c] = r

ToldAbout(r) == \A c \in Conns : Once(c, r) /\ Noted(c, r) /\ Told(c, r)

ToldInv ==
  \A r \in Runs : r \notin hurt => ToldAbout(r)

-----------------------------------------------------------------------------
(***************************************************************************)
(* Steps of the coordinator, seen from here.                               *)
(***************************************************************************)
\* Nothing but the phase and the place of run r changes.
OnlyRun(r) ==
  /\ QueueTypes'
  /\ \A s \in Runs : s # r => /\ phase'[s] = phase[s]
                              /\ s \in line'[Room] <=> s \in line[Room]

\* A run that is submitted was new, and only it changes its phase.
LEMMA EnterOK ==
  ASSUME QueueTypes, NEW r \in Runs, Q!Enter(r, Room)
  PROVE  OnlyRun(r) /\ phase[r] = "new" /\ phase'[r] = "queued"
BY DEF QueueTypes, OnlyRun, Q!Enter, Phases

\* A run that leaves the line is in it no more, and the queue keeps its types.
LEMMA LeaveOK ==
  ASSUME QueueTypes, NEW r \in Runs, Q!Leave(r)
  PROVE  /\ line' \in [{Room} -> SUBSET Runs] /\ ahead' \in [Runs -> SUBSET Runs]
         /\ r \notin line'[Room]
         /\ \A s \in Runs : s # r => (s \in line'[Room] <=> s \in line[Room])
BY DEF QueueTypes, Q!Leave

\* The run that starts is taken from the line.
LEMMA StartOK ==
  ASSUME QueueTypes, NEW r \in Runs, Q!Start(r, Room)
  PROVE  OnlyRun(r) /\ r \in line[Room] /\ r \notin line'[Room] /\ phase'[r] = "running"
BY LeaveOK DEF QueueTypes, OnlyRun, Q!Start, Q!Turn, Phases

\* A run that is withdrawn was queued and is cancelled.
LEMMA WithdrawOK ==
  ASSUME QueueTypes, NEW r \in Runs, Q!Withdraw(r)
  PROVE  OnlyRun(r) /\ phase[r] = "queued" /\ r \notin line'[Room] /\ phase'[r] = "cancelled"
BY LeaveOK DEF QueueTypes, OnlyRun, Q!Withdraw, Phases

\* A run that is cancelled was running, and the line stays.
LEMMA CancelOK ==
  ASSUME QueueTypes, NEW r \in Runs, Q!Cancel(r)
  PROVE  /\ OnlyRun(r) /\ phase[r] = "running" /\ phase'[r] = "cancelled"
         /\ line' = line
BY DEF QueueTypes, OnlyRun, Q!Cancel, Phases

\* The run the group is busy with ends with the status it is given.
LEMMA FinishOK ==
  ASSUME QueueTypes, NEW r \in Runs, busy[Room] = r,
         NEW status \in {"completed", "failed"}, Q!Finish(Room, status)
  PROVE  OnlyRun(r) /\ phase[r] = "running" /\ phase'[r] = status /\ line' = line
<1>1. /\ phase' = [phase EXCEPT ![r] = status] /\ phase[r] = "running"
      /\ busy' = [busy EXCEPT ![Room] = None] /\ UNCHANGED <<line, ahead>>
  BY DEF Q!Finish
<1> QED BY <1>1 DEF QueueTypes, OnlyRun, Phases

\* A group becomes free of a run that was cancelled.
LEMMA ReleaseOK ==
  ASSUME QueueTypes, NEW r \in Runs, busy[Room] = r, Q!Release(Room)
  PROVE  OnlyRun(r) /\ phase[r] = "cancelled" /\ phase'[r] = "cancelled" /\ line' = line
BY DEF QueueTypes, OnlyRun, Q!Release, Phases

\* coordinator.cancel ends an unfinished run, and changes nothing about any other.
LEMMA CoordinatorCancelOK ==
  ASSUME QueueTypes, NEW r \in Runs, CoordinatorCancel(r),
         phase[r] \in Terminal \cup {"queued", "running"}, r \in line[Room] => phase[r] = "queued"
  PROVE  /\ OnlyRun(r) /\ phase'[r] \in Terminal
         /\ phase'[r] = IF Unfinished(r) THEN "cancelled" ELSE phase[r]
         /\ r \in line'[Room] => phase'[r] = "queued"
<1>0. r # None
  BY WebSocketAssumption
<1>1. CASE Q!Withdraw(r)
  BY <1>1, WithdrawOK DEF Terminal, Unfinished
<1>2. CASE Q!Cancel(r)
  BY <1>2, CancelOK DEF Terminal, Unfinished
<1>3. CASE phase[r] \in Terminal /\ UNCHANGED queue
  BY <1>3 DEF queue, QueueTypes, OnlyRun, Terminal, Unfinished
<1> QED BY <1>0, <1>1, <1>2, <1>3 DEF CoordinatorCancel

\* A connection without a run cancels nothing.
LEMMA CoordinatorCancelNone ==
  CoordinatorCancel(None) => UNCHANGED queue
BY DEF CoordinatorCancel

-----------------------------------------------------------------------------
(***************************************************************************)
(* Steps of a waiter.                                                      *)
(***************************************************************************)
\* Nothing but the waiter and the active run of connection c changes, and they together.
OnlyWaiter(c) ==
  /\ waiter' \in [Conns -> Waiters] /\ activeRun' \in [Conns -> Runs \cup {None}]
  /\ \A d \in Conns : d # c => waiter'[d] = waiter[d] /\ activeRun'[d] = activeRun[d]
  /\ activeRun'[c] = waiter'[c].run

\* No waiter is the record of a connection whose waiter has ended.
LEMMA NoWaiterOK == NoWaiter \in Waiters
BY DEF NoWaiter, Waiters

\* A waiter that goes leaves the other connections' waiters alone.
LEMMA WaiterGoneOK ==
  ASSUME ConnTypes, NEW c \in Conns, activeRun[c] = waiter[c].run, WaiterGone(c)
  PROVE  OnlyWaiter(c) /\ waiter'[c].run = None /\ waiter'[c].at = "none"
BY NoWaiterOK DEF ConnTypes, OnlyWaiter, WaiterGone, NoWaiter

\* A waiter that starts to send an event stays the waiter of its run.
LEMMA WaiterCastsOK ==
  ASSUME ConnTypes, NEW c \in Conns, activeRun[c] = waiter[c].run,
         NEW at \in {"sending", "reporting"}, NEW ev \in {"failed", "cancelled"},
         NEW left \in SUBSET Conns, WaiterCasts(c, at, ev, left)
  PROVE  /\ OnlyWaiter(c) /\ waiter'[c].run = waiter[c].run
         /\ waiter'[c].at = at /\ waiter'[c].ev = ev /\ waiter'[c].left = left
<1>1. waiter[c] \in Waiters
  BY DEF ConnTypes
<1>2. /\ [waiter[c] EXCEPT !.at = at, !.ev = ev, !.left = left] \in Waiters
      /\ [waiter[c] EXCEPT !.at = at, !.ev = ev, !.left = left].run = waiter[c].run
      /\ [waiter[c] EXCEPT !.at = at, !.ev = ev, !.left = left].at = at
      /\ [waiter[c] EXCEPT !.at = at, !.ev = ev, !.left = left].ev = ev
      /\ [waiter[c] EXCEPT !.at = at, !.ev = ev, !.left = left].left = left
  BY <1>1 DEF Waiters
<1>3. /\ waiter' \in [Conns -> Waiters]
      /\ waiter'[c] = [waiter[c] EXCEPT !.at = at, !.ev = ev, !.left = left]
      /\ \A d \in Conns : d # c => waiter'[d] = waiter[d]
  BY <1>2 DEF WaiterCasts, ConnTypes
<1> QED BY <1>2, <1>3 DEF OnlyWaiter, WaiterCasts, ConnTypes

\* The clean-up of an endpoint cancels its waiter, which stays that of its run.
LEMMA CleanupTaskOK ==
  ASSUME ConnTypes, NEW c \in Conns, activeRun[c] = waiter[c].run,
         CleanupTask(c), UNCHANGED activeRun
  PROVE  /\ OnlyWaiter(c) /\ waiter'[c].run = waiter[c].run
         /\ waiter'[c].at = IF waiter[c].at = "none" THEN "none" ELSE "cancelled"
<1>1. waiter[c] \in Waiters
  BY DEF ConnTypes
<1>2. /\ [waiter[c] EXCEPT !.at = "cancelled"] \in Waiters
      /\ [waiter[c] EXCEPT !.at = "cancelled"].run = waiter[c].run
      /\ [waiter[c] EXCEPT !.at = "cancelled"].at = "cancelled"
  BY <1>1 DEF Waiters
<1>3. /\ waiter' \in [Conns -> Waiters]
      /\ waiter'[c] = IF Waits(c) THEN [waiter[c] EXCEPT !.at = "cancelled"] ELSE waiter[c]
      /\ \A d \in Conns : d # c => waiter'[d] = waiter[d]
  BY <1>1, <1>2 DEF CleanupTask, ConnTypes
<1> QED BY <1>2, <1>3 DEF OnlyWaiter, Waits, ConnTypes

-----------------------------------------------------------------------------
(***************************************************************************)
(* Inboxes.                                                                *)
(***************************************************************************)
LEMMA AppendNoDup ==
  ASSUME NEW S, NEW s \in Seq(S), NEW x \in S,
         \A i, j \in DOMAIN s : s[i] = s[j] => i = j, \A i \in DOMAIN s : s[i] # x
  PROVE  \A i, j \in DOMAIN Append(s, x) : Append(s, x)[i] = Append(s, x)[j] => i = j
<1> DEFINE t == Append(s, x)
<1>1. /\ Len(t) = Len(s) + 1 /\ t[Len(s) + 1] = x /\ Len(s) \in Nat
      /\ DOMAIN s = 1 .. Len(s) /\ DOMAIN t = 1 .. Len(s) + 1
      /\ \A i \in 1 .. Len(s) : t[i] = s[i]
  BY AppendProperties
<1> HIDE DEF t
<1> SUFFICES ASSUME NEW i \in DOMAIN t, NEW j \in DOMAIN t, t[i] = t[j] PROVE i = j
  BY DEF t
<1>2. i \in DOMAIN s \/ i = Len(s) + 1
  BY <1>1
<1>3. j \in DOMAIN s \/ j = Len(s) + 1
  BY <1>1
<1> QED BY <1>1, <1>2, <1>3

\* An event that is appended to an inbox occurs in it, and no other comes in.
LEMMA AppendHas ==
  ASSUME NEW S, NEW s \in Seq(S), NEW x \in S, NEW e
  PROVE  /\ Occurs(e, Append(s, x)) <=> Occurs(e, s) \/ e = x
         /\ Append(s, x) # <<>>
<1> DEFINE t == Append(s, x)
<1>1. /\ Len(t) = Len(s) + 1 /\ t[Len(s) + 1] = x /\ Len(s) \in Nat
      /\ DOMAIN s = 1 .. Len(s) /\ DOMAIN t = 1 .. Len(s) + 1
      /\ \A i \in 1 .. Len(s) : t[i] = s[i]
  BY AppendProperties
<1>2. t # <<>>
  BY AppendProperties
<1> HIDE DEF t
<1>3. ASSUME NEW i \in DOMAIN t, t[i] = e PROVE (\E k \in DOMAIN s : s[k] = e) \/ e = x
  <2>1. i \in DOMAIN s \/ i = Len(s) + 1
    BY <1>1
  <2> QED BY <1>1, <1>3, <2>1
<1>4. ASSUME NEW i \in DOMAIN s, s[i] = e PROVE \E k \in DOMAIN t : t[k] = e
  BY <1>1, <1>4
<1>5. ASSUME e = x PROVE \E k \in DOMAIN t : t[k] = e
  BY <1>1, <1>5
<1>6. Occurs(e, t) <=> Occurs(e, s) \/ e = x
  BY <1>3, <1>4, <1>5 DEF Occurs
<1> QED BY <1>2, <1>6 DEF t

\* What send_text does to the inboxes.
LEMMA SentOK ==
  ASSUME EventTypes, ConnTypes, NEW c \in Conns, NEW r \in Runs, NEW ev, Sent(c, r, ev)
  PROVE  /\ inbox' \in [Conns -> [Runs -> Seq(Terminal)]]
         /\ \A d \in Conns, s \in Runs : d # c \/ s # r => inbox'[d][s] = inbox[d][s]
         /\ inbox'[c][r] = IF sock[c] = "open" /\ ev \in Terminal
                           THEN Append(inbox[c][r], ev) ELSE inbox[c][r]
<1>1. inbox[c] \in [Runs -> Seq(Terminal)] /\ inbox[c][r] \in Seq(Terminal)
  BY DEF EventTypes
<1> DEFINE new == IF sock[c] = "open" /\ ev \in Terminal THEN Append(inbox[c][r], ev)
                  ELSE inbox[c][r]
<1>2. new \in Seq(Terminal)
  BY <1>1, AppendProperties
<1>3. inbox' = [inbox EXCEPT ![c] = [inbox[c] EXCEPT ![r] = new]]
  BY DEF Sent
<1> HIDE DEF new
<1>4. /\ inbox' \in [Conns -> [Runs -> Seq(Terminal)]] /\ inbox'[c][r] = new
      /\ \A d \in Conns : d # c => inbox'[d] = inbox[d]
      /\ \A s \in Runs : s # r => inbox'[c][s] = inbox[c][s]
  BY <1>1, <1>2, <1>3 DEF EventTypes
<1> QED BY <1>4 DEF new

\* Sending adds one event of one run to one inbox.
LEMMA SentInbox ==
  ASSUME EventTypes, ConnTypes, NEW c \in Conns, NEW r \in Runs, NEW ev, Sent(c, r, ev)
  PROVE  /\ \A d \in Conns, s \in Runs : d # c \/ s # r => inbox'[d][s] = inbox[d][s]
         /\ \A e : Has(c, r, e)' <=> Has(c, r, e) \/ (sock[c] = "open" /\ ev \in Terminal /\ e = ev)
         /\ inbox[c][r] # <<>> \/ (sock[c] = "open" /\ ev \in Terminal) => inbox'[c][r] # <<>>
         /\ NoDup(c, r) /\ ~Has(c, r, ev) => NoDup(c, r)'
<1>1. inbox[c][r] \in Seq(Terminal)
  BY DEF EventTypes
<1>2. CASE sock[c] = "open" /\ ev \in Terminal
  <2>1. inbox'[c][r] = Append(inbox[c][r], ev)
    BY <1>2, SentOK
  <2>2. ASSUME NEW e PROVE Has(c, r, e)' <=> Has(c, r, e) \/ e = ev
    BY <1>1, <1>2, <2>1, AppendHas DEF Has
  <2>3. NoDup(c, r) /\ ~Has(c, r, ev) => NoDup(c, r)'
    BY <1>1, <1>2, <2>1, AppendNoDup DEF Has, Occurs, NoDup
  <2>4. inbox'[c][r] # <<>>
    BY <1>1, <1>2, <2>1, AppendHas
  <2> QED BY <1>2, <2>2, <2>3, <2>4, SentOK
<1>3. CASE ~(sock[c] = "open" /\ ev \in Terminal)
  <2>1. inbox'[c][r] = inbox[c][r]
    BY <1>3, SentOK
  <2> QED BY <1>3, <2>1, SentOK DEF Has, NoDup
<1> QED BY <1>2, <1>3

-----------------------------------------------------------------------------
(***************************************************************************)
(* Runs and connections: the steps of a run.                               *)
(***************************************************************************)
LEMMA InitRoom == Init => Types /\ RoomInv
<1> SUFFICES ASSUME Init PROVE Types /\ RoomInv
  OBVIOUS
<1>1. Types
  <2>1. QueueTypes
    BY DEF Init, Q!Init, QueueTypes, Phases
  <2>2. ConnTypes
    BY NoWaiterOK DEF Init, ConnTypes
  <2>3. EventTypes
    BY DEF Init, EventTypes, Idle, Casts
  <2> QED BY <2>1, <2>2, <2>3 DEF Types
<1>2. ASSUME NEW c \in Conns PROVE Endpoint(c) /\ WaiterSound(c) /\ CancelSound(c)
  BY WebSocketAssumption DEF Init, NoWaiter, Endpoint, WaiterSound, CancelSound
<1>3. ASSUME NEW r \in Runs PROVE Served(r) /\ StreamSound(r)
  BY WebSocketAssumption DEF Init, Q!Init, Idle, Served, StreamSound, Unfinished
<1> QED BY <1>1, <1>2, <1>3 DEF RoomInv

\* The waiter that waits for a run is the one of its owner, and no other waiter has it.
LEMMA OneWaiter ==
  ASSUME RoomInv, NEW r \in Runs, NEW c \in Conns, NEW d \in Conns,
         waiter[c].run = r, waiter[d].run = r
  PROVE  c = d
BY DEF RoomInv, WaiterSound

\* A run whose stream goes on has an owner.
LEMMA StreamOwner ==
  ASSUME Types, RoomInv, NEW r \in Runs, stream[r] # "none"
  PROVE  owner[r] \in Conns /\ phase[r] \notin {"new", "queued"}
BY DEF Types, EventTypes, RoomInv, StreamSound, Served

\* A step of the stream of one run changes what is known of that stream only.
LEMMA StreamStep ==
  ASSUME RoomInv, NEW r \in Runs,
         UNCHANGED <<queue, conn, activeRun, waiter, owner>>,
         \A s \in Runs : s \in hurt => s \in hurt',
         \A s \in Runs : s # r => stream'[s] = stream[s] /\ cast'[s] = cast[s] /\ reply'[s] = reply[s],
         StreamSound(r)'
  PROVE  RoomInv'
<1> USE DEF queue, conn
<1>1. ASSUME NEW c \in Conns PROVE (Endpoint(c) /\ WaiterSound(c) /\ CancelSound(c))'
  BY DEF RoomInv, Endpoint, WaiterSound, CancelSound
<1>2. ASSUME NEW s \in Runs PROVE Served(s)'
  BY DEF RoomInv, Served, Unfinished, WaitsFor
<1>3. ASSUME NEW s \in Runs PROVE StreamSound(s)'
  <2>1. CASE s = r
    BY <2>1
  <2>2. CASE s # r
    BY <2>2 DEF RoomInv, StreamSound
  <2> QED BY <2>1, <2>2
<1> QED BY <1>1, <1>2, <1>3 DEF RoomInv

\* Handling an event marks it as seen at most on the connection that owns the run.
LEMMA HandleEventOK ==
  ASSUME Types, NEW r \in Runs, NEW ev \in {"started", "token", "failed", "completed"},
         owner[r] \in Conns, HandleEvent(r, ev)
  PROVE  /\ seen' \in [Conns -> BOOLEAN] /\ cast' \in [Runs -> Casts]
         /\ reply' \in [Runs -> {None, "failed", "completed", "raised"}]
         /\ cast[r] = Idle /\ cast'[r].ev = ev
         /\ cast'[r].left = IF ev = "started" THEN {owner[r]} ELSE room
         /\ reply'[r] = IF ev \in Terminal THEN ev ELSE reply[r]
         /\ seen'[owner[r]] = (seen[owner[r]] \/ ev \in Terminal)
         /\ \A c \in Conns : c # owner[r] => seen'[c] = seen[c]
         /\ \A s \in Runs : s # r => cast'[s] = cast[s] /\ reply'[s] = reply[s]
<1>1. /\ reply' \in [Runs -> {None, "failed", "completed", "raised"}]
      /\ reply'[r] = IF ev \in Terminal THEN ev ELSE reply[r]
      /\ \A s \in Runs : s # r => reply'[s] = reply[s]
  BY DEF HandleEvent, Types, EventTypes, Terminal
<1>2. /\ seen' \in [Conns -> BOOLEAN]
      /\ seen'[owner[r]] = (seen[owner[r]] \/ ev \in Terminal)
      /\ \A c \in Conns : c # owner[r] => seen'[c] = seen[c]
  BY Zenon DEF HandleEvent, NoteTerminal, Types, ConnTypes
<1>3. /\ cast' \in [Runs -> Casts] /\ cast'[r].ev = ev
      /\ cast'[r].left = IF ev = "started" THEN {owner[r]} ELSE room
      /\ \A s \in Runs : s # r => cast'[s] = cast[s]
  BY DEF HandleEvent, Types, EventTypes, ConnTypes, Casts
<1> QED BY <1>1, <1>2, <1>3 DEF HandleEvent

\* An event of the stream is handled before it is broadcast.
LEMMA StreamEventRoom ==
  ASSUME Types, RoomInv, NEW r \in Runs, NEW ev \in {"started", "token", "failed"},
         StreamEvent(r, ev)
  PROVE  Types' /\ RoomInv'
<1>1. stream[r] = "open" /\ owner[r] \in Conns /\ phase[r] \notin {"new", "queued"}
  BY StreamOwner DEF StreamEvent
<1>2. /\ seen' \in [Conns -> BOOLEAN] /\ cast' \in [Runs -> Casts]
      /\ reply' \in [Runs -> {None, "failed", "completed", "raised"}]
      /\ cast'[r].ev = ev /\ reply'[r] = IF ev \in Terminal THEN ev ELSE reply[r]
      /\ \A s \in Runs : s # r => cast'[s] = cast[s] /\ reply'[s] = reply[s]
  BY <1>1, HandleEventOK DEF StreamEvent
<1>3. UNCHANGED <<queue, conn, activeRun, waiter, stream, owner, inbox, hurt>>
  BY DEF StreamEvent
<1>4. Types'
  BY <1>2, <1>3 DEF Types, QueueTypes, ConnTypes, EventTypes, queue, conn
<1>5. StreamSound(r)'
  BY <1>1, <1>2, <1>3 DEF RoomInv, StreamSound, queue, conn, Terminal
<1> QED BY <1>2, <1>3, <1>4, <1>5, StreamStep

\* The end of a stream is its last event.
LEMMA StreamCompletesRoom ==
  ASSUME Types, RoomInv, NEW r \in Runs, StreamCompletes(r)
  PROVE  Types' /\ RoomInv'
<1>1. stream[r] = "open" /\ owner[r] \in Conns /\ phase[r] \notin {"new", "queued"}
  BY StreamOwner DEF StreamCompletes
<1>2. /\ seen' \in [Conns -> BOOLEAN] /\ cast' \in [Runs -> Casts]
      /\ reply' \in [Runs -> {None, "failed", "completed", "raised"}]
      /\ reply'[r] = "completed"
      /\ \A s \in Runs : s # r => cast'[s] = cast[s] /\ reply'[s] = reply[s]
  BY <1>1, HandleEventOK DEF StreamCompletes, Terminal
<1>3. /\ stream' \in [Runs -> {"none", "open", "last", "stopped"}] /\ stream'[r] = "last"
      /\ \A s \in Runs : s # r => stream'[s] = stream[s]
      /\ UNCHANGED <<queue, conn, activeRun, waiter, owner, inbox, hurt>>
  BY DEF StreamCompletes, Types, EventTypes
<1>4. Types'
  BY <1>2, <1>3 DEF Types, QueueTypes, ConnTypes, EventTypes, queue, conn
<1>5. StreamSound(r)'
  BY <1>1, <1>2, <1>3 DEF RoomInv, StreamSound, queue, conn
<1> QED BY <1>2, <1>3, <1>4, <1>5, StreamStep

\* One more peer has been sent to; the event is what it was until the last one.
LEMMA CastOK ==
  ASSUME Types, NEW r \in Runs, NEW c \in cast[r].left,
         cast' = [cast EXCEPT ![r] = IF @.left = {c} THEN Idle
                                    ELSE [ev |-> @.ev, left |-> @.left \ {c}]]
  PROVE  /\ cast' \in [Runs -> Casts] /\ \A s \in Runs : s # r => cast'[s] = cast[s]
         /\ cast'[r].left = cast[r].left \ {c}
         /\ cast'[r] = Idle \/ cast'[r].ev = cast[r].ev
<1>1. cast[r] \in Casts
  BY DEF Types, EventTypes
<1> DEFINE less == [ev |-> cast[r].ev, left |-> cast[r].left \ {c}]
<1>2. less \in Casts /\ less.ev = cast[r].ev /\ less.left = cast[r].left \ {c}
  BY <1>1 DEF Casts
<1>3. Idle \in Casts /\ Idle.left = {}
  BY DEF Idle, Casts
<1> DEFINE next == IF cast[r].left = {c} THEN Idle ELSE less
<1>4. /\ next \in Casts /\ next.left = cast[r].left \ {c}
      /\ next = Idle \/ next.ev = cast[r].ev
  <2> HIDE DEF less
  <2>1. CASE cast[r].left = {c}
    <3>1. next = Idle /\ cast[r].left \ {c} = {}
      BY <2>1
    <3> QED BY <1>3, <3>1
  <2>2. CASE cast[r].left # {c}
    <3>1. next = less
      BY <2>2
    <3> QED BY <1>2, <3>1
  <2> QED BY <2>1, <2>2
<1>5. cast' = [cast EXCEPT ![r] = next]
  OBVIOUS
<1> HIDE DEF next
<1>6. /\ cast' \in [Runs -> Casts] /\ cast'[r] = next
      /\ \A s \in Runs : s # r => cast'[s] = cast[s]
  BY <1>4, <1>5 DEF Types, EventTypes
<1> QED BY <1>4, <1>6

\* A stream that broadcasts nothing has nobody left to send to.
LEMMA IdleEvent == Idle \in Casts /\ Idle.ev = None /\ Idle.left = {}
BY DEF Idle, Casts

\* A cast that has somebody left to send to belongs to a stream that goes on.
LEMMA CastGoes ==
  ASSUME Types, RoomInv, NEW r \in Runs, cast[r] # Idle
  PROVE  stream[r] \in {"open", "last"} /\ owner[r] \in Conns /\ phase[r] \in {"running", "cancelled"}
<1>1. stream[r] \in {"open", "last"}
  BY DEF RoomInv, StreamSound, Types, EventTypes
<1>2. owner[r] \in Conns /\ phase[r] \notin {"new", "queued"}
  BY <1>1, StreamOwner
<1>3. phase[r] \notin {"completed", "failed"}
  BY <1>1 DEF RoomInv, StreamSound
<1> QED BY <1>1, <1>2, <1>3 DEF Types, QueueTypes, Phases

\* A send of the stream's broadcast moves on to the other connections.
LEMMA StreamSendsRoom ==
  ASSUME Types, RoomInv, NEW r \in Runs, NEW c \in Conns, StreamSends(r, c)
  PROVE  Types' /\ RoomInv'
<1>1. /\ cast' \in [Runs -> Casts] /\ \A s \in Runs : s # r => cast'[s] = cast[s]
      /\ cast'[r] = Idle \/ cast'[r].ev = cast[r].ev
  BY CastOK DEF StreamSends
<1>2. cast[r] # Idle
  BY IdleEvent DEF StreamSends
<1>3. inbox' \in [Conns -> [Runs -> Seq(Terminal)]]
  BY SentOK DEF StreamSends, Types
<1>4. UNCHANGED <<queue, conn, activeRun, waiter, seen, owner, stream, reply, hurt>>
  BY DEF StreamSends
<1>5. Types'
  BY <1>1, <1>3, <1>4 DEF Types, QueueTypes, ConnTypes, EventTypes, queue, conn
<1>6. StreamSound(r)'
  BY <1>1, <1>2, <1>4, IdleEvent, WebSocketAssumption DEF RoomInv, StreamSound, queue, conn
<1> QED BY <1>1, <1>4, <1>5, <1>6, StreamStep

\* A broadcast that has nobody left to send to ends.
LEMMA StreamSendsNobodyRoom ==
  ASSUME Types, RoomInv, NEW r \in Runs, StreamSendsNobody(r)
  PROVE  Types' /\ RoomInv'
<1>1. /\ cast' \in [Runs -> Casts] /\ cast'[r] = Idle
      /\ \A s \in Runs : s # r => cast'[s] = cast[s]
  BY IdleEvent DEF StreamSendsNobody, Types, EventTypes
<1>2. UNCHANGED <<queue, conn, activeRun, waiter, seen, owner, stream, reply, inbox, hurt>>
  BY DEF StreamSendsNobody
<1>3. Types'
  BY <1>1, <1>2 DEF Types, QueueTypes, ConnTypes, EventTypes, queue, conn
<1>4. StreamSound(r)'
  BY <1>1, <1>2, IdleEvent, WebSocketAssumption DEF RoomInv, StreamSound, queue, conn
<1> QED BY <1>1, <1>2, <1>3, <1>4, StreamStep

\* The stream of a run has stopped: by an exception, or with its consumer.
LEMMA StreamStopsRoom ==
  ASSUME Types, RoomInv, NEW r \in Runs, stream[r] \in {"open", "last"},
         stream' = [stream EXCEPT ![r] = "stopped"],
         cast' \in [Runs -> Casts], cast'[r] = Idle, \A s \in Runs : s # r => cast'[s] = cast[s],
         reply' \in [Runs -> {None, "failed", "completed", "raised"}],
         reply'[r] = "raised" \/ phase[r] = "cancelled",
         \A s \in Runs : s # r => reply'[s] = reply[s],
         hurt' \in SUBSET Runs, \A s \in Runs : s \in hurt => s \in hurt',
         UNCHANGED <<queue, conn, activeRun, waiter, seen, owner, inbox>>
  PROVE  Types' /\ RoomInv'
<1>1. /\ stream' \in [Runs -> {"none", "open", "last", "stopped"}] /\ stream'[r] = "stopped"
      /\ \A s \in Runs : s # r => stream'[s] = stream[s]
  BY DEF Types, EventTypes
<1>2. Types'
  BY <1>1 DEF Types, QueueTypes, ConnTypes, EventTypes, queue, conn
<1>3. phase[r] \notin {"new", "queued"}
  BY StreamOwner
<1>4. StreamSound(r)'
  BY <1>1, <1>3 DEF RoomInv, StreamSound, queue, conn
<1> QED BY <1>1, <1>2, <1>4, StreamStep

\* A dead socket ends the stream and its run has an event that was not sent.
LEMMA StreamSendRaisesRoom ==
  ASSUME Types, RoomInv, NEW r \in Runs, NEW c \in Conns, StreamSendRaises(r, c)
  PROVE  Types' /\ RoomInv'
<1>1. cast[r] # Idle
  BY IdleEvent DEF StreamSendRaises
<1>2. stream[r] \in {"open", "last"}
  BY <1>1, CastGoes
<1>3. /\ cast' \in [Runs -> Casts] /\ cast'[r] = Idle
      /\ \A s \in Runs : s # r => cast'[s] = cast[s]
  BY IdleEvent DEF StreamSendRaises, Types, EventTypes
<1>4. /\ reply' \in [Runs -> {None, "failed", "completed", "raised"}] /\ reply'[r] = "raised"
      /\ \A s \in Runs : s # r => reply'[s] = reply[s]
  BY DEF StreamSendRaises, Types, EventTypes
<1>5. hurt' \in SUBSET Runs /\ \A s \in Runs : s \in hurt => s \in hurt'
  BY DEF StreamSendRaises, Types, EventTypes
<1> QED BY <1>2, <1>3, <1>4, <1>5, StreamStopsRoom DEF StreamSendRaises

\* A stream that raises stops, and the backend's call raises with it.
LEMMA StreamRaisesRoom ==
  ASSUME Types, RoomInv, NEW r \in Runs, StreamRaises(r)
  PROVE  Types' /\ RoomInv'
<1>1. /\ reply' \in [Runs -> {None, "failed", "completed", "raised"}] /\ reply'[r] = "raised"
      /\ \A s \in Runs : s # r => reply'[s] = reply[s]
  BY DEF StreamRaises, Types, EventTypes
<1>2. cast' \in [Runs -> Casts] /\ cast'[r] = Idle /\ hurt' \in SUBSET Runs
  BY DEF StreamRaises, Types, EventTypes
<1> QED BY <1>1, <1>2, StreamStopsRoom DEF StreamRaises

\* A cancelled stream stops in the middle of its broadcast.
LEMMA StreamCancelledRoom ==
  ASSUME Types, RoomInv, NEW r \in Runs, StreamCancelled(r)
  PROVE  Types' /\ RoomInv'
<1>1. /\ cast' \in [Runs -> Casts] /\ cast'[r] = Idle
      /\ \A s \in Runs : s # r => cast'[s] = cast[s]
  BY IdleEvent DEF StreamCancelled, Types, EventTypes
<1>2. reply' \in [Runs -> {None, "failed", "completed", "raised"}] /\ hurt' \in SUBSET Runs
  BY DEF StreamCancelled, Types, EventTypes
<1> QED BY <1>1, <1>2, StreamStopsRoom DEF StreamCancelled

\* What a step of the coordinator means for connections that are not concerned.
LEMMA PhaseStep ==
  ASSUME Types, RoomInv, NEW r \in Runs, OnlyRun(r),
         UNCHANGED <<conn, activeRun, waiter, owner, hurt>>,
         phase'[r] = phase[r] \/ Unfinished(r), phase'[r] # "new", phase[r] # "new",
         r \in line'[Room] => phase'[r] = "queued",
         Unfinished(r)' => Unfinished(r),
         phase'[r] = "cancelled" => phase[r] = "cancelled",
         \A s \in Runs : s # r => stream'[s] = stream[s] /\ cast'[s] = cast[s] /\ reply'[s] = reply[s],
         StreamSound(r)'
  PROVE  RoomInv'
<1>1. ASSUME NEW c \in Conns PROVE Endpoint(c)'
  BY DEF RoomInv, Endpoint, conn
<1>2. ASSUME NEW c \in Conns PROVE WaiterSound(c)'
  <2> SUFFICES ASSUME NEW s \in Runs, waiter'[c].run = s
               PROVE  /\ owner'[s] = c
                      /\ waiter'[c].at = "waiting" => phase'[s] # "cancelled"
                      /\ waiter'[c].at \in {"sending", "reporting"} => waiter'[c].ev = "failed"
                      /\ waiter'[c].at = "sending" => phase'[s] = "failed"
                      /\ waiter'[c].at = "reporting" => s \in hurt'
    BY DEF WaiterSound
  <2>1. /\ owner[s] = c
        /\ waiter[c].at = "waiting" => phase[s] # "cancelled"
        /\ waiter[c].at \in {"sending", "reporting"} => waiter[c].ev = "failed"
        /\ waiter[c].at = "sending" => phase[s] = "failed"
        /\ waiter[c].at = "reporting" => s \in hurt
    BY DEF RoomInv, WaiterSound
  <2> QED BY <2>1 DEF OnlyRun, Unfinished
<1>3. ASSUME NEW c \in Conns PROVE CancelSound(c)'
  <2> SUFFICES ASSUME NEW s \in Runs, cancelRun'[c] = s
               PROVE  owner'[s] = c /\ phase'[s] \in Terminal
    BY DEF CancelSound
  <2>1. owner[s] = c /\ phase[s] \in Terminal
    BY DEF RoomInv, CancelSound, conn
  <2> QED BY <2>1 DEF OnlyRun, Unfinished, Terminal
<1>4. ASSUME NEW s \in Runs PROVE Served(s)'
  <2>1. Served(s)
    BY DEF RoomInv
  <2> QED BY <2>1 DEF OnlyRun, Served, Unfinished, WaitsFor
<1>5. ASSUME NEW s \in Runs PROVE StreamSound(s)'
  <2>1. CASE s # r
    BY <2>1 DEF RoomInv, StreamSound, OnlyRun, conn
  <2> QED BY <2>1
<1> QED BY <1>1, <1>2, <1>3, <1>4, <1>5 DEF RoomInv

\* A run that starts opens its stream.
LEMMA StartRunRoom ==
  ASSUME Types, RoomInv, NEW r \in Runs, StartRun(r)
  PROVE  Types' /\ RoomInv'
<1>1. OnlyRun(r) /\ r \in line[Room] /\ r \notin line'[Room] /\ phase'[r] = "running"
  BY StartOK DEF StartRun, Types
<1>2. phase[r] = "queued" /\ stream[r] = "none" /\ cast[r] = Idle /\ reply[r] = None
  BY <1>1 DEF RoomInv, Served, StreamSound
<1>3. /\ stream' \in [Runs -> {"none", "open", "last", "stopped"}] /\ stream'[r] = "open"
      /\ \A s \in Runs : s # r => stream'[s] = stream[s]
      /\ UNCHANGED <<conn, activeRun, waiter, seen, owner, cast, reply, inbox, hurt>>
  BY DEF StartRun, Types, EventTypes
<1>4. Types'
  BY <1>1, <1>3 DEF Types, OnlyRun, ConnTypes, EventTypes, conn
<1>5. StreamSound(r)'
  BY <1>1, <1>2, <1>3, IdleEvent, WebSocketAssumption DEF StreamSound
<1>6. Unfinished(r)
  BY <1>2 DEF Unfinished
<1> QED BY <1>1, <1>2, <1>3, <1>4, <1>5, <1>6, PhaseStep

\* A backend's call ends a running run with the status of its reply, and releases a
\* cancelled one.
LEMMA ExecuteEndsRoom ==
  ASSUME Types, RoomInv, NEW r \in Runs, ExecuteEnds(r)
  PROVE  /\ Types' /\ RoomInv' /\ OnlyRun(r) /\ line' = line
         /\ \/ phase[r] = "running" /\ phase'[r] = ResultOf(r)
            \/ phase[r] = "cancelled" /\ phase'[r] = "cancelled"
         /\ stream[r] = "last" \/ reply[r] = "raised" \/ phase[r] = "cancelled"
         /\ ResultOf(r) \in {"completed", "failed"}
<1>1. ResultOf(r) \in {"completed", "failed"}
  BY DEF ResultOf, Types, EventTypes
<1>2. /\ OnlyRun(r) /\ line' = line
      /\ \/ phase[r] = "running" /\ phase'[r] = ResultOf(r)
         \/ phase[r] = "cancelled" /\ phase'[r] = "cancelled"
  BY <1>1, FinishOK, ReleaseOK DEF ExecuteEnds, Types
<1>3. /\ stream' \in [Runs -> {"none", "open", "last", "stopped"}] /\ stream'[r] = "stopped"
      /\ \A s \in Runs : s # r => stream'[s] = stream[s]
      /\ reply' \in [Runs -> {None, "failed", "completed", "raised"}]
      /\ \A s \in Runs : s # r => reply'[s] = reply[s]
      /\ UNCHANGED <<conn, activeRun, waiter, seen, owner, cast, inbox, hurt>>
  BY DEF ExecuteEnds, Types, EventTypes
<1>4. cast[r] = Idle /\ (stream[r] = "last" \/ reply[r] = "raised" \/ phase[r] = "cancelled")
  BY <1>2 DEF ExecuteEnds, RoomInv, StreamSound
<1>5. Types'
  BY <1>2, <1>3 DEF Types, OnlyRun, ConnTypes, EventTypes, conn
<1>6. StreamSound(r)'
  BY <1>1, <1>2, <1>3, <1>4 DEF StreamSound
<1>7. r \in line'[Room] => phase'[r] = "queued"
  BY <1>2 DEF RoomInv, Served
<1> QED BY <1>1, <1>2, <1>3, <1>4, <1>5, <1>6, <1>7, PhaseStep DEF Unfinished

-----------------------------------------------------------------------------
(***************************************************************************)
(* Runs and connections: the steps of a waiter.                            *)
(***************************************************************************)
\* A waiter that does not wait for an unfinished run may do as it likes.
LEMMA WaiterStep ==
  ASSUME Types, RoomInv, NEW c \in Conns, OnlyWaiter(c),
         UNCHANGED <<queue, conn, owner, stream, cast, reply>>,
         \A s \in Runs : s \in hurt => s \in hurt',
         \A s \in Runs : Unfinished(s) => ~WaitsFor(c, s),
         waiter'[c].run = None <=> waiter'[c].at = "none",
         pc[c] # "receive" => waiter'[c].at \in {"none", "cancelled"},
         pc[c] \in {"new", "ended"} => waiter'[c].at = "none",
         WaiterSound(c)'
  PROVE  RoomInv'
<1>1. ASSUME NEW d \in Conns PROVE Endpoint(d)'
  <2>1. Endpoint(d)
    BY DEF RoomInv
  <2>2. CASE d = c
    BY <2>1, <2>2 DEF Endpoint, OnlyWaiter, conn
  <2>3. CASE d # c
    BY <2>1, <2>3 DEF Endpoint, OnlyWaiter, conn
  <2> QED BY <2>2, <2>3
<1>2. ASSUME NEW d \in Conns PROVE WaiterSound(d)'
  <2>1. CASE d # c
    BY <2>1 DEF RoomInv, WaiterSound, OnlyWaiter, queue
  <2> QED BY <2>1
<1>3. ASSUME NEW d \in Conns PROVE CancelSound(d)'
  BY DEF RoomInv, CancelSound, conn, queue
<1>4. ASSUME NEW s \in Runs PROVE Served(s)'
  <2>1. Served(s)
    BY DEF RoomInv
  <2>2. Unfinished(s) => \E d \in Conns : d # c /\ WaitsFor(d, s)
    BY <2>1 DEF Served
  <2>3. Unfinished(s) => \E d \in Conns : WaitsFor(d, s)'
    BY <2>2 DEF OnlyWaiter, WaitsFor
  <2> QED BY <2>1, <2>3 DEF Served, Unfinished, queue
<1>5. ASSUME NEW s \in Runs PROVE StreamSound(s)'
  BY DEF RoomInv, StreamSound, queue, conn
<1> QED BY <1>1, <1>2, <1>3, <1>4, <1>5 DEF RoomInv

\* The types of a step of a waiter.
LEMMA WaiterTypes ==
  ASSUME Types, NEW c \in Conns, OnlyWaiter(c), UNCHANGED <<queue, conn, seen>>,
         UNCHANGED <<owner, stream, cast, reply>>,
         inbox' \in [Conns -> [Runs -> Seq(Terminal)]], hurt' \in SUBSET Runs
  PROVE  Types'
BY DEF Types, QueueTypes, ConnTypes, EventTypes, queue, conn, OnlyWaiter

\* A waiter that has not ended has a run, and what it does other than wait it does for
\* a run that is over.
LEMMA WaiterRun ==
  ASSUME Types, RoomInv, NEW c \in Conns, waiter[c].at # "none"
  PROVE  /\ waiter[c].run \in Runs /\ waiter[c].at \in {"waiting", "sending", "reporting", "cancelled"}
         /\ activeRun[c] = waiter[c].run
         /\ waiter[c].at # "waiting" => \A s \in Runs : Unfinished(s) => ~WaitsFor(c, s)
<1>1. waiter[c] \in Waiters
  BY DEF Types, ConnTypes
<1> QED BY <1>1 DEF Waiters, RoomInv, Endpoint, WaitsFor

\* A waiter that goes leaves its endpoint without a run.
LEMMA WaiterGoneRoom ==
  ASSUME Types, RoomInv, NEW c \in Conns, WaiterGone(c),
         UNCHANGED <<queue, conn, owner, stream, cast, reply>>,
         \A s \in Runs : s \in hurt => s \in hurt',
         \A s \in Runs : Unfinished(s) => ~WaitsFor(c, s)
  PROVE  RoomInv'
<1>1. OnlyWaiter(c) /\ waiter'[c].run = None /\ waiter'[c].at = "none"
  BY WaiterGoneOK DEF Types, RoomInv, Endpoint
<1>2. WaiterSound(c)'
  BY <1>1, WebSocketAssumption DEF WaiterSound
<1> QED BY <1>1, <1>2, WaiterStep

\* A waiter that wakes up reports a failed or cancelled run, or goes.
LEMMA WaiterWakesRoom ==
  ASSUME Types, RoomInv, NEW c \in Conns, WaiterWakes(c)
  PROVE  /\ Types' /\ RoomInv' /\ OnlyWaiter(c) /\ waiter[c].run \in Runs
         /\ \/ waiter'[c].run = None /\ waiter'[c].at = "none"
               /\ (phase[waiter[c].run] = "completed" \/ seen[c])
            \/ waiter'[c].run = waiter[c].run /\ waiter'[c].at = "sending"
               /\ waiter'[c].left = room /\ ~seen[c] /\ phase[waiter[c].run] = "failed"
<1> DEFINE r == waiter[c].run
<1>1. r \in Runs /\ waiter[c].at = "waiting" /\ phase[r] \in Terminal /\ activeRun[c] = r
  BY WaiterRun DEF WaiterWakes
<1>2. \A s \in Runs : Unfinished(s) => ~WaitsFor(c, s)
  BY <1>1 DEF Unfinished, WaitsFor, Terminal
<1>3. owner[r] = c /\ phase[r] # "cancelled"
  BY <1>1 DEF RoomInv, WaiterSound
<1>4. UNCHANGED <<queue, conn, seen, events>>
  BY DEF WaiterWakes
<1>5. \/ (phase[r] = "completed" \/ (seen[c] /\ phase[r] = "failed")) /\ WaiterGone(c)
      \/ ~seen[c] /\ phase[r] = "failed" /\ WaiterCasts(c, "sending", "failed", room)
  BY <1>3 DEF WaiterWakes, EmitTerminalEvent
<1>6. CASE (phase[r] = "completed" \/ (seen[c] /\ phase[r] = "failed")) /\ WaiterGone(c)
  <2>1. OnlyWaiter(c) /\ waiter'[c].run = None /\ waiter'[c].at = "none"
    BY <1>6, WaiterGoneOK DEF Types, RoomInv, Endpoint
  <2>2. RoomInv'
    BY <1>2, <1>4, <1>6, WaiterGoneRoom DEF events
  <2>3. Types'
    BY <1>4, <2>1, WaiterTypes DEF events, Types, EventTypes
  <2> QED BY <1>1, <1>6, <2>1, <2>2, <2>3
<1>7. CASE ~seen[c] /\ phase[r] = "failed" /\ WaiterCasts(c, "sending", "failed", room)
  <2>1. /\ OnlyWaiter(c) /\ waiter'[c].run = waiter[c].run /\ waiter'[c].at = "sending"
        /\ waiter'[c].ev = "failed" /\ waiter'[c].left = room
    BY <1>7, WaiterCastsOK DEF Types, ConnTypes, RoomInv, Endpoint
  <2>2. WaiterSound(c)'
    BY <1>3, <1>4, <1>7, <2>1 DEF WaiterSound, queue, events
  <2>3. pc[c] = "receive"
    BY <1>1 DEF RoomInv, Endpoint
  <2>4. RoomInv'
    BY <1>1, <1>2, <1>4, <2>1, <2>2, <2>3, WaiterStep, WebSocketAssumption DEF events
  <2>5. Types'
    BY <1>4, <2>1, WaiterTypes DEF events, Types, EventTypes
  <2> QED BY <1>1, <1>7, <2>1, <2>4, <2>5
<1> QED BY <1>5, <1>6, <1>7

\* A send of a waiter's broadcast moves on to the other connections.
LEMMA WaiterSendsRoom ==
  ASSUME Types, RoomInv, NEW c \in Conns, NEW d \in Conns, WaiterSends(c, d)
  PROVE  /\ Types' /\ RoomInv' /\ OnlyWaiter(c) /\ waiter'[c].run = waiter[c].run
         /\ waiter'[c].at = waiter[c].at /\ waiter'[c].left = waiter[c].left \ {d}
         /\ waiter[c].run \in Runs /\ waiter[c].ev = "failed"
<1>1. /\ waiter[c].run \in Runs /\ activeRun[c] = waiter[c].run
      /\ waiter[c].at \in {"sending", "reporting"}
      /\ \A s \in Runs : Unfinished(s) => ~WaitsFor(c, s)
  BY WaiterRun DEF WaiterSends
<1>2. UNCHANGED <<queue, conn, activeRun, seen, owner, stream, cast, reply, hurt>>
  BY DEF WaiterSends
<1>3. waiter[c] \in Waiters
  BY DEF Types, ConnTypes
<1> DEFINE fewer == [waiter[c] EXCEPT !.left = waiter[c].left \ {d}]
<1>4. /\ fewer \in Waiters /\ fewer.run = waiter[c].run /\ fewer.at = waiter[c].at
      /\ fewer.ev = waiter[c].ev /\ fewer.left = waiter[c].left \ {d}
  BY <1>3 DEF Waiters
<1>5. waiter' = [waiter EXCEPT ![c] = fewer]
  BY DEF WaiterSends
<1> HIDE DEF fewer
<1>6. /\ waiter' \in [Conns -> Waiters] /\ waiter'[c] = fewer
      /\ \A e \in Conns : e # c => waiter'[e] = waiter[e]
  BY <1>4, <1>5 DEF Types, ConnTypes
<1>7. OnlyWaiter(c)
  BY <1>1, <1>2, <1>4, <1>6 DEF OnlyWaiter, Types, ConnTypes
<1>8. WaiterSound(c)'
  <2>1. WaiterSound(c)
    BY DEF RoomInv
  <2>2. /\ waiter'[c].run = waiter[c].run /\ waiter'[c].at = waiter[c].at
        /\ waiter'[c].ev = waiter[c].ev
    BY <1>4, <1>6
  <2>3. phase' = phase /\ owner' = owner /\ hurt' = hurt
    BY <1>2 DEF queue
  <2> QED BY <2>1, <2>2, <2>3 DEF WaiterSound
<1>9. Endpoint(c)
  BY DEF RoomInv
<1>10. RoomInv'
  BY <1>1, <1>2, <1>4, <1>6, <1>7, <1>8, <1>9, WaiterStep DEF Endpoint
<1>11. inbox' \in [Conns -> [Runs -> Seq(Terminal)]]
  BY <1>1, SentOK DEF WaiterSends, Types
<1>12. Types'
  BY <1>2, <1>7, <1>11, WaiterTypes DEF Types, EventTypes
<1>13. waiter[c].ev = "failed"
  BY <1>1 DEF RoomInv, WaiterSound
<1> QED BY <1>1, <1>4, <1>6, <1>7, <1>10, <1>12, <1>13

\* A dead socket makes a waiter report the failure, or go.
LEMMA WaiterSendRaisesRoom ==
  ASSUME Types, RoomInv, NEW c \in Conns, NEW d \in Conns, WaiterSendRaises(c, d)
  PROVE  /\ Types' /\ RoomInv' /\ OnlyWaiter(c) /\ waiter[c].run \in Runs
         /\ waiter[c].run \in hurt' /\ waiter'[c].run \in {None, waiter[c].run}
         /\ waiter'[c].at \in {"none", "reporting"}
<1>1. /\ waiter[c].run \in Runs /\ activeRun[c] = waiter[c].run
      /\ waiter[c].at \in {"sending", "reporting"}
      /\ \A s \in Runs : Unfinished(s) => ~WaitsFor(c, s)
  BY WaiterRun DEF WaiterSendRaises
<1>2. /\ UNCHANGED <<queue, conn, seen, owner, stream, cast, reply, inbox>>
      /\ hurt' = hurt \cup {waiter[c].run}
  BY DEF WaiterSendRaises
<1>3. hurt' \in SUBSET Runs /\ (\A s \in Runs : s \in hurt => s \in hurt') /\ waiter[c].run \in hurt'
  BY <1>1, <1>2 DEF Types, EventTypes
<1>4. CASE waiter[c].at = "sending"
  <2>1. WaiterCasts(c, "reporting", "failed", room)
    BY <1>4 DEF WaiterSendRaises
  <2>2. /\ OnlyWaiter(c) /\ waiter'[c].run = waiter[c].run /\ waiter'[c].at = "reporting"
        /\ waiter'[c].ev = "failed"
    BY <1>1, <2>1, WaiterCastsOK DEF Types, ConnTypes
  <2>3. WaiterSound(c)'
    <3>1. WaiterSound(c)
      BY DEF RoomInv
    <3>2. phase' = phase /\ owner' = owner
      BY <1>2 DEF queue
    <3> QED BY <1>3, <2>2, <3>1, <3>2 DEF WaiterSound
  <2>4. pc[c] = "receive"
    BY <1>1 DEF RoomInv, Endpoint
  <2>5. RoomInv'
    BY <1>1, <1>2, <1>3, <2>2, <2>3, <2>4, WaiterStep, WebSocketAssumption
  <2>6. Types'
    BY <1>2, <1>3, <2>2, WaiterTypes DEF Types, EventTypes
  <2> QED BY <1>1, <1>3, <2>2, <2>5, <2>6
<1>5. CASE waiter[c].at # "sending"
  <2>1. WaiterGone(c)
    BY <1>5 DEF WaiterSendRaises
  <2>2. OnlyWaiter(c) /\ waiter'[c].run = None /\ waiter'[c].at = "none"
    BY <1>1, <2>1, WaiterGoneOK DEF Types
  <2>3. RoomInv'
    BY <1>1, <1>2, <1>3, <2>1, WaiterGoneRoom
  <2>4. Types'
    BY <1>2, <1>3, <2>2, WaiterTypes DEF Types, EventTypes
  <2> QED BY <1>1, <1>3, <2>2, <2>3, <2>4
<1> QED BY <1>4, <1>5

\* A waiter that has sent to everybody goes.
LEMMA WaiterEndsRoom ==
  ASSUME Types, RoomInv, NEW c \in Conns, WaiterEnds(c)
  PROVE  /\ Types' /\ RoomInv' /\ OnlyWaiter(c) /\ waiter[c].run \in Runs
         /\ waiter'[c].run = None /\ waiter'[c].at = "none"
         /\ waiter[c].at \in {"sending", "reporting", "cancelled"}
<1>1. /\ waiter[c].run \in Runs /\ activeRun[c] = waiter[c].run
      /\ waiter[c].at \in {"sending", "reporting", "cancelled"}
      /\ \A s \in Runs : Unfinished(s) => ~WaitsFor(c, s)
  BY WaiterRun DEF WaiterEnds
<1>2. UNCHANGED <<queue, conn, seen, events>> /\ WaiterGone(c)
  BY DEF WaiterEnds
<1>3. OnlyWaiter(c) /\ waiter'[c].run = None /\ waiter'[c].at = "none"
  BY <1>1, <1>2, WaiterGoneOK DEF Types
<1>4. RoomInv'
  BY <1>1, <1>2, WaiterGoneRoom DEF events
<1>5. Types'
  BY <1>2, <1>3, WaiterTypes DEF events, Types, EventTypes
<1> QED BY <1>1, <1>3, <1>4, <1>5

-----------------------------------------------------------------------------
(***************************************************************************)
(* Runs and connections: the steps of an endpoint.                         *)
(***************************************************************************)
\* Another connection is not concerned.
OtherConns(c) ==
  \A d \in Conns : d # c =>
    /\ sock'[d] = sock[d] /\ pc'[d] = pc[d] /\ cancelRun'[d] = cancelRun[d]
    /\ activeRun'[d] = activeRun[d] /\ waiter'[d] = waiter[d] /\ (d \in room' <=> d \in room)

\* The endpoint moves; its waiter does not. A run of its own that was cancelled and still
\* streams keeps an endpoint that waits for it.
LEMMA EndpointStep ==
  ASSUME RoomInv, NEW c \in Conns, OtherConns(c),
         UNCHANGED <<queue, waiter, owner, stream, cast, reply, hurt>>,
         Endpoint(c)', CancelSound(c)',
         \A s \in Runs : /\ owner[s] = c /\ phase[s] = "cancelled" /\ stream[s] \in {"open", "last"}
                         /\ cancelRun[c] = s \/ pc[c] \in {"closing", "ended"}
                         => cancelRun'[c] = s \/ pc'[c] \in {"closing", "ended"}
  PROVE  RoomInv'
<1>1. ASSUME NEW d \in Conns PROVE Endpoint(d)'
  <2>1. CASE d # c
    BY <2>1 DEF RoomInv, Endpoint, OtherConns
  <2> QED BY <2>1
<1>2. ASSUME NEW d \in Conns PROVE WaiterSound(d)'
  BY DEF RoomInv, WaiterSound, queue
<1>3. ASSUME NEW d \in Conns PROVE CancelSound(d)'
  <2>1. CASE d # c
    BY <2>1 DEF RoomInv, CancelSound, OtherConns, queue
  <2> QED BY <2>1
<1>4. ASSUME NEW s \in Runs PROVE Served(s)'
  BY DEF RoomInv, Served, Unfinished, WaitsFor, queue
<1>5. ASSUME NEW s \in Runs PROVE StreamSound(s)'
  <2>1. StreamSound(s)
    BY DEF RoomInv
  <2>2. ASSUME NEW d \in Conns, owner[s] = d, phase[s] = "cancelled", stream[s] \in {"open", "last"}
        PROVE  cancelRun'[d] = s \/ pc'[d] \in {"closing", "ended"}
    <3>1. cancelRun[d] = s \/ pc[d] \in {"closing", "ended"}
      BY <2>1, <2>2 DEF StreamSound
    <3>2. CASE d = c
      BY <2>2, <3>1, <3>2
    <3>3. CASE d # c
      BY <3>1, <3>3 DEF OtherConns
    <3> QED BY <3>2, <3>3
  <2> QED BY <2>1, <2>2 DEF StreamSound, queue
<1> QED BY <1>1, <1>2, <1>3, <1>4, <1>5 DEF RoomInv

\* A connection that opens joins the room without a run.
LEMMA ConnectRoom ==
  ASSUME Types, RoomInv, NEW c \in Conns, Connect(c)
  PROVE  Types' /\ RoomInv'
<1>1. /\ sock' \in [Conns -> {"new", "open", "dead"}] /\ sock'[c] = "open"
      /\ pc' \in [Conns -> {"new", "receive", "cancelling", "closing", "ended"}]
      /\ pc'[c] = "receive" /\ room' \subseteq Conns /\ c \in room'
      /\ \A d \in Conns : d # c => /\ sock'[d] = sock[d] /\ pc'[d] = pc[d]
                                   /\ d \in room' <=> d \in room
  BY DEF Connect, Types, ConnTypes
<1>2. UNCHANGED <<queue, cancelRun, activeRun, waiter, seen, events>> /\ sock[c] = "new"
  BY DEF Connect
<1>3. Types'
  BY <1>1, <1>2 DEF Types, QueueTypes, ConnTypes, EventTypes, queue, events
<1>4. OtherConns(c)
  BY <1>1, <1>2 DEF OtherConns
<1>5. Endpoint(c) /\ CancelSound(c) /\ pc[c] = "new"
  BY <1>2 DEF RoomInv, Endpoint
<1>6. Endpoint(c)' /\ CancelSound(c)'
  BY <1>1, <1>2, <1>5 DEF Endpoint, CancelSound, events, queue
<1> QED BY <1>2, <1>3, <1>4, <1>5, <1>6, EndpointStep DEF events

\* A socket that dies loses what its inbox held, and only that.
LEMMA PeerGoesRoom ==
  ASSUME Types, RoomInv, NEW c \in Conns, PeerGoes(c)
  PROVE  /\ Types' /\ RoomInv' /\ sock'[c] = "dead"
         /\ \A r \in Runs : inbox'[c][r] = <<>>
         /\ \A d \in Conns : d # c => sock'[d] = sock[d] /\ inbox'[d] = inbox[d]
<1>1. /\ sock' \in [Conns -> {"new", "open", "dead"}] /\ sock'[c] = "dead"
      /\ \A d \in Conns : d # c => sock'[d] = sock[d]
  BY DEF PeerGoes, Types, ConnTypes
<1>2. /\ UNCHANGED <<queue, room, pc, cancelRun, activeRun, waiter, seen,
                     owner, stream, cast, reply, hurt>>
      /\ sock[c] = "open"
  BY DEF PeerGoes
<1>3. /\ inbox' \in [Conns -> [Runs -> Seq(Terminal)]]
      /\ \A r \in Runs : inbox'[c][r] = <<>>
      /\ \A d \in Conns : d # c => inbox'[d] = inbox[d]
  BY DEF PeerGoes, Types, EventTypes
<1>4. Types'
  BY <1>1, <1>2, <1>3 DEF Types, QueueTypes, ConnTypes, EventTypes, queue
<1>5. OtherConns(c)
  BY <1>1, <1>2 DEF OtherConns
<1>6. Endpoint(c) /\ CancelSound(c)
  BY DEF RoomInv
<1>7. Endpoint(c)' /\ CancelSound(c)'
  BY <1>1, <1>2, <1>6 DEF Endpoint, CancelSound, queue
<1> QED BY <1>1, <1>2, <1>3, <1>4, <1>5, <1>7, EndpointStep

\* An endpoint that leaves the room has no run any more.
LEMMA LeavesRoom ==
  ASSUME Types, RoomInv, NEW c \in Conns, Leaves(c)
  PROVE  Types' /\ RoomInv'
<1>1. /\ pc' \in [Conns -> {"new", "receive", "cancelling", "closing", "ended"}]
      /\ pc'[c] = "ended" /\ room' \subseteq Conns /\ c \notin room'
      /\ \A d \in Conns : d # c => pc'[d] = pc[d] /\ (d \in room' <=> d \in room)
  BY DEF Leaves, Types, ConnTypes
<1>2. /\ UNCHANGED <<queue, sock, cancelRun, activeRun, waiter, seen, events>>
      /\ pc[c] = "closing" /\ waiter[c].at = "none"
  BY DEF Leaves, Waits
<1>3. Types'
  BY <1>1, <1>2 DEF Types, QueueTypes, ConnTypes, EventTypes, queue, events
<1>4. OtherConns(c)
  BY <1>1, <1>2 DEF OtherConns
<1>5. Endpoint(c) /\ CancelSound(c)
  BY DEF RoomInv
<1>6. Endpoint(c)' /\ CancelSound(c)'
  BY <1>1, <1>2, <1>5 DEF Endpoint, CancelSound, events, queue
<1> QED BY <1>1, <1>2, <1>3, <1>4, <1>6, EndpointStep DEF events

\* A cancel command is answered when the stream of its run has stopped.
LEMMA CancelAnsweredRoom ==
  ASSUME Types, RoomInv, NEW c \in Conns, CancelAnswered(c)
  PROVE  /\ Types' /\ RoomInv' /\ cancelRun[c] \in Runs /\ cancelRun'[c] = None
         /\ waiter[c].run = None /\ stream[cancelRun[c]] \in {"none", "stopped"}
         /\ owner[cancelRun[c]] = c /\ phase[cancelRun[c]] \in Terminal
         /\ \A d \in Conns : d # c => seen'[d] = seen[d] /\ cancelRun'[d] = cancelRun[d]
<1>1. Endpoint(c) /\ CancelSound(c)
  BY DEF RoomInv
<1>2. /\ cancelRun[c] \in Runs /\ pc[c] = "cancelling" /\ waiter[c].run = None
      /\ waiter[c].at = "none" /\ activeRun[c] = None
      /\ owner[cancelRun[c]] = c /\ phase[cancelRun[c]] \in Terminal
  BY <1>1 DEF CancelAnswered, Waits, Endpoint, CancelSound, Types, ConnTypes
<1>3. /\ pc' \in [Conns -> {"new", "receive", "cancelling", "closing", "ended"}]
      /\ pc'[c] = "receive" \/ (sock[c] = "dead" /\ pc'[c] = "closing")
      /\ \A d \in Conns : d # c => pc'[d] = pc[d]
  BY DEF CancelAnswered, Types, ConnTypes
<1>4. /\ cancelRun' \in [Conns -> Runs \cup {None}] /\ cancelRun'[c] = None
      /\ activeRun' \in [Conns -> Runs \cup {None}] /\ activeRun'[c] = None
      /\ seen' \in [Conns -> BOOLEAN]
      /\ \A d \in Conns : d # c => /\ cancelRun'[d] = cancelRun[d] /\ activeRun'[d] = activeRun[d]
                                   /\ seen'[d] = seen[d]
  BY DEF CancelAnswered, Types, ConnTypes
<1>5. /\ UNCHANGED <<queue, sock, room, waiter, owner, stream, cast, reply, hurt>>
      /\ stream[cancelRun[c]] \in {"none", "stopped"}
  BY DEF CancelAnswered
<1>6. inbox' \in [Conns -> [Runs -> Seq(Terminal)]]
  BY <1>2, SentOK DEF CancelAnswered, Types
<1>7. Types'
  BY <1>3, <1>4, <1>5, <1>6 DEF Types, QueueTypes, ConnTypes, EventTypes, queue
<1>8. OtherConns(c)
  BY <1>3, <1>4, <1>5 DEF OtherConns
<1>9. Endpoint(c)' /\ CancelSound(c)'
  BY <1>1, <1>2, <1>3, <1>4, <1>5, WebSocketAssumption DEF Endpoint, CancelSound
<1>10. ASSUME NEW s \in Runs, stream[s] \in {"open", "last"},
              cancelRun[c] = s \/ pc[c] \in {"closing", "ended"}
       PROVE  FALSE
  BY <1>2, <1>5, <1>10
<1>11. RoomInv'
  BY <1>5, <1>8, <1>9, <1>10, EndpointStep
<1> QED BY <1>2, <1>4, <1>5, <1>7, <1>11

\* The endpoint of c has the coordinator cancel its active run and cancels its waiter.
EndpointCancels(c) ==
  /\ pc[c] = "receive" /\ CoordinatorCancel(activeRun[c]) /\ CleanupTask(c)
  /\ pc'[c] \in {"cancelling", "closing"}
  /\ cancelRun'[c] = IF pc'[c] = "cancelling" THEN activeRun[c] ELSE None
  /\ pc'[c] = "cancelling" => activeRun[c] # None
  /\ pc'[c] = "closing" => sock[c] = "dead"
  /\ UNCHANGED <<sock, room, activeRun, seen, events>>
  /\ \A d \in Conns : d # c => pc'[d] = pc[d] /\ cancelRun'[d] = cancelRun[d]

\* What that does to the connection and its run.
CancelEffect(c) ==
  /\ OnlyWaiter(c) /\ waiter'[c].run = waiter[c].run
  /\ waiter'[c].at = IF waiter[c].at = "none" THEN "none" ELSE "cancelled"
  /\ \A s \in Runs : waiter[c].run # s =>
       phase'[s] = phase[s] /\ (s \in line'[Room] <=> s \in line[Room])
  /\ \A s \in Runs : waiter[c].run = s =>
       /\ phase'[s] \in Terminal /\ phase'[s] = IF Unfinished(s) THEN "cancelled" ELSE phase[s]
       /\ s \notin line'[Room]

\* An endpoint that cancels ends the run of its connection and its waiter, and nothing
\* of another connection.
LEMMA EndpointCancelsOK ==
  ASSUME Types, RoomInv, NEW c \in Conns, EndpointCancels(c)
  PROVE  QueueTypes' /\ CancelEffect(c)
<1>1. Endpoint(c) /\ waiter[c] \in Waiters
  BY DEF RoomInv, Types, ConnTypes
<1>2. /\ OnlyWaiter(c) /\ waiter'[c].run = waiter[c].run
      /\ waiter'[c].at = IF waiter[c].at = "none" THEN "none" ELSE "cancelled"
  BY <1>1, CleanupTaskOK DEF EndpointCancels, Endpoint, Types
<1>3. CASE activeRun[c] = None
  <2>1. UNCHANGED queue
    BY <1>3, CoordinatorCancelNone DEF EndpointCancels
  <2>2. \A s \in Runs : waiter[c].run # s
    BY <1>1, <1>3, WebSocketAssumption DEF Endpoint
  <2> QED BY <1>2, <2>1, <2>2 DEF CancelEffect, queue, Types, QueueTypes
<1>4. CASE activeRun[c] # None
  <2> DEFINE r == activeRun[c]
  <2>1. r \in Runs /\ waiter[c].run = r
    BY <1>1, <1>4 DEF Types, ConnTypes, Endpoint
  <2>2. owner[r] = c /\ Served(r)
    BY <2>1 DEF RoomInv, WaiterSound
  <2>3. phase[r] \in Terminal \cup {"queued", "running"} /\ (r \in line[Room] => phase[r] = "queued")
    BY <2>1, <2>2, WebSocketAssumption DEF Served, Types, QueueTypes, Phases, Terminal
  <2>4. /\ OnlyRun(r) /\ phase'[r] \in Terminal
        /\ phase'[r] = IF Unfinished(r) THEN "cancelled" ELSE phase[r]
        /\ r \in line'[Room] => phase'[r] = "queued"
    BY <2>1, <2>3, CoordinatorCancelOK DEF EndpointCancels, Types
  <2>5. r \notin line'[Room]
    BY <2>4 DEF Terminal
  <2> QED BY <1>2, <2>1, <2>4, <2>5 DEF CancelEffect, OnlyRun
<1> QED BY <1>3, <1>4

\* Cancelling keeps runs, waiters and streams together.
LEMMA EndpointCancelsRoom ==
  ASSUME Types, RoomInv, NEW c \in Conns, EndpointCancels(c)
  PROVE  RoomInv'
<1>1. QueueTypes' /\ CancelEffect(c)
  BY EndpointCancelsOK
<1>2. ASSUME NEW d \in Conns PROVE Endpoint(d)'
  <2>1. Endpoint(d)
    BY DEF RoomInv
  <2>2. CASE d = c
    BY <1>1, <2>1, <2>2 DEF Endpoint, EndpointCancels, CancelEffect, OnlyWaiter
  <2>3. CASE d # c
    BY <1>1, <2>1, <2>3 DEF Endpoint, EndpointCancels, CancelEffect, OnlyWaiter
  <2> QED BY <2>2, <2>3
<1>3. ASSUME NEW d \in Conns PROVE WaiterSound(d)'
  <2> SUFFICES ASSUME NEW s \in Runs, waiter'[d].run = s
               PROVE  /\ owner'[s] = d
                      /\ waiter'[d].at = "waiting" => phase'[s] # "cancelled"
                      /\ waiter'[d].at \in {"sending", "reporting"} => waiter'[d].ev = "failed"
                      /\ waiter'[d].at = "sending" => phase'[s] = "failed"
                      /\ waiter'[d].at = "reporting" => s \in hurt'
    BY DEF WaiterSound
  <2>1. waiter[d].run = s
    BY <1>1 DEF CancelEffect, OnlyWaiter
  <2>2. owner'[s] = d /\ hurt' = hurt /\ WaiterSound(d)
    BY <2>1 DEF RoomInv, WaiterSound, EndpointCancels, events
  <2>3. CASE d = c
    BY <1>1, <2>2, <2>3 DEF CancelEffect
  <2>4. CASE d # c
    <3>1. waiter[c].run # s
      BY <2>1, <2>4, OneWaiter
    <3> QED BY <1>1, <2>1, <2>2, <2>4, <3>1 DEF CancelEffect, OnlyWaiter, WaiterSound
  <2> QED BY <2>3, <2>4
<1>4. ASSUME NEW s \in Runs, phase[s] \in Terminal PROVE phase'[s] = phase[s]
  BY <1>1, <1>4 DEF CancelEffect, Unfinished, Terminal
<1>5. ASSUME NEW d \in Conns PROVE CancelSound(d)'
  <2> SUFFICES ASSUME NEW s \in Runs, cancelRun'[d] = s PROVE owner'[s] = d /\ phase'[s] \in Terminal
    BY DEF CancelSound
  <2>1. CASE d = c
    <3>1. waiter[c].run = s
      BY <2>1, WebSocketAssumption DEF EndpointCancels, RoomInv, Endpoint
    <3>2. owner[s] = c
      BY <3>1 DEF RoomInv, WaiterSound
    <3> QED BY <1>1, <2>1, <3>1, <3>2 DEF CancelEffect, EndpointCancels, events
  <2>2. CASE d # c
    BY <1>4, <2>2 DEF RoomInv, CancelSound, EndpointCancels, events
  <2> QED BY <2>1, <2>2
<1>6. ASSUME NEW s \in Runs PROVE Served(s)'
  <2>1. Served(s) /\ owner' = owner
    BY DEF RoomInv, EndpointCancels, events
  <2>2. CASE waiter[c].run = s
    <3>1. owner[s] = c
      BY <2>2 DEF RoomInv, WaiterSound
    <3> QED BY <1>1, <2>1, <2>2, <3>1, WebSocketAssumption
        DEF Served, CancelEffect, Unfinished, Terminal
  <2>3. CASE waiter[c].run # s
    <3>1. phase'[s] = phase[s] /\ (s \in line'[Room] <=> s \in line[Room])
      BY <1>1, <2>3 DEF CancelEffect
    <3>2. ASSUME NEW d \in Conns, WaitsFor(d, s) PROVE WaitsFor(d, s)'
      BY <1>1, <2>3, <3>2 DEF WaitsFor, CancelEffect, OnlyWaiter
    <3> QED BY <2>1, <3>1, <3>2 DEF Served, Unfinished
  <2> QED BY <2>2, <2>3
<1>7. ASSUME NEW s \in Runs PROVE StreamSound(s)'
  <2>1. StreamSound(s) /\ UNCHANGED <<owner, stream, cast, reply>>
    BY DEF RoomInv, EndpointCancels, events
  <2>2. Endpoint(c)
    BY DEF RoomInv
  <2>3. CASE waiter[c].run = s
    <3>1. owner[s] = c
      BY <2>3 DEF RoomInv, WaiterSound
    <3>2. s = activeRun[c]
      BY <2>2, <2>3 DEF Endpoint
    <3>3. phase'[s] \in Terminal /\ phase'[s] = IF Unfinished(s) THEN "cancelled" ELSE phase[s]
      BY <1>1, <2>3 DEF CancelEffect
    <3>4. cancelRun'[c] = s \/ pc'[c] = "closing"
      BY <3>2 DEF EndpointCancels
    <3> QED BY <2>1, <3>1, <3>3, <3>4 DEF StreamSound, Unfinished, Terminal
  <2>4. CASE waiter[c].run # s
    <3>1. phase'[s] = phase[s]
      BY <1>1, <2>4 DEF CancelEffect
    <3>2. ASSUME NEW d \in Conns, owner[s] = d, phase[s] = "cancelled", stream[s] \in {"open", "last"}
          PROVE  cancelRun'[d] = s \/ pc'[d] \in {"closing", "ended"}
      <4>1. cancelRun[d] = s \/ pc[d] \in {"closing", "ended"}
        BY <2>1, <3>2 DEF StreamSound
      <4>2. d # c
        BY <2>2, <4>1, WebSocketAssumption DEF EndpointCancels, Endpoint
      <4> QED BY <4>1, <4>2 DEF EndpointCancels
    <3> QED BY <2>1, <3>1, <3>2 DEF StreamSound
  <2> QED BY <2>3, <2>4
<1> QED BY <1>2, <1>3, <1>5, <1>6, <1>7 DEF RoomInv

\* A cancel command remembers the run that it has to answer for.
LEMMA CancelCommandRoom ==
  ASSUME Types, RoomInv, NEW c \in Conns, CancelCommand(c)
  PROVE  Types' /\ RoomInv' /\ EndpointCancels(c) /\ cancelRun'[c] = activeRun[c]
<1>1. /\ pc' \in [Conns -> {"new", "receive", "cancelling", "closing", "ended"}]
      /\ pc'[c] = "cancelling" /\ \A d \in Conns : d # c => pc'[d] = pc[d]
  BY DEF CancelCommand, Types, ConnTypes
<1>2. /\ cancelRun' \in [Conns -> Runs \cup {None}] /\ cancelRun'[c] = activeRun[c]
      /\ \A d \in Conns : d # c => cancelRun'[d] = cancelRun[d]
  BY DEF CancelCommand, Types, ConnTypes
<1>3. EndpointCancels(c)
  BY <1>1, <1>2 DEF CancelCommand, EndpointCancels
<1>4. QueueTypes' /\ CancelEffect(c)
  BY <1>3, EndpointCancelsOK
<1>5. Types'
  BY <1>1, <1>2, <1>3, <1>4 DEF Types, ConnTypes, EventTypes, EndpointCancels, CancelEffect,
                                OnlyWaiter, events
<1> QED BY <1>2, <1>3, <1>5, EndpointCancelsRoom

\* A disconnect cancels like the command does, with nobody left to answer.
LEMMA DisconnectedRoom ==
  ASSUME Types, RoomInv, NEW c \in Conns, Disconnected(c)
  PROVE  Types' /\ RoomInv' /\ EndpointCancels(c) /\ sock[c] = "dead"
<1>1. /\ pc' \in [Conns -> {"new", "receive", "cancelling", "closing", "ended"}]
      /\ pc'[c] = "closing" /\ \A d \in Conns : d # c => pc'[d] = pc[d]
  BY DEF Disconnected, Types, ConnTypes
<1>2. cancelRun' = cancelRun /\ pc[c] = "receive" /\ sock[c] = "dead"
  BY DEF Disconnected
<1>3. cancelRun[c] = None
  BY <1>2 DEF RoomInv, Endpoint
<1>4. EndpointCancels(c)
  BY <1>1, <1>2, <1>3 DEF Disconnected, DisconnectCancels, EndpointCancels
<1>5. QueueTypes' /\ CancelEffect(c)
  BY <1>4, EndpointCancelsOK
<1>6. Types'
  BY <1>1, <1>2, <1>4, <1>5 DEF Types, ConnTypes, EventTypes, EndpointCancels, CancelEffect,
                                OnlyWaiter, events
<1> QED BY <1>2, <1>4, <1>6, EndpointCancelsRoom

\* A prompt is taken only when there is no waiter: no other run is the connection's.
LEMMA PromptRoom ==
  ASSUME Types, RoomInv, NEW c \in Conns, NEW r \in Runs, Prompt(c, r)
  PROVE  /\ Types' /\ RoomInv' /\ OnlyRun(r) /\ OnlyWaiter(c) /\ phase[r] = "new"
         /\ phase'[r] = "queued" /\ waiter[c].at = "none" /\ owner[r] = None /\ owner'[r] = c
         /\ waiter'[c].run = r /\ waiter'[c].at = "waiting" /\ ~seen'[c]
         /\ \A d \in Conns : d # c => seen'[d] = seen[d]
         /\ \A s \in Runs : s # r => owner'[s] = owner[s]
<1>1. OnlyRun(r) /\ phase[r] = "new" /\ phase'[r] = "queued"
  BY EnterOK DEF Prompt, Types
<1>2. pc[c] = "receive" /\ waiter[c].at = "none" /\ waiter[c].run = None
  BY DEF Prompt, AcceptsPrompt, Waits, RoomInv, Endpoint
<1>3. owner[r] = None /\ stream[r] = "none"
  BY <1>1 DEF RoomInv, Served, StreamSound
<1> DEFINE w == [NoWaiter EXCEPT !.run = r, !.at = "waiting"]
<1>4. w \in Waiters /\ w.run = r /\ w.at = "waiting"
  BY DEF NoWaiter, Waiters
<1>5. waiter' = [waiter EXCEPT ![c] = w]
  BY DEF Prompt
<1> HIDE DEF w
<1>6. /\ waiter' \in [Conns -> Waiters] /\ waiter'[c] = w
      /\ \A d \in Conns : d # c => waiter'[d] = waiter[d]
  BY <1>4, <1>5 DEF Types, ConnTypes
<1>7. /\ owner' \in [Runs -> Conns \cup {None}] /\ owner'[r] = c
      /\ \A s \in Runs : s # r => owner'[s] = owner[s]
  BY DEF Prompt, Types, EventTypes
<1>8. /\ seen' \in [Conns -> BOOLEAN] /\ seen'[c] = FALSE
      /\ \A d \in Conns : d # c => seen'[d] = seen[d]
  BY DEF Prompt, ForgetTerminal, Types, ConnTypes
<1>9. /\ activeRun' \in [Conns -> Runs \cup {None}] /\ activeRun'[c] = r
      /\ \A d \in Conns : d # c => activeRun'[d] = activeRun[d]
  BY DEF Prompt, Types, ConnTypes
<1>10. OnlyWaiter(c)
  BY <1>4, <1>6, <1>9 DEF OnlyWaiter
<1>11. UNCHANGED <<sock, room, pc, cancelRun, stream, cast, reply, inbox, hurt>>
  BY DEF Prompt, conn
<1>12. Types'
  BY <1>1, <1>6, <1>7, <1>8, <1>9, <1>11 DEF Types, ConnTypes, EventTypes, OnlyRun
<1>13. ASSUME NEW d \in Conns PROVE waiter[d].run # r /\ cancelRun[d] # r
  BY <1>3, WebSocketAssumption DEF RoomInv, WaiterSound, CancelSound
<1>14. ASSUME NEW d \in Conns PROVE Endpoint(d)'
  <2>1. Endpoint(d)
    BY DEF RoomInv
  <2>2. CASE d = c
    BY <1>2, <1>4, <1>6, <1>9, <1>11, <2>1, <2>2, WebSocketAssumption DEF Endpoint
  <2>3. CASE d # c
    BY <1>6, <1>9, <1>11, <2>1, <2>3 DEF Endpoint
  <2> QED BY <2>2, <2>3
<1>15. ASSUME NEW d \in Conns PROVE WaiterSound(d)'
  <2>1. CASE d = c
    BY <1>1, <1>4, <1>6, <1>7, <2>1 DEF WaiterSound
  <2>2. CASE d # c
    <3>1. WaiterSound(d)
      BY DEF RoomInv
    <3> QED BY <1>1, <1>6, <1>7, <1>11, <1>13, <2>2, <3>1 DEF WaiterSound, OnlyRun
  <2> QED BY <2>1, <2>2
<1>16. ASSUME NEW d \in Conns PROVE CancelSound(d)'
  <2>1. CancelSound(d)
    BY DEF RoomInv
  <2> QED BY <1>1, <1>7, <1>11, <1>13, <2>1 DEF CancelSound, OnlyRun
<1>17. ASSUME NEW s \in Runs PROVE Served(s)'
  <2>1. CASE s = r
    <3>1. WaitsFor(c, r)'
      BY <1>4, <1>6 DEF WaitsFor
    <3> QED BY <1>1, <1>7, <2>1, <3>1, WebSocketAssumption DEF Served, Unfinished
  <2>2. CASE s # r
    <3>1. Served(s)
      BY DEF RoomInv
    <3>2. ASSUME NEW d \in Conns, WaitsFor(d, s) PROVE WaitsFor(d, s)'
      BY <1>2, <1>6, <3>2 DEF WaitsFor
    <3> QED BY <1>1, <1>7, <2>2, <3>1, <3>2 DEF Served, Unfinished, OnlyRun
  <2> QED BY <2>1, <2>2
<1>18. ASSUME NEW s \in Runs PROVE StreamSound(s)'
  <2>1. StreamSound(s)
    BY DEF RoomInv
  <2>2. CASE s = r
    BY <1>1, <1>3, <1>7, <1>11, <2>1, <2>2 DEF StreamSound
  <2>3. CASE s # r
    BY <1>1, <1>7, <1>11, <2>1, <2>3 DEF StreamSound, OnlyRun
  <2> QED BY <2>2, <2>3
<1>19. RoomInv'
  BY <1>14, <1>15, <1>16, <1>17, <1>18 DEF RoomInv
<1> QED BY <1>1, <1>2, <1>3, <1>4, <1>6, <1>7, <1>8, <1>10, <1>12, <1>19

-----------------------------------------------------------------------------
(***************************************************************************)
(* Every step, and the first theorem.                                      *)
(***************************************************************************)
LEMMA NextRoom == Types /\ RoomInv /\ [Next]_vars => Types' /\ RoomInv'
<1> SUFFICES ASSUME Types, RoomInv, [Next]_vars PROVE Types' /\ RoomInv'
  OBVIOUS
<1>1. CASE UNCHANGED vars
  <2>1. Types'
    BY <1>1 DEF vars, queue, conn, events, Types, QueueTypes, ConnTypes, EventTypes
  <2>2. ASSUME NEW c \in Conns PROVE (Endpoint(c) /\ WaiterSound(c) /\ CancelSound(c))'
    BY <1>1 DEF vars, queue, conn, events, RoomInv, Endpoint, WaiterSound, CancelSound
  <2>3. ASSUME NEW r \in Runs PROVE (Served(r) /\ StreamSound(r))'
    BY <1>1 DEF vars, queue, conn, events, RoomInv, Served, Unfinished, WaitsFor, StreamSound
  <2> QED BY <2>1, <2>2, <2>3 DEF RoomInv
<1>2. ASSUME NEW r \in Runs,
             \/ StartRun(r) \/ RunSteps(r) \/ StreamCompletes(r) \/ StreamRaises(r)
             \/ \E ev \in {"started", "token", "failed"} : StreamEvent(r, ev)
      PROVE  Types' /\ RoomInv'
  BY <1>2, StartRunRoom, StreamSendsRoom, StreamSendRaisesRoom, StreamSendsNobodyRoom,
     ExecuteEndsRoom, StreamCancelledRoom, StreamCompletesRoom, StreamRaisesRoom,
     StreamEventRoom DEF RunSteps
<1>3. ASSUME NEW c \in Conns,
             \/ WaiterSteps(c) \/ EndpointSteps(c) \/ Connect(c) \/ CancelCommand(c) \/ PeerGoes(c)
             \/ \E r \in Runs : Prompt(c, r)
      PROVE  Types' /\ RoomInv'
  BY <1>3, WaiterSendsRoom, WaiterSendRaisesRoom, WaiterWakesRoom, WaiterEndsRoom,
     DisconnectedRoom, LeavesRoom, CancelAnsweredRoom, ConnectRoom, CancelCommandRoom,
     PeerGoesRoom, PromptRoom DEF WaiterSteps, EndpointSteps
<1> QED BY <1>1, <1>2, <1>3 DEF Next

\* The types and the relations of runs, waiters, endpoints and streams hold in every
\* reachable state of the endpoints, waiters and streams of a room.
THEOREM RoomInvariant == Spec => [](Types /\ RoomInv)
<1>1. Init => Types /\ RoomInv
  BY InitRoom
<1>2. Types /\ RoomInv /\ [Next]_vars => (Types /\ RoomInv)'
  BY NextRoom
<1> QED BY <1>1, <1>2, PTL DEF Spec

\* A connection that has gone has no unfinished run, and a connection that is there at
\* most one, in whatever order its endpoint, its waiter and the run's stream end.
THEOREM RunsKeepConnection == Spec => []RunsHaveConnection
<1>1. Types /\ RoomInv => RunsHaveConnection
  <2> SUFFICES ASSUME Types, RoomInv PROVE RunsHaveConnection
    OBVIOUS
  <2>1. ASSUME NEW c \in Conns, NEW r \in Runs, owner[r] = c, phase[r] \notin Terminal
        PROVE  WaitsFor(c, r)
    <3>1. Served(r) /\ phase[r] \in Phases
      BY DEF RoomInv, Types, QueueTypes
    <3>2. phase[r] # "new"
      BY <2>1, <3>1, WebSocketAssumption DEF Served
    <3>3. Unfinished(r)
      BY <2>1, <3>1, <3>2 DEF Phases, Terminal, Unfinished
    <3>4. PICK d \in Conns : WaitsFor(d, r)
      BY <3>1, <3>3 DEF Served
    <3>5. owner[r] = d
      BY <3>4 DEF WaitsFor, RoomInv, WaiterSound
    <3> QED BY <2>1, <3>4, <3>5
  <2>2. NoOrphanRun
    BY <2>1 DEF NoOrphanRun, WaitsFor, RoomInv, Endpoint
  <2>3. OneRunPerConnection
    BY <2>1 DEF OneRunPerConnection, WaitsFor
  <2> QED BY <2>2, <2>3 DEF RunsHaveConnection
<1> QED BY <1>1, RoomInvariant, PTL

-----------------------------------------------------------------------------
(***************************************************************************)
(* What the peers are told: the steps of a run.                            *)
(***************************************************************************)
LEMMA IdleSays == Idle.ev \notin Terminal /\ Idle.left = {}
BY WebSocketAssumption DEF Idle, Terminal

\* At first there is nothing to tell.
LEMMA InitTold == Init => ToldInv
<1> SUFFICES ASSUME Init, NEW r \in Runs, NEW c \in Conns
             PROVE  Once(c, r) /\ Noted(c, r) /\ Told(c, r)
  BY DEF ToldInv, ToldAbout
<1>1. inbox[c][r] = <<>> /\ owner[r] = None /\ \A d \in Conns : waiter[d].at = "none"
  BY DEF Init, NoWaiter
<1>2. \A e : ~Has(c, r, e)
  BY <1>1 DEF Has, Occurs
<1>3. Once(c, r)
  BY <1>1, <1>2 DEF Once, NoDup
<1> QED BY <1>1, <1>3, WebSocketAssumption DEF Noted, Told, WaitsFor

\* The step is not about run r: what it changes of connections does not concern r.
RunUnmoved(r) ==
  /\ phase'[r] = phase[r] /\ owner'[r] = owner[r]
  /\ stream'[r] = stream[r] /\ cast'[r] = cast[r] /\ reply'[r] = reply[r]
  /\ \A c \in Conns :
       /\ waiter'[c] = waiter[c] \/ (waiter[c].run # r /\ waiter'[c].run # r)
       /\ WaitsFor(c, r) => seen'[c] = seen[c]
       /\ cancelRun'[c] = r <=> cancelRun[c] = r
       /\ owner[r] = c => sock'[c] = sock[c]
       /\ inbox'[c][r] = inbox[c][r]

\* What was told about a run stays so in a step that leaves the run alone.
LEMMA UnmovedTold ==
  ASSUME RoomInv, NEW r \in Runs, ToldAbout(r), RunUnmoved(r)
  PROVE  ToldAbout(r)'
<1> SUFFICES ASSUME NEW c \in Conns PROVE (Once(c, r) /\ Noted(c, r) /\ Told(c, r))'
  BY DEF ToldAbout
<1>1. Once(c, r) /\ Noted(c, r) /\ Told(c, r)
  BY DEF ToldAbout
<1>2. inbox'[c][r] = inbox[c][r]
  BY DEF RunUnmoved
<1>3. (NoDup(c, r)' <=> NoDup(c, r)) /\ \A e : Has(c, r, e)' <=> Has(c, r, e)
  BY <1>2 DEF NoDup, Has
<1>4. ASSUME NEW d \in Conns
      PROVE  /\ WaitsFor(d, r)' <=> WaitsFor(d, r)
             /\ WaitsFor(d, r) => seen'[d] = seen[d] /\ owner[r] = d
             /\ waiter'[d].run = r <=> waiter[d].run = r
             /\ waiter'[d].run = r => waiter'[d] = waiter[d]
             /\ cancelRun'[d] = r <=> cancelRun[d] = r
  BY DEF RunUnmoved, WaitsFor, RoomInv, WaiterSound
<1>5. Once(c, r)'
  BY <1>1, <1>2, <1>3, <1>4 DEF Once, RunUnmoved
<1>6. Noted(c, r)'
  BY <1>1, <1>2, <1>4 DEF Noted, RunUnmoved
<1>7. Told(c, r)'
  BY <1>1, <1>2, <1>4 DEF Told, RunUnmoved
<1> QED BY <1>5, <1>6, <1>7

\* It is enough to look at the run the step is about.
LEMMA OneRunTold ==
  ASSUME RoomInv, ToldInv, NEW r,
         \A s \in Runs : s \in hurt => s \in hurt',
         \A s \in Runs : s # r /\ s \notin hurt => RunUnmoved(s),
         r \in Runs /\ r \notin hurt' => ToldAbout(r)'
  PROVE  ToldInv'
<1> SUFFICES ASSUME NEW s \in Runs, s \notin hurt' PROVE ToldAbout(s)'
  BY DEF ToldInv
<1>1. s \notin hurt /\ ToldAbout(s)
  BY DEF ToldInv
<1>2. CASE s = r
  BY <1>2
<1>3. CASE s # r
  BY <1>1, <1>3, UnmovedTold
<1> QED BY <1>2, <1>3

\* A connection whose run still streams waits for no other.
LEMMA StreamHoldsOwner ==
  ASSUME Types, RoomInv, NEW r \in Runs, stream[r] \in {"open", "last"},
         NEW s \in Runs, s # r
  PROVE  ~WaitsFor(owner[r], s)
<1> DEFINE c == owner[r]
<1>1. c \in Conns /\ phase[r] \notin {"new", "queued"}
  BY StreamOwner
<1>2. phase[r] \in {"running", "cancelled"}
  BY <1>1 DEF RoomInv, StreamSound, Types, QueueTypes, Phases
<1>3. CASE phase[r] = "running"
  <2>1. PICK d \in Conns : WaitsFor(d, r)
    BY <1>3 DEF RoomInv, Served, Unfinished
  <2>2. d = c
    BY <2>1 DEF RoomInv, WaiterSound, WaitsFor
  <2> QED BY <2>1, <2>2 DEF WaitsFor
<1>4. CASE phase[r] = "cancelled"
  <2>1. cancelRun[c] = r \/ pc[c] \in {"closing", "ended"}
    BY <1>1, <1>4 DEF RoomInv, StreamSound
  <2>2. Endpoint(c)
    BY <1>1 DEF RoomInv
  <2>3. pc[c] # "receive"
    BY <2>1, <2>2, WebSocketAssumption DEF Endpoint
  <2> QED BY <2>2, <2>3 DEF Endpoint, WaitsFor
<1> QED BY <1>2, <1>3, <1>4

\* The steps of a stream change no connection and no run but one.
StreamOnly(r) ==
  /\ UNCHANGED <<conn, activeRun, waiter, owner>>
  /\ \A s \in Runs : s # r =>
       /\ phase'[s] = phase[s] /\ stream'[s] = stream[s] /\ cast'[s] = cast[s]
       /\ reply'[s] = reply[s]
       /\ \A c \in Conns : /\ inbox'[c][s] = inbox[c][s]
                           /\ WaitsFor(c, s) => seen'[c] = seen[c]

\* A step of one stream leaves what was told about every other run as it is.
LEMMA StreamOnlyTold ==
  ASSUME RoomInv, ToldInv, NEW r \in Runs, StreamOnly(r),
         \A s \in Runs : s \in hurt => s \in hurt',
         r \notin hurt' => ToldAbout(r)'
  PROVE  ToldInv'
<1>1. ASSUME NEW s \in Runs, s # r PROVE RunUnmoved(s)
  BY <1>1 DEF StreamOnly, RunUnmoved, conn
<1> QED BY <1>1, OneRunTold

\* An event of the stream: a terminal one has not been sent before, is noted, and goes
\* to every socket of the room, the submitter's among them.
LEMMA HandleEventTold ==
  ASSUME Types, RoomInv, ToldInv, NEW r \in Runs,
         NEW ev \in {"started", "token", "failed", "completed"},
         stream[r] = "open", ev = "failed" => reply[r] = None, HandleEvent(r, ev),
         stream'[r] = IF ev = "completed" THEN "last" ELSE "open",
         \A s \in Runs : s # r => stream'[s] = stream[s],
         UNCHANGED <<queue, conn, activeRun, waiter, owner, inbox, hurt>>
  PROVE  ToldInv'
<1>1. owner[r] \in Conns /\ phase[r] \notin {"new", "completed", "failed"}
  BY StreamOwner DEF RoomInv, StreamSound
<1>2. /\ cast[r] = Idle /\ cast'[r].ev = ev
      /\ cast'[r].left = IF ev = "started" THEN {owner[r]} ELSE room
      /\ reply'[r] = IF ev \in Terminal THEN ev ELSE reply[r]
      /\ seen'[owner[r]] = (seen[owner[r]] \/ ev \in Terminal)
      /\ \A c \in Conns : c # owner[r] => seen'[c] = seen[c]
      /\ \A s \in Runs : s # r => cast'[s] = cast[s] /\ reply'[s] = reply[s]
  BY <1>1, HandleEventOK
<1>3. StreamOnly(r)
  BY <1>2, StreamHoldsOwner DEF StreamOnly, queue
<1>4. ASSUME r \notin hurt PROVE ToldAbout(r)'
  <2> SUFFICES ASSUME NEW c \in Conns PROVE (Once(c, r) /\ Noted(c, r) /\ Told(c, r))'
    BY DEF ToldAbout
  <2>1. Once(c, r) /\ Noted(c, r) /\ Told(c, r)
    BY <1>4 DEF ToldInv, ToldAbout
  <2>2. /\ phase'[r] = phase[r] /\ owner' = owner /\ inbox' = inbox /\ waiter' = waiter
        /\ cancelRun' = cancelRun /\ sock' = sock
    BY DEF queue, conn
  <2>3. (NoDup(c, r)' <=> NoDup(c, r)) /\ \A e : Has(c, r, e)' <=> Has(c, r, e)
    BY <2>2 DEF NoDup, Has
  <2>4. ev \in Terminal <=> ev \in {"failed", "completed"}
    BY DEF Terminal
  <2>5. Once(c, r)'
    <3>1. ev \in Terminal => ~Has(c, r, ev)
      BY <2>1, <2>4 DEF Once
    <3>2. ASSUME NEW d \in Conns, WaitsFor(d, r)', ~seen'[d] PROVE ~Has(c, r, "failed")
      <4>1. WaitsFor(d, r) /\ owner[r] = d
        BY <2>2, <3>2 DEF WaitsFor, RoomInv, WaiterSound
      <4> QED BY <1>2, <2>1, <3>2, <4>1 DEF Once
    <3>3. stream'[r] \in {"none", "open"} /\ reply'[r] = None =>
            ~Has(c, r, "failed") /\ ~Has(c, r, "completed")
      BY <1>2, <2>1, <2>4, WebSocketAssumption DEF Once
    <3>4. stream'[r] \in {"none", "open"} => ~Has(c, r, "completed")
      BY <2>1 DEF Once
    <3>5. \A d \in Conns :
            /\ waiter'[d].run = r /\ waiter'[d].at = "sending" /\ c \in waiter'[d].left =>
                 ~Has(c, r, "failed")
            /\ waiter'[d].run = r \/ cancelRun'[d] = r => ~Has(c, r, "cancelled")
      BY <2>1, <2>2 DEF Once
    <3> QED BY <1>1, <1>2, <2>1, <2>2, <2>3, <3>1, <3>2, <3>3, <3>4, <3>5 DEF Once
  <2>6. Noted(c, r)'
    <3> SUFFICES ASSUME WaitsFor(c, r)
                 PROVE  /\ (cast'[r].ev \in Terminal \/ stream'[r] = "last"
                            \/ phase'[r] = "completed") => seen'[c]
                        /\ seen'[c] /\ sock'[c] = "open" =>
                             \/ inbox'[c][r] # <<>>
                             \/ cast'[r].ev \in Terminal /\ c \in cast'[r].left
      BY <2>2 DEF Noted, WaitsFor
    <3>1. owner[r] = c /\ c \in room
      <4>1. Endpoint(c) /\ WaiterSound(c) /\ waiter[c].run = r /\ waiter[c].at = "waiting"
        BY DEF WaitsFor, RoomInv
      <4>2. owner[r] = c
        BY <4>1 DEF WaiterSound
      <4> QED BY <4>1, <4>2 DEF Endpoint
    <3>2. CASE ev \in Terminal
      BY <1>2, <2>4, <3>1, <3>2
    <3>3. CASE ev \notin Terminal
      <4>1. stream'[r] = "open" /\ (seen'[c] => seen[c])
        <5>1. ev # "completed"
          BY <2>4, <3>3
        <5>2. seen'[c] = (seen[c] \/ ev \in Terminal)
          BY <1>2, <3>1
        <5>3. seen'[c] => seen[c]
          BY <3>3, <5>2
        <5> QED BY <5>1, <5>3
      <4>2. cast[r].ev \notin Terminal
        BY <1>2, IdleSays
      <4> QED BY <1>1, <1>2, <2>1, <2>2, <3>3, <4>1, <4>2 DEF Noted
    <3> QED BY <3>2, <3>3
  <2>7. Told(c, r)'
    BY <2>1, <2>2 DEF Told, WaitsFor
  <2> QED BY <2>5, <2>6, <2>7
<1> QED BY <1>3, <1>4, StreamOnlyTold

\* Peer c of the broadcast is sent the event.
LEMMA StreamSendsTold ==
  ASSUME Types, RoomInv, ToldInv, NEW r \in Runs, NEW c \in Conns, StreamSends(r, c)
  PROVE  ToldInv'
<1> DEFINE ev == cast[r].ev
<1>1. /\ c \in cast[r].left /\ cast'[r].left = cast[r].left \ {c}
      /\ cast'[r] = Idle \/ cast'[r].ev = ev
      /\ \A s \in Runs : s # r => cast'[s] = cast[s]
  BY CastOK DEF StreamSends
<1>2. UNCHANGED <<queue, conn, activeRun, waiter, seen, owner, stream, reply, hurt>>
  BY DEF StreamSends
<1>3. /\ stream[r] \in {"open", "last"} /\ phase[r] \in {"running", "cancelled"}
  BY <1>1, IdleSays, CastGoes
<1>4. /\ \A d \in Conns, s \in Runs : d # c \/ s # r => inbox'[d][s] = inbox[d][s]
      /\ \A e : Has(c, r, e)' <=> Has(c, r, e) \/ (sock[c] = "open" /\ ev \in Terminal /\ e = ev)
      /\ inbox[c][r] # <<>> \/ (sock[c] = "open" /\ ev \in Terminal) => inbox'[c][r] # <<>>
      /\ NoDup(c, r) /\ ~Has(c, r, ev) => NoDup(c, r)'
  BY SentInbox DEF StreamSends, Types
<1>5. ev \notin Terminal => inbox'[c][r] = inbox[c][r]
  BY SentOK DEF StreamSends, Types
<1>6. StreamOnly(r)
  BY <1>1, <1>2, <1>4 DEF StreamOnly, queue
<1>7. ASSUME r \notin hurt PROVE ToldAbout(r)'
  <2> SUFFICES ASSUME NEW d \in Conns PROVE (Once(d, r) /\ Noted(d, r) /\ Told(d, r))'
    BY DEF ToldAbout
  <2>1. Once(d, r) /\ Noted(d, r) /\ Told(d, r)
    BY <1>7 DEF ToldInv, ToldAbout
  <2>2. /\ phase'[r] = phase[r] /\ owner' = owner /\ waiter' = waiter /\ seen' = seen
        /\ cancelRun' = cancelRun /\ sock' = sock /\ stream' = stream /\ reply' = reply
    BY <1>2 DEF queue, conn
  <2>3. cast'[r].ev \in Terminal => cast'[r].ev = ev
    BY <1>1, IdleSays
  <2>4. Once(d, r)'
    <3>1. CASE d = c
      <4>1. NoDup(c, r)'
        <5>1. CASE ev \in Terminal
          BY <1>1, <1>4, <2>1, <3>1, <5>1 DEF Once
        <5>2. CASE ev \notin Terminal
          BY <1>5, <2>1, <3>1, <5>2 DEF Once, NoDup
        <5> QED BY <5>1, <5>2
      <4>2. ev # "cancelled" /\ (stream[r] = "open" => ev # "completed")
            /\ (stream[r] = "open" /\ reply[r] = None => ev # "failed")
        <5>1. ev \in {None, "started", "token", "failed", "completed"}
          BY DEF Types, EventTypes, Casts
        <5> QED BY <5>1, WebSocketAssumption DEF RoomInv, StreamSound
      <4>3. ASSUME NEW w \in Conns, WaitsFor(w, r), ~seen[w], ev = "failed" PROVE FALSE
        <5>1. Noted(w, r)
          BY <1>7 DEF ToldInv, ToldAbout
        <5> QED BY <4>3, <5>1 DEF Noted, Terminal
      <4>4. ASSUME NEW w \in Conns, waiter[w].run = r, waiter[w].at = "sending" PROVE FALSE
        BY <1>3, <4>4 DEF RoomInv, WaiterSound
      <4>5. ASSUME NEW w \in Conns
            PROVE  /\ WaitsFor(w, r)' /\ ~seen'[w] => ~Has(c, r, "failed")'
                   /\ ~(waiter'[w].run = r /\ waiter'[w].at = "sending")
                   /\ waiter'[w].run = r \/ cancelRun'[w] = r => ~Has(c, r, "cancelled")'
        BY <1>4, <2>1, <2>2, <3>1, <4>2, <4>3, <4>4 DEF Once, WaitsFor
      <4>6. /\ stream'[r] \in {"none", "open"} => ~Has(c, r, "completed")'
            /\ stream'[r] \in {"none", "open"} /\ reply'[r] = None => ~Has(c, r, "failed")'
        BY <1>3, <1>4, <2>1, <2>2, <3>1, <4>2 DEF Once
      <4>7. phase'[r] # "new" /\ c \notin cast'[r].left
        BY <1>1, <1>3, <2>2
      <4> QED BY <3>1, <4>1, <4>5, <4>6, <4>7 DEF Once
    <3>2. CASE d # c
      <4>1. (NoDup(d, r)' <=> NoDup(d, r)) /\ \A e : Has(d, r, e)' <=> Has(d, r, e)
        BY <1>4, <3>2 DEF NoDup, Has
      <4>2. inbox'[d][r] = inbox[d][r]
        BY <1>4, <3>2
      <4> QED BY <1>1, <2>1, <2>2, <2>3, <4>1, <4>2 DEF Once, WaitsFor
    <3> QED BY <3>1, <3>2
  <2>5. inbox[d][r] # <<>> => inbox'[d][r] # <<>>
    BY <1>4
  <2>6. Noted(d, r)'
    <3>1. cast'[r].ev \in Terminal => ev \in Terminal
      BY <2>3
    <3>2. sock[d] = "open" /\ ev \in Terminal /\ d \in cast[r].left =>
            \/ inbox'[d][r] # <<>>
            \/ cast'[r].ev \in Terminal /\ d \in cast'[r].left
      <4>1. CASE d = c
        BY <1>4, <4>1
      <4>2. CASE d # c
        BY <1>1, <4>2, IdleSays
      <4> QED BY <4>1, <4>2
    <3> QED BY <2>1, <2>2, <2>5, <3>1, <3>2 DEF Noted, WaitsFor
  <2>7. Told(d, r)'
    BY <2>1, <2>2, <2>5 DEF Told, WaitsFor
  <2> QED BY <2>4, <2>6, <2>7
<1> QED BY <1>2, <1>6, <1>7, StreamOnlyTold

\* A stream goes on or stops, or the run ends, without a word to anybody.
LEMMA SilentTold ==
  ASSUME RoomInv, ToldInv, NEW r \in Runs,
         UNCHANGED <<conn, activeRun, waiter, seen, owner, inbox>>,
         \A s \in Runs : s \in hurt => s \in hurt',
         \A s \in Runs : s # r =>
           /\ phase'[s] = phase[s] /\ stream'[s] = stream[s] /\ cast'[s] = cast[s]
           /\ reply'[s] = reply[s],
         phase[r] # "new", phase'[r] # "new",
         cast'[r] = cast[r] \/ cast'[r] = Idle,
         stream'[r] \in {"none", "open"} => stream[r] \in {"none", "open"} /\ reply'[r] = reply[r],
         r \notin hurt' => \A c \in Conns : WaitsFor(c, r) =>
           /\ cast[r].ev \in Terminal => cast[r].left = {} \/ cast'[r] = cast[r]
           /\ stream'[r] = "last" \/ phase'[r] = "completed" =>
                stream[r] = "last" \/ phase[r] = "completed"
  PROVE  ToldInv'
<1>1. StreamOnly(r)
  BY DEF StreamOnly
<1>2. ASSUME r \notin hurt' PROVE ToldAbout(r)'
  <2> SUFFICES ASSUME NEW c \in Conns PROVE (Once(c, r) /\ Noted(c, r) /\ Told(c, r))'
    BY DEF ToldAbout
  <2>1. Once(c, r) /\ Noted(c, r) /\ Told(c, r)
    BY <1>2 DEF ToldInv, ToldAbout
  <2>2. /\ owner' = owner /\ inbox' = inbox /\ waiter' = waiter /\ seen' = seen
        /\ cancelRun' = cancelRun /\ sock' = sock
    BY DEF conn
  <2>3. (NoDup(c, r)' <=> NoDup(c, r)) /\ \A e : Has(c, r, e)' <=> Has(c, r, e)
    BY <2>2 DEF NoDup, Has
  <2>4. cast'[r].ev \in Terminal => cast'[r] = cast[r]
    BY IdleSays
  <2>5. Once(c, r)'
    BY <2>1, <2>2, <2>3, <2>4 DEF Once, WaitsFor
  <2>6. Noted(c, r)'
    BY <1>2, <2>1, <2>2, <2>4 DEF Noted, WaitsFor
  <2>7. Told(c, r)'
    BY <2>1, <2>2 DEF Told, WaitsFor
  <2> QED BY <2>5, <2>6, <2>7
<1> QED BY <1>1, <1>2, StreamOnlyTold

\* A broadcast ends only when it has told everybody.
LEMMA StreamSendsNobodyTold ==
  ASSUME Types, RoomInv, ToldInv, NEW r \in Runs, StreamSendsNobody(r)
  PROVE  ToldInv'
<1>1. /\ cast[r] # Idle /\ cast[r].left = {} /\ cast'[r] = Idle
      /\ \A s \in Runs : s # r => cast'[s] = cast[s]
      /\ UNCHANGED <<queue, conn, activeRun, waiter, seen, owner, stream, reply, inbox, hurt>>
  BY DEF StreamSendsNobody, Types, EventTypes
<1>2. phase[r] # "new"
  BY <1>1, CastGoes
<1> QED BY <1>1, <1>2, SilentTold DEF queue

\* A broadcast that meets a dead socket is outside the claim from then on.
LEMMA StreamSendRaisesTold ==
  ASSUME Types, RoomInv, ToldInv, NEW r \in Runs, NEW c \in Conns, StreamSendRaises(r, c)
  PROVE  ToldInv'
<1>1. /\ cast[r] # Idle /\ cast'[r] = Idle /\ stream'[r] = "stopped" /\ r \in hurt'
      /\ \A s \in Runs : s # r =>
           cast'[s] = cast[s] /\ stream'[s] = stream[s] /\ reply'[s] = reply[s]
      /\ \A s \in Runs : s \in hurt => s \in hurt'
      /\ UNCHANGED <<queue, conn, activeRun, waiter, seen, owner, inbox>>
  BY IdleSays DEF StreamSendRaises, Types, EventTypes
<1>2. phase[r] # "new"
  BY <1>1, CastGoes
<1> QED BY <1>1, <1>2, SilentTold DEF queue

\* The waiter tells the failure of a stream that raises.
LEMMA StreamRaisesTold ==
  ASSUME Types, RoomInv, ToldInv, NEW r \in Runs, StreamRaises(r)
  PROVE  ToldInv'
<1>1. /\ stream[r] = "open" /\ stream'[r] = "stopped"
      /\ \A s \in Runs : s # r => stream'[s] = stream[s] /\ reply'[s] = reply[s]
      /\ UNCHANGED <<queue, conn, activeRun, waiter, seen, owner, cast, inbox, hurt>>
  BY DEF StreamRaises, Types, EventTypes
<1>2. phase[r] # "new"
  BY <1>1, StreamOwner
<1> QED BY <1>1, <1>2, SilentTold DEF queue

\* The waiter of a cancelled run does not wait.
LEMMA StreamCancelledTold ==
  ASSUME Types, RoomInv, ToldInv, NEW r \in Runs, StreamCancelled(r)
  PROVE  ToldInv'
<1>1. /\ phase[r] = "cancelled" /\ stream'[r] = "stopped" /\ cast'[r] = Idle
      /\ \A s \in Runs : s # r => stream'[s] = stream[s] /\ cast'[s] = cast[s]
      /\ UNCHANGED <<queue, conn, activeRun, waiter, seen, owner, reply, inbox, hurt>>
  BY DEF StreamCancelled, Types, EventTypes
<1>2. \A c \in Conns : ~WaitsFor(c, r)
  BY <1>1 DEF WaitsFor, RoomInv, WaiterSound
<1> QED BY <1>1, <1>2, SilentTold DEF queue

\* Nothing has been told about a run that starts.
LEMMA StartRunTold ==
  ASSUME Types, RoomInv, ToldInv, NEW r \in Runs, StartRun(r)
  PROVE  ToldInv'
<1>1. OnlyRun(r) /\ r \in line[Room] /\ phase'[r] = "running"
  BY StartOK DEF StartRun, Types
<1>2. phase[r] = "queued" /\ stream[r] = "none"
  BY <1>1 DEF RoomInv, Served, StreamSound
<1>3. /\ stream'[r] = "open" /\ \A s \in Runs : s # r => stream'[s] = stream[s]
      /\ UNCHANGED <<conn, activeRun, waiter, seen, owner, cast, reply, inbox, hurt>>
  BY DEF StartRun, Types, EventTypes
<1> QED BY <1>1, <1>2, <1>3, SilentTold DEF OnlyRun

\* A run is completed only after the last event of its stream.
LEMMA ExecuteEndsTold ==
  ASSUME Types, RoomInv, ToldInv, NEW r \in Runs, ExecuteEnds(r)
  PROVE  ToldInv'
<1>1. /\ OnlyRun(r)
      /\ \/ phase[r] = "running" /\ phase'[r] = ResultOf(r)
         \/ phase[r] = "cancelled" /\ phase'[r] = "cancelled"
      /\ stream[r] = "last" \/ reply[r] = "raised" \/ phase[r] = "cancelled"
      /\ ResultOf(r) \in {"completed", "failed"}
  BY ExecuteEndsRoom
<1>2. /\ stream'[r] = "stopped"
      /\ \A s \in Runs : s # r => stream'[s] = stream[s] /\ reply'[s] = reply[s]
      /\ UNCHANGED <<conn, activeRun, waiter, seen, owner, cast, inbox, hurt>>
  BY DEF ExecuteEnds, Types, EventTypes
<1>3. phase'[r] = "completed" => stream[r] = "last"
  <2>1. reply[r] = "raised" => ResultOf(r) = "failed"
    BY WebSocketAssumption DEF ResultOf
  <2> QED BY <1>1, <2>1
<1>4. phase[r] # "new" /\ phase'[r] # "new"
  BY <1>1
<1> QED BY <1>1, <1>2, <1>3, <1>4, SilentTold DEF OnlyRun

-----------------------------------------------------------------------------
(***************************************************************************)
(* What the peers are told: the steps of a waiter.                         *)
(***************************************************************************)
\* Nothing but the waiter of c changes, and it has no other run than r.
LEMMA WaiterTold ==
  ASSUME RoomInv, ToldInv, NEW c \in Conns, NEW r \in Runs, waiter[c].run = r, OnlyWaiter(c),
         waiter'[c].run \in {None, r},
         UNCHANGED <<queue, conn, seen, owner, stream, cast, reply>>,
         \A d \in Conns, s \in Runs : s # r => inbox'[d][s] = inbox[d][s],
         \A s \in Runs : s \in hurt => s \in hurt',
         r \notin hurt' => ToldAbout(r)'
  PROVE  ToldInv'
<1>1. ASSUME NEW s \in Runs, s # r PROVE RunUnmoved(s)
  <2>1. ASSUME NEW d \in Conns
        PROVE  waiter'[d] = waiter[d] \/ (waiter[d].run # s /\ waiter'[d].run # s)
    BY <1>1, WebSocketAssumption DEF OnlyWaiter
  <2> QED BY <1>1, <2>1 DEF RunUnmoved, queue, conn
<1> QED BY <1>1, OneRunTold

\* A waiter goes, when its submitter has been told or the run is being cancelled.
LEMMA WaiterGoneTold ==
  ASSUME RoomInv, ToldInv, NEW c \in Conns, NEW r \in Runs, waiter[c].run = r, OnlyWaiter(c),
         waiter'[c].run = None,
         UNCHANGED <<queue, conn, seen, owner, stream, cast, reply, inbox>>,
         \A s \in Runs : s \in hurt => s \in hurt',
         r \notin hurt' /\ sock[c] = "open" => inbox[c][r] # <<>> \/ cancelRun[c] = r
  PROVE  ToldInv'
<1>1. ASSUME r \notin hurt' PROVE ToldAbout(r)'
  <2> SUFFICES ASSUME NEW d \in Conns PROVE (Once(d, r) /\ Noted(d, r) /\ Told(d, r))'
    BY DEF ToldAbout
  <2>1. Once(d, r) /\ Told(d, r)
    BY <1>1 DEF ToldInv, ToldAbout
  <2>2. \A e \in Conns : waiter'[e].run # r
    <3> SUFFICES ASSUME NEW e \in Conns, waiter'[e].run = r PROVE FALSE
      OBVIOUS
    <3>1. e # c
      BY WebSocketAssumption
    <3>2. waiter[e].run = r
      BY <3>1 DEF OnlyWaiter
    <3> QED BY <3>1, <3>2, OneWaiter
  <2>3. \A e : Has(d, r, e)' <=> Has(d, r, e)
    BY DEF Has
  <2>4. Once(d, r)'
    BY <2>1, <2>2, <2>3 DEF Once, NoDup, WaitsFor, queue, conn
  <2>5. Noted(d, r)'
    BY <2>2 DEF Noted, WaitsFor
  <2>6. owner[r] = c
    BY DEF RoomInv, WaiterSound
  <2>7. Told(d, r)'
    BY <1>1, <2>1, <2>6 DEF Told, conn
  <2> QED BY <2>4, <2>5, <2>7
<1> QED BY <1>1, WaiterTold

\* A waiter of a failed run sends something to the room, or has sent it.
LEMMA WaiterSendingTold ==
  ASSUME Types, RoomInv, ToldInv, NEW c \in Conns, NEW r \in Runs, waiter[c].run = r, OnlyWaiter(c),
         waiter'[c].run = r, waiter'[c].at = "sending", phase[r] = "failed",
         UNCHANGED <<queue, conn, seen, owner, stream, cast, reply, hurt>>,
         \A d \in Conns, s \in Runs : s # r => inbox'[d][s] = inbox[d][s],
         \A d \in Conns : NoDup(d, r) => NoDup(d, r)' \/ r \in hurt,
         \A d \in Conns : \A e : e # "failed" => (Has(d, r, e)' <=> Has(d, r, e)),
         r \notin hurt => \A d \in Conns : d \in waiter'[c].left => ~Has(d, r, "failed")',
         r \notin hurt /\ sock[c] = "open" => inbox'[c][r] # <<>> \/ c \in waiter'[c].left
  PROVE  ToldInv'
<1>1. ASSUME r \notin hurt' PROVE ToldAbout(r)'
  <2> SUFFICES ASSUME NEW d \in Conns PROVE (Once(d, r) /\ Noted(d, r) /\ Told(d, r))'
    BY DEF ToldAbout
  <2>1. Once(d, r)
    BY <1>1 DEF ToldInv, ToldAbout
  <2>2. ASSUME NEW e \in Conns, waiter'[e].run = r PROVE e = c
    <3>1. CASE e # c
      <4>1. waiter[e].run = r
        BY <2>2, <3>1 DEF OnlyWaiter
      <4> QED BY <4>1, OneWaiter
    <3> QED BY <3>1
  <2>3. stream[r] = "stopped" /\ cast[r] = Idle /\ owner[r] = c
    BY DEF RoomInv, StreamSound, WaiterSound
  <2>4. /\ phase' = phase /\ stream' = stream /\ cast' = cast /\ owner' = owner
        /\ cancelRun' = cancelRun /\ sock' = sock
    BY DEF queue, conn
  <2>5. \A e \in Conns : ~WaitsFor(e, r)'
    BY <2>2 DEF WaitsFor
  <2>6. \A e \in Conns : waiter'[e].run = r \/ cancelRun'[e] = r => ~Has(d, r, "cancelled")'
    BY <2>1, <2>2, <2>4 DEF Once
  <2>7. \A e \in Conns : waiter'[e].run = r /\ d \in waiter'[e].left => ~Has(d, r, "failed")'
    BY <1>1, <2>2
  <2>8. NoDup(d, r)'
    BY <1>1, <2>1 DEF Once
  <2>9. Once(d, r)'
    BY <2>3, <2>4, <2>5, <2>6, <2>7, <2>8, IdleSays DEF Once
  <2>10. Noted(d, r)'
    BY <2>5 DEF Noted
  <2>11. Told(d, r)'
    <3>1. Told(c, r)
      BY <1>1 DEF ToldInv, ToldAbout
    <3> QED BY <1>1, <2>3, <2>4, <3>1 DEF Told
  <2> QED BY <2>9, <2>10, <2>11
<1> QED BY <1>1, WaiterTold

\* A waiter that wakes and finds its run over goes if the stream has told the submitter.
LEMMA WaiterWakesTold ==
  ASSUME Types, RoomInv, ToldInv, NEW c \in Conns, WaiterWakes(c)
  PROVE  ToldInv'
<1>1. PICK r \in Runs : r = waiter[c].run
  BY WaiterWakesRoom
<1>2. /\ OnlyWaiter(c)
      /\ \/ waiter'[c].run = None /\ waiter'[c].at = "none" /\ (phase[r] = "completed" \/ seen[c])
         \/ waiter'[c].run = r /\ waiter'[c].at = "sending"
            /\ waiter'[c].left = room /\ ~seen[c] /\ phase[r] = "failed"
  BY <1>1, WaiterWakesRoom
<1>3. WaitsFor(c, r) /\ phase[r] \in {"completed", "failed"}
  BY <1>1 DEF WaiterWakes, WaitsFor, RoomInv, WaiterSound, Terminal
<1>4. stream[r] = "stopped" /\ cast[r].ev \notin Terminal /\ c \in room
  <2>1. Endpoint(c) /\ StreamSound(r)
    BY DEF RoomInv
  <2> QED BY <1>3, <2>1, IdleSays DEF Endpoint, StreamSound, WaitsFor
<1>5. UNCHANGED <<queue, conn, seen, owner, stream, cast, reply, inbox, hurt>>
  BY DEF WaiterWakes, events
<1>6. CASE phase[r] = "completed" \/ seen[c]
  <2>1. ASSUME r \notin hurt, sock[c] = "open" PROVE inbox[c][r] # <<>>
    <3>1. Noted(c, r)
      BY <2>1 DEF ToldInv, ToldAbout
    <3> QED BY <1>3, <1>4, <1>6, <2>1, <3>1 DEF Noted
  <2>2. waiter'[c].run = None
    BY <1>2, <1>6
  <2> QED BY <1>1, <1>2, <1>5, <2>1, <2>2, WaiterGoneTold
<1>7. CASE phase[r] = "failed" /\ ~seen[c]
  <2>1. waiter'[c].run = r /\ waiter'[c].at = "sending" /\ waiter'[c].left = room
    BY <1>2, <1>3, <1>7
  <2>2. \A d \in Conns : (NoDup(d, r)' <=> NoDup(d, r)) /\ \A e : Has(d, r, e)' <=> Has(d, r, e)
    BY <1>5 DEF NoDup, Has
  <2>3. r \notin hurt => \A d \in Conns : ~Has(d, r, "failed")
    BY <1>3, <1>7 DEF ToldInv, ToldAbout, Once
  <2> QED BY <1>1, <1>2, <1>4, <1>5, <1>7, <2>1, <2>2, <2>3, WaiterSendingTold
<1> QED BY <1>3, <1>6, <1>7

\* A waiter tells each connection once.
LEMMA WaiterSendsTold ==
  ASSUME Types, RoomInv, ToldInv, NEW c \in Conns, NEW d \in Conns, WaiterSends(c, d)
  PROVE  ToldInv'
<1>1. PICK r \in Runs : r = waiter[c].run
  BY WaiterSendsRoom
<1>2. /\ OnlyWaiter(c) /\ waiter'[c].run = r /\ waiter'[c].at = waiter[c].at
      /\ waiter'[c].left = waiter[c].left \ {d} /\ waiter[c].ev = "failed"
  BY <1>1, WaiterSendsRoom
<1>3. /\ UNCHANGED <<queue, conn, activeRun, seen, owner, stream, cast, reply, hurt>>
      /\ Sent(d, r, "failed") /\ waiter[c].at \in {"sending", "reporting"} /\ d \in waiter[c].left
  BY <1>1, <1>2 DEF WaiterSends
<1>4. /\ \A b \in Conns, s \in Runs : b # d \/ s # r => inbox'[b][s] = inbox[b][s]
      /\ \A e : Has(d, r, e)' <=> Has(d, r, e) \/ (sock[d] = "open" /\ "failed" \in Terminal /\ e = "failed")
      /\ inbox[d][r] # <<>> \/ (sock[d] = "open" /\ "failed" \in Terminal) => inbox'[d][r] # <<>>
      /\ NoDup(d, r) /\ ~Has(d, r, "failed") => NoDup(d, r)'
  BY <1>3, SentInbox DEF Types
<1>5. \A b \in Conns : b # d =>
        (NoDup(b, r)' <=> NoDup(b, r)) /\ \A e : Has(b, r, e)' <=> Has(b, r, e)
  BY <1>4 DEF NoDup, Has
<1>6. \A b \in Conns, s \in Runs : s # r => inbox'[b][s] = inbox[b][s]
  BY <1>4
<1>7. CASE waiter[c].at = "sending"
  <2>1. phase[r] = "failed"
    BY <1>1, <1>7 DEF RoomInv, WaiterSound
  <2>2. r \notin hurt => \A b \in Conns : b \in waiter[c].left => ~Has(b, r, "failed")
    BY <1>1, <1>7 DEF ToldInv, ToldAbout, Once
  <2>3. \A b \in Conns : NoDup(b, r) => NoDup(b, r)' \/ r \in hurt
    BY <1>3, <1>4, <1>5, <2>2
  <2>4. \A b \in Conns : \A e : e # "failed" => (Has(b, r, e)' <=> Has(b, r, e))
    BY <1>4, <1>5
  <2>5. r \notin hurt => \A b \in Conns : b \in waiter'[c].left => ~Has(b, r, "failed")'
    BY <1>2, <1>5, <2>2
  <2>6. r \notin hurt /\ sock[c] = "open" => inbox'[c][r] # <<>> \/ c \in waiter'[c].left
    <3> SUFFICES ASSUME r \notin hurt, sock[c] = "open"
                 PROVE  inbox'[c][r] # <<>> \/ c \in waiter'[c].left
      OBVIOUS
    <3>1. Told(c, r) /\ owner[r] = c /\ pc[c] = "receive"
      BY <1>1, <1>7 DEF ToldInv, ToldAbout, RoomInv, WaiterSound, Endpoint
    <3>2. cancelRun[c] # r
      BY <1>1, <3>1, WebSocketAssumption DEF RoomInv, Endpoint
    <3>3. inbox[c][r] # <<>> \/ c \in waiter[c].left
      BY <1>7, <3>1, <3>2 DEF Told, WaitsFor
    <3>4. CASE c = d
      BY <1>3, <1>4, <3>4 DEF Terminal
    <3>5. CASE c # d
      BY <1>2, <1>4, <3>3, <3>5
    <3> QED BY <3>4, <3>5
  <2> QED BY <1>1, <1>2, <1>3, <1>6, <1>7, <2>1, <2>3, <2>4, <2>5, <2>6, WaiterSendingTold
<1>8. CASE waiter[c].at = "reporting"
  <2>1. r \in hurt
    BY <1>1, <1>8 DEF RoomInv, WaiterSound
  <2> QED BY <1>1, <1>2, <1>3, <1>6, <2>1, WaiterTold
<1> QED BY <1>3, <1>7, <1>8

\* A waiter that meets a dead socket takes its run outside the claim.
LEMMA WaiterSendRaisesTold ==
  ASSUME Types, RoomInv, ToldInv, NEW c \in Conns, NEW d \in Conns, WaiterSendRaises(c, d)
  PROVE  ToldInv'
<1>1. PICK r \in Runs : r = waiter[c].run
  BY WaiterSendRaisesRoom
<1>2. OnlyWaiter(c) /\ r \in hurt' /\ waiter'[c].run \in {None, r}
  BY <1>1, WaiterSendRaisesRoom
<1>3. /\ UNCHANGED <<queue, conn, seen, owner, stream, cast, reply, inbox>>
      /\ \A s \in Runs : s \in hurt => s \in hurt'
  BY DEF WaiterSendRaises
<1> QED BY <1>1, <1>2, <1>3, WaiterTold

\* A waiter ends when it has told everybody or was cancelled with its run.
LEMMA WaiterEndsTold ==
  ASSUME Types, RoomInv, ToldInv, NEW c \in Conns, WaiterEnds(c)
  PROVE  ToldInv'
<1>1. PICK r \in Runs : r = waiter[c].run
  BY WaiterEndsRoom
<1>2. OnlyWaiter(c) /\ waiter'[c].run = None
  BY <1>1, WaiterEndsRoom
<1>3. /\ UNCHANGED <<queue, conn, seen, owner, stream, cast, reply, inbox, hurt>>
      /\ \/ waiter[c].at = "sending" /\ waiter[c].left = {}
         \/ waiter[c].at = "reporting"
         \/ waiter[c].at = "cancelled"
  BY DEF WaiterEnds, events
<1>4. ASSUME r \notin hurt, sock[c] = "open" PROVE inbox[c][r] # <<>> \/ cancelRun[c] = r
  <2>1. Told(c, r) /\ WaiterSound(c)
    BY <1>4 DEF ToldInv, ToldAbout, RoomInv
  <2>2. owner[r] = c /\ (waiter[c].at = "reporting" => r \in hurt)
    BY <1>1, <2>1 DEF WaiterSound
  <2> QED BY <1>3, <1>4, <2>1, <2>2 DEF Told, WaitsFor
<1> QED BY <1>1, <1>2, <1>3, <1>4, WaiterGoneTold

-----------------------------------------------------------------------------
(***************************************************************************)
(* What the peers are told: the steps of an endpoint.                      *)
(***************************************************************************)
LEMMA ConnectTold ==
  ASSUME Types, RoomInv, ToldInv, NEW c \in Conns, Connect(c)
  PROVE  ToldInv'
<1> SUFFICES ASSUME NEW r \in Runs, r \notin hurt' PROVE ToldAbout(r)'
  BY DEF ToldInv
<1>1. /\ UNCHANGED <<queue, cancelRun, activeRun, waiter, seen, events>> /\ sock[c] = "new"
      /\ \A d \in Conns : d # c => sock'[d] = sock[d]
  BY DEF Connect, Types, ConnTypes
<1>2. ToldAbout(r)
  BY <1>1 DEF ToldInv, events
<1>3. owner[r] # c
  BY <1>1, <1>2 DEF ToldAbout, Told
<1>4. RunUnmoved(r)
  BY <1>1, <1>3 DEF RunUnmoved, queue, events
<1> QED BY <1>2, <1>4, UnmovedTold

\* An endpoint that leaves has nobody to tell any more.
LEMMA LeavesTold ==
  ASSUME Types, RoomInv, ToldInv, NEW c \in Conns, Leaves(c)
  PROVE  ToldInv'
<1> SUFFICES ASSUME NEW r \in Runs, r \notin hurt' PROVE ToldAbout(r)'
  BY DEF ToldInv
<1>1. UNCHANGED <<queue, sock, cancelRun, activeRun, waiter, seen, events>>
  BY DEF Leaves
<1>2. ToldAbout(r)
  BY <1>1 DEF ToldInv, events
<1>3. RunUnmoved(r)
  BY <1>1 DEF RunUnmoved, queue, events
<1> QED BY <1>2, <1>3, UnmovedTold

\* A peer that has gone has no inbox, and nobody has to tell it anything.
LEMMA PeerGoesTold ==
  ASSUME Types, RoomInv, ToldInv, NEW c \in Conns, PeerGoes(c)
  PROVE  ToldInv'
<1> SUFFICES ASSUME NEW r \in Runs, r \notin hurt', NEW d \in Conns
             PROVE  (Once(d, r) /\ Noted(d, r) /\ Told(d, r))'
  BY DEF ToldInv, ToldAbout
<1>1. /\ sock'[c] = "dead" /\ inbox'[c][r] = <<>>
      /\ \A e \in Conns : e # c => sock'[e] = sock[e] /\ inbox'[e] = inbox[e]
      /\ UNCHANGED <<queue, room, pc, cancelRun, activeRun, waiter, seen,
                     owner, stream, cast, reply, hurt>>
  BY PeerGoesRoom DEF PeerGoes
<1>2. Once(d, r) /\ Noted(d, r) /\ Told(d, r)
  BY <1>1 DEF ToldInv, ToldAbout
<1>3. CASE d = c
  <2>1. NoDup(d, r)' /\ \A e : ~Has(d, r, e)'
    BY <1>1, <1>3 DEF NoDup, Has, Occurs
  <2>2. Once(d, r)'
    BY <1>1, <1>3, <2>1 DEF Once
  <2>3. Noted(d, r)'
    BY <1>1, <1>2, <1>3 DEF Noted, WaitsFor, queue
  <2> QED BY <1>1, <1>3, <2>2, <2>3 DEF Told
<1>4. CASE d # c
  <2>1. (NoDup(d, r)' <=> NoDup(d, r)) /\ (\A e : Has(d, r, e)' <=> Has(d, r, e))
        /\ inbox'[d][r] = inbox[d][r]
    BY <1>1, <1>4 DEF NoDup, Has
  <2>2. Once(d, r)'
    BY <1>1, <1>2, <2>1 DEF Once, WaitsFor, queue
  <2>3. Noted(d, r)'
    BY <1>1, <1>2, <1>4, <2>1 DEF Noted, WaitsFor, queue
  <2>4. Told(d, r)'
    BY <1>1, <1>2, <1>4, <2>1 DEF Told, WaitsFor
  <2> QED BY <2>2, <2>3, <2>4
<1> QED BY <1>3, <1>4

\* A run that is new has told nobody anything.
LEMMA PromptTold ==
  ASSUME Types, RoomInv, ToldInv, NEW c \in Conns, NEW r \in Runs, Prompt(c, r)
  PROVE  ToldInv'
<1>1. /\ OnlyRun(r) /\ OnlyWaiter(c) /\ phase[r] = "new"
      /\ phase'[r] = "queued" /\ waiter[c].at = "none" /\ owner'[r] = c
      /\ waiter'[c].run = r /\ waiter'[c].at = "waiting" /\ ~seen'[c]
      /\ \A d \in Conns : d # c => seen'[d] = seen[d]
      /\ \A s \in Runs : s # r => owner'[s] = owner[s]
  BY PromptRoom
<1>2. UNCHANGED <<sock, room, pc, cancelRun, stream, cast, reply, inbox, hurt>> /\ sock[c] = "open"
  BY DEF Prompt, conn
<1>3. waiter[c].run = None
  BY <1>1 DEF RoomInv, Endpoint
<1>4. ASSUME NEW s \in Runs, s # r PROVE RunUnmoved(s)
  <2>1. ASSUME NEW d \in Conns
        PROVE  /\ waiter'[d] = waiter[d] \/ (waiter[d].run # s /\ waiter'[d].run # s)
               /\ WaitsFor(d, s) => seen'[d] = seen[d]
    BY <1>1, <1>3, <1>4, WebSocketAssumption DEF OnlyWaiter, WaitsFor
  <2> QED BY <1>1, <1>2, <1>4, <2>1 DEF RunUnmoved, OnlyRun
<1>5. ASSUME r \notin hurt' PROVE ToldAbout(r)'
  <2> SUFFICES ASSUME NEW d \in Conns PROVE (Once(d, r) /\ Noted(d, r) /\ Told(d, r))'
    BY DEF ToldAbout
  <2>1. inbox[d][r] = <<>> /\ inbox'[d][r] = <<>>
    BY <1>1, <1>2, <1>5 DEF ToldInv, ToldAbout, Once
  <2>2. NoDup(d, r)' /\ \A e : ~Has(d, r, e)'
    BY <2>1 DEF NoDup, Has, Occurs
  <2>3. Once(d, r)'
    BY <2>1, <2>2 DEF Once
  <2>4. stream'[r] = "none" /\ cast'[r] = Idle
    BY <1>1, <1>2 DEF RoomInv, StreamSound
  <2>5. WaitsFor(d, r)' => d = c
    <3> SUFFICES ASSUME WaitsFor(d, r)', d # c PROVE FALSE
      OBVIOUS
    <3>1. waiter[d].run = r
      BY <1>1 DEF OnlyWaiter, WaitsFor
    <3>2. owner[r] = d /\ Served(r)
      BY <3>1 DEF RoomInv, WaiterSound
    <3> QED BY <1>1, <3>2, WebSocketAssumption DEF Served
  <2>6. Noted(d, r)'
    BY <1>1, <2>4, <2>5, IdleSays DEF Noted
  <2>7. WaitsFor(c, r)'
    BY <1>1 DEF WaitsFor
  <2>8. Told(d, r)'
    BY <1>1, <1>2, <2>7 DEF Told
  <2> QED BY <2>3, <2>6, <2>8
<1> QED BY <1>2, <1>4, <1>5, OneRunTold

\* A cancelled run is the one whose cancel command is being answered, or its peer has gone.
LEMMA EndpointCancelsTold ==
  ASSUME Types, RoomInv, ToldInv, NEW c \in Conns, EndpointCancels(c)
  PROVE  ToldInv'
<1>1. CancelEffect(c)
  BY EndpointCancelsOK
<1>2. /\ UNCHANGED <<sock, room, activeRun, seen, events>> /\ pc[c] = "receive"
      /\ cancelRun'[c] = IF pc'[c] = "cancelling" THEN activeRun[c] ELSE None
      /\ \A d \in Conns : d # c => cancelRun'[d] = cancelRun[d]
      /\ sock[c] = "open" => pc'[c] = "cancelling"
  BY DEF EndpointCancels
<1>3. activeRun[c] = waiter[c].run /\ cancelRun[c] = None
  BY <1>2 DEF RoomInv, Endpoint
<1>4. ASSUME NEW s \in Runs, waiter[c].run # s PROVE RunUnmoved(s)
  <2>1. ASSUME NEW d \in Conns
        PROVE  waiter'[d] = waiter[d] \/ (waiter[d].run # s /\ waiter'[d].run # s)
    BY <1>1, <1>4 DEF CancelEffect, OnlyWaiter
  <2>2. ASSUME NEW d \in Conns PROVE cancelRun'[d] = s <=> cancelRun[d] = s
    BY <1>2, <1>3, <1>4, WebSocketAssumption
  <2>3. phase'[s] = phase[s]
    BY <1>1, <1>4 DEF CancelEffect
  <2> QED BY <1>2, <2>1, <2>2, <2>3 DEF RunUnmoved, events
<1>5. ASSUME NEW r \in Runs, waiter[c].run = r, r \notin hurt PROVE ToldAbout(r)'
  <2> SUFFICES ASSUME NEW d \in Conns PROVE (Once(d, r) /\ Noted(d, r) /\ Told(d, r))'
    BY DEF ToldAbout
  <2>1. Once(d, r) /\ Told(d, r)
    BY <1>5 DEF ToldInv, ToldAbout
  <2>2. phase'[r] # "new" /\ owner[r] = c /\ waiter'[c].at \notin {"waiting", "sending"}
    BY <1>1, <1>5 DEF CancelEffect, Terminal, RoomInv, WaiterSound
  <2>3. ASSUME NEW e \in Conns, waiter'[e].run = r PROVE e = c
    <3>1. waiter[e].run = r
      BY <1>1, <2>3 DEF CancelEffect, OnlyWaiter
    <3> QED BY <1>5, <3>1, OneWaiter
  <2>4. (NoDup(d, r)' <=> NoDup(d, r)) /\ (\A e : Has(d, r, e)' <=> Has(d, r, e))
        /\ inbox'[d][r] = inbox[d][r]
    BY <1>2 DEF events, NoDup, Has
  <2>5. ~Has(d, r, "cancelled")
    BY <1>5, <2>1 DEF Once
  <2>6. \A e \in Conns : waiter'[e].run = r => waiter'[e].at \notin {"waiting", "sending"}
    BY <2>2, <2>3
  <2>7. Once(d, r)'
    BY <1>2, <2>1, <2>2, <2>4, <2>5, <2>6 DEF Once, WaitsFor, events
  <2>8. Noted(d, r)'
    BY <2>6 DEF Noted, WaitsFor
  <2>9. Told(d, r)'
    BY <1>2, <1>3, <1>5, <2>1, <2>2 DEF Told, events
  <2> QED BY <2>7, <2>8, <2>9
<1>6. hurt' = hurt
  BY <1>2 DEF events
<1>7. CASE waiter[c].run \in Runs
  <2>1. PICK r \in Runs : r = waiter[c].run
    BY <1>7
  <2> QED BY <1>4, <1>5, <1>6, <2>1, OneRunTold
<1>8. CASE waiter[c].run \notin Runs
  <2>1. \A s \in Runs : RunUnmoved(s)
    BY <1>4, <1>8
  <2> QED BY <1>6, <2>1, UnmovedTold DEF ToldInv
<1> QED BY <1>7, <1>8

\* The answer to the cancel command is the only event "cancelled" about the run.
LEMMA CancelAnsweredTold ==
  ASSUME Types, RoomInv, ToldInv, NEW c \in Conns, CancelAnswered(c)
  PROVE  ToldInv'
<1>1. PICK r \in Runs : r = cancelRun[c]
  BY CancelAnsweredRoom
<1>2. /\ cancelRun'[c] = None /\ waiter[c].run = None /\ stream[r] \in {"none", "stopped"}
      /\ owner[r] = c /\ phase[r] \in Terminal
      /\ \A d \in Conns : d # c => seen'[d] = seen[d] /\ cancelRun'[d] = cancelRun[d]
  BY <1>1, CancelAnsweredRoom
<1>3. /\ UNCHANGED <<queue, sock, room, waiter, owner, stream, cast, reply, hurt>>
      /\ Sent(c, r, "cancelled")
  BY <1>1 DEF CancelAnswered
<1>4. /\ \A b \in Conns, s \in Runs : b # c \/ s # r => inbox'[b][s] = inbox[b][s]
      /\ \A e : Has(c, r, e)' <=>
           Has(c, r, e) \/ (sock[c] = "open" /\ "cancelled" \in Terminal /\ e = "cancelled")
      /\ inbox[c][r] # <<>> \/ (sock[c] = "open" /\ "cancelled" \in Terminal) => inbox'[c][r] # <<>>
      /\ NoDup(c, r) /\ ~Has(c, r, "cancelled") => NoDup(c, r)'
  BY <1>3, SentInbox DEF Types
<1>5. ASSUME NEW d \in Conns PROVE waiter[d].run # r /\ cancelRun'[d] # r
  <2>1. WaiterSound(d) /\ CancelSound(d)
    BY DEF RoomInv
  <2> QED BY <1>2, <2>1, WebSocketAssumption DEF WaiterSound, CancelSound
<1>6. ASSUME NEW s \in Runs, s # r PROVE RunUnmoved(s)
  <2>1. ASSUME NEW d \in Conns
        PROVE  /\ WaitsFor(d, s) => seen'[d] = seen[d]
               /\ cancelRun'[d] = s <=> cancelRun[d] = s
               /\ inbox'[d][s] = inbox[d][s]
    BY <1>1, <1>2, <1>4, <1>6, WebSocketAssumption DEF WaitsFor
  <2> QED BY <1>3, <2>1 DEF RunUnmoved, queue
<1>7. ASSUME r \notin hurt PROVE ToldAbout(r)'
  <2> SUFFICES ASSUME NEW d \in Conns PROVE (Once(d, r) /\ Noted(d, r) /\ Told(d, r))'
    BY DEF ToldAbout
  <2>1. Once(d, r)
    BY <1>7 DEF ToldInv, ToldAbout
  <2>2. waiter' = waiter /\ stream' = stream /\ phase' = phase /\ owner' = owner /\ sock' = sock
    BY <1>3 DEF queue
  <2>3. stream[r] \in {"none", "stopped"} /\ cast'[r] = Idle /\ phase'[r] # "new"
    BY <1>2, <1>3, <2>2 DEF RoomInv, StreamSound, Terminal
  <2>4. NoDup(d, r)'
    <3>1. CASE d = c
      <4>1. ~Has(c, r, "cancelled")
        BY <1>1, <2>1, <3>1 DEF Once
      <4> QED BY <1>4, <2>1, <3>1, <4>1 DEF Once
    <3>2. CASE d # c
      BY <1>4, <2>1, <3>2 DEF NoDup, Once
    <3> QED BY <3>1, <3>2
  <2>5. \A e : e # "cancelled" => (Has(d, r, e)' <=> Has(d, r, e))
    <3>1. CASE d = c
      BY <1>4, <3>1
    <3>2. CASE d # c
      BY <1>4, <3>2 DEF Has
    <3> QED BY <3>1, <3>2
  <2>6. Once(d, r)'
    BY <1>3, <1>5, <2>1, <2>2, <2>3, <2>4, <2>5, IdleSays DEF Once, WaitsFor
  <2>7. Noted(d, r)'
    BY <1>5, <2>2 DEF Noted, WaitsFor
  <2>8. Told(d, r)'
    <3>1. Told(c, r)
      BY <1>7 DEF ToldInv, ToldAbout
    <3>2. sock[c] = "open" => inbox'[c][r] # <<>>
      BY <1>4 DEF Terminal
    <3> QED BY <1>2, <2>2, <3>1, <3>2 DEF Told
  <2> QED BY <2>6, <2>7, <2>8
<1> QED BY <1>3, <1>6, <1>7, OneRunTold

-----------------------------------------------------------------------------
(***************************************************************************)
(* Every step, and the second theorem.                                     *)
(***************************************************************************)
LEMMA NextTold == Types /\ RoomInv /\ ToldInv /\ [Next]_vars => ToldInv'
<1> SUFFICES ASSUME Types, RoomInv, ToldInv, [Next]_vars PROVE ToldInv'
  OBVIOUS
<1>1. CASE UNCHANGED vars
  <2> SUFFICES ASSUME NEW r \in Runs, r \notin hurt' PROVE ToldAbout(r)'
    BY DEF ToldInv
  <2>1. ToldAbout(r)
    BY <1>1 DEF ToldInv, vars, events
  <2>2. RunUnmoved(r)
    BY <1>1 DEF RunUnmoved, vars, queue, conn, events
  <2> QED BY <2>1, <2>2, UnmovedTold
<1>2. ASSUME NEW r \in Runs, NEW ev \in {"started", "token", "failed"}, StreamEvent(r, ev)
      PROVE  ToldInv'
  <2>1. stream[r] = "open" /\ HandleEvent(r, ev) /\ (ev = "failed" => reply[r] = None)
        /\ UNCHANGED <<queue, conn, activeRun, waiter, stream, owner, inbox, hurt>>
    BY <1>2 DEF StreamEvent
  <2> QED BY <2>1, HandleEventTold
<1>3. ASSUME NEW r \in Runs, StreamCompletes(r) PROVE ToldInv'
  <2>1. /\ stream[r] = "open" /\ HandleEvent(r, "completed")
        /\ stream'[r] = "last" /\ \A s \in Runs : s # r => stream'[s] = stream[s]
        /\ UNCHANGED <<queue, conn, activeRun, waiter, owner, inbox, hurt>>
    BY <1>3 DEF StreamCompletes, Types, EventTypes
  <2> QED BY <2>1, HandleEventTold
<1>4. ASSUME NEW r \in Runs, StartRun(r) \/ RunSteps(r) \/ StreamRaises(r)
      PROVE  ToldInv'
  BY <1>4, StartRunTold, StreamSendsTold, StreamSendRaisesTold, StreamSendsNobodyTold,
     ExecuteEndsTold, StreamCancelledTold, StreamRaisesTold DEF RunSteps
<1>5. ASSUME NEW c \in Conns, CancelCommand(c) \/ Disconnected(c) PROVE ToldInv'
  <2>1. EndpointCancels(c)
    BY <1>5, CancelCommandRoom, DisconnectedRoom
  <2> QED BY <2>1, EndpointCancelsTold
<1>6. ASSUME NEW c \in Conns,
             \/ WaiterSteps(c) \/ EndpointSteps(c) \/ Connect(c) \/ CancelCommand(c) \/ PeerGoes(c)
             \/ \E r \in Runs : Prompt(c, r)
      PROVE  ToldInv'
  BY <1>5, <1>6, WaiterSendsTold, WaiterSendRaisesTold, WaiterWakesTold, WaiterEndsTold,
     LeavesTold, CancelAnsweredTold, ConnectTold, PeerGoesTold, PromptTold
     DEF WaiterSteps, EndpointSteps
<1> QED BY <1>1, <1>2, <1>3, <1>4, <1>6 DEF Next

\* What the peers have been told, and who is still there to tell them, holds in every
\* reachable state of the stream, the waiter and the answer to a cancel command.
THEOREM ToldInvariant == Spec => [](Types /\ RoomInv /\ ToldInv)
<1>1. Init => ToldInv
  BY InitTold
<1>2. Types /\ RoomInv /\ ToldInv /\ [Next]_vars => ToldInv'
  BY NextTold
<1> QED BY <1>1, <1>2, RoomInvariant, PTL DEF Spec

\* The submitter that is still there hears of the end of its run, and no peer twice of
\* the same event, from the stream, the waiter and the cancel command together.
THEOREM EndToldOnce == Spec => []ToldOnce
<1>1. Types /\ RoomInv /\ ToldInv => ToldOnce
  <2> SUFFICES ASSUME Types, RoomInv, ToldInv PROVE ToldOnce
    OBVIOUS
  <2>1. SubmitterTold
    <3> SUFFICES ASSUME NEW c \in Conns, NEW r \in Runs, owner[r] = c, sock[c] = "open",
                        pc[c] = "receive", waiter[c].run # r, r \notin hurt
                 PROVE  inbox[c][r] # <<>>
      BY DEF SubmitterTold
    <3>1. Told(c, r) /\ Endpoint(c)
      BY DEF ToldInv, ToldAbout, RoomInv
    <3>2. cancelRun[c] # r
      BY <3>1, WebSocketAssumption DEF Endpoint
    <3> QED BY <3>1, <3>2 DEF Told, WaitsFor
  <2>2. NoEventTwice
    <3> SUFFICES ASSUME NEW c \in Conns, NEW r \in Runs, NEW ev \in Terminal, r \notin hurt
                 PROVE  Count(c, r, ev) <= 1
      BY DEF NoEventTwice
    <3> DEFINE at == {i \in DOMAIN inbox[c][r] : inbox[c][r][i] = ev}
    <3>1. \A i, j \in at : i = j
      BY DEF ToldInv, ToldAbout, Once, NoDup
    <3> HIDE DEF at
    <3>2. CASE at = {}
      <4>1. Cardinality(at) = 0
        BY <3>2, FS_EmptySet
      <4> QED BY <4>1 DEF Count, at
    <3>3. CASE at # {}
      <4>1. PICK i \in at : TRUE
        BY <3>3
      <4>2. at = {i}
        BY <3>1, <4>1
      <4>3. Cardinality(at) = 1
        BY <4>2, FS_Singleton
      <4> QED BY <4>3 DEF Count, at
    <3> QED BY <3>2, <3>3
  <2> QED BY <2>1, <2>2 DEF ToldOnce
<1> QED BY <1>1, ToldInvariant, PTL
=============================================================================
