------------------------------ MODULE RunQueue ------------------------------
(***************************************************************************)
(* What the execution plane promises its callers, without tasks, futures   *)
(* or an event loop: each group serves its runs one at a time in the order *)
(* of submission, a queued run can be withdrawn, a running one can be      *)
(* cancelled but holds its group until its backend has let go, and every   *)
(* run gets one terminal status.                                           *)
(***************************************************************************)
CONSTANTS Runs, Groups, None

Terminal == {"completed", "failed", "cancelled", "timeout"}

VARIABLES
  phase,   \* "new", "queued", "running" or a terminal status, per run
  line,    \* the queued runs of each group
  ahead,   \* the queued runs that entered a queued run's line before it
  busy     \* the run each group is serving, None if it is free

vars == <<phase, line, ahead, busy>>

Init ==
  /\ phase = [r \in Runs |-> "new"]
  /\ line  = [g \in Groups |-> {}]
  /\ ahead = [r \in Runs |-> {}]
  /\ busy  = [g \in Groups |-> None]

Enter(r, g) ==
  /\ phase[r] = "new"
  /\ phase' = [phase EXCEPT ![r] = "queued"]
  /\ line'  = [line EXCEPT ![g] = @ \cup {r}]
  /\ ahead' = [ahead EXCEPT ![r] = line[g]]
  /\ UNCHANGED busy

\* r no longer waits, and nobody waits for it.
Leave(r) ==
  /\ line'  = [g \in Groups |-> line[g] \ {r}]
  /\ ahead' = [x \in Runs |-> IF x = r THEN {} ELSE ahead[x] \ {r}]

\* Only a free group takes a run out of its line, and only the oldest one.
Turn(r, g) ==
  /\ busy[g] = None
  /\ r \in line[g] /\ ahead[r] = {}
  /\ Leave(r)

Start(r, g) ==
  /\ Turn(r, g)
  /\ phase' = [phase EXCEPT ![r] = "running"]
  /\ busy'  = [busy EXCEPT ![g] = r]

\* A run that cannot be started fails when its turn comes.
Refuse(r, g) ==
  /\ Turn(r, g)
  /\ phase' = [phase EXCEPT ![r] = "failed"]
  /\ UNCHANGED busy

Withdraw(r) ==
  /\ phase[r] = "queued"
  /\ Leave(r)
  /\ phase' = [phase EXCEPT ![r] = "cancelled"]
  /\ UNCHANGED busy

Cancel(r) ==
  /\ phase[r] = "running"
  /\ phase' = [phase EXCEPT ![r] = "cancelled"]
  /\ UNCHANGED <<line, ahead, busy>>

Finish(g, st) ==
  /\ busy[g] # None
  /\ phase[busy[g]] = "running"
  /\ phase' = [phase EXCEPT ![busy[g]] = st]
  /\ busy'  = [busy EXCEPT ![g] = None]
  /\ UNCHANGED <<line, ahead>>

\* The cancelled run's backend is gone: the group is free again.
Release(g) ==
  /\ busy[g] # None
  /\ phase[busy[g]] = "cancelled"
  /\ busy' = [busy EXCEPT ![g] = None]
  /\ UNCHANGED <<phase, line, ahead>>

Next ==
  \/ \E r \in Runs : Withdraw(r) \/ Cancel(r)
  \/ \E r \in Runs, g \in Groups : Enter(r, g) \/ Start(r, g) \/ Refuse(r, g)
  \/ \E g \in Groups : Release(g)
  \/ \E g \in Groups, st \in Terminal \ {"cancelled"} : Finish(g, st)

Spec == Init /\ [][Next]_vars
=============================================================================
