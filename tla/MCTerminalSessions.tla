------------------------- MODULE MCTerminalSessions -------------------------
(***************************************************************************)
(* Instances of TerminalSessions for TLC.                                  *)
(***************************************************************************)
EXTENDS TerminalSessions, TLC

\* Connections, sessions and jobs are interchangeable.
Symmetry == Permutations(Conns) \cup Permutations(Sessions) \cup Permutations(Tasks)

\* Bound: a second client comes to a session that has been recovered, has no output and is
\* followed by no other.
SecondAfterRestart ==
  \/ \E c \in Conns : conn[c].pc = "idle"
  \/ /\ restarts = 1
     /\ \A s \in Sessions : seen[s] = 0
     /\ Cardinality({s \in Sessions : groupOf[s] # None}) <= 1

\* Bound: a session that is followed by another one has no output, and either no client
\* or no restart.
SmallSuccession ==
  Cardinality({s \in Sessions : groupOf[s] # None}) <= 1
  \/ /\ \A s \in Sessions : seen[s] = 0
     /\ restarts = 0 \/ \A c \in Conns : conn[c].pc = "idle"
=============================================================================
