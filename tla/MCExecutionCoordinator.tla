----------------------- MODULE MCExecutionCoordinator -----------------------
(***************************************************************************)
(* Instances of ExecutionCoordinator for TLC.                              *)
(***************************************************************************)
EXTENDS ExecutionCoordinator, TLC

CONSTANTS g1, g2     \* group folders

Req(g, s, m, f, t) == [group |-> g, slot |-> s, mode |-> m, fresh |-> f, timed |-> t]

AllBackends == {OpenAI, Host, Container}

\* One group and slot: OpenAI runs, resumed, fresh or with a coordinator timeout,
\* and a host run with one.
SlotRequests == {Req(g1, "main", "default", FALSE, FALSE),
                 Req(g1, "main", "openai", TRUE, FALSE),
                 Req(g1, "main", "default", FALSE, TRUE),
                 Req(g1, "main", "host", FALSE, TRUE)}

\* Two groups and two slots, and a mode the policy rejects.
GroupRequests == {Req(g1, "main", "default", FALSE, FALSE),
                  Req(g1, "side", "unsupported", FALSE, FALSE),
                  Req(g2, "main", "container", TRUE, FALSE)}

\* Timed runs of one group, and one that is rejected.
ServiceRequests == {Req(g1, "main", "default", FALSE, TRUE),
                    Req(g1, "main", "unsupported", FALSE, FALSE)}
QueueOutcomes == {"completed", "resume_error"}

\* Run ids are interchangeable.
Symmetry == Permutations(Runs)
=============================================================================
