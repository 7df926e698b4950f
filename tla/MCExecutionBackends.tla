------------------------ MODULE MCExecutionBackends ------------------------
EXTENDS ExecutionBackends

SharedName == [r \in Runs |-> "n"]
FirstRun == {1}
\* Host runs share nothing with other runs: one is enough.
SomeKinds == {<<"host", "container">>, <<"container", "container">>}

Report(before, status, after) == [before |-> before, status |-> status, after |-> after]

\* Every status among text and markers that tools print, a whole success frame included.
SomeReports ==
  {Report(<<"start", "junk">>, "success", <<"end">>), Report(<<>>, "success", <<"start">>),
   Report(<<"start">>, "timeout", <<>>), Report(<<"start", "success">>, "nothing", <<>>),
   Report(<<"start", "success", "end">>, "error", <<>>)}

\* The instance meets the hypothesis of the theorem about answers.
ASSUME ReportsAsAssumed == NobodyForges
=============================================================================
