------------------------- MODULE MCWorkflowEngine -------------------------
\* Workflow definitions for TLC.
EXTENDS WorkflowEngine, TLC

\* 1 -> 2 -> 3
Chain == 1 :> {} @@ 2 :> {1} @@ 3 :> {2}
\* {1, 2} -> 3
Join == 1 :> {} @@ 2 :> {} @@ 3 :> {1, 2}

AllSkip == [n \in Nodes |-> "skip"]
AllContinue == [n \in Nodes |-> "continue"]
\* The second node skips, the third continues.
Mixed == [n \in Nodes |-> IF n = 2 THEN "skip" ELSE IF n = 3 THEN "continue" ELSE "halt"]
NoRetries == [n \in Nodes |-> 0]
\* The second node is retried once.
SecondRetries == [n \in Nodes |-> IF n = 2 THEN 1 ELSE 0]

ExecutorSymmetry == Permutations(Executors)
============================================================================
