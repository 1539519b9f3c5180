---------------------------- MODULE MCWorkflow ----------------------------
(***************************************************************************)
(* Three small questions about workflows, each an instance of its own;     *)
(* part says which one a behaviour is about.  "definition" builds a        *)
(* definition of up to three nodes; "tree" runs a five-node tree with two  *)
(* executors; "serial" runs a diamond with one (Concurrency 1).            *)
(***************************************************************************)
EXTENDS Naturals, TLC

CONSTANTS e1, e2, Client, NoWorker, NoTask

VARIABLES part, order, nodes,
          life, lapsed, ripe, open, keyed, meta, node, output, proc, canceller, runs, troubles

\* 1 -> {2, 3}, 2 -> 4, 3 -> 5
TreeParents == 1 :> {} @@ 2 :> {1} @@ 3 :> {1} @@ 4 :> {2} @@ 5 :> {3}
\* 1 -> {2, 3} -> 4
DiamondParents == 1 :> {} @@ 2 :> {1} @@ 3 :> {1} @@ 4 :> {2, 3}

\* The second node skips and is retried once, the third continues.
Mixed(n) == IF n = 2 THEN "skip" ELSE IF n = 3 THEN "continue" ELSE "halt"
SecondRetries(n) == IF n = 2 THEN 1 ELSE 0

Definition == INSTANCE WorkflowDefinition WITH Names <- {"a", "b", "c"}, Types <- BOOLEAN

Tree == INSTANCE WorkflowEngine WITH
  Nodes <- 1..5, Parents <- TreeParents, Policy <- [n \in 1..5 |-> Mixed(n)],
  Retries <- [n \in 1..5 |-> SecondRetries(n)], MayFail <- 1..5,
  Executors <- {e1, e2}, Dedup <- TRUE, Copies <- 1, MayCancel <- FALSE,
  Troubles <- {}, MaxTroubles <- 0

Serial == INSTANCE WorkflowEngine WITH
  Nodes <- 1..4, Parents <- DiamondParents, Policy <- [n \in 1..4 |-> Mixed(n)],
  Retries <- [n \in 1..4 |-> SecondRetries(n)], MayFail <- 1..4,
  Executors <- {e1}, Dedup <- TRUE, Copies <- 1, MayCancel <- FALSE,
  Troubles <- {"cleanup"}, MaxTroubles <- 1

engineVars ==
  <<life, lapsed, ripe, open, keyed, meta, node, output, proc, canceller, runs, troubles>>
vars == <<part, order, nodes, engineVars>>

Init ==
  /\ Definition!Init
  /\ \/ part = "definition" /\ Tree!Init
     \/ part = "tree" /\ Tree!Init
     \/ part = "serial" /\ Serial!Init

\* A step of the engine in part p.
Within(p, step) == part = p /\ step /\ UNCHANGED <<part, order, nodes>>

Next ==
  \/ Within("tree", Tree!Next)
  \/ Within("serial", Serial!Next)
  \/ /\ part = "definition"
     /\ Definition!Next \/ (Definition!Added = {"a", "b", "c"} /\ UNCHANGED <<order, nodes>>)
     /\ UNCHANGED <<part, engineVars>>

\* The fairness of WorkflowEngine, for the part at hand.
TreeFairness ==
  /\ \A e \in {e1, e2} : WF_vars(Within("tree", Tree!ExecutorStep(e)))
  /\ WF_vars(Within("tree", Tree!SharedStep(Client)))
  /\ \A t \in Tree!Tasks : WF_vars(Within("tree", Tree!Maintain(t)))

SerialFairness ==
  /\ WF_vars(Within("serial", Serial!ExecutorStep(e1)))
  /\ WF_vars(Within("serial", Serial!SharedStep(Client)))
  /\ \A t \in Serial!Tasks : WF_vars(Within("serial", Serial!Maintain(t)))

FairSpec == Init /\ [][Next]_vars /\ TreeFairness /\ SerialFairness

----------------------------------------------------------------------------

\* The engine's variables keep their types.
TypeOK == part = "tree" => Tree!TypeOK

\* WorkflowEngine's CompletedMeansAll: maybeFinalize's separate reads add up.
CompletedMeansAll == part = "tree" => Tree!CompletedMeansAll

\* WorkflowEngine's FailureSurfaces: a task given up leaves its node marked.
FailureSurfaces == part = "tree" => Tree!FailureSurfaces

\* WorkflowEngine's SkippedNeverRuns: with one executor nothing below a node that
\* failed under FailHaltWorkflow or FailSkipDownstream runs, joins included.
SkippedNeverRuns == part = "serial" => Serial!SkippedNeverRuns

\* WorkflowEngine's InstanceEnds, on the tree and, with one executor, on the
\* diamond.
InstanceEnds == meta = "running" ~> meta # "running"

\* WorkflowDefinition's ValidateExact: Validate against reachability.
ValidateExact == part = "definition" => Definition!ValidateExact

\* WorkflowDefinition's DescendantsExact: what FailSkipDownstream skips.
DescendantsExact == part = "definition" => Definition!DescendantsExact

\* WorkflowDefinition's RootsReachAll: Submit reaches every node.
RootsReachAll == part = "definition" => Definition!RootsReachAll
===========================================================================
