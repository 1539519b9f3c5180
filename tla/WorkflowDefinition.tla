------------------------- MODULE WorkflowDefinition -------------------------
(***************************************************************************)
(* A workflow definition (providers/workflows/workflows.go): built node by *)
(* node with Add, whose options may name parents that do not exist (yet),  *)
(* and judged by Validate before the engine accepts it.  Validate's depth- *)
(* first search and descendants' breadth-first search are checked against  *)
(* the transitive closure of the edges.                                    *)
(***************************************************************************)
EXTENDS Naturals, Sequences, FiniteSetsExt, Relation

CONSTANTS Names,  \* node names, which DependsOnByName may also mention
          Types   \* whether OfType was given

VARIABLES order,   \* d.order
          nodes    \* d.nodes: name -> [parents, typed]

vars == <<order, nodes>>

Added == DOMAIN nodes

Init == order = <<>> /\ nodes = [n \in {} |-> {}]

\* A duplicate name is refused.
Add(n, ps, ty) ==
  /\ n \notin Added
  /\ order' = Append(order, n)
  /\ nodes' = [m \in Added \cup {n} |->
                 IF m = n THEN [parents |-> ps, typed |-> ty] ELSE nodes[m]]

Next == \E n \in Names, ps \in SUBSET Names, ty \in Types : Add(n, ps, ty)

Spec == Init /\ [][Next]_vars

----------------------------------------------------------------------------
\* detectCyclesLocked: visit colours the nodes it reaches through parents.

White == [color |-> [n \in Added |-> "white"], cycle |-> FALSE]

RECURSIVE VisitNeverBlack(_, _)

\* Fault: a finished node stays gray.
VisitNeverBlack(n, st) ==
  FoldSet(LAMBDA p, acc : IF acc.cycle \/ acc.color[p] = "black" THEN acc
                          ELSE IF acc.color[p] = "gray" THEN [acc EXCEPT !.cycle = TRUE]
                          ELSE VisitNeverBlack(p, acc),
          [st EXCEPT !.color[n] = "gray"], nodes[n].parents)

RECURSIVE VisitMissesBackEdge(_, _)

\* Fault: a gray parent is passed over like a black one.
VisitMissesBackEdge(n, st) ==
  [FoldSet(LAMBDA p, acc : IF acc.color[p] = "white" THEN VisitMissesBackEdge(p, acc) ELSE acc,
           [st EXCEPT !.color[n] = "gray"], nodes[n].parents) EXCEPT !.color[n] = "black"]

RECURSIVE Visit(_, _)

Visit(n, st) ==
  LET out == FoldSet(LAMBDA p, acc : IF acc.cycle \/ acc.color[p] = "black" THEN acc
                                     ELSE IF acc.color[p] = "gray" THEN [acc EXCEPT !.cycle = TRUE]
                                     ELSE Visit(p, acc),
                     [st EXCEPT !.color[n] = "gray"], nodes[n].parents)
  IN IF out.cycle THEN out ELSE [out EXCEPT !.color[n] = "black"]

RECURSIVE VisitFrom(_, _)

VisitFrom(i, st) ==
  IF i > Len(order) \/ st.cycle THEN st
  ELSE VisitFrom(i + 1, IF st.color[order[i]] = "white" THEN Visit(order[i], st) ELSE st)

\* Validate accepts: the node checks, then the search.
Sound(n) ==
  LET r == nodes[n] IN r.typed /\ r.parents \subseteq Added /\ n \notin r.parents

Validate == order # <<>> /\ (\A n \in Added : Sound(n)) /\ ~VisitFrom(1, White).cycle

----------------------------------------------------------------------------
\* roots, children and descendants of an accepted definition.

Roots == {n \in Added : nodes[n].parents = {}}
Children(n) == {m \in Added : n \in nodes[m].parents}

\* Fault: the node is taken for its own descendant.
DescendantsAndSelf(n) ==
  LET RECURSIVE Bfs(_, _)
      Bfs(queue, seen) ==
        IF queue = {} THEN seen
        ELSE LET next == CHOOSE x \in queue : TRUE
             IN Bfs((queue \cup Children(next)) \ (seen \cup {next}), seen \cup {next})
  IN Bfs({n}, {})

Descendants(n) ==
  LET RECURSIVE Bfs(_, _)
      Bfs(queue, seen) ==
        IF queue = {} THEN seen
        ELSE LET next == CHOOSE x \in queue : TRUE
             IN Bfs((queue \cup Children(next)) \ (seen \cup {next}), seen \cup {next})
  IN Bfs(Children(n), {})

----------------------------------------------------------------------------
\* The reference: reachability along the edges.

Edges == [p \in Added \X Added |-> p[1] \in nodes[p[2]].parents]
Reaches == TransitiveClosure(Edges, Added)

\* Validate accepts a definition exactly when it has nodes, every node has a
\* type, every parent exists and no node depends on itself through any number
\* of steps: the depth-first search neither misses a cycle nor takes a shared
\* ancestor for one.
ValidateExact ==
  Validate <=> /\ Added # {}
               /\ \A n \in Added : nodes[n].typed /\ nodes[n].parents \subseteq Added
               /\ \A n \in Added : ~Reaches[n, n]

\* What FailSkipDownstream skips is what depends on the failed node, and
\* nothing else.
DescendantsExact ==
  Validate => \A n \in Added : Descendants(n) = {m \in Added : Reaches[n, m]}

\* Submit can start an accepted definition and reach all of it: it has a root,
\* and every node is a root or depends on one.
RootsReachAll ==
  Validate => Roots # {} /\ Added = Roots \cup UNION {Descendants(r) : r \in Roots}
=============================================================================
