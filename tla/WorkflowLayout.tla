--------------------------- MODULE WorkflowLayout ---------------------------
(***************************************************************************)
(* Where the graph view and the editor draw the nodes of a definition:     *)
(* layoutPositions of apps/web/src/components/workflow-graph.tsx, a pure   *)
(* function of a definition: a sequence of nodes with ids and a sequence   *)
(* of edges with a from, a to and a branch.                                *)
(***************************************************************************)
EXTENDS Integers, Sequences, FiniteSets

Ids(d) == {d.nodes[i].id : i \in DOMAIN d.nodes}

Predecessors(d, n) == {d.edges[i].from : i \in {j \in DOMAIN d.edges : d.edges[j].to = n}}

(* Nodes with an incoming edge start one below the others. *)
FirstDepth(d) == [n \in Ids(d) |-> IF Predecessors(d, n) = {} THEN 0 ELSE 1]

(* One pass: each edge in turn pushes its target below its source, within  *)
(* the bound that cuts off cycles.                                         *)
Relaxed(d, depth) ==
  LET Push(at, e) ==
        IF at[e.from] + 1 > at[e.to] /\ at[e.from] + 1 <= Len(d.nodes)
        THEN [at EXCEPT ![e.to] = at[e.from] + 1] ELSE at
      after[j \in 0 .. Len(d.edges)] ==
        IF j = 0 THEN depth ELSE Push(after[j - 1], d.edges[j])
  IN after[Len(d.edges)]

(* Mutant: one pass. *)
DepthAfterOne(d) == Relaxed(d, FirstDepth(d))

(* As many passes as there are nodes; the code stops after one that        *)
(* changes nothing, which is the same.                                     *)
Depth(d) ==
  LET pass[i \in 0 .. Len(d.nodes)] ==
        IF i = 0 THEN FirstDepth(d) ELSE Relaxed(d, pass[i - 1])
  IN pass[Len(d.nodes)]

(* The nodes of a depth share a row, in definition order and centred.      *)
(* Units are half of NODE_SPACING_X and LAYER_HEIGHT.                      *)
LayoutPositions(d) ==
  LET depth == Depth(d)
      Row(n) == {i \in DOMAIN d.nodes : depth[d.nodes[i].id] = depth[n]}
      Index(n) == Cardinality({i \in Row(n) : \E j \in Row(n) : i < j /\ d.nodes[j].id = n})
  IN [n \in Ids(d) |-> [x |-> 2 * Index(n) - (Cardinality(Row(n)) - 1), y |-> depth[n]]]

-----------------------------------------------------------------------------
(* What depth means.  The comment says "longest path from the trigger";    *)
(* the code measures from every node without predecessors, which is the    *)
(* same where the trigger is the only one.                                 *)
Acyclic(d) ==
  \A S \in SUBSET Ids(d) : S # {} => \E n \in S : Predecessors(d, n) \intersect S = {}

(* The only function that gives each node of an acyclic graph the length   *)
(* of the longest path to it.                                              *)
IsLongestPath(d, length) ==
  \A n \in Ids(d) :
    \/ Predecessors(d, n) = {} /\ length[n] = 0
    \/ /\ \A m \in Predecessors(d, n) : length[m] < length[n]
       /\ \E m \in Predecessors(d, n) : length[n] = length[m] + 1
=============================================================================
