------------------------- MODULE WorkflowDefinition -------------------------
(***************************************************************************)
(* The workflow definition an execution runs: the JSON graph that          *)
(* packages/workflow-engine/src/definition.ts validates, and the two pure  *)
(* helpers of executor.ts that navigate it.                                *)
(*                                                                         *)
(* A node is its position in definition.nodes, so "definition order" is    *)
(* the order of the integers and node ids are unique by construction.      *)
(***************************************************************************)
EXTENDS Naturals, Sequences

CONSTANTS
  NumNodes,   \* definition.nodes.length
  Kind,       \* Kind[n]: node.kind
  Edges,      \* definition.edges, in definition order
  Reads       \* Reads[n]: the nodes whose outputs node n's config refers to

Node == 1 .. NumNodes

NodeKinds ==
  {"trigger", "action", "condition", "ai", "approval", "wait", "transform"}

(* An edge whose branch is undefined carries NoBranch. *)
NoBranch == "none"
Decisions == {"approved", "rejected"}
Branches == {NoBranch, "true", "false", "expired"} \union Decisions

(***************************************************************************)
(* What workflowDefinitionSchema accepts: at least one node, edges between *)
(* known nodes, exactly one trigger.  Cycles are accepted, and so are two  *)
(* edges with the same source and branch.                                  *)
(***************************************************************************)
WellFormed ==
  /\ NumNodes \in Nat \ {0}
  /\ Kind \in [Node -> NodeKinds]
  /\ Edges \in Seq([from : Node, to : Node, branch : Branches])
  /\ Reads \in [Node -> SUBSET Node]
  /\ \E t \in Node : \A n \in Node : (Kind[n] = "trigger") <=> (n = t)

ASSUME DefinitionAssumption == WellFormed

Trigger == CHOOSE n \in Node : Kind[n] = "trigger"

(***************************************************************************)
(* findNext.  Outgoing(n) is empty at the end of the flow; otherwise the   *)
(* first edge in definition order whose branch is the outcome's branch is  *)
(* taken, and an outcome that matches no edge is invalid.                  *)
(***************************************************************************)
Outgoing(n) == {i \in DOMAIN Edges : Edges[i].from = n}

Matching(n, b) == {i \in Outgoing(n) : Edges[i].branch = b}

LeadsTo(n, b, m) ==
  \E i \in Matching(n, b) :
    /\ \A j \in Matching(n, b) : i <= j
    /\ Edges[i].to = m

(***************************************************************************)
(* firstUnfinished, over a map from nodes to step statuses: the first node *)
(* in definition order with a step record that has not succeeded.          *)
(***************************************************************************)
\* Mutant: also the nodes that have no step record yet.
UnfinishedOrUnvisited(stepOf) == {n \in Node : stepOf[n].status # "succeeded"}

Unfinished(stepOf) ==
  {n \in Node : stepOf[n].status \notin {"none", "succeeded"}}

IsFirstUnfinished(stepOf, n) ==
  /\ n \in Unfinished(stepOf)
  /\ \A m \in Unfinished(stepOf) : n <= m
=============================================================================
