--------------------------- MODULE WorkflowCanvas ---------------------------
(***************************************************************************)
(* What the visual editor does to the nodes and edges on its canvas        *)
(* (edit/page.tsx of apps/web) between the two moments of WorkflowEditor,  *)
(* when a definition fills the canvas and when the canvas is saved.        *)
(*                                                                         *)
(* An id is the sequence of its pieces between hyphens, because ids are    *)
(* joined with hyphens into other ids: the editor's own `${kind}-${i}` is  *)
(* one of two pieces, and a definition may bring any other.  Names,        *)
(* configurations and the places that nodes are dragged to are left out.   *)
(***************************************************************************)
EXTENDS WorkflowLayout

CONSTANTS
  Hydrations,  \* definitions the editor is opened with
  NewKinds,    \* kinds of the nodes that are added
  Branches,    \* branches that are typed in
  MaxEdits     \* bound: edits before the save

Word(w) == [word |-> w]
Number(i) == [number |-> i]
Piece == [word : STRING] \union [number : Nat]
NodeId == Seq(Piece)
CanvasNode == [id : NodeId, kind : STRING]
DefinitionEdge == [from : NodeId, to : NodeId, branch : STRING]

VARIABLES
  nodes,   \* of an id and a kind
  edges,   \* of an id, two node ids and a label
  opened,  \* history: the definition the canvas was filled from
  edits    \* history: how many edits it has seen

canvasVars == <<nodes, edges, opened, edits>>

NoLabel == "none"

-----------------------------------------------------------------------------
(* workflowDefinitionSchema, as far as the graph goes. *)
TriggerNodes(d) == {i \in DOMAIN d.nodes : d.nodes[i].kind = "trigger"}

Accepted(d) ==
  /\ d.nodes # <<>>
  /\ \A i, j \in DOMAIN d.nodes : d.nodes[i].id = d.nodes[j].id => i = j
  /\ \A i \in DOMAIN d.edges : {d.edges[i].from, d.edges[i].to} \subseteq Ids(d)
  /\ Cardinality(TriggerNodes(d)) = 1

(* The editor opens what the API has accepted before. *)
ASSUME CanvasAssumption ==
  /\ Hydrations \subseteq [nodes : Seq(CanvasNode), edges : Seq(DefinitionEdge)]
  /\ \A d \in Hydrations : Accepted(d)
  /\ NewKinds \subseteq STRING
  /\ Branches \subseteq STRING

(* `e${i}-${edge.from}-${edge.to}`: the edges of a definition are numbered. *)
NumberedId(i, a, b) == <<Word("e"), Number(i)>> \o a \o b

Hydrate(d) ==
  /\ nodes = d.nodes
  /\ edges = [i \in DOMAIN d.edges |->
                [id |-> NumberedId(i, d.edges[i].from, d.edges[i].to),
                 source |-> d.edges[i].from, target |-> d.edges[i].to,
                 label |-> d.edges[i].branch]]

CanvasInit ==
  /\ opened \in Hydrations
  /\ Hydrate(opened)
  /\ edits = 0

(* buildDefinition: the canvas as a definition. *)
Definition ==
  [nodes |-> nodes,
   edges |-> [i \in DOMAIN edges |->
                [from |-> edges[i].source, to |-> edges[i].target,
                 branch |-> edges[i].label]]]

-----------------------------------------------------------------------------
NodeIds == Ids(Definition)

(* filter: what stands at the places in kept, in the same order. *)
Only(s, kept) ==
  [j \in 1 .. Cardinality(kept) |->
     s[CHOOSE i \in kept : Cardinality({k \in kept : k <= i}) = j]]

(* `${base}-${i}` *)
NumberedNode(k, i) == <<Word(k), Number(i)>>

(* Mutant: numbered after the nodes of the kind that are there. *)
CountedId(k) ==
  NumberedNode(k, Cardinality({i \in DOMAIN nodes : nodes[i].kind = k}) + 1)

(* The first number of the kind that no node has. *)
FreshId(k) ==
  NumberedNode(k, CHOOSE i \in 1 .. Len(nodes) + 1 :
                    /\ NumberedNode(k, i) \notin NodeIds
                    /\ \A j \in 1 .. i - 1 : NumberedNode(k, j) \in NodeIds)

AddNode(k) ==
  /\ nodes' = Append(nodes, [id |-> FreshId(k), kind |-> k])
  /\ UNCHANGED edges

EdgesAt(n) == {i \in DOMAIN edges : n \in {edges[i].source, edges[i].target}}

(* "Eliminar nodo" drops the edges at the node; React Flow's own key drops *)
(* all edges that have an id of theirs.                                    *)
DeleteNode(n) ==
  /\ nodes' = Only(nodes, {i \in DOMAIN nodes : nodes[i].id # n})
  /\ \/ edges' = Only(edges, DOMAIN edges \ EdgesAt(n))
     \/ edges' = Only(edges, {i \in DOMAIN edges :
                                \A j \in EdgesAt(n) : edges[i].id # edges[j].id})

(* addEdge of React Flow draws no second edge between the same two nodes,  *)
(* and names the first `xy-edge__${source}-${target}`.                     *)
DrawnId(a, b) == <<Word("xy-edge__")>> \o a \o b

Connect(a, b) ==
  /\ \A i \in DOMAIN edges : <<edges[i].source, edges[i].target>> # <<a, b>>
  /\ edges' = Append(edges, [id |-> DrawnId(a, b), source |-> a,
                             target |-> b, label |-> NoLabel])
  /\ UNCHANGED nodes

(* "Rama": the selected edge is found by its id. *)
SetLabel(id, l) ==
  /\ edges' = [i \in DOMAIN edges |->
                 IF edges[i].id = id THEN [edges[i] EXCEPT !.label = l] ELSE edges[i]]
  /\ UNCHANGED nodes

(* The button of the selected edge. *)
DeleteEdge(id) ==
  /\ edges' = Only(edges, {i \in DOMAIN edges : edges[i].id # id})
  /\ UNCHANGED nodes

Edit ==
  /\ edits < MaxEdits
  /\ edits' = edits + 1
  /\ \/ \E k \in NewKinds : AddNode(k)
     \/ \E n \in NodeIds : DeleteNode(n)
     \/ \E a, b \in NodeIds : Connect(a, b)
     \/ \E i \in DOMAIN edges :
          DeleteEdge(edges[i].id) \/ \E l \in Branches : SetLabel(edges[i].id, l)
  /\ UNCHANGED opened

CanvasSpec == CanvasInit /\ [][Edit]_canvasVars

-----------------------------------------------------------------------------
(* A definition that is not edited is saved as it was, and after any edits *)
(* the number of triggers is all that can be wrong with the graph: no edge *)
(* dangles, and no id is given twice, although the numbers of deleted      *)
(* nodes are given again.  The panel takes two edges for one only if both  *)
(* were drawn by hand and the id of one source has more hyphens than that  *)
(* of the other ("a" to "b-c" and "a-b" to "c"): never among nodes that    *)
(* were added in the editor, nor among ids without hyphens.                *)
EditsKeepGraph ==
  /\ edits = 0 => Definition = opened
  /\ Accepted(Definition) <=> Cardinality(TriggerNodes(Definition)) = 1
  /\ \A i, j \in DOMAIN edges :
       i # j /\ edges[i].id = edges[j].id =>
         /\ edges[i].id = DrawnId(edges[i].source, edges[i].target)
         /\ Len(edges[i].source) # Len(edges[j].source)

(* What is saved is drawn again with every node as deep as the longest     *)
(* path to it from a node that nothing leads to, in whatever order its     *)
(* edges were drawn.  A cycle, which the schema accepts, neither hides a   *)
(* node behind another nor pushes one out of the picture.                  *)
LayoutFollowsPaths ==
  LET p == LayoutPositions(Definition)
  IN /\ \A m, n \in NodeIds : p[m] = p[n] => m = n
     /\ \A n \in NodeIds : p[n].y \in 0 .. Len(nodes)
     /\ Acyclic(Definition) => IsLongestPath(Definition, [n \in NodeIds |-> p[n].y])
=============================================================================
