------------------------- MODULE MCWorkflowVersions -------------------------
(* Instances of WorkflowEditor for TLC and, beside it, of WorkflowCanvas.  *)
(* What the two share is which version the canvas was filled from, and     *)
(* nothing else: a behaviour moves one of them.                            *)
EXTENDS WorkflowEditor, WorkflowCanvas

CONSTANTS install, put1, put2, run1

TwoEditors == {put1, put2}
OneTrigger == {run1}

(* A trigger, a line of two actions, a condition with both of its branches *)
(* on one node, and nodes without edges; numbers are as earlier edits left *)
(* them.  Joined has the ids "a", "b-c", "a-b" and "c".                    *)
SomeNode(k, i) == [id |-> NumberedNode(k, i), kind |-> k]
SomeEdge(j, a, k, b, l) ==
  [from |-> NumberedNode(j, a), to |-> NumberedNode(k, b), branch |-> l]
Start == [nodes |-> <<SomeNode("trigger", 1)>>, edges |-> <<>>]
Line ==
  [nodes |-> <<SomeNode("trigger", 1), SomeNode("action", 1), SomeNode("action", 2)>>,
   edges |-> <<SomeEdge("trigger", 1, "action", 1, NoLabel),
               SomeEdge("action", 1, "action", 2, NoLabel)>>]
Fork ==
  [nodes |-> <<SomeNode("trigger", 1), SomeNode("condition", 2), SomeNode("action", 2)>>,
   edges |-> <<SomeEdge("trigger", 1, "condition", 2, NoLabel),
               SomeEdge("condition", 2, "action", 2, "true"),
               SomeEdge("condition", 2, "action", 2, "false")>>]
Loose ==
  [nodes |-> <<SomeNode("trigger", 1), SomeNode("action", 3), SomeNode("action", 1),
               SomeNode("condition", 1)>>,
   edges |-> <<>>]
Joined ==
  LET a == Word("a") b == Word("b") c == Word("c") IN
  [nodes |-> <<[id |-> <<a>>, kind |-> "trigger"], [id |-> <<b, c>>, kind |-> "action"],
               [id |-> <<a, b>>, kind |-> "action"], [id |-> <<c>>, kind |-> "action"]>>,
   edges |-> <<>>]
SomeGraphs == {Start, Line, Fork, Loose, Joined}
TriggerAndAction == {"trigger", "action"}
TrueOrNothing == {NoLabel, "true"}

VARIABLE subject  \* the one that moves

Requesting == subject = "requests"

MCInit ==
  /\ EditorInit /\ CanvasInit
  /\ subject \in {"requests", "drawing"}
  /\ Requesting => opened = Start

MCNext ==
  /\ \/ Requesting /\ EditorNext /\ UNCHANGED canvasVars
     \/ ~Requesting /\ Edit /\ UNCHANGED editorVars
  /\ UNCHANGED subject

(* The fairness of FairEditorSpec, while the requests move. *)
MCSpec ==
  /\ MCInit /\ [][MCNext]_<<editorVars, canvasVars, subject>>
  /\ \A r \in Requests : WF_editorVars(Requesting /\ Serve(r))
  /\ WF_editorVars(Requesting /\ Answer)
  /\ WF_editorVars(Requesting /\ Land)
  /\ WF_editorVars(Requesting /\ RequestAnswered)
=============================================================================
