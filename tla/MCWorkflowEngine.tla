-------------------------- MODULE MCWorkflowEngine --------------------------
(***************************************************************************)
(* Instances of WorkflowEngine for TLC.  The definition is the shape of    *)
(* docs/workflows/invoice-intake-demo.md: a call, a condition over its     *)
(* output, and an approval on one of the branches.                         *)
(***************************************************************************)
EXTENDS WorkflowEngine

Edge(a, b, c) == [from |-> a, to |-> c, branch |-> b]

(* trigger -> ai -> condition -true-> action; -false-> approval            *)
(* -approved-> action, and no edge for rejected.                           *)
InvoiceKind == <<"trigger", "ai", "condition", "action", "approval">>
InvoiceEdges ==
  <<Edge(1, NoBranch, 2), Edge(2, NoBranch, 3), Edge(3, "true", 4),
    Edge(3, "false", 5), Edge(5, "approved", 4)>>
InvoiceReads == <<{}, {}, {2}, {2}, {}>>
InvoiceAttempts == <<3, 2, 3, 1, 3>>

(* trigger -> approval -approved-> wait -> condition on the trigger's      *)
(* output; a second edge for approved is never taken, and there is none    *)
(* for rejected.                                                           *)
DelayKind == <<"trigger", "approval", "wait", "condition">>
DelayEdges ==
  <<Edge(1, NoBranch, 2), Edge(2, "approved", 3), Edge(2, "approved", 4),
    Edge(3, NoBranch, 4)>>
DelayReads == <<{}, {}, {}, {1}>>

(* trigger -> transform -> condition on the trigger's output, whose false   *)
(* branch goes back to the transform.                                      *)
CycleKind == <<"trigger", "transform", "condition", "action">>
CycleEdges ==
  <<Edge(1, NoBranch, 2), Edge(2, NoBranch, 3), Edge(3, "false", 2),
    Edge(3, "true", 4)>>
CycleReads == <<{}, {}, {1}, {}>>

NothingRead == [n \in Node |-> {}]
ThreeAttempts == [n \in Node |-> 3]

(* trigger -> wait -> approval *)
HoldKind == <<"trigger", "wait", "approval">>
HoldEdges == <<Edge(1, NoBranch, 2), Edge(2, NoBranch, 3)>>

(* trigger -> condition -true-> wait -> wait; -false-> wait -> approval    *)
TwoWaitsKind == <<"trigger", "condition", "wait", "wait", "wait", "approval">>
TwoWaitsEdges ==
  <<Edge(1, NoBranch, 2), Edge(2, "true", 3), Edge(3, NoBranch, 4),
    Edge(2, "false", 5), Edge(5, NoBranch, 6)>>

(* One worker process and the loops it runs. *)
RunLoop == "run"
WakeLoop == "wake"
OneLoop == {RunLoop}
TwoLoops == {RunLoop, WakeLoop}
ExpireLoop == "expire"
RunAndExpire == {RunLoop, ExpireLoop}
OneProc == [s \in Slots |-> "worker"]
ServesByName ==
  [s \in Slots |-> CASE s = WakeLoop -> "execution.resume-wait"
                     [] s = ExpireLoop -> "approval.expire"
                     [] OTHER -> "execution.run"]

=============================================================================
