---------------------------- MODULE WorkflowRun ----------------------------
(***************************************************************************)
(* What the workflow engine promises about one execution, without          *)
(* runners, jobs, retries or crashes: the execution walks the definition   *)
(* from its trigger, records each node it completes once and for all, and  *)
(* pauses only in front of a node that waits for time or for a human       *)
(* (docs/architecture/WORKFLOW_ENGINE.md, sections 2, 3 and 5).            *)
(***************************************************************************)
EXTENDS WorkflowDefinition

VARIABLES
  phase,   \* the status of the execution
  trail    \* for each completed node the branch it took; Ahead for the others

Ahead == "ahead"

runVars == <<phase, trail>>

RunInit ==
  /\ phase = "pending"
  /\ trail = [n \in Node |-> Ahead]

(* The walk has arrived at node n and has not completed it. *)
At(n) ==
  /\ trail[n] = Ahead
  /\ \/ n = Trigger
     \/ \E m \in Node : trail[m] # Ahead /\ LeadsTo(m, trail[m], n)

(* The walk cannot go on from node n, which is completed. *)
EndsAt(n) == trail[n] # Ahead /\ Outgoing(n) = {}
StuckAt(n) == trail[n] # Ahead /\ Outgoing(n) # {} /\ Matching(n, trail[n]) = {}

Begin ==
  /\ phase \in {"pending", "waiting", "waiting_approval"}
  /\ phase' = "running"
  /\ UNCHANGED trail

(* Only condition and approval nodes take a branch of their own. *)
BranchesOf(n) ==
  CASE Kind[n] = "condition" -> {"true", "false"}
    [] Kind[n] = "approval" -> {"approved", "rejected", "expired"}
    [] OTHER -> {NoBranch}

Complete(n) ==
  /\ phase = "running"
  /\ At(n)
  /\ \E b \in BranchesOf(n) : trail' = [trail EXCEPT ![n] = b]
  /\ UNCHANGED phase

PauseForTime(n) ==
  /\ phase = "running"
  /\ At(n) /\ Kind[n] = "wait"
  /\ phase' = "waiting"
  /\ UNCHANGED trail

PauseForHuman(n) ==
  /\ phase = "running"
  /\ At(n) /\ Kind[n] = "approval"
  /\ phase' = "waiting_approval"
  /\ UNCHANGED trail

Fail(n) ==
  /\ phase = "running"
  /\ At(n) \/ StuckAt(n)
  /\ phase' = "failed"
  /\ UNCHANGED trail

Succeed(n) ==
  /\ phase = "running"
  /\ EndsAt(n)
  /\ phase' = "succeeded"
  /\ UNCHANGED trail

RunNext ==
  \/ Begin
  \/ \E n \in Node :
       \/ Complete(n) \/ PauseForTime(n) \/ PauseForHuman(n)
       \/ Fail(n) \/ Succeed(n)

RunSpec == RunInit /\ [][RunNext]_runVars
=============================================================================
