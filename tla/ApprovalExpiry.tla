--------------------------- MODULE ApprovalExpiry ---------------------------
(***************************************************************************)
(* The engine with the third loop of a worker process, which serves        *)
(* approval.expire jobs (apps/worker/src/index.ts).  The handler is here   *)
(* in full; the job it serves is enqueued nowhere in the code.             *)
(***************************************************************************)
EXTENDS MCWorkflowEngine

Expires(s) == Serves[s] = "approval.expire"

(* UPDATE ... SET status = 'expired' WHERE status = 'pending' on the       *)
(* request of the job's payload, then verifiedRun as for the other jobs.   *)
ExpireApproval(s) ==
  /\ Expires(s)
  /\ pc[s] = "idle"
  /\ \E j \in queue :
       /\ j.type = "approval.expire"
       /\ JobIsDue(j)
       /\ queue' = queue \ {j}
       /\ job' = [job EXCEPT ![s] = j]
       /\ requests' =
            [i \in DOMAIN requests |->
               IF i = j.key /\ UpdateMatches(i)
               THEN [requests[i] EXCEPT !.status = "expired"]
               ELSE requests[i]]
  /\ Goto(s, "load")
  /\ UNCHANGED <<status, context, step, timers, api, cur, steps, ctx, attempt, out, env>>

ExpiryStep(s) == ExpireApproval(s) \/ (pc[s] # "idle" /\ RunnerStep(s))

ExpiryNext ==
  \/ \E s \in Slots : IF Expires(s) THEN ExpiryStep(s) ELSE RunnerStep(s)
  \/ ApiStep
  \/ Environment

ExpirySpec ==
  /\ Init /\ [][ExpiryNext]_vars
  /\ \A s \in Slots : WF_vars(IF Expires(s) THEN ExpiryStep(s) ELSE RunnerStep(s))
  /\ WF_vars(\E i \in DOMAIN requests, d \in Decisions : CommitResolve(i, d))
  /\ WF_vars(\E k \in outbox : EnqueueRun(k))
  /\ WF_vars(Tick)

(* An approval request that is past its expiry does not stay pending       *)
(* (WORKFLOW_ENGINE.md, section 6: "al vencer, la request pasa a           *)
(* `expired`").                                                            *)
Overdue(i) == i \in DOMAIN requests /\ requests[i].expiresAt \in 1 .. now - 1

ExpiryHappens ==
  \A i \in 1 .. MaxRequests :
    Overdue(i) ~> (i \in DOMAIN requests /\ requests[i].status # "pending")
=============================================================================
