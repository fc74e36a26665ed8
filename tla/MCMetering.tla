----------------------------- MODULE MCMetering -----------------------------
(* Instances of Metering for TLC: a plan that limits both quotas, and one  *)
(* with a higher limit on executions and none on workflows; and, beside    *)
(* it, of OrgRateLimiter.  The two share no state: a behaviour moves one   *)
(* of them.                                                                *)
EXTENDS Metering, OrgRateLimiter, TLC

CONSTANTS starter, unlimited, req1, req2, loop1, loop2

TwoPlans == {starter, unlimited}
TwoRequests == {req1, req2}
TwoLoops == {loop1, loop2}

PlanLimits ==
  starter :> [executions |-> 1, workflows |-> 1]
    @@ unlimited :> [executions |-> 2, workflows |-> -1]

VARIABLE subject  \* the one that moves

MCInit == Init /\ LimiterInit /\ subject \in {"usage", "rate"}

MCNext ==
  /\ \/ subject = "usage" /\ Next /\ UNCHANGED limiterVars
     \/ subject = "rate" /\ LimiterNext /\ UNCHANGED vars
  /\ UNCHANGED subject

MCSpec == MCInit /\ [][MCNext]_<<vars, limiterVars, subject>>

Symmetry == Permutations(TwoRequests) \union Permutations(TwoLoops)
=============================================================================
