------------------------------ MODULE Metering ------------------------------
(***************************************************************************)
(* What one organization may use, and what it is recorded to have used:    *)
(* the plan limits of apps/api/src/lib/limits.ts in front of installing    *)
(* workflows and launching executions, and the monthly budget of           *)
(* packages/ai-gateway/src/gateway.ts in front of AI calls.                *)
(*                                                                         *)
(* Both read the usage, act, and record the use in a later statement.      *)
(* Between the statements other requests and calls run, the plan changes   *)
(* (module Subscriptions) and a month begins.                              *)
(***************************************************************************)
EXTENDS Integers, FiniteSets

CONSTANTS
  Requests,     \* concurrent API requests
  Calls,        \* concurrent AI calls, one per loop of a worker
  Plans,
  Limit,        \* plans.limits: of each plan and quota, negative if unlimited
  Cap,          \* AI_MONTHLY_COST_CAP_USD, 0 if there is none
  MaxCost,      \* the highest cost of one AI call
  MaxWorkflows, \* bound: workflows installed
  MaxMisses,    \* bound: uses whose record is lost
  MaxMonths     \* bound: months that begin

Quotas == {"executions", "workflows"}

ASSUME MeteringAssumption ==
  /\ IsFiniteSet(Requests) /\ Requests # {}
  /\ IsFiniteSet(Calls) /\ Calls # {}
  /\ Limit \in [Plans -> [Quotas -> Int]]
  /\ Cap \in Nat
  /\ MaxCost \in Nat
  /\ MaxWorkflows \in Nat /\ MaxMisses \in Nat /\ MaxMonths \in Nat

VARIABLES
  planSlug,   \* the plan of the organization's subscription
  used,       \* installed workflows, and this month's usage_events
  launched,   \* history: executions inserted this month
  unmetered,  \* history: requests this month that failed before their event
  request,    \* each request: how far it is, its quota and the limit it read
  spent,      \* this month's ai_calls, summed
  charged,    \* history: what the provider charged this month
  unrecorded, \* history: calls this month whose cost was not recorded
  call,       \* each AI call: how far it is, and what its answer cost
  month

requestVars == <<used, launched, unmetered, request>>
callVars == <<spent, charged, unrecorded, call>>
vars == <<planSlug, requestVars, callVars, month>>

TypeOK ==
  /\ planSlug \in Plans
  /\ used \in [Quotas -> Nat]
  /\ launched \in Nat /\ unmetered \in Nat
  /\ request \in [Requests -> [at : {"idle", "planned", "admitted", "created"},
                               quota : Quotas, limit : Int]]
  /\ spent \in Nat /\ charged \in Nat /\ unrecorded \in Nat
  /\ call \in [Calls -> [at : {"idle", "asked", "answered"}, cost : 0 .. MaxCost]]
  /\ month \in Nat

NoRequest == [at |-> "idle", quota |-> "executions", limit |-> 0]
NoCall == [at |-> "idle", cost |-> 0]

Init ==
  /\ planSlug \in Plans
  /\ used = [k \in Quotas |-> 0]
  /\ launched = 0 /\ unmetered = 0
  /\ request = [q \in Requests |-> NoRequest]
  /\ spent = 0 /\ charged = 0 /\ unrecorded = 0
  /\ call = [c \in Calls |-> NoCall]
  /\ month = 0

-----------------------------------------------------------------------------
Return(q) == request' = [request EXCEPT ![q] = NoRequest]

(* assertWithinPlanLimits: the plan is read ... *)
GetPlan(q, k) ==
  /\ request[q].at = "idle"
  /\ request' = [request EXCEPT ![q] =
       [at |-> "planned", quota |-> k, limit |-> Limit[planSlug][k]]]
  /\ UNCHANGED <<planSlug, used, launched, unmetered, callVars, month>>

(* Mutant: off by one. *)
AtMost(q) == request[q].limit < 0 \/ used[request[q].quota] <= request[q].limit

Within(q) == request[q].limit < 0 \/ used[request[q].quota] < request[q].limit

(* ... and then the usage; a request past its limit is refused. *)
GetUsage(q) ==
  /\ request[q].at = "planned"
  /\ IF Within(q) THEN request' = [request EXCEPT ![q].at = "admitted"] ELSE Return(q)
  /\ UNCHANGED <<planSlug, used, launched, unmetered, callVars, month>>

(* A later check refuses the request, or it dies before its INSERT. *)
Abandon(q) ==
  /\ request[q].at \in {"planned", "admitted"}
  /\ Return(q)
  /\ UNCHANGED <<planSlug, used, launched, unmetered, callVars, month>>

InsertWorkflow(q) ==
  /\ request[q].at = "admitted" /\ request[q].quota = "workflows"
  /\ used["workflows"] < MaxWorkflows
  /\ used' = [used EXCEPT !["workflows"] = @ + 1]
  /\ Return(q)
  /\ UNCHANGED <<planSlug, launched, unmetered, callVars, month>>

InsertExecution(q) ==
  /\ request[q].at = "admitted" /\ request[q].quota = "executions"
  /\ launched' = launched + 1
  /\ request' = [request EXCEPT ![q].at = "created"]
  /\ UNCHANGED <<planSlug, used, unmetered, callVars, month>>

(* Mutant: no usage event is written. *)
SkipUsage(q) ==
  /\ request[q].at = "created"
  /\ Return(q)
  /\ UNCHANGED <<planSlug, used, launched, unmetered, callVars, month>>

(* The usage event of an execution comes last, after the job is enqueued   *)
(* and the audit row is written.                                           *)
RecordUsage(q) ==
  /\ request[q].at = "created"
  /\ used' = [used EXCEPT !["executions"] = @ + 1]
  /\ Return(q)
  /\ UNCHANGED <<planSlug, launched, unmetered, callVars, month>>

(* One of the statements before it fails, or the process dies. *)
MissUsage(q) ==
  /\ request[q].at = "created"
  /\ unmetered < MaxMisses
  /\ unmetered' = unmetered + 1
  /\ Return(q)
  /\ UNCHANGED <<planSlug, used, launched, callVars, month>>

-----------------------------------------------------------------------------
(* AiGateway.call *)

Hangup(c) == call' = [call EXCEPT ![c] = NoCall]

WithinBudget == Cap > 0 => spent < Cap

(* The month's spend is read; a call over the cap is refused. *)
CheckBudget(c) ==
  /\ call[c].at = "idle"
  /\ WithinBudget
  /\ call' = [call EXCEPT ![c].at = "asked"]
  /\ UNCHANGED <<planSlug, requestVars, spent, charged, unrecorded, month>>

(* The provider answers in time, and with JSON. *)
ProviderAnswers(c, usd) ==
  /\ call[c].at = "asked"
  /\ call' = [call EXCEPT ![c] = [at |-> "answered", cost |-> usd]]
  /\ charged' = charged + usd
  /\ UNCHANGED <<planSlug, requestVars, spent, unrecorded, month>>

(* The provider refuses: nothing is charged, a trace without cost remains. *)
ProviderFails(c) ==
  /\ call[c].at = "asked"
  /\ Hangup(c)
  /\ UNCHANGED <<planSlug, requestVars, spent, charged, unrecorded, month>>

(* A call that fails although it is charged: withTimeout gives up on an    *)
(* answer that still comes, or the answer does not parse.  Both leave a    *)
(* trace without cost; a worker that dies meanwhile leaves none.           *)
LoseAnswer(c, usd) ==
  /\ call[c].at = "asked"
  /\ unrecorded < MaxMisses
  /\ unrecorded' = unrecorded + 1
  /\ charged' = charged + usd
  /\ Hangup(c)
  /\ UNCHANGED <<planSlug, requestVars, spent, month>>

(* Mutant: a call is recorded as if it had failed. *)
RecordNothing(c) ==
  /\ call[c].at = "answered"
  /\ Hangup(c)
  /\ UNCHANGED <<planSlug, requestVars, spent, charged, unrecorded, month>>

(* The trace of an answer, whether it matches the schema or not. *)
RecordCall(c) ==
  /\ call[c].at = "answered"
  /\ spent' = spent + call[c].cost
  /\ Hangup(c)
  /\ UNCHANGED <<planSlug, requestVars, charged, unrecorded, month>>

(* Its INSERT fails, or the worker dies. *)
MissCall(c) ==
  /\ call[c].at = "answered"
  /\ unrecorded < MaxMisses
  /\ unrecorded' = unrecorded + 1
  /\ Hangup(c)
  /\ UNCHANGED <<planSlug, requestVars, spent, charged, month>>

-----------------------------------------------------------------------------
ChangePlan(plan) ==
  /\ planSlug' = plan
  /\ UNCHANGED <<requestVars, callVars, month>>

(* monthStart moves: the sums begin anew, workflows stay installed. *)
BeginMonth ==
  /\ month < MaxMonths
  /\ month' = month + 1
  /\ used' = [used EXCEPT !["executions"] = 0]
  /\ launched' = 0 /\ unmetered' = 0
  /\ spent' = 0 /\ charged' = 0 /\ unrecorded' = 0
  /\ UNCHANGED <<planSlug, request, call>>

Handle(q) ==
  \/ \E k \in Quotas : GetPlan(q, k)
  \/ GetUsage(q)
  \/ Abandon(q)
  \/ InsertWorkflow(q)
  \/ InsertExecution(q)
  \/ RecordUsage(q)
  \/ MissUsage(q)

Call(c) ==
  \/ CheckBudget(c)
  \/ \E usd \in 0 .. MaxCost : ProviderAnswers(c, usd) \/ LoseAnswer(c, usd)
  \/ ProviderFails(c)
  \/ RecordCall(c)
  \/ MissCall(c)

Next ==
  \/ \E q \in Requests : Handle(q)
  \/ \E c \in Calls : Call(c)
  \/ \E plan \in Plans : ChangePlan(plan)
  \/ BeginMonth

Spec == Init /\ [][Next]_vars

-----------------------------------------------------------------------------
(* The highest limit a plan sets on a quota; none if a plan sets no limit. *)
Highest(k) ==
  {n \in {Limit[p][k] : p \in Plans} :
     \A p \in Plans : 0 <= Limit[p][k] /\ Limit[p][k] <= n}

(* On a quota that every plan limits, check-then-insert overshoots by less *)
(* than the number of requests that run beside each other, however plans   *)
(* change and months begin in between.                                     *)
OvershootIsBounded ==
  \A k \in Quotas : \A n \in Highest(k) :
    used[k] <= n + Cardinality(Requests) - 1

(* The executions launched in a month pass the limit by no more than that, *)
(* plus one for every request that failed between its INSERT and its usage *)
(* event: nothing is launched twice for one event, or without a check.     *)
LaunchesAreBounded ==
  \A n \in Highest("executions") :
    launched <= n + Cardinality(Requests) - 1 + unmetered

(* The "hard monthly cap" is passed by no more than this: what is charged  *)
(* in a month stays below the cap, but for one call per loop that was      *)
(* under way and for the calls whose cost was never recorded, because they *)
(* timed out, their answer did not parse or their trace was lost.          *)
BudgetHolds ==
  Cap > 0 => charged <= Cap - 1 + (Cardinality(Calls) + unrecorded) * MaxCost
=============================================================================
