------------------------ MODULE WorkflowEngine_proofs ------------------------
(***************************************************************************)
(* Proofs about WorkflowEngine for every definition, every set of worker   *)
(* loops and every bound, and about ExecutionView, which adds a browser.   *)
(***************************************************************************)
EXTENDS ExecutionView, SequenceTheorems, TLAPS

(* The definition's one trigger is a node.                                 *)
LEMMA TriggerIsNode == Trigger \in Node
BY DefinitionAssumption DEF Trigger, WellFormed

(* The values the actions write have the types of the variables.           *)
LEMMA ValueTypes ==
  /\ NoStep \in Steps
  /\ \A k \in Nat : RunJob(k) \in Jobs
  /\ \A k, t \in Nat : WakeJob(k, t) \in Jobs
  /\ \A b \in Branches : Succeeded(b) \in Outcomes
  /\ Failed \in Outcomes
  /\ \A t \in Nat : Waiting(t) \in Outcomes
  /\ WaitingApproval \in Outcomes
BY DEF NoStep, Steps, StepStatuses, Branches, NoBranch, Decisions, RunJob, WakeJob,
       Jobs, JobTypes, Succeeded, Failed, Waiting, WaitingApproval, Outcomes

LEMMA InitType == Init => TypeOK
<1>1. ASSUME Init PROVE TypeOK
  <2>1. <<>> \in Seq(Requests)
    OBVIOUS
  <2>2. QED
    BY <1>1, <2>1, TriggerIsNode, ValueTypes DEF Init, TypeOK, Statuses, Labels
<1>2. QED
  BY <1>1

(* Ending a job or losing a slot's memory keeps the types of the memory.   *)
LEMMA ReleaseType ==
  ASSUME TypeOK, NEW T \in SUBSET Slots, Release(T)
  PROVE  /\ pc' \in [Slots -> Labels]
         /\ job' \in [Slots -> Jobs]
         /\ cur' \in [Slots -> Node]
         /\ steps' \in [Slots -> [Node -> Steps]]
         /\ ctx' \in [Slots -> SUBSET Node]
         /\ attempt' \in [Slots -> Nat]
         /\ out' \in [Slots -> Outcomes]
BY TriggerIsNode, ValueTypes DEF Release, TypeOK, Labels

(* executeNode's outcome is an outcome; the slot goes on to record it.     *)
LEMMA ReturnType ==
  ASSUME TypeOK, NEW s \in Slots, NEW o \in Outcomes, Return(s, o)
  PROVE  pc' \in [Slots -> Labels] /\ out' \in [Slots -> Outcomes]
BY DEF TypeOK, Return, Goto, Labels

LEMMA GotoType ==
  ASSUME TypeOK, NEW s \in Slots, NEW label \in Labels, Goto(s, label)
  PROVE  pc' \in [Slots -> Labels]
BY DEF TypeOK, Goto

(* The loop moves to a node of the definition, or stays.                   *)
LEMMA AdvanceType ==
  ASSUME TypeOK, NEW s \in Slots, NEW n \in Node, NEW b, Advance(s, n, b)
  PROVE  pc' \in [Slots -> Labels] /\ cur' \in [Slots -> Node]
<1>1. pc' \in [Slots -> Labels]
  <2>1. "fail" \in Labels /\ "visit" \in Labels /\ "finish" \in Labels
    BY DEF Labels
  <2>2. \E label \in Labels : Goto(s, label)
    BY <2>1 DEF Advance
  <2> QED BY <2>2, GotoType
<1>2. cur' \in [Slots -> Node]
  BY DEF Advance, TypeOK
<1> QED BY <1>1, <1>2

(* The elements of the sequence of approval requests are requests.         *)
LEMMA RequestAt ==
  ASSUME TypeOK, NEW i \in DOMAIN requests
  PROVE  requests[i] \in Requests /\ i \in Nat
<1>1. requests \in Seq(Requests)
  BY DEF TypeOK
<1>2. DOMAIN requests = 1 .. Len(requests) /\ Len(requests) \in Nat
  BY <1>1
<1>3. QED
  BY <1>1, <1>2

(* Every action of a worker loop preserves the types.                      *)
LEMMA RunnerType ==
  ASSUME TypeOK, NEW s \in Slots, RunnerStep(s)
  PROVE  TypeOK'
<1> USE DEF TypeOK
<1>1. CASE TakeJob(s)
  BY <1>1 DEF TakeJob, Goto, Labels, db, api, env
<1>2. CASE LoadExecution(s)
  BY <1>2 DEF LoadExecution, Goto, Labels, db, redis, api, env
<1>3. CASE LoadSteps(s)
  BY <1>3 DEF LoadSteps, Goto, Labels, db, redis, api, env
<1>4. CASE StartRun(s)
  BY <1>4, TriggerIsNode
  DEF StartRun, Goto, Labels, Statuses, Terminal, redis, api, env
<1>5. CASE ReuseStep(s)
  BY <1>5, AdvanceType DEF ReuseStep, db, redis, api, env
<1>6. CASE BeginNode(s)
  <2>1. existing(s).attempt + 1 \in Nat
    BY DEF existing, Steps
  <2>2. attempt' \in [Slots -> Nat]
    BY <1>6, <2>1 DEF BeginNode
  <2>3. pc' \in [Slots -> Labels]
    BY <1>6, GotoType DEF BeginNode, Labels
  <2>4. QED
    BY <1>6, <2>2, <2>3 DEF BeginNode, db, redis, api, env
<1>7. CASE ExecutePure(s)
  BY <1>7, ValueTypes
  DEF ExecutePure, Return, Goto, Labels, Branches, NoBranch, db, redis, api, env
<1>8. CASE ExecuteCondition(s)
  <2>1. PICK v \in Evaluations(cur[s], ctx[s]) :
           Return(s, IF v = "missing" THEN Failed ELSE Succeeded(v))
    BY <1>8 DEF ExecuteCondition
  <2>2. v = "missing" \/ v \in Branches
    BY <1>8 DEF ExecuteCondition, Evaluations, Conditions, Verdicts, Branches
  <2>3. (IF v = "missing" THEN Failed ELSE Succeeded(v)) \in Outcomes
    BY <2>2, ValueTypes
  <2>4. QED
    BY <1>8, <2>1, <2>3 DEF ExecuteCondition, Return, Goto, Labels, db, redis, api, env
<1>9. CASE ExecuteCall(s)
  <2>1. Succeeded(NoBranch) \in Outcomes /\ Failed \in Outcomes
    BY ValueTypes DEF Branches
  <2>2. pc' \in [Slots -> Labels] /\ out' \in [Slots -> Outcomes]
    <3>1. CASE Return(s, Succeeded(NoBranch))
      BY <2>1, <3>1, ReturnType
    <3>2. CASE Return(s, Failed)
      BY <2>1, <3>2, ReturnType
    <3>3. CASE Goto(s, "retry") /\ UNCHANGED out
      BY <3>3, GotoType DEF Labels
    <3>4. QED
      BY <1>9, <3>1, <3>2, <3>3 DEF ExecuteCall
  <2>3. QED
    BY <1>9, <2>2 DEF ExecuteCall, db, redis, api, env
<1>10. CASE ExecuteWait(s)
  <2>1. existing(s).resumeAt \in Nat
    BY DEF existing, Steps
  <2>2. WaitOutcome(existing(s).resumeAt) \in Outcomes
    <3>1. now + WaitFor \in Nat /\ NoBranch \in Branches
      BY EngineAssumption DEF TypeOK, Branches, NoBranch
    <3>2. /\ Waiting(now + WaitFor) \in Outcomes /\ Waiting(existing(s).resumeAt) \in Outcomes
          /\ Succeeded(NoBranch) \in Outcomes
      BY <2>1, <3>1, ValueTypes
    <3>3. QED
      BY <3>2 DEF WaitOutcome
  <2>3. QED
    BY <1>10, <2>2 DEF ExecuteWait, Return, Goto, Labels, db, redis, api, env
<1>11. CASE ExecuteApproval(s)
  <2>1. ASSUME NEW st \in RequestStatuses PROVE ApprovalOutcome(st) \in Outcomes
    BY ValueTypes DEF ApprovalOutcome, RequestStatuses, Branches
  <2>2. \A i \in DOMAIN requests : requests[i].status \in RequestStatuses
    BY RequestAt DEF Requests
  <2>3. pc' \in [Slots -> Labels] /\ out' \in [Slots -> Outcomes]
    <3>1. CASE Goto(s, "ask") /\ UNCHANGED out
      BY <3>1, GotoType DEF Labels
    <3>2. ASSUME NEW i \in DOMAIN requests, Return(s, ApprovalOutcome(requests[i].status))
          PROVE  pc' \in [Slots -> Labels] /\ out' \in [Slots -> Outcomes]
      BY <2>1, <2>2, <3>2, ReturnType
    <3>3. QED
      BY <1>11, <3>1, <3>2 DEF ExecuteApproval
  <2>4. QED
    BY <1>11, <2>3 DEF ExecuteApproval, db, redis, api, env
<1>12. CASE CreateApprovalRequest(s)
  <2>1. requests' \in Seq(Requests)
    BY <1>12, EngineAssumption DEF CreateApprovalRequest, Requests, RequestStatuses
  <2>2. QED
    BY <1>12, <2>1, ValueTypes
    DEF CreateApprovalRequest, Return, Goto, Labels, redis, api, env
<1>13. CASE RecordRetry(s)
  BY <1>13 DEF RecordRetry, Upsert, NextAttempt, Goto, Labels, Steps, StepStatuses,
               Branches, NoBranch, redis, api, env
<1>14. CASE SaveFailed(s)
  BY <1>14 DEF SaveFailed, Upsert, existing, Goto, Labels, Steps, StepStatuses,
               Branches, NoBranch, redis, api, env
<1>15. CASE SavePending(s)
  <2>1. PendingAttempt(existing(s)) \in Nat /\ out[s].resumeAt \in Nat
    BY DEF PendingAttempt, existing, Steps, Outcomes
  <2>2. QED
    BY <1>15, <2>1 DEF SavePending, Upsert, Goto, Labels, Steps, StepStatuses,
                       Branches, NoBranch, redis, api, env
<1>16. CASE SaveSucceeded(s)
  <2>1. [status |-> "succeeded", attempt |-> existing(s).attempt + 1,
         branch |-> out[s].branch, resumeAt |-> 0] \in Steps
    BY DEF existing, Steps, StepStatuses, Outcomes
  <2>2. QED
    BY <1>16, <2>1 DEF SaveSucceeded, Upsert, Goto, Labels, redis, api, env
<1>17. CASE SaveContext(s)
  BY <1>17, AdvanceType DEF SaveContext, redis, api, env
<1>18. CASE PauseRun(s)
  BY <1>18 DEF PauseRun, PausedAs, Outcomes, Statuses, Terminal, Goto, Labels,
               redis, api, env
<1>19. CASE ScheduleResume(s)
  <2>1. out[s].resumeAt \in Nat
    BY DEF Outcomes
  <2>2. QED
    BY <1>19, <2>1, ValueTypes DEF ScheduleResume, Goto, Labels, db, api, env
<1>20. CASE FailRun(s)
  BY <1>20 DEF FailRun, Statuses, Terminal, Goto, Labels, redis, api, env
<1>21. CASE FinishRun(s)
  BY <1>21 DEF FinishRun, Statuses, Terminal, Goto, Labels, redis, api, env
<1>22. CASE CompleteJob(s)
  BY <1>22, ReleaseType DEF CompleteJob, db, redis, api, env
<1>23. QED
  BY <1>1, <1>2, <1>3, <1>4, <1>5, <1>6, <1>7, <1>8, <1>9, <1>10, <1>11, <1>12,
     <1>13, <1>14, <1>15, <1>16, <1>17, <1>18, <1>19, <1>20, <1>21, <1>22
  DEF RunnerStep, Execute, Record

(* So do the API's handlers ...                                            *)
LEMMA ApiType ==
  ASSUME TypeOK, ApiStep
  PROVE  TypeOK'
<1> USE DEF TypeOK
<1>1. ASSUME NEW i \in DOMAIN requests, NEW d \in Decisions, BeginResolve(i, d)
      PROVE  TypeOK'
  BY <1>1 DEF BeginResolve, db, redis, memory, env
<1>2. ASSUME NEW i \in DOMAIN requests, NEW d \in Decisions, CommitResolve(i, d)
      PROVE  TypeOK'
  <2>1. [requests[i] EXCEPT !.status = d] \in Requests
    BY RequestAt DEF Requests, RequestStatuses
  <2>2. requests' \in Seq(Requests)
    <3>1. [requests EXCEPT ![i] = [requests[i] EXCEPT !.status = d]] \in Seq(Requests)
      BY <2>1, ExceptSeq
    <3>2. QED
      BY <1>2, <3>1 DEF CommitResolve
  <2>3. outbox' \in SUBSET Nat
    BY <1>2, RequestAt DEF CommitResolve
  <2>4. QED
    BY <1>2, <2>2, <2>3 DEF CommitResolve, redis, memory, env
<1>3. ASSUME NEW k \in outbox, EnqueueRun(k)
      PROVE  TypeOK'
  BY <1>3, ValueTypes DEF EnqueueRun, db, memory, env
<1>4. QED
  BY <1>1, <1>2, <1>3 DEF ApiStep

(* ... and time, crashes and failed calls.                                 *)
LEMMA EnvironmentType ==
  ASSUME TypeOK, Environment
  PROVE  TypeOK'
<1> USE DEF TypeOK
<1>1. CASE Tick
  BY <1>1 DEF Tick, db, redis, api, memory
<1>2. ASSUME NEW p \in {Proc[s] : s \in Slots}, Crash(p)
      PROVE  TypeOK'
  <2> DEFINE dead == {s \in Slots : Proc[s] = p}
             held == {job[s] : s \in {x \in dead : pc[x] # "idle"}}
  <2>1. /\ queue' = queue \union {Redelivered(j) : j \in {x \in held : MayRedeliver(x)}}
        /\ Release(dead)
    BY <1>2 DEF Crash
  <2>2. \A j \in held : Redelivered(j) \in Jobs
    <3>1. held \subseteq Jobs
      OBVIOUS
    <3>2. ASSUME NEW j \in Jobs PROVE Redelivered(j) \in Jobs
      <4>1. j.stalled + 1 \in Nat
        BY DEF Jobs
      <4>2. QED
        BY <4>1 DEF Redelivered, Jobs
    <3>3. QED
      BY <3>1, <3>2
  <2>3. queue' \in SUBSET Jobs
    BY <2>1, <2>2
  <2>4. /\ pc' \in [Slots -> Labels] /\ job' \in [Slots -> Jobs] /\ cur' \in [Slots -> Node]
        /\ steps' \in [Slots -> [Node -> Steps]] /\ ctx' \in [Slots -> SUBSET Node]
        /\ attempt' \in [Slots -> Nat] /\ out' \in [Slots -> Outcomes]
    <3>1. dead \in SUBSET Slots
      OBVIOUS
    <3> HIDE DEF dead, TypeOK
    <3> QED BY <2>1, <3>1, ReleaseType
  <2>5. crashes' \in Nat /\ UNCHANGED <<db, timers, api, verdict, now, faults, doneAt>>
    BY <1>2 DEF Crash
  <2>6. QED
    <3> HIDE DEF dead, held
    <3> QED BY <2>3, <2>4, <2>5 DEF db, api
<1>3. ASSUME NEW s \in Slots, RunnerFault(s)
      PROVE  TypeOK'
  <2>1. CASE Caught(s) /\ Return(s, Failed) /\ UNCHANGED <<job, cur, steps, ctx, attempt>>
    BY <1>3, <2>1, ValueTypes DEF RunnerFault, Return, Goto, Labels, db, redis, api
  <2>2. CASE Release({s})
    <3>1. {s} \in SUBSET Slots
      OBVIOUS
    <3>2. /\ pc' \in [Slots -> Labels] /\ job' \in [Slots -> Jobs]
          /\ cur' \in [Slots -> Node] /\ steps' \in [Slots -> [Node -> Steps]]
          /\ ctx' \in [Slots -> SUBSET Node] /\ attempt' \in [Slots -> Nat]
          /\ out' \in [Slots -> Outcomes]
      BY <2>2, <3>1, ReleaseType
    <3>3. QED
      BY <1>3, <3>2 DEF RunnerFault, db, redis, api
  <2>3. QED
    BY <1>3, <2>1, <2>2 DEF RunnerFault
<1>4. ASSUME NEW k \in outbox, HandlerFault(k)
      PROVE  TypeOK'
  BY <1>4 DEF HandlerFault, db, redis, memory
<1>5. QED
  BY <1>1, <1>2, <1>3, <1>4 DEF Environment

LEMMA StutterType == TypeOK /\ UNCHANGED vars => TypeOK'
BY DEF TypeOK, vars, db, redis, api, memory, env

(* The variables of the engine keep their types.                           *)
THEOREM TypeCorrect == Spec => []TypeOK
<1>1. TypeOK /\ [Next]_vars => TypeOK'
  BY RunnerType, ApiType, EnvironmentType, StutterType DEF Next
<1>2. QED
  BY InitType, <1>1, PTL DEF Spec

-----------------------------------------------------------------------------
(* Approval requests. *)

(* The only steps that touch the approval requests.                        *)
LEMMA RequestWriters ==
  ASSUME [Next]_vars
  PROVE  \/ requests' = requests
         \/ \E s \in Slots : CreateApprovalRequest(s)
         \/ \E i \in DOMAIN requests, d \in Decisions : CommitResolve(i, d)
<1>1. ASSUME NEW s \in Slots, RunnerStep(s), ~CreateApprovalRequest(s)
      PROVE  requests' = requests
  BY <1>1 DEF RunnerStep, Execute, Record, TakeJob, LoadExecution, LoadSteps, StartRun,
    ReuseStep, BeginNode, ExecutePure, ExecuteCondition, ExecuteCall, ExecuteWait,
    ExecuteApproval, RecordRetry, SaveFailed, SavePending, SaveSucceeded, SaveContext,
    PauseRun, ScheduleResume, FailRun, FinishRun, CompleteJob, db
<1>2. ASSUME NEW i \in DOMAIN requests, NEW d \in Decisions, BeginResolve(i, d)
      PROVE  requests' = requests
  BY <1>2 DEF BeginResolve, db
<1>3. ASSUME NEW k, EnqueueRun(k) PROVE requests' = requests
  BY <1>3 DEF EnqueueRun, db
<1>4. ASSUME Environment PROVE requests' = requests
  BY <1>4 DEF Environment, Tick, Crash, RunnerFault, HandlerFault, db
<1>5. ASSUME UNCHANGED vars PROVE requests' = requests
  BY <1>5 DEF vars, db
<1>6. QED
  BY <1>1, <1>2, <1>3, <1>4, <1>5 DEF Next, ApiStep

(* Requests are only added, keep their node, and a request that is no      *)
(* longer pending keeps its status.                                        *)
LEMMA RequestsGrow ==
  ASSUME TypeOK, [Next]_vars, NEW i \in DOMAIN requests
  PROVE  /\ i \in DOMAIN requests'
         /\ requests'[i].node = requests[i].node
         /\ requests[i].status # "pending" => requests'[i].status = requests[i].status
<1>1. requests \in Seq(Requests) /\ i \in 1 .. Len(requests)
  BY DEF TypeOK
<1>2. CASE requests' = requests
  BY <1>2
<1>3. ASSUME NEW s \in Slots, CreateApprovalRequest(s)
      PROVE  i \in DOMAIN requests' /\ requests'[i] = requests[i]
  <2> DEFINE r == [node |-> cur[s], status |-> "pending",
                   expiresAt |-> IF ExpiresIn > 0 THEN now + ExpiresIn ELSE 0]
  <2>1. r \in Requests
    <3>1. cur[s] \in Node /\ now \in Nat /\ ExpiresIn \in Nat
      BY EngineAssumption DEF TypeOK
    <3>2. (IF ExpiresIn > 0 THEN now + ExpiresIn ELSE 0) \in Nat
      BY <3>1
    <3> QED BY <3>1, <3>2 DEF Requests, RequestStatuses
  <2>2. requests' = Append(requests, r)
    BY <1>3 DEF CreateApprovalRequest
  <2>3. QED
    BY <1>1, <2>1, <2>2, AppendProperties
<1>4. ASSUME NEW k \in DOMAIN requests, NEW d \in Decisions, CommitResolve(k, d)
      PROVE  /\ i \in DOMAIN requests'
             /\ requests'[i].node = requests[i].node
             /\ requests[i].status # "pending" => requests'[i].status = requests[i].status
  <2>1. requests[k] \in Requests
    BY RequestAt
  <2>2. QED
    BY <1>4, <2>1 DEF CommitResolve, UpdateMatches, Requests
<1>5. QED
  BY <1>2, <1>3, <1>4, RequestWriters

(* A resolved approval request keeps its resolution.                       *)
THEOREM DecisionsAreFinal == Spec => DecisionIsFinal
<1>1. TypeOK /\ [Next]_vars =>
        [\A i \in DOMAIN requests :
           requests[i].status # "pending" => requests'[i].status = requests[i].status]_vars
  BY RequestsGrow
<1>2. QED
  BY <1>1, TypeCorrect, PTL DEF Spec, DecisionIsFinal

-----------------------------------------------------------------------------
(***************************************************************************)
(* The approval gate.  A slot reads the decision with one await and writes *)
(* it with another, so the invariant has to say of the outcome in flight   *)
(* what ApprovalGate says of the record.                                   *)
(***************************************************************************)
Backed(reqs, n, b) == \E i \in DOMAIN reqs : reqs[i].node = n /\ reqs[i].status = b

GateInFlight ==
  \A s \in Slots :
    pc[s] = "saveStep" /\ out[s].kind = "succeeded" /\ Kind[cur[s]] = "approval"
      => Backed(requests, cur[s], out[s].branch)

GateInv == TypeOK /\ ApprovalGate /\ GateInFlight

LEMMA BackedForGood ==
  ASSUME TypeOK, [Next]_vars, NEW n \in Node, NEW b \in Branches, Backed(requests, n, b)
  PROVE  Backed(requests', n, b)
<1>1. PICK i \in DOMAIN requests : requests[i].node = n /\ requests[i].status = b
  BY DEF Backed
<1>2. b # "pending"
  BY DEF Branches, NoBranch, Decisions
<1>3. QED
  BY <1>1, <1>2, RequestsGrow DEF Backed

(* What a step leaves alone stays backed.                                  *)
LEMMA GateRecordKept ==
  ASSUME GateInv, [Next]_vars, NEW n \in Node, step'[n] = step[n],
         Kind[n] = "approval", step'[n].status = "succeeded"
  PROVE  Backed(requests', n, step'[n].branch)
<1>1. step[n].branch \in Branches
  BY DEF GateInv, TypeOK, Steps
<1>2. Backed(requests, n, step[n].branch)
  BY DEF GateInv, ApprovalGate, Backed, RequestsOf
<1>3. Backed(requests', n, step[n].branch)
  BY <1>1, <1>2, BackedForGood DEF GateInv
<1>4. QED
  BY <1>3 DEF Backed

LEMMA GateOutcomeKept ==
  ASSUME GateInv, [Next]_vars, NEW s \in Slots,
         pc'[s] = pc[s], out'[s] = out[s], cur'[s] = cur[s],
         pc'[s] = "saveStep", out'[s].kind = "succeeded", Kind[cur'[s]] = "approval"
  PROVE  Backed(requests', cur'[s], out'[s].branch)
<1>1. cur[s] \in Node /\ out[s].branch \in Branches
  BY DEF GateInv, TypeOK, Outcomes
<1>2. Backed(requests, cur[s], out[s].branch)
  BY DEF GateInv, GateInFlight
<1>3. Backed(requests', cur[s], out[s].branch)
  BY <1>1, <1>2, BackedForGood DEF GateInv
<1>4. QED
  BY <1>3 DEF Backed

(* Only SaveSucceeded writes a succeeded record.                           *)
LEMMA SuccessWriters ==
  ASSUME TypeOK, [Next]_vars, NEW n \in Node, step'[n].status = "succeeded"
  PROVE  \/ step'[n] = step[n]
         \/ \E s \in Slots :
              /\ SaveSucceeded(s)
              /\ n = cur[s]
              /\ step'[n].branch = out[s].branch
<1>0. cur \in [Slots -> Node] /\ step \in [Node -> Steps]
  BY DEF TypeOK
<1>1. ASSUME NEW s \in Slots, RunnerStep(s),
             ~SaveSucceeded(s), ~RecordRetry(s), ~SaveFailed(s), ~SavePending(s)
      PROVE  step' = step
  BY <1>1 DEF RunnerStep, Execute, Record, TakeJob, LoadExecution, LoadSteps, StartRun,
    ReuseStep, BeginNode, ExecutePure, ExecuteCondition, ExecuteCall, ExecuteWait,
    ExecuteApproval, CreateApprovalRequest, SaveContext,
    PauseRun, ScheduleResume, FailRun, FinishRun, CompleteJob, db
<1>2. ASSUME NEW s \in Slots, RecordRetry(s) \/ SaveFailed(s) \/ SavePending(s)
      PROVE  step'[n] = step[n]
  BY <1>0, <1>2 DEF RecordRetry, SaveFailed, SavePending, Upsert
<1>3. ASSUME NEW s \in Slots, SaveSucceeded(s), step'[n] # step[n]
      PROVE  n = cur[s] /\ step'[n].branch = out[s].branch
  BY <1>0, <1>3 DEF SaveSucceeded, Upsert
<1>4. ASSUME ApiStep \/ Environment \/ UNCHANGED vars PROVE step' = step
  BY <1>4 DEF ApiStep, BeginResolve, CommitResolve, EnqueueRun, Environment, Tick,
    Crash, RunnerFault, HandlerFault, db, vars
<1>5. QED
  BY <1>1, <1>2, <1>3, <1>4 DEF Next

(* A slot's outcome changes, or comes to be recorded, only when the slot    *)
(* executes a node, fails on an exception or drops its memory.             *)
LEMMA OutcomeWriters ==
  ASSUME TypeOK, [Next]_vars, NEW s \in Slots,
         out'[s] # out[s] \/ pc'[s] = "saveStep"
  PROVE  \/ pc'[s] = pc[s] /\ out'[s] = out[s] /\ cur'[s] = cur[s]
         \/ Execute(s) /\ cur' = cur
         \/ out'[s] = Failed
<1> DEFINE Kept == pc'[s] = pc[s] /\ out'[s] = out[s] /\ cur'[s] = cur[s]
<1>0. /\ pc \in [Slots -> Labels] /\ out \in [Slots -> Outcomes]
      /\ cur \in [Slots -> Node]
  BY DEF TypeOK
<1>1. ASSUME NEW T \in SUBSET Slots, Release(T)
      PROVE  Kept \/ out'[s] = Failed
  BY <1>0, <1>1 DEF Release
<1>2. ASSUME NEW r \in Slots, RunnerStep(r)
      PROVE  Kept \/ (Execute(s) /\ cur' = cur) \/ out'[s] = Failed
  <2>1. CASE \/ TakeJob(r) \/ LoadExecution(r) \/ LoadSteps(r) \/ StartRun(r)
             \/ BeginNode(r) \/ SaveContext(r) \/ ReuseStep(r)
    BY <1>0, <2>1 DEF TakeJob, LoadExecution, LoadSteps, StartRun, BeginNode,
      SaveContext, ReuseStep, Advance, Goto
  <2>2. CASE Execute(r)
    BY <1>0, <2>2 DEF Execute, ExecutePure, ExecuteCondition, ExecuteCall, ExecuteWait,
      ExecuteApproval, CreateApprovalRequest, Return, Goto
  <2>3. CASE Record(r) /\ ~SaveContext(r)
    BY <1>0, <2>3 DEF Record, RecordRetry, SaveFailed, SavePending, SaveSucceeded,
      PauseRun, ScheduleResume, FailRun, FinishRun, Goto
  <2>4. CASE CompleteJob(r)
    <3>1. {r} \in SUBSET Slots
      OBVIOUS
    <3>2. QED
      BY <1>1, <2>4, <3>1 DEF CompleteJob
  <2>5. QED
    BY <1>2, <2>1, <2>2, <2>3, <2>4 DEF RunnerStep
<1>3. ASSUME NEW p, Crash(p) PROVE Kept \/ out'[s] = Failed
  BY <1>1, <1>3 DEF Crash
<1>4. ASSUME NEW r \in Slots, RunnerFault(r) PROVE Kept \/ out'[s] = Failed
  <2>1. CASE Return(r, Failed) /\ UNCHANGED cur
    BY <1>0, <2>1 DEF Return, Goto
  <2>2. CASE Release({r})
    <3>1. {r} \in SUBSET Slots
      OBVIOUS
    <3>2. QED
      BY <1>1, <2>2, <3>1
  <2>3. QED
    BY <1>4, <2>1, <2>2 DEF RunnerFault
<1>5. ASSUME ApiStep \/ Tick \/ (\E k \in outbox : HandlerFault(k)) \/ UNCHANGED vars
      PROVE  Kept
  BY <1>5 DEF ApiStep, BeginResolve, CommitResolve, EnqueueRun, Tick, HandlerFault,
    memory, vars
<1>6. QED
  BY <1>2, <1>3, <1>4, <1>5 DEF Next, Environment

LEMMA GateStep == GateInv /\ [Next]_vars => GateInv'
<1> SUFFICES ASSUME GateInv, [Next]_vars PROVE GateInv'
  OBVIOUS
<1> USE DEF GateInv
<1>1. TypeOK'
  BY RunnerType, ApiType, EnvironmentType, StutterType DEF Next
<1>2. ASSUME NEW n \in Node, Kind[n] = "approval", step'[n].status = "succeeded"
      PROVE  Backed(requests', n, step'[n].branch)
  <2>1. CASE step'[n] = step[n]
    BY <1>2, <2>1, GateRecordKept
  <2>2. ASSUME NEW s \in Slots, SaveSucceeded(s), n = cur[s],
               step'[n].branch = out[s].branch
        PROVE  Backed(requests', n, step'[n].branch)
    <3>1. Backed(requests, n, out[s].branch)
      BY <1>2, <2>2 DEF SaveSucceeded, GateInFlight
    <3>2. out[s].branch \in Branches
      BY DEF TypeOK, Outcomes
    <3>3. Backed(requests', n, out[s].branch)
      BY <3>1, <3>2, BackedForGood
    <3>4. QED
      BY <2>2, <3>3
  <2>3. QED
    BY <1>2, <2>1, <2>2, SuccessWriters
<1>3. ASSUME NEW s \in Slots, pc'[s] = "saveStep", out'[s].kind = "succeeded",
             Kind[cur'[s]] = "approval"
      PROVE  Backed(requests', cur'[s], out'[s].branch)
  <2>1. CASE pc'[s] = pc[s] /\ out'[s] = out[s] /\ cur'[s] = cur[s]
    BY <1>3, <2>1, GateOutcomeKept
  <2>2. CASE Execute(s) /\ cur' = cur
    <3>1. ExecuteApproval(s) /\ requests' = requests
      BY <1>3, <2>2 DEF Execute, ExecutePure, ExecuteCondition, ExecuteCall, ExecuteWait,
        ExecuteApproval, CreateApprovalRequest, Return, WaitingApproval, TypeOK, db
    <3>2. PICK i \in DOMAIN requests :
             /\ IsLatest(i, cur[s])
             /\ Return(s, ApprovalOutcome(requests[i].status))
      BY <1>3, <3>1 DEF ExecuteApproval, Goto, TypeOK
    <3>3. out'[s] = ApprovalOutcome(requests[i].status)
      BY <3>2 DEF Return, TypeOK
    <3>4. out'[s].branch = requests[i].status
      BY <1>3, <3>3 DEF ApprovalOutcome, WaitingApproval, Succeeded
    <3>5. i \in RequestsOf(cur[s])
      BY <3>2 DEF IsLatest
    <3>6. QED
      BY <2>2, <3>1, <3>4, <3>5 DEF Backed, RequestsOf
  <2>3. QED
    BY <1>3, <2>1, <2>2, OutcomeWriters DEF Failed
<1>4. ApprovalGate'
  BY <1>2 DEF ApprovalGate, Backed, RequestsOf
<1>5. GateInFlight'
  BY <1>3 DEF GateInFlight, Backed
<1>6. QED
  BY <1>1, <1>4, <1>5

(* No approval node counts as completed along a branch its request was not *)
(* resolved to, whatever runners, crashes and resolve calls do.            *)
THEOREM GateHolds == Spec => []ApprovalGate
<1>1. Init => GateInv
  <2>1. ASSUME Init PROVE ApprovalGate /\ GateInFlight
    BY <2>1 DEF Init, ApprovalGate, GateInFlight, NoStep
  <2>2. QED
    BY <2>1, InitType DEF GateInv
<1>2. GateInv => ApprovalGate
  BY DEF GateInv
<1>3. QED
  BY <1>1, <1>2, GateStep, PTL DEF Spec

-----------------------------------------------------------------------------
(***************************************************************************)
(* Run jobs.  A crash puts the job a slot holds back into the queue, so    *)
(* the invariant also speaks of the jobs in the slots' memory.             *)
(***************************************************************************)
Decided(reqs, k) == k # 0 => k \in DOMAIN reqs /\ reqs[k].status # "pending"

JobDecided(reqs, j) == j.type = "execution.run" => Decided(reqs, j.key)

ResumeInv ==
  /\ TypeOK
  /\ \A k \in outbox : Decided(requests, k)
  /\ \A j \in queue : JobDecided(requests, j)
  /\ \A s \in Slots : JobDecided(requests, job[s])

LEMMA DecidedForGood ==
  ASSUME TypeOK, [Next]_vars, NEW k \in Nat, Decided(requests, k)
  PROVE  Decided(requests', k)
BY RequestsGrow DEF Decided

(* Where a key an API handler has yet to enqueue comes from.               *)
LEMMA OutboxWriters ==
  ASSUME TypeOK, [Next]_vars, NEW k \in outbox', k \notin outbox
  PROVE  Decided(requests', k)
<1>1. ASSUME NEW s \in Slots, RunnerStep(s) PROVE outbox' = outbox
  BY <1>1 DEF RunnerStep, Execute, Record, TakeJob, LoadExecution, LoadSteps, StartRun,
    ReuseStep, BeginNode, ExecutePure, ExecuteCondition, ExecuteCall, ExecuteWait,
    ExecuteApproval, CreateApprovalRequest, RecordRetry, SaveFailed, SavePending,
    SaveSucceeded, SaveContext, PauseRun, ScheduleResume, FailRun, FinishRun,
    CompleteJob, api
<1>2. ASSUME NEW i \in DOMAIN requests, NEW d \in Decisions, BeginResolve(i, d)
      PROVE  outbox' = outbox
  BY <1>2 DEF BeginResolve
<1>3. ASSUME NEW i \in DOMAIN requests, NEW d \in Decisions, CommitResolve(i, d)
      PROVE  Decided(requests', k)
  <2>1. requests' = [requests EXCEPT ![i].status = d] /\ k = i
    BY <1>3 DEF CommitResolve
  <2>2. requests[i] \in Requests
    BY RequestAt
  <2>3. requests'[i].status = d
    BY <2>1, <2>2 DEF Requests
  <2>4. QED
    BY <2>1, <2>3 DEF Decided, Decisions
<1>4. ASSUME (\E x \in outbox : EnqueueRun(x)) \/ Environment \/ UNCHANGED vars
      PROVE  outbox' \subseteq outbox
  BY <1>4 DEF EnqueueRun, Environment, Tick, Crash, RunnerFault, HandlerFault, api, vars
<1>5. QED
  BY <1>1, <1>2, <1>3, <1>4 DEF Next, ApiStep

(* Where a job of the queue comes from.                                    *)
LEMMA QueueWriters ==
  ASSUME TypeOK, [Next]_vars, NEW j \in queue', j \notin queue
  PROVE  \/ j.type = "execution.resume-wait"
         \/ \E k \in outbox : j = RunJob(k)
         \/ \E s \in Slots : j = Redelivered(job[s])
<1>1. ASSUME NEW s \in Slots, RunnerStep(s), ~ScheduleResume(s)
      PROVE  queue' \subseteq queue
  BY <1>1 DEF RunnerStep, Execute, Record, TakeJob, LoadExecution, LoadSteps, StartRun,
    ReuseStep, BeginNode, ExecutePure, ExecuteCondition, ExecuteCall, ExecuteWait,
    ExecuteApproval, CreateApprovalRequest, RecordRetry, SaveFailed, SavePending,
    SaveSucceeded, SaveContext, PauseRun, FailRun, FinishRun, CompleteJob, redis
<1>2. ASSUME NEW s \in Slots, ScheduleResume(s)
      PROVE  j.type = "execution.resume-wait"
  BY <1>2 DEF ScheduleResume, WakeJob
<1>3. ASSUME NEW i \in DOMAIN requests, NEW d \in Decisions,
             BeginResolve(i, d) \/ CommitResolve(i, d)
      PROVE  queue' = queue
  BY <1>3 DEF BeginResolve, CommitResolve, redis
<1>4. ASSUME NEW k \in outbox, EnqueueRun(k) PROVE j = RunJob(k)
  BY <1>4 DEF EnqueueRun
<1>5. ASSUME NEW p, Crash(p) PROVE \E s \in Slots : j = Redelivered(job[s])
  BY <1>5 DEF Crash
<1>6. ASSUME Environment, ~(\E p \in {Proc[s] : s \in Slots} : Crash(p))
      PROVE  queue' = queue
  BY <1>6 DEF Environment, Tick, RunnerFault, HandlerFault, redis
<1>7. ASSUME UNCHANGED vars PROVE queue' = queue
  BY <1>7 DEF vars, redis
<1>8. QED
  BY <1>1, <1>2, <1>3, <1>4, <1>5, <1>6, <1>7 DEF Next, ApiStep

(* A slot keeps its job, drops it, or takes one from the queue.            *)
LEMMA JobWriters ==
  ASSUME TypeOK, [Next]_vars, NEW s \in Slots
  PROVE  job'[s] = job[s] \/ job'[s] = RunJob(0) \/ job'[s] \in queue
<1>0. job \in [Slots -> Jobs]
  BY DEF TypeOK
<1>1. ASSUME NEW r \in Slots, TakeJob(r) PROVE job'[s] = job[s] \/ job'[s] \in queue
  BY <1>0, <1>1 DEF TakeJob
<1>2. ASSUME NEW T \in SUBSET Slots, Release(T)
      PROVE  job'[s] = job[s] \/ job'[s] = RunJob(0)
  BY <1>2 DEF Release
<1>3. ASSUME NEW r \in Slots, CompleteJob(r) PROVE job'[s] = job[s] \/ job'[s] = RunJob(0)
  <2>1. {r} \in SUBSET Slots
    OBVIOUS
  <2>2. QED
    BY <1>2, <1>3, <2>1 DEF CompleteJob
<1>4. ASSUME NEW r \in Slots, RunnerStep(r), ~TakeJob(r), ~CompleteJob(r)
      PROVE  job' = job
  BY <1>4 DEF RunnerStep, Execute, Record, LoadExecution, LoadSteps, StartRun,
    ReuseStep, BeginNode, ExecutePure, ExecuteCondition, ExecuteCall, ExecuteWait,
    ExecuteApproval, CreateApprovalRequest, RecordRetry, SaveFailed, SavePending,
    SaveSucceeded, SaveContext, PauseRun, ScheduleResume, FailRun, FinishRun
<1>5. ASSUME NEW p, Crash(p) PROVE job'[s] = job[s] \/ job'[s] = RunJob(0)
  BY <1>2, <1>5 DEF Crash
<1>6. ASSUME NEW r \in Slots, RunnerFault(r) PROVE job'[s] = job[s] \/ job'[s] = RunJob(0)
  <2>1. {r} \in SUBSET Slots
    OBVIOUS
  <2>2. QED
    BY <1>2, <1>6, <2>1 DEF RunnerFault
<1>7. ASSUME ApiStep \/ Tick \/ (\E k \in outbox : HandlerFault(k)) \/ UNCHANGED vars
      PROVE  job' = job
  BY <1>7 DEF ApiStep, BeginResolve, CommitResolve, EnqueueRun, Tick, HandlerFault,
    memory, vars
<1>8. QED
  BY <1>1, <1>3, <1>4, <1>5, <1>6, <1>7 DEF Next, Environment

LEMMA ResumeStep == ResumeInv /\ [Next]_vars => ResumeInv'
<1> SUFFICES ASSUME ResumeInv, [Next]_vars PROVE ResumeInv'
  OBVIOUS
<1> USE DEF ResumeInv
<1>1. TypeOK'
  BY RunnerType, ApiType, EnvironmentType, StutterType DEF Next
<1>2. outbox \subseteq Nat /\ queue \subseteq Jobs /\ job \in [Slots -> Jobs]
  BY DEF TypeOK
<1>3. ASSUME NEW k \in outbox' PROVE Decided(requests', k)
  BY <1>2, DecidedForGood, OutboxWriters
<1>4. ASSUME NEW j \in Jobs, JobDecided(requests, j) PROVE JobDecided(requests', j)
  <2>1. j.key \in Nat
    BY DEF Jobs
  <2>2. QED
    BY <1>4, <2>1, DecidedForGood DEF JobDecided
<1>5. ASSUME NEW j \in queue' PROVE JobDecided(requests', j)
  <2>1. CASE j \in queue
    BY <1>2, <1>4, <2>1
  <2>2. CASE j.type = "execution.resume-wait"
    BY <2>2 DEF JobDecided
  <2>3. ASSUME NEW k \in outbox, j = RunJob(k) PROVE JobDecided(requests', j)
    BY <1>2, <2>3, DecidedForGood DEF RunJob, JobDecided
  <2>4. ASSUME NEW s \in Slots, j = Redelivered(job[s]) PROVE JobDecided(requests', j)
    <3>1. job[s] \in Jobs /\ JobDecided(requests', job[s])
      BY <1>2, <1>4
    <3>2. j.type = job[s].type /\ j.key = job[s].key
      BY <2>4, <3>1 DEF Redelivered, Jobs
    <3>3. QED
      BY <3>1, <3>2 DEF JobDecided
  <2>5. QED
    BY <2>1, <2>2, <2>3, <2>4, QueueWriters
<1>6. ASSUME NEW s \in Slots PROVE JobDecided(requests', job'[s])
  <2>1. JobDecided(requests', RunJob(0))
    BY DEF JobDecided, RunJob, Decided
  <2>2. QED
    BY <1>2, <1>4, <2>1, JobWriters
<1>7. QED
  BY <1>1, <1>3, <1>5, <1>6

(* A resume job exists only for a request whose decision is committed, and *)
(* a crash or a redelivery brings no other one about.                      *)
THEOREM ResumesFollowDecisions == Spec => []ResumeFollowsDecision
<1>1. Init => ResumeInv
  <2>1. ASSUME Init
        PROVE  /\ \A k \in outbox : Decided(requests, k)
               /\ \A j \in queue : JobDecided(requests, j)
               /\ \A s \in Slots : JobDecided(requests, job[s])
    BY <2>1 DEF Init, Decided, JobDecided, RunJob
  <2>2. QED
    BY <2>1, InitType DEF ResumeInv
<1>2. ResumeInv => ResumeFollowsDecision
  BY DEF ResumeInv, ResumeFollowsDecision, Decided, JobDecided
<1>3. QED
  BY <1>1, <1>2, ResumeStep, PTL DEF Spec

-----------------------------------------------------------------------------
(***************************************************************************)
(* Waits.  Whatever has a record, in the database or in a slot's copy, and *)
(* whatever a slot stands at, is the trigger or behind a node that is      *)
(* done; every recorded or remembered resume time is a whole duration      *)
(* after one of those; and a wait node's success in flight was decided     *)
(* when that time had come.  All of it is said of a history d of the       *)
(* instants at which nodes were done, which only grows.                    *)
(***************************************************************************)
Reached(d, n) == n = Trigger \/ \E m \in Node : Precedes(m, n) /\ d[m] # 0

WaitedUntil(d, n, t) ==
  \E m \in Node : Precedes(m, n) /\ d[m] # 0 /\ t >= d[m] + WaitFor

LateEnough(d, n, t) == t = 0 \/ WaitedUntil(d, n, t)

(* What holds of a record r of node n.                                     *)
Sound(d, n, r) ==
  /\ r.status # "none" => Reached(d, n)
  /\ r.status = "succeeded" => d[n] # 0
  /\ LateEnough(d, n, r.resumeAt)

HistoryInv ==
  /\ now >= 1
  /\ \A n \in Node : doneAt[n] <= now

(* Slot s is where done nodes lead, and knows no other records.            *)
SlotInv(s) ==
  /\ \A n \in Node : Sound(doneAt, n, steps[s][n])
  /\ Reached(doneAt, cur[s])
  /\ pc[s] = "saveContext" => doneAt[cur[s]] # 0
  /\ pc[s] = "saveStep" => LateEnough(doneAt, cur[s], out[s].resumeAt)
  /\ pc[s] = "saveStep" /\ out[s].kind = "succeeded" /\ Kind[cur[s]] = "wait"
       => WaitedUntil(doneAt, cur[s], now)

WaitInv ==
  /\ TypeOK /\ HistoryInv /\ WaitElapses
  /\ \A n \in Node : Sound(doneAt, n, step[n])
  /\ \A s \in Slots : SlotInv(s)

(* Time does not go back.                                                  *)
LEMMA ClockGrows ==
  ASSUME TypeOK, [Next]_vars
  PROVE  now' \in Nat /\ now <= now'
<1>1. ASSUME NEW s \in Slots, RunnerStep(s) PROVE now' = now
  BY <1>1 DEF RunnerStep, Execute, Record, TakeJob, LoadExecution, LoadSteps, StartRun,
    ReuseStep, BeginNode, ExecutePure, ExecuteCondition, ExecuteCall, ExecuteWait,
    ExecuteApproval, CreateApprovalRequest, RecordRetry, SaveFailed, SavePending,
    SaveSucceeded, SaveContext, PauseRun, ScheduleResume, FailRun, FinishRun,
    CompleteJob, env
<1>2. ASSUME ApiStep \/ UNCHANGED vars PROVE now' = now
  BY <1>2 DEF ApiStep, BeginResolve, CommitResolve, EnqueueRun, vars, env
<1>3. ASSUME Environment PROVE now' = now \/ now' = now + 1
  BY <1>3 DEF Environment, Tick, Crash, RunnerFault, HandlerFault
<1>4. now \in Nat
  BY DEF TypeOK
<1>5. QED
  BY <1>1, <1>2, <1>3, <1>4 DEF Next

(* The outcome of a node that is not a wait node carries no resume time.   *)
LEMMA ResumeTimeWriters ==
  ASSUME TypeOK, NEW s \in Slots, Execute(s), ~ExecuteWait(s), pc'[s] = "saveStep"
  PROVE  /\ out'[s].resumeAt = 0
         /\ out'[s].kind = "succeeded" => Kind[cur[s]] # "wait"
<1>1. out \in [Slots -> Outcomes] /\ pc \in [Slots -> Labels]
  BY DEF TypeOK
<1>2. CASE ExecutePure(s)
  BY <1>1, <1>2 DEF ExecutePure, Return, Succeeded
<1>3. CASE ExecuteCondition(s)
  BY <1>1, <1>3 DEF ExecuteCondition, Return, Succeeded, Failed
<1>4. CASE ExecuteCall(s)
  BY <1>1, <1>4 DEF ExecuteCall, Return, Goto, Succeeded, Failed
<1>5. CASE ExecuteApproval(s)
  BY <1>1, <1>5 DEF ExecuteApproval, Return, Goto, ApprovalOutcome, Succeeded, WaitingApproval
<1>6. CASE CreateApprovalRequest(s)
  BY <1>1, <1>6 DEF CreateApprovalRequest, Return, WaitingApproval
<1>7. QED
  BY <1>2, <1>3, <1>4, <1>5, <1>6 DEF Execute

(* A record is written by a slot, for the node it stands at; only a pause   *)
(* gives it a resume time, that of the outcome.                            *)
LEMMA RecordWriters ==
  ASSUME TypeOK, [Next]_vars, NEW n \in Node
  PROVE  \/ step'[n] = step[n]
         \/ \E s \in Slots :
              /\ n = cur[s]
              /\ \/ step'[n].resumeAt = 0
                 \/ pc[s] = "saveStep" /\ step'[n].resumeAt = out[s].resumeAt
<1>0. cur \in [Slots -> Node] /\ step \in [Node -> Steps]
  BY DEF TypeOK
<1>1. ASSUME NEW s \in Slots, RunnerStep(s),
             ~SaveSucceeded(s), ~RecordRetry(s), ~SaveFailed(s), ~SavePending(s)
      PROVE  step' = step
  BY <1>1 DEF RunnerStep, Execute, Record, TakeJob, LoadExecution, LoadSteps, StartRun,
    ReuseStep, BeginNode, ExecutePure, ExecuteCondition, ExecuteCall, ExecuteWait,
    ExecuteApproval, CreateApprovalRequest, SaveContext,
    PauseRun, ScheduleResume, FailRun, FinishRun, CompleteJob, db
<1>2. ASSUME NEW s \in Slots, RecordRetry(s) \/ SaveFailed(s) \/ SaveSucceeded(s)
      PROVE  step'[n] = step[n] \/ (n = cur[s] /\ step'[n].resumeAt = 0)
  BY <1>0, <1>2 DEF RecordRetry, SaveFailed, SaveSucceeded, Upsert
<1>3. ASSUME NEW s \in Slots, SavePending(s), step'[n] # step[n]
      PROVE  n = cur[s] /\ pc[s] = "saveStep" /\ step'[n].resumeAt = out[s].resumeAt
  BY <1>0, <1>3 DEF SavePending, Upsert
<1>4. ASSUME ApiStep \/ Environment \/ UNCHANGED vars PROVE step' = step
  BY <1>4 DEF ApiStep, BeginResolve, CommitResolve, EnqueueRun, Environment, Tick,
    Crash, RunnerFault, HandlerFault, db, vars
<1>5. QED
  BY <1>1, <1>2, <1>3, <1>4 DEF Next

(* A slot's copy of a record is dropped, loaded, or the success it saves.  *)
LEMMA CopyWriters ==
  ASSUME TypeOK, [Next]_vars, NEW s \in Slots, NEW n \in Node
  PROVE  \/ steps'[s][n] \in {steps[s][n], step[n], NoStep}
         \/ /\ n = cur[s]
            /\ step'[n].status = "succeeded"
            /\ steps'[s][n].resumeAt = 0
<1> DEFINE Old == steps'[s][n] \in {steps[s][n], step[n], NoStep}
<1>0. steps \in [Slots -> [Node -> Steps]] /\ cur \in [Slots -> Node]
      /\ step \in [Node -> Steps]
  BY DEF TypeOK
<1>1. ASSUME NEW T \in SUBSET Slots, Release(T) PROVE Old
  BY <1>0, <1>1 DEF Release
<1>2. ASSUME NEW r \in Slots, RunnerStep(r),
             ~LoadSteps(r), ~SaveSucceeded(r), ~CompleteJob(r)
      PROVE  steps' = steps
  BY <1>2 DEF RunnerStep, Execute, Record, TakeJob, LoadExecution, StartRun,
    ReuseStep, BeginNode, ExecutePure, ExecuteCondition, ExecuteCall, ExecuteWait,
    ExecuteApproval, CreateApprovalRequest, RecordRetry, SaveFailed, SavePending,
    SaveContext, PauseRun, ScheduleResume, FailRun, FinishRun
<1>3. ASSUME NEW r \in Slots, LoadSteps(r) PROVE Old
  BY <1>0, <1>3 DEF LoadSteps
<1>4. ASSUME NEW r \in Slots, SaveSucceeded(r), ~Old
      PROVE  n = cur[s] /\ step'[n].status = "succeeded" /\ steps'[s][n].resumeAt = 0
  <2>1. r = s /\ n = cur[s] /\ steps'[s][n].resumeAt = 0
    BY <1>0, <1>4 DEF SaveSucceeded
  <2>2. step'[n].status = "succeeded"
    BY <1>0, <1>4, <2>1 DEF SaveSucceeded, Upsert
  <2>3. QED
    BY <2>1, <2>2
<1>5. ASSUME NEW r \in Slots, CompleteJob(r) \/ RunnerFault(r) PROVE Old
  <2>1. {r} \in SUBSET Slots
    OBVIOUS
  <2>2. QED
    BY <1>1, <1>5, <2>1 DEF CompleteJob, RunnerFault
<1>6. ASSUME NEW p, Crash(p) PROVE Old
  BY <1>1, <1>6 DEF Crash
<1>7. ASSUME ApiStep \/ Tick \/ (\E k \in outbox : HandlerFault(k)) \/ UNCHANGED vars
      PROVE  steps' = steps
  BY <1>7 DEF ApiStep, BeginResolve, CommitResolve, EnqueueRun, Tick, HandlerFault,
    memory, vars
<1>8. QED
  BY <1>2, <1>3, <1>4, <1>5, <1>6, <1>7 DEF Next, Environment

(* The loop goes on along an edge.                                         *)
LEMMA AdvancePrecedes ==
  ASSUME TypeOK, NEW s \in Slots, NEW b, Advance(s, cur[s], b)
  PROVE  \/ cur' = cur
         \/ /\ \A r \in Slots \ {s} : cur'[r] = cur[r]
            /\ Precedes(cur[s], cur'[s])
<1>1. CASE UNCHANGED cur
  BY <1>1
<1>2. ASSUME NEW m \in Node, LeadsTo(cur[s], b, m), cur' = [cur EXCEPT ![s] = m]
      PROVE  (\A r \in Slots \ {s} : cur'[r] = cur[r]) /\ Precedes(cur[s], cur'[s])
  <2>1. cur'[s] = m /\ \A r \in Slots \ {s} : cur'[r] = cur[r]
    BY <1>2 DEF TypeOK
  <2>2. Precedes(cur[s], m)
    BY <1>2 DEF LeadsTo, Matching, Outgoing, Precedes
  <2>3. QED
    BY <2>1, <2>2
<1>3. QED
  BY <1>1, <1>2 DEF Advance

(* A slot moves to the trigger, to a node its copy has a record of, or     *)
(* along an edge from a node that it has seen succeed or saved as a        *)
(* success.                                                                *)
LEMMA PlaceWriters ==
  ASSUME TypeOK, [Next]_vars, NEW s \in Slots
  PROVE  \/ cur'[s] \in {cur[s], Trigger}
         \/ cur'[s] \in Node /\ steps[s][cur'[s]].status # "none"
         \/ /\ Precedes(cur[s], cur'[s])
            /\ pc[s] = "saveContext" \/ steps[s][cur[s]].status = "succeeded"
<1> DEFINE Stays == cur'[s] \in {cur[s], Trigger}
<1>0. cur \in [Slots -> Node] /\ steps \in [Slots -> [Node -> Steps]]
  BY DEF TypeOK
<1>1. ASSUME NEW T \in SUBSET Slots, Release(T) PROVE Stays
  BY <1>0, <1>1 DEF Release
<1>2. ASSUME NEW r \in Slots, RunnerStep(r),
             ~StartRun(r), ~ReuseStep(r), ~SaveContext(r), ~CompleteJob(r)
      PROVE  cur' = cur
  BY <1>2 DEF RunnerStep, Execute, Record, TakeJob, LoadExecution, LoadSteps,
    BeginNode, ExecutePure, ExecuteCondition, ExecuteCall, ExecuteWait,
    ExecuteApproval, CreateApprovalRequest, RecordRetry, SaveFailed, SavePending,
    SaveSucceeded, PauseRun, ScheduleResume, FailRun, FinishRun
<1>3. ASSUME NEW r \in Slots, StartRun(r)
      PROVE  Stays \/ (cur'[s] \in Node /\ steps[s][cur'[s]].status # "none")
  BY <1>0, <1>3 DEF StartRun, IsFirstUnfinished, Unfinished
<1>4. ASSUME NEW r \in Slots, ReuseStep(r)
      PROVE  Stays \/ (Precedes(cur[s], cur'[s]) /\ steps[s][cur[s]].status = "succeeded")
  BY <1>0, <1>4, AdvancePrecedes DEF ReuseStep, IsDone, existing
<1>5. ASSUME NEW r \in Slots, SaveContext(r)
      PROVE  Stays \/ (Precedes(cur[s], cur'[s]) /\ pc[s] = "saveContext")
  BY <1>0, <1>5, AdvancePrecedes DEF SaveContext
<1>6. ASSUME NEW r \in Slots, CompleteJob(r) \/ RunnerFault(r) PROVE Stays
  <2>1. {r} \in SUBSET Slots
    OBVIOUS
  <2>2. QED
    BY <1>1, <1>6, <2>1 DEF CompleteJob, RunnerFault
<1>7. ASSUME NEW p, Crash(p) PROVE Stays
  BY <1>1, <1>7 DEF Crash
<1>8. ASSUME ApiStep \/ Tick \/ (\E k \in outbox : HandlerFault(k)) \/ UNCHANGED vars
      PROVE  cur' = cur
  BY <1>8 DEF ApiStep, BeginResolve, CommitResolve, EnqueueRun, Tick, HandlerFault,
    memory, vars
<1>9. QED
  BY <1>2, <1>3, <1>4, <1>5, <1>6, <1>7, <1>8 DEF Next, Environment

(* A slot goes to save the context when it has recorded a success.         *)
LEMMA SaveContextFollows ==
  ASSUME TypeOK, [Next]_vars, NEW s \in Slots, pc'[s] = "saveContext"
  PROVE  /\ cur'[s] = cur[s]
         /\ pc[s] = "saveContext" \/ step'[cur[s]].status = "succeeded"
<1> DEFINE Kept == pc'[s] = pc[s] /\ cur'[s] = cur[s]
<1>0. /\ pc \in [Slots -> Labels] /\ cur \in [Slots -> Node]
      /\ step \in [Node -> Steps]
  BY DEF TypeOK
<1>1. ASSUME NEW T \in SUBSET Slots, Release(T) PROVE Kept
  BY <1>0, <1>1 DEF Release
<1>2. ASSUME NEW r \in Slots, RunnerStep(r), ~SaveSucceeded(r) PROVE Kept
  <2>1. CASE \/ TakeJob(r) \/ LoadExecution(r) \/ LoadSteps(r) \/ StartRun(r)
             \/ BeginNode(r) \/ SaveContext(r) \/ ReuseStep(r)
    BY <1>0, <2>1 DEF TakeJob, LoadExecution, LoadSteps, StartRun, BeginNode,
      SaveContext, ReuseStep, Advance, Goto
  <2>2. CASE Execute(r)
    BY <1>0, <2>2 DEF Execute, ExecutePure, ExecuteCondition, ExecuteCall, ExecuteWait,
      ExecuteApproval, CreateApprovalRequest, Return, Goto
  <2>3. CASE Record(r) /\ ~SaveContext(r)
    BY <1>0, <1>2, <2>3 DEF Record, RecordRetry, SaveFailed, SavePending,
      PauseRun, ScheduleResume, FailRun, FinishRun, Goto
  <2>4. CASE CompleteJob(r)
    <3>1. {r} \in SUBSET Slots
      OBVIOUS
    <3>2. QED
      BY <1>1, <2>4, <3>1 DEF CompleteJob
  <2>5. QED
    BY <1>2, <2>1, <2>2, <2>3, <2>4 DEF RunnerStep
<1>3. ASSUME NEW r \in Slots, SaveSucceeded(r)
      PROVE  Kept \/ (cur'[s] = cur[s] /\ step'[cur[s]].status = "succeeded")
  BY <1>0, <1>3 DEF SaveSucceeded, Upsert, Goto
<1>4. ASSUME NEW p, Crash(p) PROVE Kept
  BY <1>1, <1>4 DEF Crash
<1>5. ASSUME NEW r \in Slots, RunnerFault(r) PROVE Kept
  <2>1. CASE Return(r, Failed) /\ UNCHANGED cur
    BY <1>0, <2>1 DEF Return, Goto
  <2>2. CASE Release({r})
    <3>1. {r} \in SUBSET Slots
      OBVIOUS
    <3>2. QED
      BY <1>1, <2>2, <3>1
  <2>3. QED
    BY <1>5, <2>1, <2>2 DEF RunnerFault
<1>6. ASSUME ApiStep \/ Tick \/ (\E k \in outbox : HandlerFault(k)) \/ UNCHANGED vars
      PROVE  Kept
  BY <1>6 DEF ApiStep, BeginResolve, CommitResolve, EnqueueRun, Tick, HandlerFault,
    memory, vars
<1>7. QED
  BY <1>2, <1>3, <1>4, <1>5, <1>6 DEF Next, Environment

(* Who notes an instant, and when.                                         *)
LEMMA HistoryWriters ==
  ASSUME TypeOK, [Next]_vars
  PROVE  \/ doneAt' = doneAt
         \/ \E s \in Slots :
              /\ SaveSucceeded(s)
              /\ doneAt' = [doneAt EXCEPT ![cur[s]] = IF @ = 0 THEN now ELSE @]
<1>1. ASSUME NEW s \in Slots, RunnerStep(s), ~SaveSucceeded(s) PROVE doneAt' = doneAt
  BY <1>1 DEF RunnerStep, Execute, Record, TakeJob, LoadExecution, LoadSteps, StartRun,
    ReuseStep, BeginNode, ExecutePure, ExecuteCondition, ExecuteCall, ExecuteWait,
    ExecuteApproval, CreateApprovalRequest, RecordRetry, SaveFailed, SavePending,
    SaveContext, PauseRun, ScheduleResume, FailRun, FinishRun, CompleteJob, env
<1>2. ASSUME NEW s \in Slots, SaveSucceeded(s)
      PROVE  doneAt' = [doneAt EXCEPT ![cur[s]] = IF @ = 0 THEN now ELSE @]
  BY <1>2 DEF SaveSucceeded
<1>3. ASSUME ApiStep \/ Environment \/ UNCHANGED vars PROVE doneAt' = doneAt
  BY <1>3 DEF ApiStep, BeginResolve, CommitResolve, EnqueueRun, Environment, Tick,
    Crash, RunnerFault, HandlerFault, vars, env
<1>4. QED
  BY <1>1, <1>2, <1>3 DEF Next

(* An instant once noted stays; a new one is noted with a new success, and *)
(* no success goes without one.                                            *)
LEMMA HistoryGrows ==
  ASSUME WaitInv, [Next]_vars, NEW n \in Node
  PROVE  /\ \/ doneAt'[n] = doneAt[n]
            \/ doneAt[n] = 0 /\ doneAt'[n] = now /\ step'[n].status = "succeeded"
         /\ step'[n].status = "succeeded" => doneAt'[n] # 0
<1>1. /\ TypeOK /\ doneAt \in [Node -> Nat] /\ step \in [Node -> Steps]
      /\ cur \in [Slots -> Node] /\ now \in Nat /\ now # 0
      /\ step[n].status = "succeeded" => doneAt[n] # 0
  BY DEF WaitInv, HistoryInv, TypeOK, Sound
<1>2. ASSUME NEW s \in Slots, SaveSucceeded(s), n = cur[s],
             doneAt' = [doneAt EXCEPT ![cur[s]] = IF @ = 0 THEN now ELSE @]
      PROVE  /\ doneAt'[n] = IF doneAt[n] = 0 THEN now ELSE doneAt[n]
             /\ step'[n].status = "succeeded"
  BY <1>1, <1>2 DEF SaveSucceeded, Upsert
<1>3. doneAt'[n] # doneAt[n] => \E s \in Slots : SaveSucceeded(s) /\ n = cur[s]
  BY <1>1, HistoryWriters
<1>4. ASSUME step'[n].status = "succeeded" PROVE doneAt'[n] # 0
  <2>1. CASE step'[n] = step[n]
    BY <1>1, <1>4, <2>1, HistoryWriters
  <2>2. ASSUME NEW s \in Slots, SaveSucceeded(s), n = cur[s] PROVE doneAt'[n] # 0
    BY <1>1, <2>2 DEF SaveSucceeded
  <2>3. QED
    BY <1>1, <1>4, <2>1, <2>2, SuccessWriters
<1>5. \/ doneAt'[n] = doneAt[n]
      \/ doneAt[n] = 0 /\ doneAt'[n] = now /\ step'[n].status = "succeeded"
  BY <1>1, <1>2, HistoryWriters
<1>6. QED
  BY <1>4, <1>5

(* What is true of the history so far stays true as it grows.              *)
LEMMA StillTrue ==
  ASSUME WaitInv, [Next]_vars, NEW n \in Node
  PROVE  /\ Reached(doneAt, n) => Reached(doneAt', n)
         /\ \A t : WaitedUntil(doneAt, n, t) => WaitedUntil(doneAt', n, t)
         /\ \A t : LateEnough(doneAt, n, t) => LateEnough(doneAt', n, t)
         /\ \A r : Sound(doneAt, n, r) => Sound(doneAt', n, r)
<1>1. \A m \in Node : doneAt[m] # 0 => doneAt'[m] = doneAt[m]
  BY HistoryGrows
<1>2. \A t : WaitedUntil(doneAt, n, t) => WaitedUntil(doneAt', n, t)
  BY <1>1 DEF WaitedUntil
<1>3. Reached(doneAt, n) => Reached(doneAt', n)
  BY <1>1 DEF Reached
<1>4. QED
  BY <1>1, <1>2, <1>3 DEF LateEnough, Sound

(* A wait node's outcome waits a whole duration behind a node that is done.*)
LEMMA WaitOutcomes ==
  ASSUME WaitInv, NEW s \in Slots, ExecuteWait(s)
  PROVE  /\ LateEnough(doneAt, cur[s], out'[s].resumeAt)
         /\ out'[s].kind = "succeeded" => WaitedUntil(doneAt, cur[s], now)
<1>1. out'[s] = WaitOutcome(existing(s).resumeAt) /\ cur[s] \in Node
  BY DEF ExecuteWait, Return, WaitInv, TypeOK
<1>2. LateEnough(doneAt, cur[s], existing(s).resumeAt) /\ existing(s).resumeAt \in Nat
  BY <1>1 DEF existing, WaitInv, SlotInv, Sound, TypeOK, Steps
<1>3. now \in Nat /\ WaitFor \in Nat /\ doneAt \in [Node -> Nat]
  BY EngineAssumption DEF WaitInv, TypeOK
<1>4. WaitedUntil(doneAt, cur[s], now + WaitFor)
  <2>1. Kind[Trigger] = "trigger"
    BY DefinitionAssumption DEF Trigger, WellFormed
  <2>2. cur[s] # Trigger
    BY <2>1 DEF ExecuteWait
  <2>3. PICK m \in Node : Precedes(m, cur[s]) /\ doneAt[m] # 0
    BY <2>2 DEF WaitInv, SlotInv, Reached
  <2>4. doneAt[m] <= now
    BY DEF WaitInv, HistoryInv
  <2>5. now + WaitFor >= doneAt[m] + WaitFor
    BY <1>3, <2>4
  <2>6. QED
    BY <2>3, <2>5 DEF WaitedUntil
<1>5. CASE existing(s).resumeAt = 0
  BY <1>1, <1>4, <1>5 DEF WaitOutcome, LateEnough, Waiting
<1>6. CASE existing(s).resumeAt # 0 /\ existing(s).resumeAt <= now
  <2>1. PICK m \in Node :
          Precedes(m, cur[s]) /\ doneAt[m] # 0 /\ existing(s).resumeAt >= doneAt[m] + WaitFor
    BY <1>2, <1>6 DEF LateEnough, WaitedUntil
  <2>2. doneAt[m] + WaitFor \in Nat
    BY <1>3
  <2>3. now >= doneAt[m] + WaitFor
    BY <1>2, <1>3, <1>6, <2>1, <2>2
  <2>4. QED
    BY <1>1, <1>6, <2>1, <2>3 DEF WaitOutcome, LateEnough, WaitedUntil, Succeeded
<1>7. CASE existing(s).resumeAt # 0 /\ ~(existing(s).resumeAt <= now)
  BY <1>1, <1>2, <1>7 DEF WaitOutcome, Waiting
<1>8. QED
  BY <1>5, <1>6, <1>7

(* The clauses of SlotInv about a slot that goes to save an outcome.       *)
LEMMA SaveFollows ==
  ASSUME WaitInv, [Next]_vars, NEW s \in Slots, pc'[s] = "saveStep"
  PROVE  /\ LateEnough(doneAt', cur'[s], out'[s].resumeAt)
         /\ out'[s].kind = "succeeded" /\ Kind[cur'[s]] = "wait"
              => WaitedUntil(doneAt', cur'[s], now')
<1>1. TypeOK /\ [Next]_vars /\ cur[s] \in Node
  BY DEF WaitInv, TypeOK
<1>2. ASSUME WaitedUntil(doneAt, cur[s], now) PROVE WaitedUntil(doneAt', cur[s], now')
  <2>1. PICK m \in Node :
          Precedes(m, cur[s]) /\ doneAt[m] # 0 /\ now >= doneAt[m] + WaitFor
    BY <1>2 DEF WaitedUntil
  <2>2. now \in Nat /\ now' \in Nat /\ now <= now' /\ doneAt[m] + WaitFor \in Nat
    BY <1>1, ClockGrows, EngineAssumption DEF WaitInv, HistoryInv, TypeOK
  <2>3. now' >= doneAt[m] + WaitFor
    BY <2>1, <2>2
  <2>4. doneAt'[m] = doneAt[m]
    BY <2>1, HistoryGrows
  <2>5. QED
    BY <2>1, <2>3, <2>4 DEF WaitedUntil
<1>3. CASE pc'[s] = pc[s] /\ out'[s] = out[s] /\ cur'[s] = cur[s]
  BY <1>1, <1>2, <1>3, StillTrue DEF WaitInv, SlotInv
<1>4. CASE Execute(s) /\ cur' = cur
  BY <1>1, <1>2, <1>4, StillTrue, ResumeTimeWriters, WaitOutcomes DEF LateEnough
<1>5. CASE out'[s] = Failed
  BY <1>5 DEF Failed, LateEnough
<1>6. QED
  BY <1>1, <1>3, <1>4, <1>5, OutcomeWriters

LEMMA WaitStep == WaitInv /\ [Next]_vars => WaitInv'
<1> SUFFICES ASSUME WaitInv, [Next]_vars PROVE WaitInv'
  OBVIOUS
<1>1. TypeOK /\ [Next]_vars
  BY DEF WaitInv
<1>2. TypeOK'
  BY <1>1, RunnerType, ApiType, EnvironmentType, StutterType DEF Next
<1>3. HistoryInv'
  <2>1. now \in Nat /\ now' \in Nat /\ now <= now' /\ now >= 1
    BY <1>1, ClockGrows DEF WaitInv, HistoryInv, TypeOK
  <2>2. ASSUME NEW n \in Node PROVE doneAt'[n] <= now'
    <3>1. doneAt[n] \in Nat /\ doneAt[n] <= now
      BY DEF WaitInv, HistoryInv, TypeOK
    <3>2. QED
      BY <2>1, <3>1, HistoryGrows
  <2>3. QED
    BY <2>1, <2>2, HistoryGrows DEF HistoryInv
<1>4. ASSUME NEW n \in Node PROVE Sound(doneAt', n, step'[n])
  <2>1. CASE step'[n] = step[n]
    BY <2>1, StillTrue DEF WaitInv
  <2>2. ASSUME NEW s \in Slots, n = cur[s],
               \/ step'[n].resumeAt = 0
               \/ pc[s] = "saveStep" /\ step'[n].resumeAt = out[s].resumeAt
        PROVE  Sound(doneAt', n, step'[n])
    <3>1. Reached(doneAt', n)
      BY <2>2, StillTrue DEF WaitInv, SlotInv
    <3>2. LateEnough(doneAt', n, step'[n].resumeAt)
      BY <2>2, StillTrue DEF WaitInv, SlotInv, LateEnough
    <3>3. step'[n].status = "succeeded" => doneAt'[n] # 0
      BY HistoryGrows
    <3>4. QED
      BY <3>1, <3>2, <3>3 DEF Sound
  <2>3. QED
    BY <1>1, <2>1, <2>2, RecordWriters
<1>5. ASSUME NEW s \in Slots PROVE SlotInv(s)'
  <2>1. cur[s] \in Node /\ cur'[s] \in Node
    BY <1>1, <1>2 DEF TypeOK
  <2>2. ASSUME NEW n \in Node PROVE Sound(doneAt', n, steps'[s][n])
    <3>1. CASE steps'[s][n] = steps[s][n]
      BY <3>1, StillTrue DEF WaitInv, SlotInv
    <3>2. CASE steps'[s][n] = step[n]
      BY <3>2, StillTrue DEF WaitInv
    <3>3. CASE steps'[s][n] = NoStep
      BY <3>3 DEF NoStep, Sound, LateEnough
    <3>4. CASE n = cur[s] /\ step'[n].status = "succeeded" /\ steps'[s][n].resumeAt = 0
      <4>1. Reached(doneAt', n)
        BY <3>4, StillTrue DEF WaitInv, SlotInv
      <4>2. doneAt'[n] # 0
        BY <3>4, HistoryGrows
      <4>3. QED
        BY <3>4, <4>1, <4>2 DEF Sound, LateEnough
    <3>5. QED
      BY <1>1, <3>1, <3>2, <3>3, <3>4, CopyWriters
  <2>3. Reached(doneAt', cur'[s])
    <3>1. CASE cur'[s] = cur[s]
      BY <2>1, <3>1, StillTrue DEF WaitInv, SlotInv
    <3>2. CASE cur'[s] = Trigger
      BY <3>2 DEF Reached
    <3>3. CASE steps[s][cur'[s]].status # "none"
      BY <2>1, <3>3, StillTrue DEF WaitInv, SlotInv, Sound
    <3>4. CASE /\ Precedes(cur[s], cur'[s])
               /\ pc[s] = "saveContext" \/ steps[s][cur[s]].status = "succeeded"
      <4>1. doneAt[cur[s]] # 0
        BY <2>1, <3>4 DEF WaitInv, SlotInv, Sound
      <4>2. doneAt'[cur[s]] # 0
        BY <2>1, <4>1, HistoryGrows
      <4>3. QED
        BY <2>1, <3>4, <4>2 DEF Reached
    <3>5. QED
      BY <1>1, <3>1, <3>2, <3>3, <3>4, PlaceWriters
  <2>4. pc'[s] = "saveContext" => doneAt'[cur'[s]] # 0
    <3>1. SUFFICES ASSUME pc'[s] = "saveContext" PROVE doneAt'[cur'[s]] # 0
      OBVIOUS
    <3>2. CASE pc[s] = "saveContext" /\ cur'[s] = cur[s]
      <4>1. doneAt[cur[s]] # 0
        BY <3>2 DEF WaitInv, SlotInv
      <4>2. QED
        BY <2>1, <3>2, <4>1, HistoryGrows
    <3>3. CASE step'[cur[s]].status = "succeeded" /\ cur'[s] = cur[s]
      BY <2>1, <3>3, HistoryGrows
    <3>4. QED
      BY <1>1, <3>1, <3>2, <3>3, SaveContextFollows
  <2>5. QED
    BY <2>2, <2>3, <2>4, SaveFollows DEF SlotInv
<1>6. WaitElapses'
  <2>1. SUFFICES ASSUME NEW n \in Node, Kind[n] = "wait", doneAt'[n] # 0
                 PROVE  WaitedUntil(doneAt', n, doneAt'[n])
    BY DEF WaitElapses, WaitedUntil
  <2>2. CASE doneAt'[n] = doneAt[n]
    <3>1. WaitedUntil(doneAt, n, doneAt[n])
      BY <2>1, <2>2 DEF WaitInv, WaitElapses, WaitedUntil
    <3>2. QED
      BY <2>2, <3>1, StillTrue
  <2>3. CASE doneAt[n] = 0 /\ doneAt'[n] = now /\ step'[n].status = "succeeded"
    <3>1. step'[n] # step[n]
      BY <2>3 DEF WaitInv, Sound
    <3>2. PICK s \in Slots : SaveSucceeded(s) /\ n = cur[s]
      BY <1>1, <2>3, <3>1, SuccessWriters
    <3>3. WaitedUntil(doneAt, n, now)
      BY <2>1, <3>2 DEF SaveSucceeded, WaitInv, SlotInv
    <3>4. QED
      BY <2>3, <3>3, StillTrue
  <2>4. QED
    BY <2>2, <2>3, HistoryGrows
<1>7. QED
  BY <1>2, <1>3, <1>4, <1>5, <1>6 DEF WaitInv

(* No wait node, first or later, of any definition succeeds before its     *)
(* duration has passed since a node in front of it did, with any number of *)
(* runners on the execution and however often it is woken early.           *)
THEOREM WaitsElapse == Spec => []WaitElapses
<1>1. Init => WaitInv
  <2> SUFFICES ASSUME Init PROVE WaitInv
    OBVIOUS
  <2>1. TypeOK /\ HistoryInv /\ WaitElapses
    BY InitType DEF Init, HistoryInv, WaitElapses
  <2>2. ASSUME NEW n \in Node PROVE Sound(doneAt, n, NoStep)
    BY DEF Sound, NoStep, LateEnough
  <2>3. \A n \in Node : Sound(doneAt, n, step[n])
    BY <2>2 DEF Init
  <2>4. ASSUME NEW s \in Slots PROVE SlotInv(s)
    <3>1. pc[s] = "idle" /\ cur[s] = Trigger /\ steps[s] = [n \in Node |-> NoStep]
      BY DEF Init
    <3>2. QED
      BY <2>2, <3>1 DEF SlotInv, Reached
  <2>5. QED
    BY <2>1, <2>3, <2>4 DEF WaitInv
<1>2. WaitInv => WaitElapses
  BY DEF WaitInv
<1>3. QED
  BY <1>1, <1>2, WaitStep, PTL DEF Spec

-----------------------------------------------------------------------------
(***************************************************************************)
(* A browser that watches and decides.  Its decision is in once the UPDATE *)
(* has matched, and no list read at the server after that has the request. *)
(***************************************************************************)
In == resolve.at \in {"updated", "answered", "refetching", "accepted"}

ListsRequests ==
  /\ list \subseteq DOMAIN requests
  /\ fetch # <<>> => fetch = <<Head(fetch)>> /\ Head(fetch).listed \subseteq DOMAIN requests

DecisionMade ==
  /\ \/ resolve = NotAsked
     \/ resolve.request \in DOMAIN requests /\ resolve.decision \in Decisions
  /\ DOMAIN resolve = {"at", "request", "decision"}
  /\ In => requests[resolve.request].status = resolve.decision

ListedNoMore ==
  /\ resolve.at \in {"refetching", "accepted"} /\ fetch # <<>> =>
       resolve.request \notin Head(fetch).listed
  /\ resolve.at = "accepted" /\ ~broken => resolve.request \notin list

ViewInv == ListsRequests /\ DecisionMade /\ ListedNoMore

(* Every step of the browser is one of the engine or leaves it alone.      *)
LEMMA ViewProjects == TypeOK /\ ViewInv /\ [ViewNext]_viewVars => [Next]_vars
<1> SUFFICES ASSUME TypeOK, ViewInv, [ViewNext]_viewVars PROVE [Next]_vars
  OBVIOUS
<1>1. CASE (\E s \in Slots : Run(s)) \/ Surroundings
  BY <1>1 DEF Run, Surroundings, Next, Environment
<1>2. CASE DecideOther \/ EnqueueOther
  BY <1>2 DEF DecideOther, EnqueueOther, Next, ApiStep
<1>3. CASE Resolve
  <2>1. CASE resolve = NotAsked
    BY <1>3, <2>1 DEF Resolve, CheckMine, UpdateMine, EnqueueMine, Refresh, NotAsked
  <2>2. CASE resolve.request \in DOMAIN requests /\ resolve.decision \in Decisions
    <3>1. CASE CheckMine
      BY <2>2, <3>1 DEF CheckMine, Next, ApiStep
    <3>2. CASE UpdateMine
      BY <2>2, <3>2 DEF UpdateMine, Next, ApiStep
    <3>3. CASE EnqueueMine
      <4>1. EnqueueRun(resolve.request) \/ HandlerFault(resolve.request)
        BY <3>3 DEF EnqueueMine
      <4>2. resolve.request \in outbox
        BY <4>1 DEF EnqueueRun, HandlerFault
      <4> QED
        BY <4>1, <4>2 DEF Next, ApiStep, Environment
    <3>4. CASE Refresh
      BY <3>4 DEF Refresh
    <3> QED
      BY <1>3, <3>1, <3>2, <3>3, <3>4 DEF Resolve
  <2> QED
    BY <2>1, <2>2 DEF ViewInv, DecisionMade
<1>4. CASE PollExecution \/ PollSteps \/ ReadApprovals \/ LandApprovals
  BY <1>4 DEF PollExecution, PollSteps, ReadApprovals, LandApprovals
<1>5. CASE \E i \in list, d \in Decisions : PressResolve(i, d)
  BY <1>5 DEF PressResolve
<1>6. CASE UNCHANGED viewVars
  BY <1>6 DEF viewVars
<1> QED
  BY <1>1, <1>2, <1>3, <1>4, <1>5, <1>6 DEF ViewNext

LEMMA InitView == ViewInit => ViewInv
BY DEF ViewInit, Init, NotAsked, ViewInv, ListsRequests, DecisionMade, ListedNoMore, In

(* Steps that leave the list, its answer and the decision alone.           *)
LEMMA BesideTheList ==
  ASSUME TypeOK, ViewInv, [Next]_vars, UNCHANGED <<list, broken, fetch, resolve>>
  PROVE  ViewInv'
<1>1. DOMAIN requests \subseteq DOMAIN requests'
  BY RequestsGrow
<1>2. ListsRequests'
  BY <1>1 DEF ViewInv, ListsRequests
<1>3. DecisionMade'
  <2>1. CASE resolve = NotAsked
    BY <2>1 DEF ViewInv, DecisionMade, In, NotAsked
  <2>2. CASE resolve.request \in DOMAIN requests /\ resolve.decision \in Decisions
    <3>1. In => requests[resolve.request].status # "pending"
      BY <2>2 DEF ViewInv, DecisionMade, Decisions
    <3>2. In => requests'[resolve.request].status = requests[resolve.request].status
      BY <2>2, <3>1, RequestsGrow
    <3> QED
      BY <1>1, <2>2, <3>2 DEF ViewInv, DecisionMade, In
  <2> QED
    BY <2>1, <2>2 DEF ViewInv, DecisionMade
<1>4. ListedNoMore'
  BY DEF ViewInv, ListedNoMore
<1> QED
  BY <1>2, <1>3, <1>4 DEF ViewInv

(* The steps of the list and of the decision.                              *)
LEMMA ViewStep == TypeOK /\ ViewInv /\ [ViewNext]_viewVars => ViewInv'
<1> SUFFICES ASSUME TypeOK, ViewInv, [ViewNext]_viewVars PROVE ViewInv'
  OBVIOUS
<1>0. [Next]_vars
  BY ViewProjects
<1>1. ASSUME UNCHANGED <<list, broken, fetch, resolve>> PROVE ViewInv'
  BY <1>0, <1>1, BesideTheList
<1>2. CASE \/ (\E s \in Slots : Run(s)) \/ Surroundings \/ DecideOther \/ EnqueueOther
           \/ PollExecution \/ PollSteps \/ UNCHANGED viewVars
  <2>1. CASE \E s \in Slots : Run(s)
    BY <1>1, <2>1 DEF Run, view
  <2>2. CASE Surroundings \/ DecideOther \/ EnqueueOther
    BY <1>1, <2>2 DEF Surroundings, DecideOther, EnqueueOther, view
  <2>3. CASE PollExecution \/ PollSteps
    BY <1>1, <2>3 DEF PollExecution, PollSteps
  <2>4. CASE UNCHANGED viewVars
    BY <1>1, <2>4 DEF viewVars, view
  <2> QED
    BY <1>2, <2>1, <2>2, <2>3, <2>4
<1>3. CASE ReadApprovals
  <2>1. /\ UNCHANGED <<list, broken, resolve, requests>>
        /\ fetch' = <<Answered(Pending)>> \/ fetch' = <<Unanswered>>
    BY <1>3 DEF ReadApprovals, vars, db
  <2>2. /\ fetch' = <<Head(fetch')>>
        /\ Head(fetch').listed \in {Pending, {}}
    BY <2>1 DEF Answered, Unanswered
  <2>3. Pending \subseteq DOMAIN requests
    BY DEF Pending
  <2>4. In => resolve.request \notin Pending
    BY DEF ViewInv, DecisionMade, Pending, Decisions, In, NotAsked
  <2> QED
    BY <2>1, <2>2, <2>3, <2>4 DEF ViewInv, ListsRequests, DecisionMade, ListedNoMore, In
<1>4. CASE LandApprovals
  <2>1. /\ fetch # <<>> /\ fetch' = <<>> /\ requests' = requests
        /\ broken' = ~Head(fetch).ok
        /\ list' = IF Head(fetch).ok THEN Head(fetch).listed ELSE list
        /\ resolve' = IF resolve.at = "refetching"
                      THEN [resolve EXCEPT !.at = "accepted"] ELSE resolve
    BY <1>4 DEF LandApprovals, vars, db
  <2>2. resolve.at = "refetching" =>
          /\ resolve'.at = "accepted" /\ resolve'.request = resolve.request
          /\ resolve'.decision = resolve.decision
          /\ DOMAIN resolve' = {"at", "request", "decision"}
          /\ resolve.request \in DOMAIN requests /\ resolve.decision \in Decisions
    BY <2>1 DEF ViewInv, DecisionMade, NotAsked
  <2>3. ListsRequests'
    BY <2>1 DEF ViewInv, ListsRequests
  <2>4. DecisionMade'
    BY <2>1, <2>2 DEF ViewInv, DecisionMade, In
  <2>5. ListedNoMore'
    <3>1. CASE resolve'.at = "accepted" /\ ~broken'
      <4>1. resolve.at \in {"refetching", "accepted"} /\ resolve'.request = resolve.request
        BY <2>1, <2>2, <3>1
      <4>2. list' = Head(fetch).listed
        BY <2>1, <3>1
      <4> QED
        BY <2>1, <4>1, <4>2 DEF ViewInv, ListedNoMore
    <3> QED
      BY <2>1, <3>1 DEF ListedNoMore
  <2> QED
    BY <2>3, <2>4, <2>5 DEF ViewInv
<1>5. ASSUME NEW i \in list, NEW d \in Decisions, PressResolve(i, d) PROVE ViewInv'
  <2>1. /\ resolve' = [at |-> "sent", request |-> i, decision |-> d] /\ requests' = requests
        /\ list' = list /\ broken' = broken /\ fetch' = fetch
    BY <1>5 DEF PressResolve, vars, db
  <2> QED
    BY <2>1 DEF ViewInv, ListsRequests, DecisionMade, ListedNoMore, In
<1>6. CASE Resolve
  <2>1. resolve.request \in DOMAIN requests /\ resolve.decision \in Decisions
    BY <1>6 DEF ViewInv, DecisionMade, NotAsked, Resolve, CheckMine, UpdateMine, EnqueueMine, Refresh
  <2>2. DOMAIN requests \subseteq DOMAIN requests'
    BY <1>0, RequestsGrow
  <2>3. ASSUME NEW l, At(l)
        PROVE  /\ resolve'.at = l /\ resolve'.request = resolve.request
               /\ resolve'.decision = resolve.decision
               /\ DOMAIN resolve' = {"at", "request", "decision"}
    BY <2>3 DEF At, ViewInv, DecisionMade
  <2>4. ASSUME NEW l \in {"checked", "refused"}, At(l), UNCHANGED <<list, broken, fetch>>
        PROVE  ViewInv'
    BY <2>1, <2>2, <2>3, <2>4 DEF ViewInv, ListsRequests, DecisionMade, ListedNoMore, In
  <2>5. CASE CheckMine
    BY <2>4, <2>5 DEF CheckMine
  <2>6. CASE UpdateMine
    <3>1. CASE UpdateMatches(resolve.request)
      <4>1. requests' = [requests EXCEPT ![resolve.request].status = resolve.decision]
            /\ At("updated") /\ UNCHANGED <<list, broken, fetch>>
        BY <2>6, <3>1 DEF UpdateMine, CommitResolve
      <4>2. requests[resolve.request] \in Requests
        BY <2>1, RequestAt
      <4>3. requests'[resolve.request].status = resolve.decision
        BY <2>1, <4>1, <4>2 DEF Requests
      <4>4. resolve'.at = "updated" /\ resolve'.request = resolve.request
            /\ resolve'.decision = resolve.decision
            /\ DOMAIN resolve' = {"at", "request", "decision"}
        BY <2>3, <4>1
      <4> QED
        BY <2>1, <2>2, <4>1, <4>3, <4>4 DEF ViewInv, ListsRequests, DecisionMade, ListedNoMore, In
    <3>2. CASE ~UpdateMatches(resolve.request)
      BY <2>4, <2>6, <3>2 DEF UpdateMine
    <3> QED
      BY <3>1, <3>2
  <2>7. CASE EnqueueMine
    <3>1. UNCHANGED <<list, broken, fetch, requests>> /\ In
      BY <2>7 DEF EnqueueMine, EnqueueRun, HandlerFault, db, In
    <3>2. CASE At("answered")
      BY <2>1, <2>3, <3>1, <3>2 DEF ViewInv, ListsRequests, DecisionMade, ListedNoMore, In
    <3>3. CASE At("refused")
      BY <2>4, <3>1, <3>3
    <3> QED
      BY <2>7, <3>2, <3>3 DEF EnqueueMine
  <2>8. CASE Refresh
    <3>1. UNCHANGED <<list, broken, requests>> /\ fetch' = <<>> /\ In /\ At("refetching")
      BY <2>8 DEF Refresh, DropPoll, vars, db, In
    <3> QED
      BY <2>1, <2>3, <3>1 DEF ViewInv, ListsRequests, DecisionMade, ListedNoMore, In
  <2> QED
    BY <1>6, <2>5, <2>6, <2>7, <2>8 DEF Resolve
<1> QED
  BY <1>2, <1>3, <1>4, <1>5, <1>6 DEF ViewNext

LEMMA ViewInvariant == ViewSpec => [](TypeOK /\ ViewInv)
<1>1. ViewInit => TypeOK /\ ViewInv
  BY InitType, InitView DEF ViewInit
<1>2. TypeOK /\ ViewInv /\ [ViewNext]_viewVars => (TypeOK /\ ViewInv)'
  <2>1. TypeOK /\ [Next]_vars => TypeOK'
    BY RunnerType, ApiType, EnvironmentType, StutterType DEF Next
  <2> QED
    BY <2>1, ViewProjects, ViewStep
<1> QED
  BY <1>1, <1>2, PTL DEF ViewSpec

(* A browser adds nothing to the engine but requests it could get anyway:  *)
(* the theorems about the engine hold while it is watched and decided upon *)
(* (apps/web, lib/hooks.ts).                                               *)
THEOREM ViewImplementsEngine == ViewSpec => Spec
<1>1. ViewInit => Init
  BY DEF ViewInit
<1> QED
  BY <1>1, ViewProjects, ViewInvariant, PTL DEF ViewSpec, Spec

(* Who is told that a decision is in sees that, whoever else decides and   *)
(* whichever poll was under way, unless the refetch that follows it fails  *)
(* (useResolveApproval, POST /approvals/:approvalId/resolve).              *)
THEOREM DecisionsShow == ViewSpec => []AcceptedDecisionShows
<1>1. TypeOK /\ ViewInv => AcceptedDecisionShows
  BY DEF ViewInv, DecisionMade, ListedNoMore, In, AcceptedDecisionShows
<1> QED
  BY <1>1, ViewInvariant, PTL
=============================================================================
