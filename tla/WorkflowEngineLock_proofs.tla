---------------------- MODULE WorkflowEngineLock_proofs ----------------------
(***************************************************************************)
(* What the engine would guarantee with the per-execution lock that        *)
(* docs/ARCHITECTURE.md describes and the code does not take.  The lock is *)
(* the hypothesis []NoOverlap; a deployment with one worker loop meets it. *)
(*                                                                         *)
(* Then why the code is right without it where no worker crashes and no    *)
(* approval comes behind a wait: the order of enqueues and timers is the   *)
(* lock (OrderIsALock), so that all of this holds, and what a condition    *)
(* reads is there (OrderKeepsData).                                        *)
(***************************************************************************)
EXTENDS WorkflowEngine_proofs

(* A node the walk has reached, as FollowsEdges demands of every record.   *)
OnPath(n) ==
  \/ n = Trigger
  \/ \E m \in Node : step[m].status = "succeeded" /\ LeadsTo(m, step[m].branch, n)

(* The slot's copy of the step records agrees with the database on what is *)
(* completed, and knows of no record the database does not have.           *)
Agrees(s) ==
  \A n \in Node :
    /\ (steps[s][n].status = "succeeded") <=> (step[n].status = "succeeded")
    /\ steps[s][n].status = "succeeded" => steps[s][n].branch = step[n].branch
    /\ steps[s][n].status # "none" => step[n].status # "none"

Executing == {"exec", "retry", "ask", "saveStep"}
Working == Executing \union {"visit", "saveContext", "pause", "fail", "finish"}

(* What a slot that runs the execution knows, label by label.              *)
RunInv(s) ==
  /\ pc[s] \in {"loadSteps", "start"} => status \notin Terminal
  /\ pc[s] \in Working => status = "running"
  /\ pc[s] \in Working \union {"start"} => Agrees(s)
  /\ pc[s] \in Executing \union {"visit", "pause"} => OnPath(cur[s])
  /\ pc[s] \in Executing \union {"pause"} => steps[s][cur[s]].status # "succeeded"
  /\ pc[s] = "ask" => Kind[cur[s]] = "approval"
  /\ pc[s] = "saveStep" /\ out[s].kind = "succeeded" =>
       out[s].branch \in Abstract!BranchesOf(cur[s])
  /\ pc[s] \in {"saveStep", "pause"} =>
       /\ out[s].kind = "waiting" => Kind[cur[s]] = "wait"
       /\ out[s].kind = "waiting_approval" => Kind[cur[s]] = "approval"
  /\ pc[s] = "pause" => out[s].kind \in {"waiting", "waiting_approval"}
  /\ pc[s] = "saveContext" =>
       steps[s][cur[s]].status = "succeeded" /\ steps[s][cur[s]].branch = out[s].branch
  /\ pc[s] = "finish" => steps[s][cur[s]].status = "succeeded" /\ Outgoing(cur[s]) = {}
  /\ pc[s] = "fail" =>
       \/ steps[s][cur[s]].status # "succeeded" /\ OnPath(cur[s])
       \/ /\ steps[s][cur[s]].status = "succeeded"
          /\ Outgoing(cur[s]) # {}
          /\ Matching(cur[s], steps[s][cur[s]].branch) = {}

LockInv == TypeOK /\ FollowsEdges /\ \A s \in Slots : RunInv(s)

(* The steps of a slot do not undo a completed node.                       *)
LEMMA SuccessKept ==
  ASSUME TypeOK, NEW s \in Slots, RunInv(s), RunnerStep(s), NEW m \in Node,
         step[m].status = "succeeded"
  PROVE  step'[m].status = "succeeded" /\ step'[m].branch = step[m].branch
<1>0. step \in [Node -> Steps] /\ cur \in [Slots -> Node]
  BY DEF TypeOK
<1>1. CASE RecordRetry(s) \/ SaveFailed(s) \/ SavePending(s) \/ SaveSucceeded(s)
  <2>1. pc[s] \in {"retry", "saveStep"}
    BY <1>1 DEF RecordRetry, SaveFailed, SavePending, SaveSucceeded
  <2>2. m # cur[s]
    BY <2>1 DEF RunInv, Agrees, Executing, Working
  <2>3. QED
    BY <1>0, <1>1, <2>2 DEF RecordRetry, SaveFailed, SavePending, SaveSucceeded, Upsert
<1>2. CASE ~(RecordRetry(s) \/ SaveFailed(s) \/ SavePending(s) \/ SaveSucceeded(s))
  <2>1. step' = step
    BY <1>2 DEF RunnerStep, Execute, Record, TakeJob, LoadExecution, LoadSteps, StartRun,
      ReuseStep, BeginNode, ExecutePure, ExecuteCondition, ExecuteCall, ExecuteWait,
      ExecuteApproval, CreateApprovalRequest, SaveContext,
      PauseRun, ScheduleResume, FailRun, FinishRun, CompleteJob, db
  <2>2. QED
    BY <2>1
<1>3. QED
  BY <1>1, <1>2

LEMMA OnPathKept ==
  ASSUME NEW n,
         \A m \in Node : step[m].status = "succeeded" =>
           step'[m].status = "succeeded" /\ step'[m].branch = step[m].branch,
         OnPath(n)
  PROVE  OnPath(n)'
BY DEF OnPath

(* The records a slot writes are of nodes the walk has reached.            *)
LEMMA PathStep ==
  ASSUME LockInv, NEW s \in Slots, RunnerStep(s)
  PROVE  FollowsEdges'
<1>1. ASSUME NEW m \in Node, step[m].status = "succeeded"
      PROVE  step'[m].status = "succeeded" /\ step'[m].branch = step[m].branch
  BY <1>1, SuccessKept DEF LockInv
<1>2. ASSUME NEW n \in Node, step'[n].status # "none" PROVE OnPath(n)
  <2>0. step \in [Node -> Steps] /\ cur \in [Slots -> Node]
    BY DEF LockInv, TypeOK
  <2>1. CASE step'[n] = step[n]
    BY <1>2, <2>1 DEF LockInv, FollowsEdges, OnPath
  <2>2. CASE step'[n] # step[n]
    <3>1. RecordRetry(s) \/ SaveFailed(s) \/ SavePending(s) \/ SaveSucceeded(s)
      BY <2>2 DEF RunnerStep, Execute, Record, TakeJob, LoadExecution, LoadSteps, StartRun,
        ReuseStep, BeginNode, ExecutePure, ExecuteCondition, ExecuteCall, ExecuteWait,
        ExecuteApproval, CreateApprovalRequest, SaveContext,
        PauseRun, ScheduleResume, FailRun, FinishRun, CompleteJob, db
    <3>2. n = cur[s] /\ pc[s] \in Executing
      BY <2>0, <2>2, <3>1 DEF RecordRetry, SaveFailed, SavePending, SaveSucceeded, Upsert,
        Executing
    <3>3. QED
      BY <3>2 DEF LockInv, RunInv
  <2>3. QED
    BY <2>1, <2>2
<1>3. QED
  BY <1>1, <1>2, OnPathKept DEF FollowsEdges, OnPath

(* The labels of RunInv, and the slot's typed memory.                      *)
LEMMA AdvanceRun ==
  ASSUME TypeOK, NEW s \in Slots, NEW b, Advance(s, cur[s], b),
         steps' = steps, step' = step, status' = status, status = "running",
         Agrees(s), steps[s][cur[s]].status = "succeeded", steps[s][cur[s]].branch = b
  PROVE  RunInv(s)'
<1>0. pc \in [Slots -> Labels] /\ cur \in [Slots -> Node]
  BY DEF TypeOK
<1>1. Agrees(s)'
  BY DEF Agrees
<1>2. CASE Outgoing(cur[s]) = {} /\ Goto(s, "finish") /\ UNCHANGED cur
  BY <1>0, <1>1, <1>2 DEF Goto, RunInv, Working, Executing
<1>3. CASE /\ Outgoing(cur[s]) # {} /\ Matching(cur[s], b) = {}
           /\ Goto(s, "fail") /\ UNCHANGED cur
  BY <1>0, <1>1, <1>3 DEF Goto, RunInv, Working, Executing
<1>4. ASSUME NEW m \in Node, LeadsTo(cur[s], b, m), cur' = [cur EXCEPT ![s] = m],
             Goto(s, "visit")
      PROVE  RunInv(s)'
  <2>1. step[cur[s]].status = "succeeded" /\ step[cur[s]].branch = b
    BY <1>0 DEF Agrees
  <2>2. OnPath(m)
    BY <1>0, <1>4, <2>1 DEF OnPath
  <2>3. OnPath(cur[s])'
    BY <1>0, <1>4, <2>2 DEF OnPath
  <2>4. QED
    BY <1>0, <1>1, <1>4, <2>3 DEF Goto, RunInv, Working, Executing
<1>5. QED
  BY <1>2, <1>3, <1>4 DEF Advance

(* The branch of a completed node is one its kind may take.                *)
LEMMA BranchTypes ==
  ASSUME NEW n \in Node
  PROVE  /\ Kind[n] = "condition" => Abstract!BranchesOf(n) = {"true", "false"}
         /\ Kind[n] = "approval" => Abstract!BranchesOf(n) = {"approved", "rejected", "expired"}
         /\ Kind[n] \notin {"condition", "approval"} => Abstract!BranchesOf(n) = {NoBranch}
BY DEF Abstract!BranchesOf, Abstract!NoBranch, NoBranch

(* executeNode keeps what the slot knows about its node.                   *)
LEMMA ReturnRun ==
  ASSUME TypeOK, NEW s \in Slots, RunInv(s), NEW o, Return(s, o),
         pc[s] \in {"exec", "ask"},
         UNCHANGED <<status, step, cur, steps>>,
         o.kind = "succeeded" => o.branch \in Abstract!BranchesOf(cur[s]),
         o.kind = "waiting" => Kind[cur[s]] = "wait",
         o.kind = "waiting_approval" => Kind[cur[s]] = "approval"
  PROVE  RunInv(s)'
<1>0. /\ pc \in [Slots -> Labels] /\ cur \in [Slots -> Node]
      /\ out \in [Slots -> Outcomes]
  BY DEF TypeOK
<1>1. pc'[s] = "saveStep" /\ out'[s] = o
  BY <1>0 DEF Return, Goto
<1>2. Agrees(s)' /\ OnPath(cur[s])'
  BY DEF RunInv, Agrees, OnPath, Working, Executing
<1>3. Abstract!BranchesOf(cur'[s]) = Abstract!BranchesOf(cur[s])
  OBVIOUS
<1>4. QED
  BY <1>1, <1>2, <1>3 DEF RunInv, Working, Executing

LEMMA RunStep ==
  ASSUME LockInv, NEW s \in Slots, RunnerStep(s)
  PROVE  RunInv(s)'
<1> USE DEF LockInv
<1>0. /\ TypeOK /\ RunInv(s)
      /\ pc \in [Slots -> Labels] /\ cur \in [Slots -> Node]
      /\ out \in [Slots -> Outcomes] /\ steps \in [Slots -> [Node -> Steps]]
      /\ step \in [Node -> Steps]
  BY DEF TypeOK
<1>1. CASE TakeJob(s)
  BY <1>0, <1>1 DEF TakeJob, Goto, RunInv, Working, Executing
<1>2. CASE LoadExecution(s)
  BY <1>0, <1>2 DEF LoadExecution, IsOver, Goto, RunInv, Working, Executing, db
<1>3. CASE LoadSteps(s)
  <2>1. Agrees(s)'
    BY <1>0, <1>3 DEF LoadSteps, Agrees, db
  <2>2. pc'[s] = "start" /\ status' \notin Terminal
    BY <1>0, <1>3 DEF LoadSteps, Goto, RunInv, db
  <2>3. QED
    BY <2>1, <2>2 DEF RunInv, Working, Executing
<1>4. CASE StartRun(s)
  <2>1. pc'[s] = "visit" /\ status' = "running" /\ Agrees(s)'
    BY <1>0, <1>4 DEF StartRun, Goto, RunInv, Agrees
  <2>2. OnPath(cur'[s])
    <3>1. CASE cur' = [cur EXCEPT ![s] = Trigger]
      BY <1>0, <3>1 DEF OnPath
    <3>2. ASSUME NEW n \in Node, IsFirstUnfinished(steps[s], n),
                 cur' = [cur EXCEPT ![s] = n]
          PROVE  OnPath(cur'[s])
      <4>1. steps[s][n].status # "none"
        BY <3>2 DEF IsFirstUnfinished, Unfinished
      <4>2. step[n].status # "none"
        BY <1>0, <1>4, <4>1 DEF StartRun, RunInv, Agrees
      <4>3. QED
        BY <1>0, <3>2, <4>2 DEF FollowsEdges, OnPath
    <3>3. QED
      BY <1>4, <3>1, <3>2 DEF StartRun
  <2>3. OnPath(cur[s])'
    BY <1>4, <2>2 DEF StartRun, OnPath
  <2>4. QED
    BY <2>1, <2>3 DEF RunInv, Working, Executing
<1>5. CASE ReuseStep(s)
  BY <1>0, <1>5, AdvanceRun DEF ReuseStep, IsDone, existing, RunInv, Working, db
<1>6. CASE BeginNode(s)
  <2>1. /\ pc'[s] = "exec" /\ status' = status /\ Agrees(s)' /\ OnPath(cur[s])'
        /\ steps' = steps /\ cur' = cur
    BY <1>0, <1>6 DEF BeginNode, Goto, RunInv, Agrees, OnPath, Working, db
  <2>2. QED
    BY <1>0, <1>6, <2>1 DEF BeginNode, IsDone, existing, RunInv, Working, Executing
<1>7. CASE ExecutePure(s)
  BY <1>0, <1>7, BranchTypes, ReturnRun DEF ExecutePure, Succeeded, db
<1>8. CASE ExecuteCondition(s)
  <2>1. PICK v \in Evaluations(cur[s], ctx[s]) :
           Return(s, IF v = "missing" THEN Failed ELSE Succeeded(v))
    BY <1>8 DEF ExecuteCondition
  <2>2. v = "missing" \/ v \in {"true", "false"}
    BY <1>0, <1>8 DEF ExecuteCondition, Evaluations, TypeOK, Conditions, Verdicts
  <2>3. QED
    BY <1>0, <1>8, <2>1, <2>2, BranchTypes, ReturnRun
    DEF ExecuteCondition, Succeeded, Failed, db
<1>9. CASE ExecuteCall(s)
  <2>1. CASE Return(s, Succeeded(NoBranch))
    BY <1>0, <1>9, <2>1, BranchTypes, ReturnRun DEF ExecuteCall, Succeeded, db
  <2>2. CASE Return(s, Failed)
    BY <1>0, <1>9, <2>2, ReturnRun DEF ExecuteCall, Failed, db
  <2>3. CASE Goto(s, "retry") /\ UNCHANGED out
    <3>1. /\ pc'[s] = "retry" /\ status' = status /\ Agrees(s)' /\ OnPath(cur[s])'
          /\ steps' = steps /\ cur' = cur
      BY <1>0, <1>9, <2>3 DEF ExecuteCall, Goto, RunInv, Agrees, OnPath, Working, Executing, db
    <3>2. QED
      BY <1>0, <1>9, <3>1 DEF ExecuteCall, RunInv, Working, Executing
  <2>4. QED
    BY <1>9, <2>1, <2>2, <2>3 DEF ExecuteCall
<1>10. CASE ExecuteWait(s)
  BY <1>0, <1>10, BranchTypes, ReturnRun
  DEF ExecuteWait, WaitOutcome, Succeeded, Waiting, db
<1>11. CASE ExecuteApproval(s)
  <2>1. CASE Goto(s, "ask") /\ UNCHANGED out
    <3>1. /\ pc'[s] = "ask" /\ status' = status /\ Agrees(s)' /\ OnPath(cur[s])'
          /\ steps' = steps /\ cur' = cur
      BY <1>0, <1>11, <2>1
      DEF ExecuteApproval, Goto, RunInv, Agrees, OnPath, Working, Executing, db
    <3>2. QED
      BY <1>0, <1>11, <3>1 DEF ExecuteApproval, RunInv, Working, Executing
  <2>2. ASSUME NEW i \in DOMAIN requests, Return(s, ApprovalOutcome(requests[i].status))
        PROVE  RunInv(s)'
    <3>1. requests[i].status \in {"pending", "approved", "rejected", "expired"}
      BY <1>0, RequestAt DEF Requests, RequestStatuses, Decisions
    <3>2. QED
      BY <1>0, <1>11, <2>2, <3>1, BranchTypes, ReturnRun
      DEF ExecuteApproval, ApprovalOutcome, WaitingApproval, Succeeded, db
  <2>3. QED
    BY <1>11, <2>1, <2>2 DEF ExecuteApproval
<1>12. CASE CreateApprovalRequest(s)
  BY <1>0, <1>12, ReturnRun DEF CreateApprovalRequest, WaitingApproval, RunInv
<1>13. CASE RecordRetry(s)
  <2>1. Agrees(s)'
    BY <1>0, <1>13 DEF RecordRetry, Upsert, RunInv, Agrees, Working, Executing
  <2>2. OnPath(cur[s])
    BY <1>13 DEF RecordRetry, RunInv, Executing
  <2>3. OnPath(cur[s])'
    BY <1>0, <1>13, <2>2, SuccessKept, OnPathKept DEF RecordRetry
  <2>4. QED
    BY <1>0, <1>13, <2>1, <2>3 DEF RecordRetry, Goto, RunInv, Working, Executing
<1>14. CASE SaveFailed(s)
  <2>1. Agrees(s)'
    BY <1>0, <1>14 DEF SaveFailed, Upsert, RunInv, Agrees, Working, Executing
  <2>2. OnPath(cur[s])
    BY <1>14 DEF SaveFailed, RunInv, Executing
  <2>3. OnPath(cur[s])'
    BY <1>0, <1>14, <2>2, SuccessKept, OnPathKept DEF SaveFailed
  <2>4. QED
    BY <1>0, <1>14, <2>1, <2>3
    DEF SaveFailed, Goto, RunInv, Working, Executing
<1>15. CASE SavePending(s)
  <2>1. Agrees(s)'
    BY <1>0, <1>15 DEF SavePending, Upsert, RunInv, Agrees, Working, Executing
  <2>2. OnPath(cur[s])
    BY <1>15 DEF SavePending, RunInv, Executing
  <2>3. OnPath(cur[s])'
    BY <1>0, <1>15, <2>2, SuccessKept, OnPathKept DEF SavePending
  <2>4. QED
    BY <1>0, <1>15, <2>1, <2>3
    DEF SavePending, Goto, RunInv, Working, Executing
<1>16. CASE SaveSucceeded(s)
  <2>1. Agrees(s)'
    BY <1>0, <1>16 DEF SaveSucceeded, Upsert, RunInv, Agrees, Working, Executing
  <2>2. QED
    BY <1>0, <1>16, <2>1
    DEF SaveSucceeded, Goto, RunInv, Working, Executing
<1>17. CASE SaveContext(s)
  BY <1>0, <1>17, AdvanceRun DEF SaveContext, RunInv, Working
<1>18. CASE PauseRun(s)
  BY <1>0, <1>18 DEF PauseRun, Goto, RunInv, Working, Executing
<1>19. CASE ScheduleResume(s)
  BY <1>0, <1>19 DEF ScheduleResume, Goto, RunInv, Working, Executing
<1>20. CASE FailRun(s) \/ FinishRun(s)
  BY <1>0, <1>20 DEF FailRun, FinishRun, Goto, RunInv, Working, Executing
<1>21. CASE CompleteJob(s)
  BY <1>0, <1>21 DEF CompleteJob, Release, RunInv, Working, Executing
<1>22. QED
  BY <1>1, <1>2, <1>3, <1>4, <1>5, <1>6, <1>7, <1>8, <1>9, <1>10, <1>11, <1>12,
     <1>13, <1>14, <1>15, <1>16, <1>17, <1>18, <1>19, <1>20, <1>21
  DEF RunnerStep, Execute, Record

(* A slot is not concerned by what leaves the records and its memory alone. *)
LEMMA Bystander ==
  ASSUME NEW s \in Slots, RunInv(s), status' = status, step' = step,
         pc'[s] = pc[s], cur'[s] = cur[s], out'[s] = out[s], steps'[s] = steps[s]
  PROVE  RunInv(s)'
BY DEF RunInv, Agrees, OnPath

LEMMA IdleRun ==
  ASSUME NEW s \in Slots, pc'[s] \in {"idle", "done"}
  PROVE  RunInv(s)'
BY DEF RunInv, Working, Executing

(* A slot's step leaves the memory of the others alone; before it takes a  *)
(* job and after it has finished one, it writes no record either.          *)
LEMMA OthersMemory ==
  ASSUME TypeOK, NEW r \in Slots, RunnerStep(r), NEW s \in Slots, s # r
  PROVE  /\ pc'[s] = pc[s] /\ cur'[s] = cur[s] /\ out'[s] = out[s] /\ steps'[s] = steps[s]
         /\ ~Busy(r) => status' = status /\ step' = step
<1>0. /\ pc \in [Slots -> Labels] /\ cur \in [Slots -> Node]
      /\ out \in [Slots -> Outcomes] /\ steps \in [Slots -> [Node -> Steps]]
  BY DEF TypeOK
<1>1. CASE TakeJob(r) \/ LoadExecution(r) \/ LoadSteps(r) \/ StartRun(r) \/ BeginNode(r)
  BY <1>0, <1>1 DEF TakeJob, LoadExecution, LoadSteps, StartRun, BeginNode, Goto, Busy, db
<1>2. CASE ReuseStep(r) \/ SaveContext(r)
  BY <1>0, <1>2 DEF ReuseStep, SaveContext, Advance, Goto, Busy
<1>3. CASE Execute(r)
  BY <1>0, <1>3 DEF Execute, ExecutePure, ExecuteCondition, ExecuteCall, ExecuteWait,
    ExecuteApproval, CreateApprovalRequest, Return, Goto, Busy
<1>4. CASE Record(r) /\ ~SaveContext(r)
  BY <1>0, <1>4 DEF Record, RecordRetry, SaveFailed, SavePending, SaveSucceeded,
    PauseRun, ScheduleResume, FailRun, FinishRun, Goto, Busy
<1>5. CASE CompleteJob(r)
  BY <1>0, <1>5 DEF CompleteJob, Release, db
<1>6. QED
  BY <1>1, <1>2, <1>3, <1>4, <1>5 DEF RunnerStep

(* What is not a slot's own step leaves the records alone, and of a slot's *)
(* memory it keeps everything, drops everything, or records a failure.     *)
LEMMA OutsideStep ==
  ASSUME LockInv, ApiStep \/ Environment \/ UNCHANGED vars
  PROVE  /\ status' = status /\ step' = step
         /\ \A s \in Slots : RunInv(s)'
<1>0. /\ TypeOK /\ \A s \in Slots : RunInv(s)
      /\ pc \in [Slots -> Labels] /\ cur \in [Slots -> Node]
      /\ out \in [Slots -> Outcomes] /\ steps \in [Slots -> [Node -> Steps]]
  BY DEF LockInv, TypeOK
<1>1. ASSUME NEW T \in SUBSET Slots, Release(T), status' = status, step' = step,
             NEW s \in Slots
      PROVE  RunInv(s)'
  <2>1. CASE s \in T
    BY <1>1, <2>1, IdleRun DEF Release
  <2>2. CASE s \notin T
    BY <1>0, <1>1, <2>2, Bystander DEF Release
  <2>3. QED
    BY <2>1, <2>2
<1>2. CASE ApiStep \/ Tick \/ (\E k \in outbox : HandlerFault(k)) \/ UNCHANGED vars
  <2>1. /\ status' = status /\ step' = step
        /\ pc' = pc /\ cur' = cur /\ out' = out /\ steps' = steps
    BY <1>2 DEF ApiStep, BeginResolve, CommitResolve, EnqueueRun, Tick, HandlerFault,
      memory, db, vars
  <2>2. QED
    BY <1>0, <2>1, Bystander
<1>3. ASSUME NEW p, Crash(p)
      PROVE  status' = status /\ step' = step /\ \A s \in Slots : RunInv(s)'
  BY <1>1, <1>3 DEF Crash, db
<1>4. ASSUME NEW r \in Slots, RunnerFault(r)
      PROVE  status' = status /\ step' = step /\ \A s \in Slots : RunInv(s)'
  <2>0. status' = status /\ step' = step
    BY <1>4 DEF RunnerFault, db
  <2>1. CASE Caught(r) /\ Return(r, Failed) /\ UNCHANGED <<job, cur, steps, ctx, attempt>>
    <3>1. RunInv(r)'
      BY <1>0, <2>0, <2>1, ReturnRun DEF Caught, Failed
    <3>2. ASSUME NEW s \in Slots, s # r PROVE RunInv(s)'
      BY <1>0, <2>0, <2>1, <3>2, Bystander DEF Return, Goto
    <3>3. QED
      BY <2>0, <3>1, <3>2
  <2>2. CASE Release({r})
    <3>1. {r} \in SUBSET Slots
      OBVIOUS
    <3>2. QED
      BY <1>1, <2>0, <2>2, <3>1
  <2>3. QED
    BY <1>4, <2>1, <2>2 DEF RunnerFault
<1>5. QED
  BY <1>2, <1>3, <1>4 DEF Environment

LEMMA LockStep == LockInv /\ NoOverlap /\ [Next]_vars => LockInv'
<1> SUFFICES ASSUME LockInv, NoOverlap, [Next]_vars PROVE LockInv'
  OBVIOUS
<1>1. TypeOK'
  BY RunnerType, ApiType, EnvironmentType, StutterType DEF Next, LockInv
<1>2. ASSUME NEW r \in Slots, RunnerStep(r), NEW s \in Slots PROVE RunInv(s)'
  <2>1. CASE s = r
    BY <1>2, <2>1, RunStep
  <2>2. CASE s # r /\ Busy(s)
    <3>1. ~Busy(r)
      BY <2>2 DEF NoOverlap
    <3>2. QED
      BY <1>2, <2>2, <3>1, OthersMemory, Bystander DEF LockInv
  <2>3. CASE s # r /\ ~Busy(s)
    BY <1>2, <2>3, OthersMemory, IdleRun DEF Busy, LockInv
  <2>4. QED
    BY <2>1, <2>2, <2>3
<1>3. ASSUME NEW r \in Slots, RunnerStep(r) PROVE FollowsEdges'
  BY <1>3, PathStep
<1>4. ASSUME ApiStep \/ Environment \/ UNCHANGED vars
      PROVE  FollowsEdges' /\ \A s \in Slots : RunInv(s)'
  BY <1>4, OutsideStep DEF LockInv, FollowsEdges
<1>5. QED
  BY <1>1, <1>2, <1>3, <1>4 DEF LockInv, Next

LEMMA LockInit == Init => LockInv
<1>1. ASSUME Init PROVE FollowsEdges /\ \A s \in Slots : RunInv(s)
  BY <1>1 DEF Init, FollowsEdges, NoStep, RunInv, Working, Executing
<1>2. QED
  BY <1>1, InitType DEF LockInv

LEMMA LockInvariant == Spec /\ []NoOverlap => []LockInv
BY LockInit, LockStep, PTL DEF Spec

(* With the lock, "completed steps are never re-executed", whatever        *)
(* crashes, retries and redeliveries happen.                               *)
THEOREM NoReexecutionUnderLock == Spec /\ []NoOverlap => []NeverReexecuted
<1>1. LockInv => NeverReexecuted
  <2>1. ASSUME LockInv, NEW s \in Slots, pc[s] \in {"exec", "retry", "ask"}
        PROVE  step[cur[s]].status # "succeeded"
    <3>1. cur[s] \in Node
      BY <2>1 DEF LockInv, TypeOK
    <3>2. QED
      BY <2>1, <3>1 DEF LockInv, RunInv, Agrees, Working, Executing
  <2>2. QED
    BY <2>1 DEF NeverReexecuted
<1>2. QED
  BY <1>1, LockInvariant, PTL

(* With the lock, every record lies on the path of the branches taken.     *)
THEOREM PathUnderLock == Spec /\ []NoOverlap => []FollowsEdges
<1>1. LockInv => FollowsEdges
  BY DEF LockInv
<1>2. QED
  BY <1>1, LockInvariant, PTL

(* With the lock, a terminal execution stays as it is.                     *)
THEOREM TerminalUnderLock == Spec /\ []NoOverlap => TerminalIsFinal
<1>1. LockInv /\ [Next]_vars => [(status \in Terminal) => status' = status]_vars
  <2>1. ASSUME LockInv, NEW s \in Slots, RunnerStep(s), status' # status
        PROVE  status \notin Terminal
    <3>1. pc[s] \in {"start", "pause", "fail", "finish"}
      BY <2>1 DEF RunnerStep, Execute, Record, TakeJob, LoadExecution, LoadSteps, StartRun,
        ReuseStep, BeginNode, ExecutePure, ExecuteCondition, ExecuteCall, ExecuteWait,
        ExecuteApproval, CreateApprovalRequest, RecordRetry, SaveFailed, SavePending,
        SaveSucceeded, SaveContext, PauseRun, ScheduleResume, FailRun, FinishRun,
        CompleteJob, db
    <3>2. QED
      BY <2>1, <3>1 DEF LockInv, RunInv, Working, Terminal
  <2>2. QED
    BY <2>1, OutsideStep DEF Next
<1>2. QED
  BY <1>1, LockInvariant, PTL DEF Spec, TerminalIsFinal

-----------------------------------------------------------------------------
(* The refinement. *)

trailOf == [n \in Node |-> IF step[n].status = "succeeded" THEN step[n].branch ELSE "ahead"]

LEMMA NeverAhead == \A b \in Branches : b # "ahead"
BY DEF Branches, NoBranch, Decisions

(* The abstract walk is at, stuck at or at the end of the slot's node.     *)
LEMMA AtNode ==
  ASSUME LockInv, NEW n \in Node, step[n].status # "succeeded", OnPath(n)
  PROVE  Abstract!At(n)
<1>1. \A m \in Node : step[m].status = "succeeded" => step[m].branch # "ahead"
  BY NeverAhead DEF LockInv, TypeOK, Steps
<1>2. QED
  BY <1>1 DEF Abstract!At, Abstract!Ahead, Abstract!Trigger, Trigger, Abstract!Node, Node,
    Abstract!LeadsTo, LeadsTo, Abstract!Matching, Matching, Abstract!Outgoing, Outgoing,
    OnPath

LEMMA StepRefines ==
  ASSUME LockInv, NEW s \in Slots, RunnerStep(s)
  PROVE  [Abstract!RunNext]_(Abstract!runVars)
<1> USE DEF LockInv
<1>0. /\ TypeOK /\ RunInv(s)
      /\ cur[s] \in Node /\ out[s] \in Outcomes
      /\ cur \in [Slots -> Node] /\ step \in [Node -> Steps]
  BY DEF TypeOK
<1>1. CASE StartRun(s)
  <2>1. status' = "running" /\ step' = step
    BY <1>1 DEF StartRun
  <2>2. status \notin Terminal /\ status \in Statuses
    BY <1>0, <1>1 DEF StartRun, RunInv, TypeOK
  <2>3. QED
    BY <2>1, <2>2 DEF Statuses, Abstract!RunNext, Abstract!Begin, Abstract!runVars
<1>2. CASE RecordRetry(s) \/ SaveFailed(s) \/ SavePending(s)
  <2>1. status' = status /\ step[cur[s]].status # "succeeded"
    BY <1>0, <1>2
    DEF RecordRetry, SaveFailed, SavePending, RunInv, Agrees, Working, Executing
  <2>2. trailOf' = trailOf
    BY <1>0, <1>2, <2>1 DEF trailOf, RecordRetry, SaveFailed, SavePending, Upsert
  <2>3. QED
    BY <2>1, <2>2 DEF trailOf, Abstract!runVars
<1>3. CASE SaveSucceeded(s)
  <2>1. status = "running" /\ status' = status /\ step[cur[s]].status # "succeeded"
        /\ OnPath(cur[s])
    BY <1>0, <1>3 DEF SaveSucceeded, RunInv, Agrees, Working, Executing
  <2>2. out[s].branch \in Abstract!BranchesOf(cur[s])
    BY <1>0, <1>3 DEF SaveSucceeded, RunInv
  <2>3. trailOf' = [trailOf EXCEPT ![cur[s]] = out[s].branch]
    BY <1>0, <1>3 DEF trailOf, SaveSucceeded, Upsert
  <2>4. PICK n \in Node : n = cur[s]
    BY <1>0
  <2>5. \E b \in Abstract!BranchesOf(n) : trailOf' = [trailOf EXCEPT ![n] = b]
    BY <2>2, <2>3, <2>4
  <2>6. Abstract!At(n)
    BY <2>1, <2>4, AtNode
  <2>7. Abstract!Complete(n)
    BY <2>1, <2>5, <2>6, Zenon DEF trailOf, Abstract!Complete
  <2>8. QED
    BY <2>7 DEF Abstract!RunNext, Abstract!Node, Node
<1>4. CASE PauseRun(s)
  <2>1. /\ status = "running" /\ step[cur[s]].status # "succeeded" /\ OnPath(cur[s])
        /\ step' = step /\ status' = out[s].kind
    BY <1>0, <1>4 DEF PauseRun, PausedAs, RunInv, Agrees, Working, Executing
  <2>2. Abstract!At(cur[s])
    BY <1>0, <2>1, AtNode
  <2>3. Abstract!PauseForTime(cur[s]) \/ Abstract!PauseForHuman(cur[s])
    BY <1>0, <1>4, <2>1, <2>2
    DEF PauseRun, RunInv, Abstract!PauseForTime, Abstract!PauseForHuman
  <2>4. QED
    BY <1>0, <2>3 DEF Abstract!RunNext, Abstract!Node, Node
<1>5. CASE FailRun(s)
  <2>1. status = "running" /\ status' = "failed" /\ step' = step /\ Agrees(s)
    BY <1>0, <1>5 DEF FailRun, RunInv, Working
  <2>2. Abstract!At(cur[s]) \/ Abstract!StuckAt(cur[s])
    <3>1. CASE steps[s][cur[s]].status # "succeeded" /\ OnPath(cur[s])
      BY <1>0, <2>1, <3>1, AtNode DEF Agrees
    <3>2. CASE /\ steps[s][cur[s]].status = "succeeded"
               /\ Outgoing(cur[s]) # {}
               /\ Matching(cur[s], steps[s][cur[s]].branch) = {}
      <4>1. /\ step[cur[s]].status = "succeeded"
            /\ steps[s][cur[s]].branch = step[cur[s]].branch
        BY <1>0, <2>1, <3>2 DEF Agrees
      <4>2. step[cur[s]].branch # "ahead"
        BY <1>0, NeverAhead DEF Steps
      <4>3. QED
        BY <1>0, <3>2, <4>1, <4>2
        DEF Abstract!StuckAt, Abstract!Ahead, Abstract!Outgoing, Outgoing,
          Abstract!Matching, Matching
    <3>3. QED
      BY <1>0, <1>5, <3>1, <3>2 DEF FailRun, RunInv
  <2>3. Abstract!Fail(cur[s])
    BY <2>1, <2>2 DEF Abstract!Fail
  <2>4. QED
    BY <1>0, <2>3 DEF Abstract!RunNext, Abstract!Node, Node
<1>6. CASE FinishRun(s)
  <2>1. /\ status = "running" /\ status' = "succeeded" /\ step' = step
        /\ step[cur[s]].status = "succeeded" /\ Outgoing(cur[s]) = {}
    BY <1>0, <1>6 DEF FinishRun, RunInv, Agrees, Working
  <2>2. step[cur[s]].branch # "ahead"
    BY <1>0, NeverAhead DEF Steps
  <2>3. Abstract!Succeed(cur[s])
    BY <1>0, <2>1, <2>2
    DEF Abstract!Succeed, Abstract!EndsAt, Abstract!Ahead, Abstract!Outgoing, Outgoing
  <2>4. QED
    BY <1>0, <2>3 DEF Abstract!RunNext, Abstract!Node, Node
<1>7. CASE ~(\/ StartRun(s) \/ RecordRetry(s) \/ SaveFailed(s) \/ SavePending(s)
             \/ SaveSucceeded(s) \/ PauseRun(s) \/ FailRun(s) \/ FinishRun(s))
  <2>1. status' = status /\ step' = step
    BY <1>7 DEF RunnerStep, Execute, Record, TakeJob, LoadExecution, LoadSteps,
      ReuseStep, BeginNode, ExecutePure, ExecuteCondition, ExecuteCall, ExecuteWait,
      ExecuteApproval, CreateApprovalRequest, SaveContext, ScheduleResume, CompleteJob, db
  <2>2. QED
    BY <2>1 DEF Abstract!runVars
<1>8. QED
  BY <1>1, <1>2, <1>3, <1>4, <1>5, <1>6, <1>7

(* With the lock, the engine implements WorkflowRun.                       *)
THEOREM RefinementUnderLock == Spec /\ []NoOverlap => ImplementsRun
<1>1. Init => Abstract!RunInit
  BY DEF Init, NoStep, Abstract!RunInit, Abstract!Ahead, Abstract!Node, Node
<1>2. LockInv /\ [Next]_vars => [Abstract!RunNext]_(Abstract!runVars)
  <2>1. ASSUME LockInv, ApiStep \/ Environment \/ UNCHANGED vars
        PROVE  UNCHANGED Abstract!runVars
    BY <2>1, OutsideStep DEF Abstract!runVars
  <2>2. QED
    BY <2>1, StepRefines DEF Next
<1>3. QED
  BY <1>1, <1>2, LockInvariant, PTL DEF Spec, ImplementsRun, Abstract!RunSpec

(* One worker loop is a lock: then all of this holds of every behaviour.   *)
THEOREM OneLoopSuffices ==
  ASSUME \A s, t \in Slots : s = t
  PROVE  Spec => []NeverReexecuted /\ []FollowsEdges /\ TerminalIsFinal /\ ImplementsRun
<1>1. NoOverlap
  BY DEF NoOverlap
<1>2. QED
  BY <1>1, NoReexecutionUnderLock, PathUnderLock, TerminalUnderLock,
     RefinementUnderLock, PTL

-----------------------------------------------------------------------------
(***************************************************************************)
(* Lost wake-ups.  Between a pause and the job that ends it the execution  *)
(* is driven by nobody, so the invariant says of a slot about to pause     *)
(* what NoLostWakeup says of the paused execution: the human it leaves to  *)
(* answer is still unanswered, or the answer is already on its way.        *)
(***************************************************************************)
Coming == queue # {} \/ outbox # {}

AskedFor(n) == \E i \in DOMAIN requests : IsLatest(i, n) /\ requests[i].status = "pending"

HumanAsked(s) ==
  /\ pc[s] \in {"saveStep", "pause"} /\ out[s].kind = "waiting_approval" /\ faults = 0 =>
       Coming \/ AskedFor(cur[s])
  /\ pc[s] = "pause" => step[cur[s]].status = "pending"

(* No job has stalled more often than workers have crashed.                *)
StallsCounted ==
  /\ \A j \in queue : j.stalled <= crashes
  /\ \A s \in Slots : job[s].stalled <= crashes

NothingExpires == \A i \in DOMAIN requests : requests[i].expiresAt = 0

WakeInv ==
  LockInv /\ StallsCounted /\ NothingExpires /\ NoLostWakeup /\ \A s \in Slots : HumanAsked(s)

LEMMA StallsStep ==
  ASSUME TypeOK, StallsCounted, [Next]_vars
  PROVE  StallsCounted'
<1>0. /\ queue \subseteq Jobs /\ job \in [Slots -> Jobs] /\ crashes \in Nat
      /\ \A k : RunJob(k).stalled = 0 /\ \A t : WakeJob(k, t).stalled = 0
  BY DEF TypeOK, RunJob, WakeJob
<1>1. ASSUME NEW s \in Slots, RunnerStep(s),
             ~TakeJob(s), ~ScheduleResume(s), ~CompleteJob(s)
      PROVE  queue' = queue /\ job' = job /\ crashes' = crashes
  BY <1>1 DEF RunnerStep, Execute, Record, LoadExecution, LoadSteps, StartRun,
    ReuseStep, BeginNode, ExecutePure, ExecuteCondition, ExecuteCall, ExecuteWait,
    ExecuteApproval, CreateApprovalRequest, RecordRetry, SaveFailed, SavePending,
    SaveSucceeded, SaveContext, PauseRun, FailRun, FinishRun, redis, env
<1>2. ASSUME NEW s \in Slots, TakeJob(s) PROVE StallsCounted'
  BY <1>0, <1>2 DEF TakeJob, StallsCounted, env
<1>3. ASSUME NEW s \in Slots, ScheduleResume(s) PROVE StallsCounted'
  BY <1>0, <1>3 DEF ScheduleResume, StallsCounted, env
<1>4. ASSUME NEW s \in Slots, CompleteJob(s) PROVE StallsCounted'
  BY <1>0, <1>4 DEF CompleteJob, Release, StallsCounted, redis, env
<1>5. ASSUME ApiStep \/ UNCHANGED vars PROVE StallsCounted'
  <2>1. \/ queue' = queue
        \/ \E k \in outbox : queue' = queue \union {RunJob(k)}
    BY <1>5 DEF ApiStep, BeginResolve, CommitResolve, EnqueueRun, vars, redis
  <2>2. job' = job /\ crashes' = crashes
    BY <1>5 DEF ApiStep, BeginResolve, CommitResolve, EnqueueRun, vars, memory, env
  <2>3. QED
    BY <1>0, <2>1, <2>2 DEF StallsCounted
<1>6. ASSUME Tick \/ \E k \in outbox : HandlerFault(k) PROVE StallsCounted'
  BY <1>0, <1>6 DEF Tick, HandlerFault, StallsCounted, redis, memory
<1>7. ASSUME NEW s \in Slots, RunnerFault(s) PROVE StallsCounted'
  <2>1. queue' = queue /\ crashes' = crashes
    BY <1>7 DEF RunnerFault, redis
  <2>2. ASSUME NEW t \in Slots PROVE job'[t].stalled <= crashes
    BY <1>0, <1>7, <2>2 DEF RunnerFault, Release, StallsCounted
  <2>3. QED
    BY <2>1, <2>2 DEF StallsCounted
<1>8. ASSUME NEW p, Crash(p) PROVE StallsCounted'
  <2> DEFINE dead == {s \in Slots : Proc[s] = p}
             held == {job[s] : s \in {x \in dead : pc[x] # "idle"}}
  <2>1. /\ queue' = queue \union {Redelivered(j) : j \in {x \in held : MayRedeliver(x)}}
        /\ Release(dead) /\ crashes' = crashes + 1
    BY <1>8 DEF Crash
  <2>2. ASSUME NEW j \in queue' PROVE j.stalled <= crashes + 1
    <3>1. CASE j \in queue
      <4>1. j.stalled \in Nat
        BY <1>0, <3>1 DEF Jobs
      <4>2. QED
        BY <1>0, <3>1, <4>1 DEF StallsCounted
    <3>2. ASSUME NEW s \in Slots, j = Redelivered(job[s]) PROVE j.stalled <= crashes + 1
      <4>1. job[s] \in Jobs /\ job[s].stalled <= crashes
        BY <1>0 DEF StallsCounted
      <4>2. j.stalled = job[s].stalled + 1 /\ job[s].stalled \in Nat
        BY <3>2, <4>1 DEF Redelivered, Jobs
      <4>3. QED
        BY <1>0, <4>1, <4>2
    <3>3. QED
      BY <2>1, <3>1, <3>2
  <2>3. ASSUME NEW s \in Slots PROVE job'[s].stalled <= crashes + 1
    <3>1. job[s].stalled \in Nat /\ job[s].stalled <= crashes
      BY <1>0 DEF StallsCounted, Jobs
    <3>2. QED
      BY <1>0, <2>1, <3>1 DEF Release
  <2>4. QED
    BY <2>1, <2>2, <2>3 DEF StallsCounted
<1>9. QED
  BY <1>1, <1>2, <1>3, <1>4, <1>5, <1>6, <1>7, <1>8 DEF Next, Environment, StallsCounted

(* Without expiresInHours no request ever expires.                         *)
LEMMA ExpiryStep ==
  ASSUME ExpiresIn = 0, TypeOK, NothingExpires, [Next]_vars
  PROVE  NothingExpires'
<1>1. requests \in Seq(Requests)
  BY DEF TypeOK
<1>2. ASSUME NEW s \in Slots, CreateApprovalRequest(s) PROVE NothingExpires'
  BY <1>1, <1>2 DEF CreateApprovalRequest, NothingExpires
<1>3. ASSUME NEW i \in DOMAIN requests, NEW d \in Decisions, CommitResolve(i, d)
      PROVE  NothingExpires'
  <2>1. \/ requests' = requests
        \/ requests' = [requests EXCEPT ![i] = [requests[i] EXCEPT !.status = d]]
    BY <1>3 DEF CommitResolve
  <2>2. requests[i].expiresAt = 0 /\ requests[i] \in Requests
    BY RequestAt DEF NothingExpires
  <2>3. [requests[i] EXCEPT !.status = d].expiresAt = 0
    BY <2>2 DEF Requests
  <2>4. QED
    BY <1>1, <2>1, <2>3 DEF NothingExpires
<1>4. QED
  BY <1>2, <1>3, RequestWriters DEF NothingExpires


(* While a slot works, its lock keeps the jobs that come where they are.   *)
LEMMA ComingKept ==
  ASSUME TypeOK, [Next]_vars, faults' = faults, NoOverlap', NEW s \in Slots,
         Busy(s), Busy(s)', Coming
  PROVE  Coming'
<1>0. pc \in [Slots -> Labels]
  BY DEF TypeOK
<1>1. ASSUME NEW r \in Slots, TakeJob(r) PROVE FALSE
  <2>1. pc[r] = "idle" /\ pc'[r] = "load"
    BY <1>0, <1>1 DEF TakeJob, Goto
  <2>2. r # s /\ Busy(r)'
    BY <2>1 DEF Busy
  <2>3. QED
    BY <2>2 DEF NoOverlap
<1>2. ASSUME NEW r \in Slots, RunnerStep(r), ~TakeJob(r)
      PROVE  queue \subseteq queue' /\ outbox' = outbox
  BY <1>2 DEF RunnerStep, Execute, Record, LoadExecution, LoadSteps, StartRun,
    ReuseStep, BeginNode, ExecutePure, ExecuteCondition, ExecuteCall, ExecuteWait,
    ExecuteApproval, CreateApprovalRequest, RecordRetry, SaveFailed, SavePending,
    SaveSucceeded, SaveContext, PauseRun, ScheduleResume, FailRun, FinishRun, CompleteJob,
    redis, api
<1>3. ASSUME ApiStep PROVE Coming'
  BY <1>3 DEF ApiStep, BeginResolve, CommitResolve, EnqueueRun, Coming, redis
<1>4. faults' # faults + 1
  BY DEF TypeOK
<1>5. ASSUME Environment \/ UNCHANGED vars PROVE queue \subseteq queue' /\ outbox' = outbox
  BY <1>4, <1>5 DEF Environment, Tick, Crash, RunnerFault, HandlerFault, vars, redis, api
<1>6. QED
  BY <1>1, <1>2, <1>3, <1>5 DEF Next, Coming

(* A question stays open until its answer has a job on the way.            *)
LEMMA AskedKept ==
  ASSUME TypeOK, [Next]_vars, NEW n \in Node, AskedFor(n)
  PROVE  AskedFor(n)' \/ outbox' # {}
<1>0. requests \in Seq(Requests) /\ cur \in [Slots -> Node]
  BY DEF TypeOK
<1>1. PICK i \in DOMAIN requests : IsLatest(i, n) /\ requests[i].status = "pending"
  BY DEF AskedFor
<1>2. CASE requests' = requests
  BY <1>1, <1>2 DEF AskedFor, IsLatest, RequestsOf
<1>3. ASSUME NEW s \in Slots, CreateApprovalRequest(s) PROVE AskedFor(n)'
  <2> DEFINE r == [node |-> cur[s], status |-> "pending",
                   expiresAt |-> IF ExpiresIn > 0 THEN now + ExpiresIn ELSE 0]
  <2>1. /\ requests' = Append(requests, r)
        /\ r.node = cur[s] /\ r.status = "pending"
    BY <1>3 DEF CreateApprovalRequest
  <2> HIDE DEF r
  <2>2. /\ DOMAIN requests' = 1 .. Len(requests) + 1 /\ Len(requests) \in Nat
        /\ \A j \in 1 .. Len(requests) : requests'[j] = requests[j]
        /\ requests'[Len(requests) + 1] = r
        /\ DOMAIN requests = 1 .. Len(requests)
    BY <1>0, <2>1
  <2>3. CASE cur[s] = n
    BY <2>1, <2>2, <2>3 DEF AskedFor, IsLatest, RequestsOf
  <2>4. CASE cur[s] # n
    BY <1>1, <2>1, <2>2, <2>4 DEF AskedFor, IsLatest, RequestsOf
  <2>5. QED
    BY <2>3, <2>4
<1>4. ASSUME NEW k \in DOMAIN requests, NEW d \in Decisions, CommitResolve(k, d)
      PROVE  requests' = requests \/ outbox' # {}
  BY <1>4 DEF CommitResolve
<1>5. QED
  BY <1>2, <1>3, <1>4, RequestWriters

(* What a slot about to pause for a human knows.                           *)
LEMMA HumanStep ==
  ASSUME WakeInv, NoOverlap, NoOverlap', [Next]_vars, NEW s \in Slots
  PROVE  HumanAsked(s)'
<1>0. /\ TypeOK /\ RunInv(s) /\ HumanAsked(s) /\ requests \in Seq(Requests)
      /\ pc \in [Slots -> Labels] /\ out \in [Slots -> Outcomes]
      /\ cur \in [Slots -> Node] /\ step \in [Node -> Steps] /\ faults \in Nat
  BY DEF WakeInv, LockInv, TypeOK
<1>1. faults' = 0 => faults = 0
  <2>1. ASSUME NEW r \in Slots, RunnerStep(r) PROVE faults' = faults
    BY <2>1 DEF RunnerStep, Execute, Record, TakeJob, LoadExecution, LoadSteps, StartRun,
      ReuseStep, BeginNode, ExecutePure, ExecuteCondition, ExecuteCall, ExecuteWait,
      ExecuteApproval, CreateApprovalRequest, RecordRetry, SaveFailed, SavePending,
      SaveSucceeded, SaveContext, PauseRun, ScheduleResume, FailRun, FinishRun,
      CompleteJob, env
  <2>2. ASSUME ApiStep \/ UNCHANGED vars PROVE faults' = faults
    BY <2>2 DEF ApiStep, BeginResolve, CommitResolve, EnqueueRun, vars, env
  <2>3. ASSUME Environment PROVE faults' = faults \/ faults' = faults + 1
    BY <2>3 DEF Environment, Tick, Crash, RunnerFault, HandlerFault
  <2>4. QED
    BY <1>0, <2>1, <2>2, <2>3 DEF Next
<1>2. CASE SavePending(s)
  <2>1. /\ pc[s] = "saveStep" /\ out' = out /\ cur' = cur /\ requests' = requests
        /\ queue' = queue /\ outbox' = outbox /\ step'[cur[s]].status = "pending"
    BY <1>0, <1>2 DEF SavePending, Upsert, redis, api
  <2>2. QED
    BY <1>0, <1>1, <2>1 DEF HumanAsked, Coming, AskedFor, IsLatest, RequestsOf
<1>3. CASE pc'[s] = pc[s] /\ out'[s] = out[s] /\ cur'[s] = cur[s] /\ ~RunnerStep(s)
  <2> SUFFICES ASSUME pc[s] \in {"saveStep", "pause"} PROVE HumanAsked(s)'
    BY <1>3 DEF HumanAsked
  <2>1. Busy(s) /\ Busy(s)'
    BY <1>3 DEF Busy
  <2>2. step' = step
    <3>1. ASSUME NEW r \in Slots, RunnerStep(r) PROVE step' = step
      <4>1. r # s /\ ~Busy(r)
        BY <1>3, <2>1, <3>1 DEF NoOverlap
      <4>2. QED
        BY <1>0, <3>1, <4>1, OthersMemory
    <3>2. QED
      BY <3>1, OutsideStep DEF Next, WakeInv
  <2>3. ASSUME Coming, faults' = 0 PROVE Coming'
    BY <1>0, <1>1, <2>1, <2>3, ComingKept
  <2>4. ASSUME AskedFor(cur[s]) PROVE AskedFor(cur[s])' \/ Coming'
    <3>1. PICK n \in Node : n = cur[s]
      BY <1>0
    <3>2. AskedFor(n)' \/ outbox' # {}
      BY <1>0, <2>4, <3>1, AskedKept
    <3>3. QED
      BY <1>3, <3>1, <3>2 DEF Coming, AskedFor, IsLatest, RequestsOf
  <2>5. QED
    BY <1>0, <1>1, <1>3, <2>2, <2>3, <2>4 DEF HumanAsked
<1>4. CASE RunnerStep(s) /\ ~SavePending(s)
  <2>1. pc'[s] # "pause"
    BY <1>0, <1>4 DEF RunnerStep, Execute, Record, TakeJob, LoadExecution, LoadSteps, StartRun,
      ReuseStep, BeginNode, ExecutePure, ExecuteCondition, ExecuteCall, ExecuteWait,
      ExecuteApproval, CreateApprovalRequest, RecordRetry, SaveFailed,
      SaveSucceeded, SaveContext, PauseRun, ScheduleResume, FailRun, FinishRun,
      CompleteJob, Return, Goto, Advance, Release
  <2>2. ASSUME pc'[s] = "saveStep", out'[s].kind = "waiting_approval" PROVE AskedFor(cur[s])'
    <3>1. ExecuteApproval(s) \/ CreateApprovalRequest(s)
      BY <1>0, <1>4, <2>2 DEF RunnerStep, Execute, Record, TakeJob, LoadExecution, LoadSteps,
        StartRun, ReuseStep, BeginNode, ExecutePure, ExecuteCondition, ExecuteCall,
        ExecuteWait, WaitOutcome, RecordRetry, SaveFailed, SaveSucceeded, SaveContext,
        PauseRun, ScheduleResume, FailRun, FinishRun, CompleteJob, Return, Goto, Advance,
        Release, Succeeded, Failed, Waiting
    <3>2. CASE ExecuteApproval(s)
      <4>1. PICK i \in DOMAIN requests :
              IsLatest(i, cur[s]) /\ Return(s, ApprovalOutcome(requests[i].status))
        BY <1>0, <2>2, <3>2 DEF ExecuteApproval, Goto
      <4>2. requests[i].status = "pending"
        BY <1>0, <2>2, <4>1 DEF Return, ApprovalOutcome, Succeeded
      <4>3. requests' = requests /\ cur' = cur
        BY <3>2 DEF ExecuteApproval, db
      <4>4. QED
        BY <4>1, <4>2, <4>3 DEF AskedFor, IsLatest, RequestsOf
    <3>3. CASE CreateApprovalRequest(s)
      <4> DEFINE r == [node |-> cur[s], status |-> "pending",
                       expiresAt |-> IF ExpiresIn > 0 THEN now + ExpiresIn ELSE 0]
      <4>1. /\ requests' = Append(requests, r) /\ cur' = cur
            /\ r.node = cur[s] /\ r.status = "pending"
        BY <3>3 DEF CreateApprovalRequest
      <4> HIDE DEF r
      <4>2. /\ DOMAIN requests' = 1 .. Len(requests) + 1 /\ Len(requests) \in Nat
            /\ requests'[Len(requests) + 1] = r
        BY <1>0, <4>1
      <4>3. QED
        BY <4>1, <4>2 DEF AskedFor, IsLatest, RequestsOf
    <3>4. QED
      BY <3>1, <3>2, <3>3
  <2>3. QED
    BY <2>1, <2>2 DEF HumanAsked
<1>5. CASE ~RunnerStep(s)
  <2>1. ASSUME pc'[s] \in {"saveStep", "pause"}
        PROVE  \/ pc'[s] = pc[s] /\ out'[s] = out[s] /\ cur'[s] = cur[s]
               \/ pc'[s] = "saveStep" /\ out'[s] = Failed
    <3>1. ASSUME NEW r \in Slots, RunnerStep(r)
          PROVE  pc'[s] = pc[s] /\ out'[s] = out[s] /\ cur'[s] = cur[s]
      <4>1. r # s
        BY <1>5, <3>1
      <4>2. QED
        BY <1>0, <3>1, <4>1, OthersMemory
    <3>2. ASSUME ApiStep \/ UNCHANGED vars \/ Tick \/ \E k \in outbox : HandlerFault(k)
          PROVE  pc'[s] = pc[s] /\ out'[s] = out[s] /\ cur'[s] = cur[s]
      BY <3>2 DEF ApiStep, BeginResolve, CommitResolve, EnqueueRun, Tick, HandlerFault,
        vars, memory
    <3>3. ASSUME NEW p, Crash(p)
          PROVE  pc'[s] = pc[s] /\ out'[s] = out[s] /\ cur'[s] = cur[s]
      BY <1>0, <2>1, <3>3 DEF Crash, Release
    <3>4. ASSUME NEW r \in Slots, RunnerFault(r)
          PROVE  \/ pc'[s] = pc[s] /\ out'[s] = out[s] /\ cur'[s] = cur[s]
                 \/ pc'[s] = "saveStep" /\ out'[s] = Failed
      BY <1>0, <2>1, <3>4 DEF RunnerFault, Return, Goto, Release
    <3>5. QED
      BY <3>1, <3>2, <3>3, <3>4 DEF Next, Environment
  <2>2. ASSUME pc'[s] = "saveStep", out'[s] = Failed PROVE HumanAsked(s)'
    BY <2>2 DEF HumanAsked, Failed
  <2>3. ASSUME pc'[s] \notin {"saveStep", "pause"} PROVE HumanAsked(s)'
    BY <2>3 DEF HumanAsked
  <2>4. QED
    BY <1>3, <1>5, <2>1, <2>2, <2>3
<1>6. QED
  BY <1>2, <1>4, <1>5


(* A crash loses no job: every one it takes down may be redelivered.       *)
LEMMA CrashComing ==
  ASSUME MaxCrashes <= MaxStalled, TypeOK, StallsCounted, NEW p, Crash(p)
  PROVE  queue' # {}
<1> DEFINE dead == {s \in Slots : Proc[s] = p}
           held == {job[s] : s \in {x \in dead : pc[x] # "idle"}}
<1>1. /\ queue' = queue \union {Redelivered(j) : j \in {x \in held : MayRedeliver(x)}}
      /\ held # {} /\ crashes < MaxCrashes
  BY DEF Crash
<1>2. PICK s \in dead : pc[s] # "idle" /\ job[s] \in held
  BY <1>1
<1>3. job[s].stalled \in Nat /\ job[s].stalled <= crashes
  BY DEF TypeOK, Jobs, StallsCounted
<1>4. MayRedeliver(job[s])
  BY <1>1, <1>3, EngineAssumption DEF MayRedeliver, TypeOK
<1>5. Redelivered(job[s]) \in queue'
  BY <1>1, <1>2, <1>4
<1>6. QED
  BY <1>5

(* An open question stays answerable while nobody works.                   *)
LEMMA AwaitingKept ==
  ASSUME NothingExpires, status' = status, requests' = requests, step' = step, AwaitingHuman
  PROVE  AwaitingHuman'
BY DEF AwaitingHuman, NothingExpires, IsLatest, RequestsOf, Resolvable

LEMMA WakeupStep ==
  ASSUME MaxCrashes <= MaxStalled, WakeInv, [Next]_vars
  PROVE  NoLostWakeup'
<1>0. /\ TypeOK /\ NothingExpires /\ StallsCounted /\ NoLostWakeup
      /\ pc \in [Slots -> Labels] /\ out \in [Slots -> Outcomes]
      /\ cur \in [Slots -> Node] /\ step \in [Node -> Steps] /\ faults \in Nat
  BY DEF WakeInv, LockInv, TypeOK
<1> SUFFICES ASSUME status' \notin Terminal, faults' = 0
             PROVE  \/ Coming' \/ AwaitingHuman'
                    \/ \E s \in Slots : Busy(s)'
  BY DEF NoLostWakeup, Coming
<1>1. ASSUME NEW s \in Slots, RunnerStep(s), pc'[s] \notin {"idle", "done"}
      PROVE  Busy(s)'
  BY <1>1 DEF Busy
<1>2. ASSUME NEW s \in Slots, RunnerStep(s), pc'[s] = "idle"
      PROVE  \/ Coming' \/ AwaitingHuman'
             \/ \E t \in Slots : Busy(t)'
  <2>1. CompleteJob(s)
    BY <1>0, <1>2 DEF RunnerStep, Execute, Record, TakeJob, LoadExecution, LoadSteps, StartRun,
      ReuseStep, BeginNode, ExecutePure, ExecuteCondition, ExecuteCall, ExecuteWait,
      ExecuteApproval, CreateApprovalRequest, RecordRetry, SaveFailed, SavePending,
      SaveSucceeded, SaveContext, PauseRun, ScheduleResume, FailRun, FinishRun,
      Return, Goto, Advance
  <2>2. /\ status' = status /\ requests' = requests /\ step' = step
        /\ queue' = queue /\ outbox' = outbox /\ faults' = faults /\ pc[s] = "done"
    BY <2>1 DEF CompleteJob, db, redis, api, env
  <2>3. ASSUME NEW t \in Slots, Busy(t) PROVE Busy(t)'
    BY <1>0, <1>2, <2>2, <2>3, OthersMemory DEF Busy
  <2>4. QED
    BY <1>0, <2>2, <2>3, AwaitingKept DEF NoLostWakeup, Coming
<1>3. ASSUME NEW s \in Slots, RunnerStep(s), pc'[s] = "done"
      PROVE  Coming' \/ AwaitingHuman'
  <2>1. LoadExecution(s) \/ PauseRun(s) \/ ScheduleResume(s) \/ FailRun(s) \/ FinishRun(s)
    BY <1>0, <1>3 DEF RunnerStep, Execute, Record, TakeJob, LoadSteps, StartRun,
      ReuseStep, BeginNode, ExecutePure, ExecuteCondition, ExecuteCall, ExecuteWait,
      ExecuteApproval, CreateApprovalRequest, RecordRetry, SaveFailed, SavePending,
      SaveSucceeded, SaveContext, CompleteJob, Release, Return, Goto, Advance
  <2>2. CASE LoadExecution(s) \/ FailRun(s) \/ FinishRun(s)
    <3>1. status' \in Terminal
      BY <1>0, <1>3, <2>2 DEF LoadExecution, FailRun, FinishRun, IsOver, Goto, Terminal, db
    <3>2. QED
      BY <3>1
  <2>3. CASE ScheduleResume(s)
    BY <2>3 DEF ScheduleResume, Coming
  <2>4. CASE PauseRun(s)
    <3>1. /\ pc[s] = "pause" /\ out[s].kind = "waiting_approval"
          /\ status' = "waiting_approval" /\ faults = 0
          /\ step' = step /\ requests' = requests /\ queue' = queue /\ outbox' = outbox
      BY <1>0, <1>3, <2>4
      DEF PauseRun, PausedAs, NeedsTimer, Goto, RunInv, WakeInv, LockInv, redis, api, env
    <3>2. step[cur[s]].status = "pending" /\ (Coming \/ AskedFor(cur[s]))
      BY <3>1 DEF WakeInv, HumanAsked
    <3>3. ASSUME AskedFor(cur[s]) PROVE AwaitingHuman'
      <4>1. PICK i \in DOMAIN requests :
              IsLatest(i, cur[s]) /\ requests[i].status = "pending"
        BY <3>3 DEF AskedFor
      <4>2. requests[i].node = cur[s] /\ requests[i].expiresAt = 0
        BY <1>0, <4>1 DEF IsLatest, RequestsOf, NothingExpires
      <4>3. QED
        BY <3>1, <3>2, <4>1, <4>2 DEF AwaitingHuman, IsLatest, RequestsOf, Resolvable
    <3>4. QED
      BY <3>1, <3>2, <3>3 DEF Coming
  <2>5. QED
    BY <2>1, <2>2, <2>3, <2>4
<1>4. ASSUME ApiStep
      PROVE  \/ Coming' \/ AwaitingHuman'
             \/ \E s \in Slots : Busy(s)'
  <2>1. \/ Coming'
        \/ UNCHANGED <<status, requests, step, queue, outbox, faults, pc>>
    BY <1>4 DEF ApiStep, BeginResolve, CommitResolve, EnqueueRun, Coming, db, redis, memory, env
  <2>2. QED
    BY <1>0, <2>1, AwaitingKept DEF NoLostWakeup, Coming, Busy
<1>5. ASSUME Tick \/ UNCHANGED vars
      PROVE  \/ Coming' \/ AwaitingHuman'
             \/ \E s \in Slots : Busy(s)'
  <2>1. UNCHANGED <<status, requests, step, queue, outbox, faults, pc>>
    BY <1>5 DEF Tick, vars, db, redis, api, memory, env
  <2>2. QED
    BY <1>0, <2>1, AwaitingKept DEF NoLostWakeup, Coming, Busy
<1>6. ASSUME NEW p, Crash(p) PROVE Coming'
  BY <1>0, <1>6, CrashComing DEF Coming
<1>7. ASSUME (\E s \in Slots : RunnerFault(s)) \/ \E k \in outbox : HandlerFault(k)
      PROVE  FALSE
  <2>1. faults' = faults + 1
    BY <1>7 DEF RunnerFault, HandlerFault
  <2>2. QED
    BY <1>0, <2>1
<1>8. QED
  BY <1>1, <1>2, <1>3, <1>4, <1>5, <1>6, <1>7 DEF Next, Environment

(***************************************************************************)
(* With the lock, crashes strand nothing, as long as no more workers crash *)
(* than BullMQ has redeliveries for a job, and no approval expires: until  *)
(* it is over the execution is being run, has a job coming, or waits for a *)
(* human whose answer will wake it.                                        *)
(***************************************************************************)
THEOREM WakeupUnderLock ==
  ASSUME MaxCrashes <= MaxStalled, ExpiresIn = 0
  PROVE  Spec /\ []NoOverlap => []NoLostWakeup
<1>1. Init => WakeInv
  <2>1. ASSUME Init
        PROVE  StallsCounted /\ NothingExpires /\ NoLostWakeup /\ \A s \in Slots : HumanAsked(s)
    BY <2>1 DEF Init, StallsCounted, RunJob, NothingExpires, NoLostWakeup, HumanAsked
  <2>2. QED
    BY <2>1, LockInit DEF WakeInv
<1>2. WakeInv /\ NoOverlap /\ NoOverlap' /\ [Next]_vars => WakeInv'
  <2>1. ASSUME WakeInv, NoOverlap, NoOverlap', [Next]_vars
        PROVE  WakeInv'
    <3>1. TypeOK /\ LockInv /\ StallsCounted /\ NothingExpires
      BY <2>1 DEF WakeInv, LockInv
    <3>2. LockInv' /\ StallsCounted' /\ NothingExpires'
      BY <2>1, <3>1, LockStep, StallsStep, ExpiryStep
    <3>3. QED
      BY <2>1, <3>2, WakeupStep, HumanStep DEF WakeInv
  <2>2. QED
    BY <2>1
<1>3. WakeInv => NoLostWakeup
  BY DEF WakeInv
<1>4. QED
  BY <1>1, <1>2, <1>3, PTL DEF Spec

(* One worker loop is a lock here too.                                     *)
THEOREM OneLoopWakes ==
  ASSUME \A s, t \in Slots : s = t, MaxCrashes <= MaxStalled, ExpiresIn = 0
  PROVE  Spec => []NoLostWakeup
<1>1. NoOverlap
  BY DEF NoOverlap
<1>2. QED
  BY <1>1, WakeupUnderLock, PTL

-----------------------------------------------------------------------------
(***************************************************************************)
(* Where the order of jobs is the lock.  Whatever can start a run of the   *)
(* execution is a token: an open approval request, a key in the outbox, a  *)
(* run job, a wake-up job, or a slot at work.  Until the first timer is    *)
(* set only the run loop works, and there is one token, except that the    *)
(* run loop may still be on its way to the pause its request causes.  From *)
(* then on no approval lies ahead and wake-ups alone pass the token on.    *)
(***************************************************************************)
AtMostOne(S) == \A x, y \in S : x = y

Open == {i \in DOMAIN requests : requests[i].status = "pending"}
RunJobs == {j \in queue : j.type = "execution.run"}
WakeJobs == {j \in queue : j.type = "execution.resume-wait"}
NoRunComing == Open = {} /\ outbox = {} /\ RunJobs = {}

Asking(s) == pc[s] \in {"saveStep", "pause"} /\ out[s].kind = "waiting_approval"
Past == Working \union {"schedule"}
Loading == {"load", "loadSteps", "start"}

(* No execution job of another type than the two is ever queued.           *)
QueueTypes == \A j \in queue : j.type \in {"execution.run", "execution.resume-wait"}

(* At most one node is begun and not succeeded, and the slot is at it.     *)
OneTrace ==
  /\ AtMostOne(Unfinished(step))
  /\ \A s \in Slots :
       /\ pc[s] = "start" => steps[s] = step
       /\ pc[s] \in Past => Unfinished(step) \subseteq {cur[s]}
       /\ pc[s] \in {"pause", "schedule"} => step[cur[s]].status = "pending"
       /\ pc[s] = "schedule" => Kind[cur[s]] = "wait"

BeforeTimers ==
  timers = 0 =>
    /\ WakeJobs = {}
    /\ AtMostOne(Open) /\ AtMostOne(outbox) /\ AtMostOne(RunJobs)
    /\ Open = {} \/ outbox = {}
    /\ Open = {} \/ RunJobs = {}
    /\ outbox = {} \/ RunJobs = {}
    /\ \A s \in Slots : Busy(s) =>
         Serves[s] = "execution.run" /\ (Asking(s) \/ NoRunComing)

(* W holds the wait nodes and all that lies behind them.                   *)
AfterTimers(W) ==
  timers # 0 =>
    /\ NoRunComing
    /\ AtMostOne(WakeJobs)
    /\ Unfinished(step) \subseteq W
    /\ WakeJobs # {} => Unfinished(step) # {}
    /\ \A s \in Slots :
         /\ Busy(s) => WakeJobs = {}
         /\ pc[s] \in Loading => Unfinished(step) # {}
         /\ pc[s] \in Past => cur[s] \in W

SoloInv(W) ==
  LockInv /\ NoOverlap /\ QueueTypes /\ OneTrace /\ BeforeTimers /\ AfterTimers(W)

BehindWaits(W) ==
  /\ W \in SUBSET Node
  /\ \A n \in Node : Kind[n] = "wait" => n \in W
  /\ \A n \in W : Kind[n] # "approval" /\ \A i \in Outgoing(n) : Edges[i].to \in W

(* One loop serves the runs, and no approval can follow a wait.            *)
OneRunLoop ==
  \A s, t \in Slots : Serves[s] = "execution.run" /\ Serves[t] = "execution.run" => s = t
NoApprovalBehindWaits == \E W : BehindWaits(W)

(* A slot's records are of the node it is at.                              *)
LEMMA RecordStep ==
  ASSUME LockInv, NEW s \in Slots, RunnerStep(s), step' # step
  PROVE  /\ pc[s] \in Executing /\ pc'[s] \in {"exec", "fail", "pause", "saveContext"}
         /\ cur' = cur /\ cur[s] \in Node
         /\ \A n \in Node : n # cur[s] => step'[n] = step[n]
         /\ pc'[s] = "pause" => step'[cur[s]].status = "pending"
<1>1. RecordRetry(s) \/ SaveFailed(s) \/ SavePending(s) \/ SaveSucceeded(s)
  BY DEF RunnerStep, Execute, Record, TakeJob, LoadExecution, LoadSteps, StartRun,
    ReuseStep, BeginNode, ExecutePure, ExecuteCondition, ExecuteCall, ExecuteWait,
    ExecuteApproval, CreateApprovalRequest, SaveContext,
    PauseRun, ScheduleResume, FailRun, FinishRun, CompleteJob, db
<1>2. /\ pc \in [Slots -> Labels] /\ cur \in [Slots -> Node] /\ step \in [Node -> Steps]
  BY DEF LockInv, TypeOK
<1>3. QED
  BY <1>1, <1>2 DEF RecordRetry, SaveFailed, SavePending, SaveSucceeded, Upsert, Goto, Executing

(* Going on to another node means that the one before has succeeded.       *)
LEMMA MoveStep ==
  ASSUME LockInv, NEW s \in Slots, RunnerStep(s), pc[s] \in Past, cur'[s] # cur[s],
         pc'[s] # "idle"
  PROVE  /\ step' = step /\ step[cur[s]].status = "succeeded" /\ pc'[s] = "visit"
         /\ \E i \in Outgoing(cur[s]) : Edges[i].to = cur'[s]
<1>1. ReuseStep(s) \/ SaveContext(s)
  BY DEF RunnerStep, Execute, Record, TakeJob, LoadExecution, LoadSteps, StartRun,
    BeginNode, ExecutePure, ExecuteCondition, ExecuteCall, ExecuteWait,
    ExecuteApproval, CreateApprovalRequest, RecordRetry, SaveFailed, SavePending,
    SaveSucceeded, PauseRun, ScheduleResume, FailRun, FinishRun, CompleteJob, Release,
    Past, Working, Executing
<1>2. /\ RunInv(s) /\ pc \in [Slots -> Labels] /\ cur \in [Slots -> Node]
  BY DEF LockInv, TypeOK
<1>3. step' = step /\ step[cur[s]].status = "succeeded"
  BY <1>1, <1>2 DEF ReuseStep, SaveContext, IsDone, existing, RunInv, Agrees, Working,
    Executing, db
<1>4. \E b : Advance(s, cur[s], b)
  BY <1>1 DEF ReuseStep, SaveContext
<1>5. QED
  BY <1>2, <1>3, <1>4 DEF Advance, Goto, LeadsTo, Matching

LEMMA TraceRunner ==
  ASSUME LockInv, NoOverlap, OneTrace, NEW s \in Slots, RunnerStep(s)
  PROVE  OneTrace'
<1>0. /\ TypeOK /\ RunInv(s)
      /\ pc \in [Slots -> Labels] /\ cur \in [Slots -> Node] /\ out \in [Slots -> Outcomes]
      /\ steps \in [Slots -> [Node -> Steps]] /\ step \in [Node -> Steps]
  BY DEF LockInv, TypeOK
<1>1. AtMostOne(Unfinished(step'))
  <2>1. CASE step' = step
    BY <2>1 DEF OneTrace
  <2>2. CASE step' # step
    <3>1. pc[s] \in Past /\ \A n \in Node : n # cur[s] => step'[n] = step[n]
      BY <2>2, RecordStep DEF Past, Working
    <3>2. Unfinished(step) \subseteq {cur[s]}
      BY <3>1 DEF OneTrace
    <3>3. Unfinished(step') \subseteq {cur[s]}
      BY <3>1, <3>2 DEF Unfinished
    <3>4. QED
      BY <3>3 DEF AtMostOne
  <2>3. QED
    BY <2>1, <2>2
<1>2. ASSUME pc'[s] = "start" PROVE steps'[s] = step'
  <2>1. LoadSteps(s)
    BY <1>0, <1>2 DEF RunnerStep, Execute, Record, TakeJob, LoadExecution, StartRun,
      ReuseStep, BeginNode, ExecutePure, ExecuteCondition, ExecuteCall, ExecuteWait,
      ExecuteApproval, CreateApprovalRequest, RecordRetry, SaveFailed, SavePending,
      SaveSucceeded, SaveContext, PauseRun, ScheduleResume, FailRun, FinishRun,
      CompleteJob, Release, Return, Goto, Advance
  <2>2. QED
    BY <1>0, <2>1 DEF LoadSteps, db
<1>3. ASSUME pc'[s] \in Past PROVE Unfinished(step') \subseteq {cur'[s]}
  <2>1. CASE pc[s] \in Past /\ cur'[s] # cur[s]
    <3>1. pc'[s] # "idle"
      BY <1>3 DEF Past, Working, Executing
    <3>2. step' = step /\ step[cur[s]].status = "succeeded"
      BY <2>1, <3>1, MoveStep
    <3>3. Unfinished(step) = {}
      BY <2>1, <3>2 DEF OneTrace, Unfinished
    <3>4. QED
      BY <3>2, <3>3
  <2>2. CASE pc[s] \in Past /\ cur'[s] = cur[s]
    <3>1. \A n \in Node : n # cur[s] => step'[n] = step[n]
      BY RecordStep
    <3>2. Unfinished(step) \subseteq {cur[s]}
      BY <2>2 DEF OneTrace
    <3>3. QED
      BY <2>2, <3>1, <3>2 DEF Unfinished
  <2>3. CASE pc[s] \notin Past
    <3>1. StartRun(s)
      BY <1>0, <1>3, <2>3 DEF RunnerStep, Execute, Record, TakeJob, LoadExecution, LoadSteps,
        ReuseStep, BeginNode, ExecutePure, ExecuteCondition, ExecuteCall, ExecuteWait,
        ExecuteApproval, CreateApprovalRequest, RecordRetry, SaveFailed, SavePending,
        SaveSucceeded, SaveContext, PauseRun, ScheduleResume, FailRun, FinishRun,
        CompleteJob, Release, Goto, Past, Working, Executing
    <3>2. pc[s] = "start" /\ step' = step /\ steps[s] = step
      BY <3>1 DEF StartRun, OneTrace
    <3>3. Unfinished(step) = {} \/ cur'[s] \in Unfinished(step)
      BY <1>0, <3>1, <3>2 DEF StartRun, IsFirstUnfinished
    <3>4. QED
      BY <3>2, <3>3 DEF OneTrace, AtMostOne
  <2>4. QED
    BY <2>1, <2>2, <2>3
<1>4. ASSUME pc'[s] \in {"pause", "schedule"}
      PROVE  /\ step'[cur'[s]].status = "pending"
             /\ pc'[s] = "schedule" => Kind[cur'[s]] = "wait"
  <2>1. SavePending(s) \/ PauseRun(s)
    BY <1>0, <1>4 DEF RunnerStep, Execute, Record, TakeJob, LoadExecution, LoadSteps, StartRun,
      ReuseStep, BeginNode, ExecutePure, ExecuteCondition, ExecuteCall, ExecuteWait,
      ExecuteApproval, CreateApprovalRequest, RecordRetry, SaveFailed,
      SaveSucceeded, SaveContext, ScheduleResume, FailRun, FinishRun,
      CompleteJob, Release, Return, Goto, Advance
  <2>2. CASE SavePending(s)
    BY <1>0, <2>2 DEF SavePending, Upsert, Goto
  <2>3. CASE PauseRun(s)
    BY <1>0, <2>3 DEF PauseRun, NeedsTimer, Goto, RunInv, OneTrace
  <2>4. QED
    BY <2>1, <2>2, <2>3
<1>5. ASSUME NEW t \in Slots, t # s
      PROVE  /\ pc'[t] = "start" => steps'[t] = step'
             /\ pc'[t] \in Past => Unfinished(step') \subseteq {cur'[t]}
             /\ pc'[t] \in {"pause", "schedule"} => step'[cur'[t]].status = "pending"
             /\ pc'[t] = "schedule" => Kind[cur'[t]] = "wait"
  <2>1. /\ pc'[t] = pc[t] /\ cur'[t] = cur[t] /\ steps'[t] = steps[t]
        /\ ~Busy(s) => step' = step
    BY <1>0, <1>5, OthersMemory
  <2>2. CASE Busy(t)
    BY <1>5, <2>1, <2>2 DEF NoOverlap, OneTrace
  <2>3. CASE ~Busy(t)
    BY <2>1, <2>3 DEF Busy, Past, Working, Executing
  <2>4. QED
    BY <2>2, <2>3
<1>6. QED
  BY <1>1, <1>2, <1>3, <1>4, <1>5 DEF OneTrace

LEMMA TraceStep ==
  ASSUME LockInv, NoOverlap, OneTrace, [Next]_vars
  PROVE  OneTrace'
<1>0. /\ pc \in [Slots -> Labels] /\ steps \in [Slots -> [Node -> Steps]]
      /\ out \in [Slots -> Outcomes] /\ cur \in [Slots -> Node]
  BY DEF LockInv, TypeOK
<1>1. ASSUME ApiStep \/ Environment \/ UNCHANGED vars, NEW s \in Slots
      PROVE  \/ pc'[s] = pc[s] /\ cur'[s] = cur[s] /\ steps'[s] = steps[s]
             \/ pc'[s] = "idle"
             \/ pc'[s] = "saveStep" /\ pc[s] \in Past /\ cur'[s] = cur[s]
  <2>1. CASE ApiStep \/ UNCHANGED vars \/ Tick \/ \E k \in outbox : HandlerFault(k)
    BY <2>1 DEF ApiStep, BeginResolve, CommitResolve, EnqueueRun, Tick, HandlerFault,
      vars, memory
  <2>2. ASSUME NEW p, Crash(p)
        PROVE  \/ pc'[s] = pc[s] /\ cur'[s] = cur[s] /\ steps'[s] = steps[s]
               \/ pc'[s] = "idle"
    BY <1>0, <2>2 DEF Crash, Release
  <2>3. ASSUME NEW r \in Slots, RunnerFault(r)
        PROVE  \/ pc'[s] = pc[s] /\ cur'[s] = cur[s] /\ steps'[s] = steps[s]
               \/ pc'[s] = "idle"
               \/ pc'[s] = "saveStep" /\ pc[s] \in Past /\ cur'[s] = cur[s]
    BY <1>0, <2>3 DEF RunnerFault, Caught, Return, Goto, Release, Past, Working, Executing
  <2>4. QED
    BY <1>1, <2>1, <2>2, <2>3 DEF Environment
<1>2. ASSUME ApiStep \/ Environment \/ UNCHANGED vars PROVE OneTrace'
  <2>1. step' = step
    BY <1>2, OutsideStep
  <2>2. QED
    BY <1>1, <1>2, <2>1 DEF OneTrace, Past, Working, Executing
<1>3. QED
  BY <1>2, TraceRunner DEF Next


(* A slot gets to work only by taking a job.                               *)
LEMMA BusyWriters ==
  ASSUME TypeOK, [Next]_vars, NEW s \in Slots, Busy(s)', ~Busy(s)
  PROVE  TakeJob(s)
<1>0. pc \in [Slots -> Labels] /\ pc'[s] \notin {"idle", "done"} /\ pc[s] \in {"idle", "done"}
  BY DEF TypeOK, Busy
<1>1. ASSUME NEW r \in Slots, RunnerStep(r), r # s PROVE FALSE
  BY <1>0, <1>1, OthersMemory
<1>2. ASSUME RunnerStep(s), ~TakeJob(s) PROVE FALSE
  BY <1>0, <1>2 DEF RunnerStep, Execute, Record, LoadExecution, LoadSteps, StartRun,
    ReuseStep, BeginNode, ExecutePure, ExecuteCondition, ExecuteCall, ExecuteWait,
    ExecuteApproval, CreateApprovalRequest, RecordRetry, SaveFailed, SavePending,
    SaveSucceeded, SaveContext, PauseRun, ScheduleResume, FailRun, FinishRun,
    CompleteJob, Release
<1>3. CASE ApiStep \/ UNCHANGED vars \/ Tick \/ \E k \in outbox : HandlerFault(k)
  BY <1>0, <1>3 DEF ApiStep, BeginResolve, CommitResolve, EnqueueRun, Tick, HandlerFault,
    vars, memory
<1>4. ASSUME NEW p, Crash(p) PROVE FALSE
  BY <1>0, <1>4 DEF Crash, Release
<1>5. ASSUME NEW r \in Slots, RunnerFault(r) PROVE FALSE
  BY <1>0, <1>5 DEF RunnerFault, Return, Goto, Release
<1>6. QED
  BY <1>1, <1>2, <1>3, <1>4, <1>5 DEF Next, Environment

(* The steps of a slot that neither take nor make a token.                 *)
LEMMA QuietStep ==
  ASSUME LockInv, NEW s \in Slots, RunnerStep(s),
         ~TakeJob(s), ~ScheduleResume(s), ~CreateApprovalRequest(s)
  PROVE  /\ requests' = requests /\ outbox' = outbox /\ queue' = queue /\ timers' = timers
         /\ pc'[s] \in Loading => pc[s] \in Loading /\ step' = step
         /\ pc'[s] \in Past => pc[s] \in Past \/ StartRun(s)
         /\ Asking(s) => Asking(s)' \/ ~Busy(s)'
<1>0. /\ pc \in [Slots -> Labels] /\ out \in [Slots -> Outcomes] /\ RunInv(s)
  BY DEF LockInv, TypeOK
<1>1. requests' = requests /\ outbox' = outbox /\ queue' = queue /\ timers' = timers
  BY DEF RunnerStep, Execute, Record, LoadExecution, LoadSteps, StartRun,
    ReuseStep, BeginNode, ExecutePure, ExecuteCondition, ExecuteCall, ExecuteWait,
    ExecuteApproval, RecordRetry, SaveFailed, SavePending,
    SaveSucceeded, SaveContext, PauseRun, FailRun, FinishRun, CompleteJob, db, redis, api
<1>2. ASSUME pc'[s] \in Loading PROVE pc[s] \in Loading /\ step' = step
  BY <1>0, <1>2 DEF RunnerStep, Execute, Record, LoadExecution, LoadSteps, StartRun,
    ReuseStep, BeginNode, ExecutePure, ExecuteCondition, ExecuteCall, ExecuteWait,
    ExecuteApproval, RecordRetry, SaveFailed, SavePending,
    SaveSucceeded, SaveContext, PauseRun, FailRun, FinishRun, CompleteJob, Loading,
    Return, Goto, Advance, Release, db
<1>3. ASSUME pc'[s] \in Past, ~StartRun(s) PROVE pc[s] \in Past
  BY <1>0, <1>3 DEF RunnerStep, Execute, Record, LoadExecution, LoadSteps,
    ReuseStep, BeginNode, ExecutePure, ExecuteCondition, ExecuteCall, ExecuteWait,
    ExecuteApproval, RecordRetry, SaveFailed, SavePending,
    SaveSucceeded, SaveContext, PauseRun, FailRun, FinishRun, CompleteJob, Past, Working,
    Executing, Goto, Release
<1>4. ASSUME Asking(s) PROVE Asking(s)' \/ ~Busy(s)'
  <2>1. SavePending(s) \/ PauseRun(s)
    BY <1>4 DEF Asking, RunnerStep, Execute, Record, LoadExecution, LoadSteps, StartRun,
      ReuseStep, BeginNode, ExecutePure, ExecuteCondition, ExecuteCall, ExecuteWait,
      ExecuteApproval, RecordRetry, SaveFailed,
      SaveSucceeded, SaveContext, FailRun, FinishRun, CompleteJob
  <2>2. QED
    BY <1>0, <1>4, <2>1 DEF Asking, SavePending, PauseRun, NeedsTimer, Goto, Busy
<1>5. QED
  BY <1>1, <1>2, <1>3, <1>4

(* What the API and the environment do to the tokens without a crash.      *)
LEMMA OutsideTokens ==
  ASSUME MaxCrashes = 0, LockInv, ApiStep \/ Environment \/ UNCHANGED vars
  PROVE  /\ timers' = timers
         /\ \/ requests' = requests /\ outbox' \subseteq outbox /\ queue' = queue
            \/ \E i \in Open : /\ Open' = Open \ {i} /\ outbox' = outbox \union {i}
                             /\ queue' = queue
            \/ \E k \in outbox : /\ requests' = requests /\ outbox' = outbox \ {k}
                               /\ queue' = queue \union {RunJob(k)}
         /\ \A s \in Slots : \/ pc'[s] = pc[s] /\ cur'[s] = cur[s] /\ out'[s] = out[s]
                            \/ pc'[s] = "idle"
                            \/ /\ pc[s] \in {"exec", "ask"} /\ cur'[s] = cur[s]
                               /\ Kind[cur[s]] = "approval" /\ pc'[s] = "saveStep"
<1>0. /\ pc \in [Slots -> Labels] /\ out \in [Slots -> Outcomes] /\ cur \in [Slots -> Node]
      /\ requests \in Seq(Requests)
  BY DEF LockInv, TypeOK
<1>1. ASSUME NEW i \in DOMAIN requests, NEW d \in Decisions, CommitResolve(i, d),
             UpdateMatches(i)
      PROVE  i \in Open /\ Open' = Open \ {i} /\ outbox' = outbox \union {i}
  <2>1. requests' = [requests EXCEPT ![i] = [requests[i] EXCEPT !.status = d]]
        /\ outbox' = outbox \union {i} /\ requests[i].status = "pending"
    BY <1>1 DEF CommitResolve, UpdateMatches
  <2>2. [requests[i] EXCEPT !.status = d].status = d /\ d # "pending"
    BY RequestAt DEF LockInv, Requests, Decisions
  <2>3. QED
    BY <1>0, <2>1, <2>2 DEF Open
<1>2. CASE ApiStep
  <2>1. /\ timers' = timers /\ pc' = pc /\ cur' = cur /\ out' = out
    BY <1>2 DEF ApiStep, BeginResolve, CommitResolve, EnqueueRun, redis, memory
  <2>2. ASSUME NEW i \in DOMAIN requests, NEW d \in Decisions, CommitResolve(i, d)
        PROVE  /\ queue' = queue
               /\ \/ requests' = requests /\ outbox' = outbox
                  \/ UpdateMatches(i)
    BY <2>2 DEF CommitResolve, redis
  <2>3. ASSUME NEW i \in DOMAIN requests, NEW d \in Decisions, BeginResolve(i, d)
        PROVE  requests' = requests /\ outbox' = outbox /\ queue' = queue
    BY <2>3 DEF BeginResolve, redis, db
  <2>4. ASSUME NEW k \in outbox, EnqueueRun(k)
        PROVE  /\ requests' = requests /\ outbox' = outbox \ {k}
               /\ queue' = queue \union {RunJob(k)}
    BY <2>4 DEF EnqueueRun, db
  <2>5. QED
    BY <1>1, <1>2, <2>1, <2>2, <2>3, <2>4 DEF ApiStep
<1>3. CASE Environment \/ UNCHANGED vars
  <2>1. ASSUME NEW p, Crash(p) PROVE FALSE
    BY <2>1 DEF Crash, LockInv, TypeOK
  <2>2. CASE Tick \/ UNCHANGED vars \/ \E k \in outbox : HandlerFault(k)
    BY <2>2 DEF Tick, HandlerFault, vars, db, redis, api, memory
  <2>3. ASSUME NEW r \in Slots, RunnerFault(r)
        PROVE  /\ timers' = timers /\ requests' = requests /\ outbox' = outbox /\ queue' = queue
               /\ \A s \in Slots : \/ pc'[s] = pc[s] /\ cur'[s] = cur[s] /\ out'[s] = out[s]
                                  \/ pc'[s] = "idle"
                                  \/ /\ pc[s] \in {"exec", "ask"} /\ cur'[s] = cur[s]
                                     /\ Kind[cur[s]] = "approval" /\ pc'[s] = "saveStep"
    BY <1>0, <2>3 DEF RunnerFault, Caught, Return, Goto, Release, db, redis, api
  <2>4. QED
    BY <1>3, <2>1, <2>2, <2>3 DEF Environment
<1>4. QED
  BY <1>2, <1>3

LEMMA QueueTypesStep ==
  ASSUME MaxCrashes = 0, LockInv, QueueTypes, [Next]_vars
  PROVE  QueueTypes'
<1>1. ASSUME NEW s \in Slots, RunnerStep(s) PROVE QueueTypes'
  <2>1. CASE TakeJob(s) \/ CreateApprovalRequest(s)
    BY <2>1 DEF TakeJob, CreateApprovalRequest, QueueTypes, redis
  <2>2. CASE ScheduleResume(s)
    BY <2>2 DEF ScheduleResume, WakeJob, QueueTypes
  <2>3. QED
    BY <1>1, <2>1, <2>2, QuietStep DEF QueueTypes
<1>2. ASSUME ApiStep \/ Environment \/ UNCHANGED vars PROVE QueueTypes'
  BY <1>2, OutsideTokens DEF QueueTypes, RunJob
<1>3. QED
  BY <1>1, <1>2 DEF Next


(* The job a slot takes is the only token.                                 *)
LEMMA TakeAlone ==
  ASSUME OneRunLoop, NEW W, SoloInv(W), NEW s \in Slots, TakeJob(s), NEW t \in Slots
  PROVE  ~Busy(t)
<1>1. PICK j \in queue : j.type = Serves[s]
  BY DEF TakeJob
<1>2. j \in RunJobs \/ j \in WakeJobs
  BY <1>1 DEF SoloInv, QueueTypes, RunJobs, WakeJobs
<1>3. timers = 0 /\ Busy(t) => Serves[s] = "execution.run" /\ Asking(t)
  BY <1>1, <1>2 DEF SoloInv, BeforeTimers, NoRunComing, RunJobs
<1>4. timers = 0 /\ Busy(t) => t = s
  BY <1>3 DEF OneRunLoop, SoloInv, BeforeTimers
<1>5. timers # 0 => ~Busy(t)
  BY <1>2 DEF SoloInv, AfterTimers, NoRunComing
<1>6. QED
  BY <1>4, <1>5 DEF TakeJob, Busy

LEMMA OverlapStep ==
  ASSUME OneRunLoop, NEW W, SoloInv(W), [Next]_vars
  PROVE  NoOverlap'
<1>1. TypeOK
  BY DEF SoloInv, LockInv
<1>2. ASSUME NEW s \in Slots, NEW t \in Slots, Busy(s)', Busy(t)', s # t PROVE FALSE
  <2>1. CASE Busy(s) /\ Busy(t)
    BY <1>2, <2>1 DEF SoloInv, NoOverlap
  <2>2. ASSUME NEW x \in Slots, NEW y \in Slots, x # y, ~Busy(x), Busy(x)', Busy(y)' PROVE FALSE
    <3>1. TakeJob(x)
      BY <1>1, <2>2, BusyWriters
    <3>2. ~Busy(y)
      BY <3>1, TakeAlone
    <3>3. TakeJob(y)
      BY <1>1, <2>2, <3>2, BusyWriters
    <3>4. pc \in [Slots -> Labels] /\ pc[y] = "idle" /\ pc' = [pc EXCEPT ![x] = "load"]
      BY <1>1, <3>1, <3>3 DEF TakeJob, Goto, TypeOK
    <3>5. QED
      BY <2>2, <3>4 DEF Busy
  <2>3. QED
    BY <1>2, <2>1, <2>2
<1>3. QED
  BY <1>2 DEF NoOverlap

(* A new request is the one open request when nothing else was coming.     *)
LEMMA AskStep ==
  ASSUME TypeOK, NEW s \in Slots, CreateApprovalRequest(s), Open = {}
  PROVE  AtMostOne(Open') /\ Asking(s)'
<1>1. requests \in Seq(Requests) /\ pc \in [Slots -> Labels] /\ out \in [Slots -> Outcomes]
  BY DEF TypeOK
<1>2. \E r : requests' = Append(requests, r)
  BY DEF CreateApprovalRequest
<1>3. /\ DOMAIN requests' = 1 .. Len(requests) + 1 /\ Len(requests) \in Nat
      /\ \A j \in 1 .. Len(requests) : requests'[j] = requests[j]
      /\ DOMAIN requests = 1 .. Len(requests)
  BY <1>1, <1>2
<1>4. Open' \subseteq {Len(requests) + 1}
  BY <1>3 DEF Open
<1>5. QED
  BY <1>1, <1>4 DEF AtMostOne, CreateApprovalRequest, Return, Goto, WaitingApproval, Asking

LEMMA BeforeStep ==
  ASSUME MaxCrashes = 0, OneRunLoop, NEW W, SoloInv(W), [Next]_vars
  PROVE  BeforeTimers'
<1>0. /\ LockInv /\ TypeOK /\ NoOverlap /\ timers \in Nat
      /\ pc \in [Slots -> Labels] /\ out \in [Slots -> Outcomes] /\ cur \in [Slots -> Node]
  BY DEF SoloInv, LockInv, TypeOK
<1>1. ASSUME NEW s \in Slots, RunnerStep(s), timers' = 0 PROVE BeforeTimers'
  <2>0. timers = 0 /\ ~ScheduleResume(s)
    <3>1. ~ScheduleResume(s)
      BY <1>0, <1>1 DEF ScheduleResume
    <3>2. CASE TakeJob(s) \/ CreateApprovalRequest(s)
      BY <1>1, <3>1, <3>2 DEF TakeJob, CreateApprovalRequest, redis
    <3>3. QED
      BY <1>0, <1>1, <3>1, <3>2, QuietStep
  <2>1. BeforeTimers
    BY DEF SoloInv
  <2>2. ASSUME NEW t \in Slots, t # s, Busy(t)'
        PROVE  Busy(t) /\ (Asking(t)' <=> Asking(t)) /\ ~Busy(s)
    <3>1. pc'[t] = pc[t] /\ out'[t] = out[t]
      BY <1>0, <1>1, <2>2, OthersMemory
    <3>2. QED
      BY <1>0, <2>2, <3>1 DEF Busy, Asking, NoOverlap
  <2>3. CASE TakeJob(s)
    <3>1. PICK j \in queue : j.type = Serves[s] /\ queue' = queue \ {j}
      BY <2>3 DEF TakeJob
    <3>2. j \in RunJobs /\ WakeJobs = {} /\ AtMostOne(RunJobs) /\ Open = {} /\ outbox = {}
      BY <2>0, <3>1 DEF SoloInv, BeforeTimers, QueueTypes, RunJobs, WakeJobs
    <3>3. RunJobs' = {} /\ WakeJobs' = {}
      BY <3>1, <3>2 DEF RunJobs, WakeJobs, AtMostOne
    <3>4. Open' = {} /\ outbox' = {}
      BY <2>3, <3>2 DEF TakeJob, Open, db, api
    <3>5. ASSUME NEW t \in Slots, Busy(t)' PROVE Serves[t] = "execution.run"
      <4>1. t = s
        BY <2>2, <2>3, <3>5, TakeAlone
      <4>2. QED
        BY <3>1, <3>2, <4>1 DEF RunJobs
    <3>6. QED
      BY <3>3, <3>4, <3>5 DEF BeforeTimers, AtMostOne, NoRunComing
  <2>4. CASE CreateApprovalRequest(s)
    <3>1. Busy(s) /\ ~Asking(s)
      BY <2>4 DEF CreateApprovalRequest, Busy, Asking
    <3>2. NoRunComing /\ Serves[s] = "execution.run" /\ WakeJobs = {}
      BY <2>0, <2>1, <3>1 DEF BeforeTimers
    <3>3. AtMostOne(Open') /\ Asking(s)'
      BY <1>0, <2>4, <3>2, AskStep DEF NoRunComing
    <3>4. outbox' = {} /\ RunJobs' = {} /\ WakeJobs' = {}
      BY <2>4, <3>2 DEF CreateApprovalRequest, NoRunComing, RunJobs, WakeJobs, redis, api
    <3>5. ASSUME NEW t \in Slots, Busy(t)' PROVE t = s
      BY <2>2, <3>1, <3>5
    <3>6. QED
      BY <3>2, <3>3, <3>4, <3>5 DEF BeforeTimers, AtMostOne
  <2>5. CASE ~TakeJob(s) /\ ~CreateApprovalRequest(s)
    <3>1. /\ requests' = requests /\ outbox' = outbox /\ queue' = queue
          /\ Asking(s) => Asking(s)' \/ ~Busy(s)'
      BY <1>0, <1>1, <2>0, <2>5, QuietStep
    <3>2. Open' = Open /\ RunJobs' = RunJobs /\ WakeJobs' = WakeJobs
          /\ (NoRunComing' <=> NoRunComing)
      BY <3>1 DEF Open, RunJobs, WakeJobs, NoRunComing
    <3>3. ASSUME NEW t \in Slots, Busy(t)'
          PROVE  Serves[t] = "execution.run" /\ (Asking(t)' \/ NoRunComing)
      <4>1. Busy(t)
        BY <1>0, <2>2, <2>5, <3>3, BusyWriters
      <4>2. Asking(t) => Asking(t)'
        BY <2>2, <3>1, <3>3
      <4>3. QED
        BY <2>0, <2>1, <4>1, <4>2 DEF BeforeTimers
    <3>4. QED
      BY <2>0, <2>1, <3>1, <3>2, <3>3 DEF BeforeTimers
  <2>6. QED
    BY <2>3, <2>4, <2>5
<1>2. ASSUME ApiStep \/ Environment \/ UNCHANGED vars, timers' = 0 PROVE BeforeTimers'
  <2>1. timers = 0 /\ BeforeTimers
    BY <1>0, <1>2, OutsideTokens DEF SoloInv
  <2>2. ASSUME NEW s \in Slots, Busy(s)'
        PROVE  /\ Busy(s) /\ Serves[s] = "execution.run"
               /\ Asking(s) => Asking(s)'
    <3>1. \/ pc'[s] = pc[s] /\ out'[s] = out[s]
          \/ pc[s] \in {"exec", "ask"}
      BY <1>0, <1>2, <2>2, OutsideTokens DEF Busy
    <3>2. Busy(s) /\ (Asking(s) => Asking(s)')
      BY <2>2, <3>1 DEF Busy, Asking
    <3>3. QED
      BY <2>1, <3>2 DEF BeforeTimers
  <2>3. CASE requests' = requests /\ outbox' \subseteq outbox /\ queue' = queue
    <3>1. Open' = Open /\ RunJobs' = RunJobs /\ WakeJobs' = WakeJobs
          /\ (NoRunComing => NoRunComing')
      BY <2>3 DEF Open, RunJobs, WakeJobs, NoRunComing
    <3>2. AtMostOne(outbox') /\ (outbox = {} => outbox' = {})
      BY <2>1, <2>3 DEF BeforeTimers, AtMostOne
    <3>3. QED
      BY <2>1, <2>2, <3>1, <3>2 DEF BeforeTimers
  <2>4. ASSUME NEW i \in Open, Open' = Open \ {i}, outbox' = outbox \union {i}, queue' = queue
        PROVE  BeforeTimers'
    <3>1. Open' = {} /\ outbox' = {i} /\ RunJobs' = {} /\ WakeJobs' = {}
      BY <2>1, <2>4 DEF BeforeTimers, AtMostOne, RunJobs, WakeJobs
    <3>2. ASSUME NEW s \in Slots, Busy(s)' PROVE Serves[s] = "execution.run" /\ Asking(s)'
      BY <2>1, <2>2, <2>4, <3>2 DEF BeforeTimers, NoRunComing
    <3>3. QED
      BY <3>1, <3>2 DEF BeforeTimers, AtMostOne
  <2>5. ASSUME NEW k \in outbox, requests' = requests, outbox' = outbox \ {k},
               queue' = queue \union {RunJob(k)}
        PROVE  BeforeTimers'
    <3>1. Open' = {} /\ outbox' = {} /\ RunJobs = {} /\ WakeJobs = {}
      BY <2>1, <2>5 DEF BeforeTimers, AtMostOne, Open
    <3>2. RunJobs' \subseteq {RunJob(k)} /\ WakeJobs' = {}
      BY <2>5, <3>1 DEF RunJobs, WakeJobs, RunJob
    <3>3. ASSUME NEW s \in Slots, Busy(s)' PROVE Serves[s] = "execution.run" /\ Asking(s)'
      BY <2>1, <2>2, <2>5, <3>3 DEF BeforeTimers, NoRunComing
    <3>4. QED
      BY <3>1, <3>2, <3>3 DEF BeforeTimers, AtMostOne
  <2>6. QED
    BY <1>0, <1>2, <2>3, <2>4, <2>5, OutsideTokens
<1>3. QED
  BY <1>1, <1>2 DEF Next, BeforeTimers


LEMMA AfterStep ==
  ASSUME MaxCrashes = 0, NEW W, BehindWaits(W), SoloInv(W), [Next]_vars
  PROVE  AfterTimers(W)'
<1>0. /\ LockInv /\ TypeOK /\ NoOverlap /\ OneTrace /\ timers \in Nat
      /\ pc \in [Slots -> Labels] /\ out \in [Slots -> Outcomes] /\ cur \in [Slots -> Node]
      /\ step \in [Node -> Steps]
  BY DEF SoloInv, LockInv, TypeOK
<1>1. ASSUME NEW s \in Slots, ScheduleResume(s) PROVE AfterTimers(W)'
  <2>1. /\ pc[s] = "schedule" /\ Busy(s) /\ ~Asking(s)
        /\ Unfinished(step) \subseteq {cur[s]} /\ step[cur[s]].status = "pending"
        /\ cur[s] \in W
    BY <1>0, <1>1 DEF ScheduleResume, Busy, Asking, Past, OneTrace, BehindWaits
  <2>2. NoRunComing /\ WakeJobs = {}
    BY <2>1 DEF SoloInv, BeforeTimers, AfterTimers
  <2>3. /\ requests' = requests /\ outbox' = outbox /\ step' = step
        /\ queue' = queue \union {WakeJob(timers', out[s].resumeAt)}
        /\ pc' = [pc EXCEPT ![s] = "done"]
    BY <1>1 DEF ScheduleResume, Goto, db, api
  <2>4. NoRunComing' /\ AtMostOne(WakeJobs')
    BY <2>2, <2>3 DEF NoRunComing, Open, RunJobs, WakeJobs, WakeJob, AtMostOne
  <2>5. Unfinished(step') \subseteq W /\ Unfinished(step') # {}
    BY <1>0, <2>1, <2>3 DEF Unfinished
  <2>6. ASSUME NEW t \in Slots PROVE pc'[t] \in {"idle", "done"}
    BY <1>0, <2>1, <2>3 DEF NoOverlap, Busy
  <2>7. QED
    BY <2>4, <2>5, <2>6 DEF AfterTimers, Busy, Loading, Past, Working, Executing
<1>2. ASSUME NEW s \in Slots, RunnerStep(s), ~ScheduleResume(s), timers' # 0
      PROVE  AfterTimers(W)'
  <2>0. timers # 0
    <3>1. CASE TakeJob(s) \/ CreateApprovalRequest(s)
      BY <1>2, <3>1 DEF TakeJob, CreateApprovalRequest, redis
    <3>2. QED
      BY <1>0, <1>2, <3>1, QuietStep
  <2>1. AfterTimers(W)
    BY DEF SoloInv
  <2>2. ASSUME NEW t \in Slots, t # s
        PROVE  pc'[t] = pc[t] /\ cur'[t] = cur[t] /\ (Busy(t)' <=> Busy(t))
    BY <1>0, <1>2, <2>2, OthersMemory DEF Busy
  <2>3. CASE TakeJob(s)
    <3>1. PICK j \in queue : queue' = queue \ {j}
      BY <2>3 DEF TakeJob
    <3>2. j \in WakeJobs /\ NoRunComing /\ Unfinished(step) # {} /\ Unfinished(step) \subseteq W
      BY <2>0, <2>1, <3>1 DEF AfterTimers, SoloInv, QueueTypes, RunJobs, WakeJobs, NoRunComing
    <3>3. WakeJobs' = {} /\ NoRunComing' /\ step' = step
      BY <2>0, <2>1, <2>3, <3>1, <3>2
      DEF AfterTimers, TakeJob, NoRunComing, Open, RunJobs, WakeJobs, AtMostOne, db, api
    <3>4. ASSUME NEW t \in Slots PROVE pc'[t] \notin Past
      <4>1. CASE t = s
        BY <1>0, <2>3, <4>1 DEF TakeJob, Goto, Past, Working, Executing
      <4>2. CASE t # s
        BY <2>0, <2>1, <2>2, <3>2, <4>2 DEF AfterTimers, Busy, Past, Working, Executing
      <4>3. QED
        BY <4>1, <4>2
    <3>5. QED
      BY <3>2, <3>3, <3>4 DEF AfterTimers, AtMostOne
  <2>4. ~CreateApprovalRequest(s)
    <3>1. ASSUME CreateApprovalRequest(s) PROVE FALSE
      <4>1. pc[s] = "ask" /\ Kind[cur[s]] = "approval"
        BY <3>1 DEF CreateApprovalRequest, SoloInv, LockInv, RunInv
      <4>2. cur[s] \in W
        BY <2>0, <2>1, <4>1 DEF AfterTimers, Past, Working, Executing
      <4>3. QED
        BY <4>1, <4>2 DEF BehindWaits
    <3>2. QED
      BY <3>1
  <2>5. CASE ~TakeJob(s)
    <3>1. /\ requests' = requests /\ outbox' = outbox /\ queue' = queue
          /\ pc'[s] \in Loading => pc[s] \in Loading /\ step' = step
          /\ pc'[s] \in Past => pc[s] \in Past \/ StartRun(s)
      BY <1>0, <1>2, <2>4, <2>5, QuietStep
    <3>2. WakeJobs' = WakeJobs /\ NoRunComing'
      BY <2>0, <2>1, <3>1 DEF AfterTimers, NoRunComing, Open, RunJobs, WakeJobs
    <3>3. /\ Unfinished(step') \subseteq W
          /\ WakeJobs # {} => step' = step
      <4>1. CASE step' = step
        BY <2>0, <2>1, <4>1 DEF AfterTimers
      <4>2. CASE step' # step
        <5>1. /\ pc[s] \in Executing
              /\ \A n \in Node : n # cur[s] => step'[n] = step[n]
          BY <1>0, <1>2, <4>2, RecordStep
        <5>2. cur[s] \in W /\ Busy(s)
          BY <2>0, <2>1, <5>1 DEF AfterTimers, Past, Working, Executing, Busy
        <5>3. QED
          BY <2>0, <2>1, <5>1, <5>2 DEF AfterTimers, Unfinished
      <4>3. QED
        BY <4>1, <4>2
    <3>4. ASSUME NEW t \in Slots, Busy(t)' PROVE WakeJobs = {}
      <4>1. Busy(t)
        BY <1>0, <2>2, <2>5, <3>4, BusyWriters
      <4>2. QED
        BY <2>0, <2>1, <4>1 DEF AfterTimers
    <3>5. ASSUME NEW t \in Slots, t # s, pc'[t] \in Loading \union Past
          PROVE  step' = step /\ pc[t] \in Loading \union Past
      <4>1. Busy(t) /\ pc[t] = pc'[t]
        BY <2>2, <3>5 DEF Busy, Loading, Past, Working, Executing
      <4>2. ~Busy(s)
        BY <1>0, <3>5, <4>1 DEF NoOverlap
      <4>3. QED
        BY <1>0, <1>2, <3>5, <4>1, <4>2, OthersMemory
    <3>6. ASSUME NEW t \in Slots, pc'[t] \in Loading PROVE Unfinished(step') # {}
      <4>1. pc[t] \in Loading /\ step' = step
        <5>1. CASE t = s
          BY <3>1, <3>6, <5>1
        <5>2. CASE t # s
          BY <2>2, <3>5, <3>6, <5>2
        <5>3. QED
          BY <5>1, <5>2
      <4>2. QED
        BY <2>0, <2>1, <4>1 DEF AfterTimers
    <3>7. ASSUME pc'[s] \in Past PROVE cur'[s] \in W
      <4>1. CASE StartRun(s)
        <5>1. pc[s] = "start" /\ steps[s] = step
          BY <1>0, <4>1 DEF StartRun, OneTrace
        <5>2. Unfinished(step) # {} /\ Unfinished(step) \subseteq W
          BY <2>0, <2>1, <5>1 DEF AfterTimers, Loading
        <5>3. QED
          BY <1>0, <4>1, <5>1, <5>2 DEF StartRun, IsFirstUnfinished
      <4>2. CASE pc[s] \in Past /\ cur'[s] # cur[s]
        <5>1. pc'[s] # "idle"
          BY <3>7 DEF Past, Working, Executing
        <5>2. \E i \in Outgoing(cur[s]) : Edges[i].to = cur'[s]
          BY <1>0, <1>2, <4>2, <5>1, MoveStep
        <5>3. cur[s] \in W
          BY <2>0, <2>1, <4>2 DEF AfterTimers
        <5>4. QED
          BY <5>2, <5>3 DEF BehindWaits
      <4>3. CASE pc[s] \in Past /\ cur'[s] = cur[s]
        BY <2>0, <2>1, <4>3 DEF AfterTimers
      <4>4. QED
        BY <3>1, <3>7, <4>1, <4>2, <4>3
    <3>8. ASSUME NEW t \in Slots, t # s, pc'[t] \in Past PROVE cur'[t] \in W
      BY <2>0, <2>1, <2>2, <3>8 DEF AfterTimers
    <3>9. /\ AtMostOne(WakeJobs') /\ Unfinished(step') \subseteq W
          /\ WakeJobs' # {} => Unfinished(step') # {}
      BY <2>0, <2>1, <3>2, <3>3 DEF AfterTimers
    <3>10. QED
      BY <3>2, <3>4, <3>6, <3>7, <3>8, <3>9 DEF AfterTimers
  <2>6. QED
    BY <2>3, <2>5
<1>3. ASSUME ApiStep \/ Environment \/ UNCHANGED vars, timers' # 0 PROVE AfterTimers(W)'
  <2>1. timers # 0 /\ AfterTimers(W) /\ step' = step
    BY <1>0, <1>3, OutsideTokens, OutsideStep DEF SoloInv
  <2>2. ASSUME NEW s \in Slots
        PROVE  (pc'[s] = pc[s] /\ cur'[s] = cur[s]) \/ pc'[s] = "idle"
    <3>1. ASSUME pc[s] \in {"exec", "ask"}, Kind[cur[s]] = "approval" PROVE FALSE
      <4>1. cur[s] \in W
        BY <2>1, <3>1 DEF AfterTimers, Past, Working, Executing
      <4>2. QED
        BY <3>1, <4>1 DEF BehindWaits
    <3>2. QED
      BY <1>0, <1>3, <3>1, OutsideTokens
  <2>3. requests' = requests /\ outbox' \subseteq outbox /\ queue' = queue
    BY <1>0, <1>3, <2>1, OutsideTokens DEF AfterTimers, NoRunComing
  <2>4. NoRunComing' /\ WakeJobs' = WakeJobs
    BY <2>1, <2>3 DEF AfterTimers, NoRunComing, Open, RunJobs, WakeJobs
  <2>5. ASSUME NEW s \in Slots
        PROVE  /\ Busy(s)' => WakeJobs = {}
               /\ pc'[s] \in Loading => Unfinished(step) # {}
               /\ pc'[s] \in Past => cur'[s] \in W
    BY <2>1, <2>2 DEF AfterTimers, Busy, Loading, Past, Working, Executing
  <2>6. QED
    BY <2>1, <2>4, <2>5 DEF AfterTimers
<1>4. QED
  BY <1>1, <1>2, <1>3 DEF Next, AfterTimers

LEMMA SoloInvariant ==
  ASSUME MaxCrashes = 0, OneRunLoop, NEW W, BehindWaits(W)
  PROVE  Spec => []SoloInv(W)
<1>1. Init => SoloInv(W)
  <2>1. ASSUME Init
        PROVE  NoOverlap /\ QueueTypes /\ OneTrace /\ BeforeTimers /\ AfterTimers(W)
    <3>1. /\ \A s \in Slots : pc[s] = "idle"
          /\ Unfinished(step) = {} /\ Open = {} /\ RunJobs = {} /\ WakeJobs = {}
          /\ outbox = {0} /\ queue = {} /\ timers = 0
      BY <2>1 DEF Init, Unfinished, NoStep, Open, RunJobs, WakeJobs
    <3>2. QED
      BY <3>1 DEF NoOverlap, QueueTypes, OneTrace, BeforeTimers, AfterTimers, Busy, AtMostOne,
        Past, Working, Executing
  <2>2. QED
    BY <2>1, LockInit DEF SoloInv
<1>2. SoloInv(W) /\ [Next]_vars => SoloInv(W)'
  <2>1. ASSUME SoloInv(W), [Next]_vars PROVE SoloInv(W)'
    <3>1. LockInv' /\ OneTrace' /\ QueueTypes'
      BY <2>1, LockStep, TraceStep, QueueTypesStep DEF SoloInv
    <3>2. NoOverlap' /\ BeforeTimers' /\ AfterTimers(W)'
      BY <2>1, OverlapStep, BeforeStep, AfterStep
    <3>3. QED
      BY <3>1, <3>2 DEF SoloInv
  <2>2. QED
    BY <2>1
<1>3. QED
  BY <1>1, <1>2, PTL DEF Spec

(***************************************************************************)
(* The code takes no lock, and where one loop serves the runs, no worker   *)
(* crashes and no approval comes behind a wait, it needs none: whatever    *)
(* calls fail and however many loops serve the wake-ups, the order of      *)
(* enqueues, timers and deliveries never lets two slots run the execution. *)
(***************************************************************************)
THEOREM OrderIsALock ==
  ASSUME MaxCrashes = 0, OneRunLoop, NoApprovalBehindWaits
  PROVE  Spec => []NoOverlap
<1>1. PICK W : BehindWaits(W)
  BY DEF NoApprovalBehindWaits
<1>2. SoloInv(W) => NoOverlap
  BY DEF SoloInv
<1>3. QED
  BY <1>1, <1>2, SoloInvariant, PTL

(* There all that the lock would give holds of every behaviour.            *)
THEOREM OrderSuffices ==
  ASSUME MaxCrashes = 0, OneRunLoop, NoApprovalBehindWaits
  PROVE  Spec => []NeverReexecuted /\ []FollowsEdges /\ TerminalIsFinal /\ ImplementsRun
BY OrderIsALock, NoReexecutionUnderLock, PathUnderLock, TerminalUnderLock,
   RefinementUnderLock, PTL

(* And as long as no call has failed, a paused execution has something     *)
(* that will wake it (NoLostWakeup).                                       *)
THEOREM OrderWakes ==
  ASSUME MaxCrashes = 0, OneRunLoop, NoApprovalBehindWaits, ExpiresIn = 0
  PROVE  Spec => []NoLostWakeup
<1>1. MaxCrashes <= MaxStalled
  BY EngineAssumption
<1>2. QED
  BY <1>1, OrderIsALock, WakeupUnderLock, PTL

-----------------------------------------------------------------------------
(***************************************************************************)
(* The data a condition reads.  The step record of a node is written one   *)
(* await before the context that holds its output, so between the two the  *)
(* context is behind the records.  B[n] is a set of nodes that every path  *)
(* to n passes: what n's expression reads has to be among them.            *)
(***************************************************************************)
Done == {n \in Node : step[n].status = "succeeded"}

DataBehind(B) ==
  /\ B[Trigger] = {}
  /\ \A n, m \in Node : \A b \in Branches : LeadsTo(n, b, m) => B[m] \subseteq B[n] \union {n}
  /\ \A n \in Conditions : Reads[n] \subseteq B[n]
ReadsWhatRan == \E B \in [Node -> SUBSET Node] : DataBehind(B)

(* Nothing will ever run the execution again.                              *)
Stranded == Open = {} /\ outbox = {} /\ queue = {} /\ \A s \in Slots : ~Busy(s)

Loaded == Past \union {"loadSteps", "start"}

DataInv(B) ==
  /\ \A n \in Node : step[n].status # "none" => B[n] \subseteq Done
  /\ \A s \in Slots : pc[s] \in Loaded => Done \subseteq ctx[s]
  /\ Done \subseteq context \/ Stranded \/ \E s \in Slots : pc[s] = "saveContext"
  /\ \A s \in Slots :
       pc[s] = "saveStep" /\ out[s].kind = "succeeded" /\ Kind[cur[s]] = "condition" =>
         out[s].branch = verdict[cur[s]]
  /\ BranchMatchesData

LEMMA VerdictKept ==
  ASSUME [Next]_vars
  PROVE  verdict' = verdict
<1>1. ASSUME NEW s \in Slots, RunnerStep(s) PROVE verdict' = verdict
  BY <1>1 DEF RunnerStep, Execute, Record, TakeJob, LoadExecution, LoadSteps, StartRun,
    ReuseStep, BeginNode, ExecutePure, ExecuteCondition, ExecuteCall, ExecuteWait,
    ExecuteApproval, CreateApprovalRequest, RecordRetry, SaveFailed, SavePending,
    SaveSucceeded, SaveContext, PauseRun, ScheduleResume, FailRun, FinishRun, CompleteJob, env
<1>2. ASSUME ApiStep \/ UNCHANGED vars PROVE verdict' = verdict
  BY <1>2 DEF ApiStep, BeginResolve, CommitResolve, EnqueueRun, vars, env
<1>3. ASSUME Environment PROVE verdict' = verdict
  BY <1>3 DEF Environment, Tick, Crash, RunnerFault, HandlerFault
<1>4. QED
  BY <1>1, <1>2, <1>3 DEF Next

(* The completed nodes grow by the slot's node, with SaveSucceeded.        *)
LEMMA DoneStep ==
  ASSUME LockInv, [Next]_vars
  PROVE  /\ Done \subseteq Done'
         /\ Done' = Done \/ \E s \in Slots : SaveSucceeded(s) /\ Done' \subseteq Done \union {cur[s]}
<1>1. TypeOK
  BY DEF LockInv
<1>2. ASSUME NEW n \in Done PROVE n \in Done'
  <2>1. ASSUME NEW s \in Slots, RunnerStep(s) PROVE step'[n].status = "succeeded"
    BY <1>1, <1>2, <2>1, SuccessKept DEF LockInv, Done
  <2>2. QED
    BY <1>2, <2>1, OutsideStep DEF Next, Done
<1>3. ASSUME NEW n \in Done', n \notin Done
      PROVE  \E s \in Slots : SaveSucceeded(s) /\ n = cur[s]
  BY <1>1, <1>3, SuccessWriters DEF Done
<1>4. ASSUME NEW s \in Slots, SaveSucceeded(s), NEW n \in Done', n \notin Done
      PROVE  n = cur[s]
  <2>1. RunnerStep(s) /\ step' # step
    BY <1>3, <1>4 DEF RunnerStep, Record, Done
  <2>2. QED
    BY <1>4, <2>1, RecordStep DEF Done
<1>5. QED
  BY <1>2, <1>3, <1>4

LEMMA ContextWriters ==
  ASSUME TypeOK, [Next]_vars, NEW s \in Slots, pc'[s] \in Loaded
  PROVE  \/ ctx'[s] = ctx[s] /\ pc[s] \in Loaded
         \/ LoadExecution(s)
         \/ SaveSucceeded(s) /\ ctx'[s] = ctx[s] \union {cur[s]} /\ pc[s] \in Loaded
<1>0. /\ pc \in [Slots -> Labels] /\ ctx \in [Slots -> SUBSET Node]
      /\ pc'[s] \notin {"idle", "load"}
  BY DEF TypeOK, Loaded, Past, Working, Executing
<1>1. ASSUME NEW T \in SUBSET Slots, Release(T)
      PROVE  ctx'[s] = ctx[s] /\ pc'[s] = pc[s]
  BY <1>0, <1>1 DEF Release
<1>2. ASSUME RunnerStep(s), ~LoadExecution(s), ~SaveSucceeded(s), ~CompleteJob(s)
      PROVE  ctx' = ctx /\ pc[s] \in Loaded
  <2>1. ctx' = ctx
    BY <1>2 DEF RunnerStep, Execute, Record, TakeJob, LoadSteps, StartRun,
      ReuseStep, BeginNode, ExecutePure, ExecuteCondition, ExecuteCall, ExecuteWait,
      ExecuteApproval, CreateApprovalRequest, RecordRetry, SaveFailed, SavePending,
      SaveContext, PauseRun, ScheduleResume, FailRun, FinishRun
  <2>2. pc[s] \in Loaded
    BY <1>0, <1>2 DEF RunnerStep, Execute, Record, TakeJob, LoadSteps, StartRun,
      ReuseStep, BeginNode, ExecutePure, ExecuteCondition, ExecuteCall, ExecuteWait,
      ExecuteApproval, CreateApprovalRequest, RecordRetry, SaveFailed, SavePending,
      SaveContext, PauseRun, ScheduleResume, FailRun, FinishRun, Goto, Loaded, Past, Working,
      Executing
  <2>3. QED
    BY <2>1, <2>2
<1>3. CASE SaveSucceeded(s)
  BY <1>0, <1>3 DEF SaveSucceeded, Loaded, Past, Working, Executing
<1>4. CASE CompleteJob(s)
  <2>1. {s} \in SUBSET Slots
    OBVIOUS
  <2>2. Release({s})
    BY <1>4 DEF CompleteJob
  <2>3. QED
    BY <1>1, <2>1, <2>2
<1>5. ASSUME NEW r \in Slots, RunnerStep(r), r # s PROVE ctx'[s] = ctx[s] /\ pc'[s] = pc[s]
  <2>1. pc'[s] = pc[s]
    BY <1>5, OthersMemory
  <2>2. ctx'[s] = ctx[s]
    BY <1>0, <1>5 DEF RunnerStep, Execute, Record, TakeJob, LoadExecution, LoadSteps, StartRun,
      ReuseStep, BeginNode, ExecutePure, ExecuteCondition, ExecuteCall, ExecuteWait,
      ExecuteApproval, CreateApprovalRequest, RecordRetry, SaveFailed, SavePending,
      SaveSucceeded, SaveContext, PauseRun, ScheduleResume, FailRun, FinishRun, CompleteJob,
      Release
  <2>3. QED
    BY <2>1, <2>2
<1>6. ASSUME ApiStep \/ UNCHANGED vars \/ Tick \/ \E k \in outbox : HandlerFault(k)
      PROVE  ctx'[s] = ctx[s] /\ pc'[s] = pc[s]
  BY <1>6 DEF ApiStep, BeginResolve, CommitResolve, EnqueueRun, Tick, HandlerFault, vars, memory
<1>7. ASSUME NEW p, Crash(p) PROVE ctx'[s] = ctx[s] /\ pc'[s] = pc[s]
  BY <1>0, <1>7 DEF Crash, Release
<1>8. ASSUME NEW r \in Slots, RunnerFault(r) PROVE ctx'[s] = ctx[s] /\ pc[s] \in Loaded
  BY <1>0, <1>8 DEF RunnerFault, Caught, Return, Goto, Release, Loaded, Past, Working,
    Executing
<1>9. QED
  BY <1>2, <1>3, <1>4, <1>5, <1>6, <1>7, <1>8 DEF Next, Environment

(* The row of the execution is written by a slot, from its own copy.       *)
LEMMA SnapshotWriters ==
  ASSUME [Next]_vars
  PROVE  \/ context' = context
         \/ \E s \in Slots : context' = ctx[s] /\ pc[s] \in {"saveContext", "pause", "finish"}
<1>1. ASSUME NEW s \in Slots, RunnerStep(s), ~SaveContext(s), ~PauseRun(s), ~FinishRun(s)
      PROVE  context' = context
  BY <1>1 DEF RunnerStep, Execute, Record, TakeJob, LoadExecution, LoadSteps, StartRun,
    ReuseStep, BeginNode, ExecutePure, ExecuteCondition, ExecuteCall, ExecuteWait,
    ExecuteApproval, CreateApprovalRequest, RecordRetry, SaveFailed, SavePending,
    SaveSucceeded, ScheduleResume, FailRun, CompleteJob, db
<1>2. ASSUME NEW s \in Slots, SaveContext(s) \/ PauseRun(s) \/ FinishRun(s)
      PROVE  context' = ctx[s] /\ pc[s] \in {"saveContext", "pause", "finish"}
  BY <1>2 DEF SaveContext, PauseRun, FinishRun
<1>3. ASSUME ApiStep \/ Environment \/ UNCHANGED vars PROVE context' = context
  BY <1>3 DEF ApiStep, BeginResolve, CommitResolve, EnqueueRun, Environment, Tick, Crash,
    RunnerFault, HandlerFault, vars, db
<1>4. QED
  BY <1>1, <1>2, <1>3 DEF Next


(* What a node reads has run when the walk reaches it.                     *)
LEMMA ReadsDone ==
  ASSUME LockInv, NEW B, DataBehind(B), DataInv(B), NEW n \in Node, OnPath(n)
  PROVE  B[n] \subseteq Done
<1>1. CASE n = Trigger
  BY <1>1 DEF DataBehind
<1>2. ASSUME NEW m \in Node, step[m].status = "succeeded", LeadsTo(m, step[m].branch, n)
      PROVE  B[n] \subseteq Done
  <2>1. step[m].branch \in Branches
    BY DEF LockInv, TypeOK, Steps
  <2>2. B[n] \subseteq B[m] \union {m}
    BY <1>2, <2>1 DEF DataBehind
  <2>3. B[m] \subseteq Done /\ m \in Done
    BY <1>2 DEF DataInv, Done
  <2>4. QED
    BY <2>2, <2>3
<1>3. QED
  BY <1>1, <1>2 DEF OnPath

(* While a slot is at work the row is at most one output behind, and only  *)
(* while the slot is about to write it.                                    *)
LEMMA RowComplete ==
  ASSUME NEW B, DataInv(B), NoOverlap, NEW s \in Slots, Busy(s), pc[s] # "saveContext"
  PROVE  Done \subseteq context
<1>1. ~Stranded
  BY DEF Stranded
<1>2. ASSUME NEW t \in Slots, pc[t] = "saveContext" PROVE FALSE
  BY <1>2 DEF NoOverlap, Busy
<1>3. QED
  BY <1>1, <1>2 DEF DataInv

LEMMA DataStep ==
  ASSUME MaxCrashes = 0, OneRunLoop, NEW W, SoloInv(W), NEW B, DataBehind(B), DataInv(B),
         [Next]_vars
  PROVE  DataInv(B)'
<1>0. /\ LockInv /\ TypeOK /\ NoOverlap
      /\ pc \in [Slots -> Labels] /\ cur \in [Slots -> Node] /\ out \in [Slots -> Outcomes]
      /\ ctx \in [Slots -> SUBSET Node]
  BY DEF SoloInv, LockInv, TypeOK
<1>1. ASSUME NEW n \in Node, step'[n].status # "none" PROVE B[n] \subseteq Done'
  <2>1. CASE step[n].status # "none"
    BY <1>0, <2>1, DoneStep DEF DataInv
  <2>2. CASE step[n].status = "none"
    <3>1. PICK s \in Slots : RunnerStep(s) /\ step' # step
      BY <1>0, <1>1, <2>2, OutsideStep DEF Next
    <3>2. n = cur[s] /\ pc[s] \in Executing
      BY <1>0, <1>1, <2>2, <3>1, RecordStep
    <3>3. OnPath(n)
      BY <3>2 DEF SoloInv, LockInv, RunInv
    <3>4. QED
      BY <1>0, <3>3, ReadsDone, DoneStep
  <2>3. QED
    BY <2>1, <2>2
<1>2. ASSUME NEW s \in Slots, pc'[s] \in Loaded PROVE Done' \subseteq ctx'[s]
  <2>1. CASE ctx'[s] = ctx[s] /\ pc[s] \in Loaded
    <3>1. Done \subseteq ctx[s]
      BY <2>1 DEF DataInv
    <3>2. ASSUME NEW r \in Slots, SaveSucceeded(r) PROVE Done' \subseteq ctx'[s]
      <4>1. r = s
        BY <1>0, <2>1, <3>2 DEF NoOverlap, Busy, SaveSucceeded, Loaded, Past, Working, Executing
      <4>2. ctx'[s] = ctx[s] \union {cur[s]}
        BY <1>0, <3>2, <4>1 DEF SaveSucceeded
      <4>3. Done' \subseteq Done \union {cur[s]}
        <5>1. ASSUME NEW q \in Slots, SaveSucceeded(q) PROVE q = s
          BY <1>0, <3>2, <4>1, <5>1 DEF SaveSucceeded, NoOverlap, Busy
        <5>2. QED
          BY <1>0, <5>1, DoneStep
      <4>4. QED
        BY <3>1, <4>2, <4>3
    <3>3. QED
      BY <1>0, <2>1, <3>1, <3>2, DoneStep
  <2>2. CASE LoadExecution(s)
    <3>1. Busy(s) /\ pc[s] = "load"
      BY <2>2 DEF LoadExecution, Busy
    <3>2. Done \subseteq context
      BY <1>0, <3>1, RowComplete
    <3>3. ctx'[s] = context
      BY <1>0, <1>2, <2>2 DEF LoadExecution, Goto, Loaded, Past, Working, Executing
    <3>4. step' = step
      BY <2>2 DEF LoadExecution, db
    <3>5. QED
      BY <3>2, <3>3, <3>4 DEF Done
  <2>3. CASE SaveSucceeded(s) /\ ctx'[s] = ctx[s] \union {cur[s]} /\ pc[s] \in Loaded
    <3>1. Done \subseteq ctx[s]
      BY <2>3 DEF DataInv
    <3>2. ASSUME NEW r \in Slots, SaveSucceeded(r) PROVE r = s
      BY <1>0, <2>3, <3>2 DEF NoOverlap, Busy, SaveSucceeded
    <3>3. QED
      BY <1>0, <2>3, <3>1, <3>2, DoneStep
  <2>4. QED
    BY <1>0, <1>2, <2>1, <2>2, <2>3, ContextWriters
<1>3. Done' \subseteq context' \/ Stranded' \/ \E s \in Slots : pc'[s] = "saveContext"
  <2>1. ASSUME NEW s \in Slots, SaveSucceeded(s) PROVE pc'[s] = "saveContext"
    BY <1>0, <2>1 DEF SaveSucceeded, Goto
  <2>2. CASE Done' = Done
    <3>1. ASSUME NEW s \in Slots, context' = ctx[s], pc[s] \in {"saveContext", "pause", "finish"}
          PROVE  Done' \subseteq context'
      BY <2>2, <3>1 DEF DataInv, Loaded, Past, Working
    <3>2. CASE context' = context /\ Done \subseteq context
      BY <2>2, <3>2
    <3>3. CASE Stranded
      <4>1. ASSUME NEW s \in Slots PROVE ~Busy(s)'
        BY <1>0, <3>3, <4>1, BusyWriters DEF Stranded, TakeJob
      <4>2. Open' = {} /\ outbox' = {} /\ queue' = {}
        <5>1. ASSUME NEW s \in Slots, RunnerStep(s)
              PROVE  requests' = requests /\ outbox' = outbox /\ queue' = queue
          <6>1. ~TakeJob(s) /\ ~ScheduleResume(s) /\ ~CreateApprovalRequest(s)
            BY <3>3 DEF Stranded, TakeJob, ScheduleResume, CreateApprovalRequest, Busy
          <6>2. QED
            BY <1>0, <5>1, <6>1, QuietStep
        <5>2. CASE requests' = requests /\ outbox' = outbox /\ queue' = queue
          BY <3>3, <5>2 DEF Stranded, Open
        <5>3. ASSUME ApiStep \/ Environment \/ UNCHANGED vars
              PROVE  requests' = requests /\ outbox' = outbox /\ queue' = queue
          BY <1>0, <3>3, <5>3, OutsideTokens DEF Stranded
        <5>4. QED
          BY <5>1, <5>2, <5>3 DEF Next
      <4>3. QED
        BY <4>1, <4>2 DEF Stranded
    <3>4. ASSUME NEW s \in Slots, pc[s] = "saveContext", pc'[s] # "saveContext"
          PROVE  Done' \subseteq context' \/ Stranded'
      <4>1. Busy(s) /\ ~Asking(s)
        BY <3>4 DEF Busy, Asking
      <4>2. NoRunComing /\ WakeJobs = {}
        BY <4>1 DEF SoloInv, BeforeTimers, AfterTimers
      <4>3. queue = {}
        BY <4>2 DEF NoRunComing, RunJobs, WakeJobs, SoloInv, QueueTypes
      <4>4. CASE RunnerStep(s)
        <5>1. SaveContext(s)
          BY <3>4, <4>4 DEF RunnerStep, Execute, Record, TakeJob, LoadExecution, LoadSteps,
            StartRun, ReuseStep, BeginNode, ExecutePure, ExecuteCondition, ExecuteCall,
            ExecuteWait, ExecuteApproval, CreateApprovalRequest, RecordRetry, SaveFailed,
            SavePending, SaveSucceeded, PauseRun, ScheduleResume, FailRun, FinishRun,
            CompleteJob
        <5>2. context' = ctx[s]
          BY <5>1 DEF SaveContext
        <5>3. QED
          BY <3>1, <3>4, <5>2
      <4>5. CASE ~RunnerStep(s)
        <5>1. ApiStep \/ Environment \/ UNCHANGED vars
          <6>1. ASSUME NEW r \in Slots, RunnerStep(r) PROVE FALSE
            <7>1. r # s
              BY <4>5, <6>1
            <7>2. QED
              BY <1>0, <3>4, <6>1, <7>1, OthersMemory
          <6>2. QED
            BY <6>1 DEF Next
        <5>2. /\ requests' = requests /\ outbox' = outbox /\ queue' = queue
              /\ pc'[s] = "idle"
          BY <1>0, <3>4, <4>2, <5>1, OutsideTokens DEF NoRunComing
        <5>3. ASSUME NEW t \in Slots PROVE ~Busy(t)'
          <6>1. CASE t = s
            BY <5>2, <6>1 DEF Busy
          <6>2. CASE t # s
            BY <1>0, <4>1, <4>3, <6>2, BusyWriters DEF NoOverlap, TakeJob
          <6>3. QED
            BY <6>1, <6>2
        <5>4. QED
          BY <4>2, <4>3, <5>2, <5>3 DEF Stranded, NoRunComing, Open
      <4>6. QED
        BY <4>4, <4>5
    <3>5. QED
      BY <3>1, <3>2, <3>3, <3>4, SnapshotWriters DEF DataInv
  <2>3. QED
    BY <1>0, <2>1, <2>2, DoneStep
<1>4. ASSUME NEW s \in Slots, pc'[s] = "saveStep", out'[s].kind = "succeeded",
             Kind[cur'[s]] = "condition"
      PROVE  out'[s].branch = verdict'[cur'[s]]
  <2>1. verdict' = verdict
    BY VerdictKept
  <2>2. CASE pc'[s] = pc[s] /\ out'[s] = out[s] /\ cur'[s] = cur[s]
    BY <1>4, <2>1, <2>2 DEF DataInv
  <2>3. CASE Execute(s) /\ cur' = cur
    <3>1. ExecuteCondition(s)
      BY <1>4, <2>3 DEF Execute, ExecutePure, ExecuteCall, ExecuteWait, ExecuteApproval,
        CreateApprovalRequest, SoloInv, LockInv, RunInv
    <3>2. PICK v \in Evaluations(cur[s], ctx[s]) :
             Return(s, IF v = "missing" THEN Failed ELSE Succeeded(v))
      BY <3>1 DEF ExecuteCondition
    <3>3. out'[s] = (IF v = "missing" THEN Failed ELSE Succeeded(v))
      BY <1>0, <3>2 DEF Return
    <3>4. v # "missing" /\ out'[s].branch = v
      BY <1>4, <3>3 DEF Failed, Succeeded
    <3>5. Reads[cur[s]] \subseteq ctx[s]
      <4>1. /\ pc[s] = "exec" /\ OnPath(cur[s]) /\ cur[s] \in Conditions
        BY <1>0, <3>1 DEF ExecuteCondition, SoloInv, LockInv, RunInv, Executing, Conditions
      <4>2. PICK n \in Node : n = cur[s]
        BY <1>0
      <4>3. Reads[n] \subseteq B[n] /\ B[n] \subseteq Done
        BY <1>0, <4>1, <4>2, ReadsDone DEF DataBehind
      <4>4. Done \subseteq ctx[s]
        BY <4>1 DEF DataInv, Loaded, Past, Working, Executing
      <4>5. QED
        BY <4>2, <4>3, <4>4
    <3>6. v = verdict[cur[s]]
      BY <3>5 DEF Evaluations
    <3>7. QED
      BY <2>1, <2>3, <3>4, <3>6
  <2>4. CASE out'[s] = Failed
    BY <1>4, <2>4 DEF Failed
  <2>5. QED
    BY <1>0, <1>4, <2>2, <2>3, <2>4, OutcomeWriters
<1>5. BranchMatchesData'
  <2>1. ASSUME NEW n \in Conditions, step'[n].status = "succeeded"
        PROVE  step'[n].branch = verdict[n]
    <3>1. n \in Node /\ Kind[n] = "condition"
      BY DEF Conditions
    <3>2. CASE step'[n] = step[n]
      BY <2>1, <3>2 DEF DataInv, BranchMatchesData
    <3>3. ASSUME NEW s \in Slots, SaveSucceeded(s), n = cur[s], step'[n].branch = out[s].branch
          PROVE  step'[n].branch = verdict[n]
      BY <3>1, <3>3 DEF SaveSucceeded, DataInv
    <3>4. QED
      BY <1>0, <2>1, <3>1, <3>2, <3>3, SuccessWriters
  <2>2. QED
    BY <2>1, VerdictKept DEF BranchMatchesData
<1>6. QED
  BY <1>1, <1>2, <1>3, <1>4, <1>5 DEF DataInv

(***************************************************************************)
(* Where the order of jobs is the lock and no expression reads a node that *)
(* may not have run, every condition takes the branch its expression       *)
(* yields on complete data: the context is never read while it is behind   *)
(* the step records, because a run that fails in between is the last one.  *)
(***************************************************************************)
THEOREM OrderKeepsData ==
  ASSUME MaxCrashes = 0, OneRunLoop, NoApprovalBehindWaits, ReadsWhatRan
  PROVE  Spec => []BranchMatchesData
<1>1. PICK W : BehindWaits(W)
  BY DEF NoApprovalBehindWaits
<1>2. PICK B \in [Node -> SUBSET Node] : DataBehind(B)
  BY DEF ReadsWhatRan
<1>3. Init => DataInv(B)
  BY DEF Init, NoStep, Done, DataInv, BranchMatchesData, Loaded, Past, Working, Executing,
    Conditions
<1>4. SoloInv(W) /\ DataInv(B) /\ [Next]_vars => DataInv(B)'
  BY <1>2, DataStep
<1>5. DataInv(B) => BranchMatchesData
  BY DEF DataInv
<1>6. QED
  BY <1>1, <1>3, <1>4, <1>5, SoloInvariant, PTL DEF Spec

=============================================================================
