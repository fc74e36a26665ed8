--------------------------- MODULE WorkflowEngine ---------------------------
(***************************************************************************)
(* One workflow execution, from the job that starts it to a terminal       *)
(* status, run by the workers of apps/worker through runExecution of       *)
(* packages/workflow-engine/src/executor.ts.                               *)
(*                                                                         *)
(* A slot is one BullMQ Worker loop of one worker process: it serves one   *)
(* job type, one job at a time.  Every awaited database write, queue call  *)
(* or connector call is a step of its own, so slots, API requests, crashes *)
(* and time interleave exactly between the awaits.  Log writes are left    *)
(* out.                                                                    *)
(***************************************************************************)
EXTENDS WorkflowDefinition, FiniteSets

CONSTANTS
  Slots,        \* BullMQ worker loops
  Proc,         \* Proc[s]: the worker process slot s lives in
  Serves,       \* Serves[s]: the job type of slot s
  MaxAttempts,  \* MaxAttempts[n]: config.retries clamped to 1..5, or 3
  WaitFor,      \* config.durationSeconds of wait nodes, in ticks
  ExpiresIn,    \* config.expiresInHours of approval nodes, in ticks; 0 is never
  MaxStalled,   \* BullMQ's maxStalledCount: redeliveries of a crashed job
  MaxCrashes,   \* bound: worker process crashes
  MaxFaults,    \* bound: failed calls to Postgres or Redis
  MaxRequests   \* bound: approval requests

JobTypes == {"execution.run", "execution.resume-wait", "approval.expire"}

ASSUME EngineAssumption ==
  /\ Serves \in [Slots -> JobTypes]
  /\ DOMAIN Proc = Slots
  /\ MaxAttempts \in [Node -> 1 .. 5]
  /\ WaitFor \in Nat
  /\ ExpiresIn \in Nat
  /\ MaxStalled \in Nat
  /\ MaxCrashes \in Nat
  /\ MaxFaults \in Nat
  /\ MaxRequests \in Nat

VARIABLES
  \* Postgres
  status,     \* workflow_executions.status
  context,    \* the nodes whose outputs workflow_executions.context holds
  step,       \* workflow_execution_steps, one record per node
  requests,   \* approval_requests of this execution, in order of creation
  \* Redis
  queue,      \* jobs waiting or delayed
  timers,     \* how many resume-wait jobs were ever scheduled
  \* API handlers in flight
  deciding,   \* resolve requests past their checks: <<request, decision>>
  outbox,     \* keys of the run jobs an API handler has yet to enqueue
  \* the memory of each slot
  pc, job, cur, steps, ctx, attempt, out,
  \* environment
  verdict,    \* what each condition's expression yields on complete data
  now, crashes, faults,
  \* history
  doneAt      \* finished_at as first written with a node's success, or 0

db     == <<status, context, step, requests>>
redis  == <<queue, timers>>
api    == <<deciding, outbox>>
memory == <<pc, job, cur, steps, ctx, attempt, out>>
env    == <<verdict, now, crashes, faults, doneAt>>
vars   == <<db, redis, api, memory, env>>

-----------------------------------------------------------------------------
(* Types. *)

Terminal == {"succeeded", "failed", "cancelled"}
Statuses == {"pending", "running", "waiting", "waiting_approval"} \union Terminal

StepStatuses == {"none", "pending", "running", "succeeded", "failed"}

(* A step record; resumeAt is output.resumeAt of a wait node, 0 if absent. *)
Steps == [status : StepStatuses, attempt : Nat, branch : Branches, resumeAt : Nat]
NoStep == [status |-> "none", attempt |-> 0, branch |-> NoBranch, resumeAt |-> 0]

(* expiresAt is 0 when the request never expires. *)
RequestStatuses == {"pending", "expired"} \union Decisions
Requests == [node : Node, status : RequestStatuses, expiresAt : Nat]

(***************************************************************************)
(* A job.  key 0 is the run job of the trigger (idempotency key            *)
(* execution.id), key i > 0 that of approval request i ("resume-" + id);   *)
(* resume-wait jobs carry no idempotency key and are told apart by a       *)
(* serial number.  No code enqueues an approval.expire job (its handler is *)
(* in ApprovalExpiry).  stalled counts the workers that died with the job. *)
(***************************************************************************)
Jobs == [type : JobTypes, key : Nat, at : Nat, stalled : Nat]
RunJob(k) == [type |-> "execution.run", key |-> k, at |-> 0, stalled |-> 0]
WakeJob(k, t) == [type |-> "execution.resume-wait", key |-> k, at |-> t, stalled |-> 0]

Outcomes ==
  [kind : {"succeeded", "failed", "waiting", "waiting_approval"},
   branch : Branches, resumeAt : Nat]
Succeeded(b) == [kind |-> "succeeded", branch |-> b, resumeAt |-> 0]
Failed == [kind |-> "failed", branch |-> NoBranch, resumeAt |-> 0]
Waiting(t) == [kind |-> "waiting", branch |-> NoBranch, resumeAt |-> t]
WaitingApproval == [kind |-> "waiting_approval", branch |-> NoBranch, resumeAt |-> 0]

(* "missing" is a condition node without an expression. *)
Conditions == {n \in Node : Kind[n] = "condition"}
Verdicts == {"true", "false", "missing"}

(* Where a slot stands: the next await of runExecution it will make. *)
Labels ==
  {"idle", "load", "loadSteps", "start", "visit", "exec", "retry", "ask",
   "saveStep", "saveContext", "pause", "schedule", "fail", "finish", "done"}

TypeOK ==
  /\ status \in Statuses
  /\ context \in SUBSET Node
  /\ step \in [Node -> Steps]
  /\ requests \in Seq(Requests)
  /\ queue \in SUBSET Jobs
  /\ timers \in Nat
  /\ deciding \in SUBSET (Nat \X Decisions)
  /\ outbox \in SUBSET Nat
  /\ pc \in [Slots -> Labels]
  /\ job \in [Slots -> Jobs]
  /\ cur \in [Slots -> Node]
  /\ steps \in [Slots -> [Node -> Steps]]
  /\ ctx \in [Slots -> SUBSET Node]
  /\ attempt \in [Slots -> Nat]
  /\ out \in [Slots -> Outcomes]
  /\ verdict \in [Conditions -> Verdicts]
  /\ now \in Nat
  /\ crashes \in Nat
  /\ faults \in Nat
  /\ doneAt \in [Node -> Nat]

-----------------------------------------------------------------------------
(***************************************************************************)
(* The trigger handler has inserted the execution as pending and has not   *)
(* yet enqueued its job; nothing has run.                                  *)
(***************************************************************************)
Init ==
  /\ status = "pending"
  /\ context = {}
  /\ step = [n \in Node |-> NoStep]
  /\ requests = <<>>
  /\ queue = {}
  /\ timers = 0
  /\ deciding = {}
  /\ outbox = {0}
  /\ pc = [s \in Slots |-> "idle"]
  /\ job = [s \in Slots |-> RunJob(0)]
  /\ cur = [s \in Slots |-> Trigger]
  /\ steps = [s \in Slots |-> [n \in Node |-> NoStep]]
  /\ ctx = [s \in Slots |-> {}]
  /\ attempt = [s \in Slots |-> 0]
  /\ out = [s \in Slots |-> Failed]
  /\ verdict \in [Conditions -> Verdicts]
  /\ now = 1
  /\ crashes = 0
  /\ faults = 0
  /\ doneAt = [n \in Node |-> 0]

-----------------------------------------------------------------------------
(* Helpers of the runner. *)

Goto(s, label) == pc' = [pc EXCEPT ![s] = label]

existing(s) == steps[s][cur[s]]

(* executeNode has produced outcome o; runExecution records it next. *)
Return(s, o) ==
  /\ out' = [out EXCEPT ![s] = o]
  /\ Goto(s, "saveStep")

(* The slots in T drop their memory and are ready for another job. *)
Release(T) ==
  /\ pc' = [s \in Slots |-> IF s \in T THEN "idle" ELSE pc[s]]
  /\ job' = [s \in Slots |-> IF s \in T THEN RunJob(0) ELSE job[s]]
  /\ cur' = [s \in Slots |-> IF s \in T THEN Trigger ELSE cur[s]]
  /\ steps' = [s \in Slots |-> IF s \in T THEN [n \in Node |-> NoStep] ELSE steps[s]]
  /\ ctx' = [s \in Slots |-> IF s \in T THEN {} ELSE ctx[s]]
  /\ attempt' = [s \in Slots |-> IF s \in T THEN 0 ELSE attempt[s]]
  /\ out' = [s \in Slots |-> IF s \in T THEN Failed ELSE out[s]]

(* The end of the loop body: continue with the node an edge leads to, end  *)
(* the flow, or fail because no edge matches the branch.                   *)
Advance(s, n, b) ==
  \/ /\ Outgoing(n) = {}
     /\ Goto(s, "finish")
     /\ UNCHANGED cur
  \/ /\ Outgoing(n) # {}
     /\ Matching(n, b) = {}
     /\ Goto(s, "fail")
     /\ UNCHANGED cur
  \/ /\ \E m \in Node : LeadsTo(n, b, m) /\ cur' = [cur EXCEPT ![s] = m]
     /\ Goto(s, "visit")

(* upsertStep, from slot s: insert or overwrite the record of its node. *)
Upsert(s, st, a, b, t) ==
  step' = [step EXCEPT ![cur[s]] =
             [status |-> st, attempt |-> a, branch |-> b, resumeAt |-> t]]

-----------------------------------------------------------------------------
(* Taking a job and loading the execution. *)

JobIsDue(j) == j.at <= now

(* BullMQ hands a due job of the slot's type to the slot; verifiedRun finds *)
(* the execution and its organization as the payload says.                 *)
TakeJob(s) ==
  /\ pc[s] = "idle"
  /\ \E j \in queue :
       /\ j.type = Serves[s]
       /\ JobIsDue(j)
       /\ queue' = queue \ {j}
       /\ job' = [job EXCEPT ![s] = j]
  /\ Goto(s, "load")
  /\ UNCHANGED <<db, timers, api, cur, steps, ctx, attempt, out, env>>

\* Mutant: a failed execution is run again.
IsOverUnlessFailed(st) == st \in {"succeeded", "cancelled"}

IsOver(st) == st \in Terminal

\* Mutant: the run starts from an empty context.
LoadWithoutContext(s) ==
  /\ pc[s] = "load"
  /\ Goto(s, IF IsOver(status) THEN "done" ELSE "loadSteps")
  /\ UNCHANGED <<db, redis, api, job, cur, steps, ctx, attempt, out, env>>

(* store.load reads the execution row; a terminal execution is left alone. *)
LoadExecution(s) ==
  /\ pc[s] = "load"
  /\ \/ /\ IsOver(status)
        /\ Goto(s, "done")
        /\ UNCHANGED ctx
     \/ /\ ~IsOver(status)
        /\ Goto(s, "loadSteps")
        /\ ctx' = [ctx EXCEPT ![s] = context]
  /\ UNCHANGED <<db, redis, api, job, cur, steps, attempt, out, env>>

(* store.load reads the step records in a second query. *)
LoadSteps(s) ==
  /\ pc[s] = "loadSteps"
  /\ steps' = [steps EXCEPT ![s] = step]
  /\ Goto(s, "start")
  /\ UNCHANGED <<db, redis, api, job, cur, ctx, attempt, out, env>>

(* Mark the execution running and choose where to start: the first         *)
(* unfinished node, or the trigger when there is none.                     *)
StartRun(s) ==
  /\ pc[s] = "start"
  /\ status' = "running"
  /\ \/ /\ Unfinished(steps[s]) = {}
        /\ cur' = [cur EXCEPT ![s] = Trigger]
     \/ \E n \in Node :
          /\ IsFirstUnfinished(steps[s], n)
          /\ cur' = [cur EXCEPT ![s] = n]
  /\ Goto(s, "visit")
  /\ UNCHANGED <<context, step, requests, redis, api, job, steps, ctx, attempt, out, env>>

-----------------------------------------------------------------------------
(* The loop over nodes. *)

\* Mutant: the check of the step record is dropped.
NeverDone(st) == FALSE

IsDone(st) == st.status = "succeeded"

(* A step that had succeeded is not executed again: its recorded branch is  *)
(* followed.                                                               *)
ReuseStep(s) ==
  /\ pc[s] = "visit"
  /\ IsDone(existing(s))
  /\ Advance(s, cur[s], existing(s).branch)
  /\ UNCHANGED <<db, redis, api, job, steps, ctx, attempt, out, env>>

(* executeWithRetries numbers the attempt after the last recorded one. *)
BeginNode(s) ==
  /\ pc[s] = "visit"
  /\ ~IsDone(existing(s))
  /\ attempt' = [attempt EXCEPT ![s] = existing(s).attempt + 1]
  /\ Goto(s, "exec")
  /\ UNCHANGED <<db, redis, api, job, cur, steps, ctx, out, env>>

ExecutePure(s) ==
  /\ pc[s] = "exec"
  /\ Kind[cur[s]] \in {"trigger", "transform"}
  /\ Return(s, Succeeded(NoBranch))
  /\ UNCHANGED <<db, redis, api, job, cur, steps, ctx, attempt, env>>

(* References to outputs that are not in the context interpolate as empty, *)
(* and the comparison may then come out either way.                        *)
Evaluations(n, outputs) ==
  IF verdict[n] = "missing" \/ Reads[n] \subseteq outputs
  THEN {verdict[n]}
  ELSE {"true", "false"}

ExecuteCondition(s) ==
  /\ pc[s] = "exec"
  /\ Kind[cur[s]] = "condition"
  /\ \E v \in Evaluations(cur[s], ctx[s]) :
       Return(s, IF v = "missing" THEN Failed ELSE Succeeded(v))
  /\ UNCHANGED <<db, redis, api, job, cur, steps, ctx, attempt, env>>

(* connector.execute or ai.call: success, a failure that is final, or a    *)
(* transient one, which is final too once the attempts are used up.        *)
ExecuteCall(s) ==
  /\ pc[s] = "exec"
  /\ Kind[cur[s]] \in {"action", "ai"}
  /\ \/ Return(s, Succeeded(NoBranch))
     \/ Return(s, Failed)
     \/ /\ attempt[s] < MaxAttempts[cur[s]]
        /\ Goto(s, "retry")
        /\ UNCHANGED out
  /\ UNCHANGED <<db, redis, api, job, cur, steps, ctx, attempt, env>>

\* Mutant: the attempts are not counted.
SameAttempt(a) == a

NextAttempt(a) == a + 1

(* Record the failed attempt, sleep and execute the node again. *)
RecordRetry(s) ==
  /\ pc[s] = "retry"
  /\ Upsert(s, "running", attempt[s], NoBranch, 0)
  /\ attempt' = [attempt EXCEPT ![s] = NextAttempt(@)]
  /\ Goto(s, "exec")
  /\ UNCHANGED <<status, context, requests, redis, api, job, cur, steps, ctx, out, env>>

\* Mutant: the duration counts from the start of the execution.
WaitFromTheStart(resumeAt) ==
  IF resumeAt = 0 THEN Waiting(1 + WaitFor)
  ELSE IF resumeAt <= now THEN Succeeded(NoBranch)
  ELSE Waiting(resumeAt)

\* Mutant: any run that finds a recorded wait goes on.
WaitIsOverWhenWoken(resumeAt) ==
  IF resumeAt = 0 THEN Waiting(now + WaitFor) ELSE Succeeded(NoBranch)

(* A wait node keeps the resume time it recorded first; woken early, it    *)
(* goes back to waiting for the same instant.                              *)
WaitOutcome(resumeAt) ==
  IF resumeAt = 0 THEN Waiting(now + WaitFor)
  ELSE IF resumeAt <= now THEN Succeeded(NoBranch)
  ELSE Waiting(resumeAt)

ExecuteWait(s) ==
  /\ pc[s] = "exec"
  /\ Kind[cur[s]] = "wait"
  /\ Return(s, WaitOutcome(existing(s).resumeAt))
  /\ UNCHANGED <<db, redis, api, job, cur, steps, ctx, attempt, env>>

-----------------------------------------------------------------------------
(* Approval nodes. *)

RequestsOf(n) == {i \in DOMAIN requests : requests[i].node = n}

(* getApprovalOutcome reads the status of the latest request of the node. *)
IsLatest(i, n) == i \in RequestsOf(n) /\ \A j \in RequestsOf(n) : j <= i

\* Mutants: a resolved request counts as approved; any request as resolved.
AnyResolutionApproves(st) == IF st = "pending" THEN WaitingApproval ELSE Succeeded("approved")
PendingIsResolved(st) == Succeeded(st)

ApprovalOutcome(st) == IF st = "pending" THEN WaitingApproval ELSE Succeeded(st)

ExecuteApproval(s) ==
  /\ pc[s] = "exec"
  /\ Kind[cur[s]] = "approval"
  /\ \/ /\ RequestsOf(cur[s]) = {}
        /\ Goto(s, "ask")
        /\ UNCHANGED out
     \/ \E i \in DOMAIN requests :
          /\ IsLatest(i, cur[s])
          /\ Return(s, ApprovalOutcome(requests[i].status))
  /\ UNCHANGED <<db, redis, api, job, cur, steps, ctx, attempt, env>>

(* createApprovalRequest inserts unconditionally. *)
CreateApprovalRequest(s) ==
  /\ pc[s] = "ask"
  /\ Len(requests) < MaxRequests
  /\ requests' = Append(requests,
                   [node |-> cur[s], status |-> "pending",
                    expiresAt |-> IF ExpiresIn > 0 THEN now + ExpiresIn ELSE 0])
  /\ Return(s, WaitingApproval)
  /\ UNCHANGED <<status, context, step, redis, api, job, cur, steps, ctx, attempt, env>>

-----------------------------------------------------------------------------
(* Recording an outcome. *)

(* A pause keeps the attempt of the record it overwrites, or writes 1. *)
PendingAttempt(st) == IF st.status = "none" THEN 1 ELSE st.attempt

SaveFailed(s) ==
  /\ pc[s] = "saveStep"
  /\ out[s].kind = "failed"
  /\ Upsert(s, "failed", existing(s).attempt + 1, NoBranch, 0)
  /\ Goto(s, "fail")
  /\ UNCHANGED <<status, context, requests, redis, api, job, cur, steps, ctx, attempt, out, env>>

SavePending(s) ==
  /\ pc[s] = "saveStep"
  /\ out[s].kind \in {"waiting", "waiting_approval"}
  /\ Upsert(s, "pending", PendingAttempt(existing(s)), NoBranch, out[s].resumeAt)
  /\ Goto(s, "pause")
  /\ UNCHANGED <<status, context, requests, redis, api, job, cur, steps, ctx, attempt, out, env>>

(* context.nodes gets the output, in memory; the step record is written    *)
(* first and the context snapshot with the next await.  finished_at comes  *)
(* with the record; a runner that does not know of the success overwrites  *)
(* the column, which is why doneAt keeps the value that was written first. *)
SaveSucceeded(s) ==
  /\ pc[s] = "saveStep"
  /\ out[s].kind = "succeeded"
  /\ Upsert(s, "succeeded", existing(s).attempt + 1, out[s].branch, 0)
  /\ steps' = [steps EXCEPT ![s][cur[s]] =
                 [status |-> "succeeded", attempt |-> existing(s).attempt + 1,
                  branch |-> out[s].branch, resumeAt |-> 0]]
  /\ ctx' = [ctx EXCEPT ![s] = @ \union {cur[s]}]
  /\ doneAt' = [doneAt EXCEPT ![cur[s]] = IF @ = 0 THEN now ELSE @]
  /\ Goto(s, "saveContext")
  /\ UNCHANGED <<status, context, requests, redis, api, job, cur, attempt, out,
                 verdict, now, crashes, faults>>

SaveContext(s) ==
  /\ pc[s] = "saveContext"
  /\ context' = ctx[s]
  /\ Advance(s, cur[s], out[s].branch)
  /\ UNCHANGED <<status, step, requests, redis, api, job, steps, ctx, attempt, out, env>>

\* Mutant: both pauses leave the execution waiting.
AlwaysWaiting(o) == "waiting"

PausedAs(o) == o.kind
NeedsTimer(o) == o.kind = "waiting"

(* Leave the execution waiting; only a wait node needs a timer. *)
PauseRun(s) ==
  /\ pc[s] = "pause"
  /\ status' = PausedAs(out[s])
  /\ context' = ctx[s]
  /\ Goto(s, IF NeedsTimer(out[s]) THEN "schedule" ELSE "done")
  /\ UNCHANGED <<step, requests, redis, api, job, cur, steps, ctx, attempt, out, env>>

ScheduleResume(s) ==
  /\ pc[s] = "schedule"
  /\ timers' = timers + 1
  /\ queue' = queue \union {WakeJob(timers', out[s].resumeAt)}
  /\ Goto(s, "done")
  /\ UNCHANGED <<db, api, job, cur, steps, ctx, attempt, out, env>>

(* failExecution, after a failed node or an edge that does not exist. *)
FailRun(s) ==
  /\ pc[s] = "fail"
  /\ status' = "failed"
  /\ Goto(s, "done")
  /\ UNCHANGED <<context, step, requests, redis, api, job, cur, steps, ctx, attempt, out, env>>

FinishRun(s) ==
  /\ pc[s] = "finish"
  /\ status' = "succeeded"
  /\ context' = ctx[s]
  /\ Goto(s, "done")
  /\ UNCHANGED <<step, requests, redis, api, job, cur, steps, ctx, attempt, out, env>>

(* The handler has returned and BullMQ marks the job completed. *)
CompleteJob(s) ==
  /\ pc[s] = "done"
  /\ Release({s})
  /\ UNCHANGED <<db, redis, api, env>>

-----------------------------------------------------------------------------
(* The API: trigger and resolve. *)

(* The resolve handler's checks: still pending and not past its expiry. *)
Resolvable(i) ==
  /\ requests[i].status = "pending"
  /\ requests[i].expiresAt = 0 \/ now <= requests[i].expiresAt

\* Mutant: the run is enqueued before the decision is written.
EnqueueBeforeCommit(i, d) ==
  /\ Resolvable(i)
  /\ deciding' = deciding \union {<<i, d>>}
  /\ outbox' = outbox \union {i}
  /\ UNCHANGED <<db, redis, memory, env>>

BeginResolve(i, d) ==
  /\ Resolvable(i)
  /\ <<i, d>> \notin deciding
  /\ deciding' = deciding \union {<<i, d>>}
  /\ UNCHANGED <<db, redis, outbox, memory, env>>

\* Mutant: the UPDATE has no condition on the status.
AnyStatusMatches(i) == TRUE

(* UPDATE ... WHERE status = 'pending': the loser of a race gets CONFLICT. *)
UpdateMatches(i) == requests[i].status = "pending"

CommitResolve(i, d) ==
  /\ <<i, d>> \in deciding
  /\ deciding' = deciding \ {<<i, d>>}
  /\ \/ /\ UpdateMatches(i)
        /\ requests' = [requests EXCEPT ![i].status = d]
        /\ outbox' = outbox \union {i}
     \/ /\ ~UpdateMatches(i)
        /\ UNCHANGED <<requests, outbox>>
  /\ UNCHANGED <<status, context, step, redis, memory, env>>

(* The handler of key k reaches queue.enqueue('execution.run'). *)
EnqueueRun(k) ==
  /\ k \in outbox
  /\ outbox' = outbox \ {k}
  /\ queue' = queue \union {RunJob(k)}
  /\ UNCHANGED <<db, timers, deciding, memory, env>>

-----------------------------------------------------------------------------
(* What the environment may do. *)

(* Time matters up to the last instant the system has recorded. *)
Instants ==
  {j.at : j \in queue} \union {step[n].resumeAt : n \in Node}
    \union {requests[i].expiresAt : i \in DOMAIN requests}

Tick ==
  /\ \E t \in Instants : now <= t
  /\ now' = now + 1
  /\ UNCHANGED <<db, redis, api, memory, verdict, crashes, faults, doneAt>>

(* BullMQ returns the job of a dead worker to its queue unless the job has *)
(* stalled too often already.                                              *)
Redelivered(j) == [j EXCEPT !.stalled = @ + 1]
\* Mutant: the job is given up one crash too early.
GivesUpEarly(j) == j.stalled + 1 < MaxStalled

MayRedeliver(j) == j.stalled < MaxStalled

(* A worker process dies: its slots lose their memory.                     *)
Crash(p) ==
  /\ crashes < MaxCrashes
  /\ LET dead == {s \in Slots : Proc[s] = p}
         held == {job[s] : s \in {x \in dead : pc[x] # "idle"}}
     IN /\ held # {}
        /\ queue' = queue \union {Redelivered(j) : j \in {x \in held : MayRedeliver(x)}}
        /\ Release(dead)
  /\ crashes' = crashes + 1
  /\ UNCHANGED <<db, timers, api, verdict, now, faults, doneAt>>

(* A store or queue call throws and the job fails: it has no attempts      *)
(* option, so BullMQ does not run it again.  Inside executeNode the        *)
(* exception is caught and fails the node instead.                         *)
Caught(s) == pc[s] \in {"exec", "ask"} /\ Kind[cur[s]] = "approval"

RunnerFault(s) ==
  /\ faults < MaxFaults
  /\ pc[s] \notin {"idle", "done"}
  /\ \/ /\ Caught(s)
        /\ Return(s, Failed)
        /\ UNCHANGED <<job, cur, steps, ctx, attempt>>
     \/ /\ ~Caught(s)
        /\ Release({s})
  /\ faults' = faults + 1
  /\ UNCHANGED <<db, redis, api, verdict, now, crashes, doneAt>>

(* An API handler fails between its database write and its enqueue: the    *)
(* audit write in between throws, Redis is down, or the process dies.      *)
HandlerFault(k) ==
  /\ faults < MaxFaults
  /\ k \in outbox
  /\ outbox' = outbox \ {k}
  /\ faults' = faults + 1
  /\ UNCHANGED <<db, redis, deciding, memory, verdict, now, crashes, doneAt>>

-----------------------------------------------------------------------------
Execute(s) ==
  \/ ExecutePure(s)
  \/ ExecuteCondition(s)
  \/ ExecuteCall(s)
  \/ ExecuteWait(s)
  \/ ExecuteApproval(s)
  \/ CreateApprovalRequest(s)

Record(s) ==
  \/ RecordRetry(s)
  \/ SaveFailed(s)
  \/ SavePending(s)
  \/ SaveSucceeded(s)
  \/ SaveContext(s)
  \/ PauseRun(s)
  \/ ScheduleResume(s)
  \/ FailRun(s)
  \/ FinishRun(s)

RunnerStep(s) ==
  \/ TakeJob(s)
  \/ LoadExecution(s)
  \/ LoadSteps(s)
  \/ StartRun(s)
  \/ ReuseStep(s)
  \/ BeginNode(s)
  \/ Execute(s)
  \/ Record(s)
  \/ CompleteJob(s)

ApiStep ==
  \/ \E i \in DOMAIN requests, d \in Decisions : BeginResolve(i, d) \/ CommitResolve(i, d)
  \/ \E k \in outbox : EnqueueRun(k)

Environment ==
  \/ Tick
  \/ \E p \in {Proc[s] : s \in Slots} : Crash(p)
  \/ \E s \in Slots : RunnerFault(s)
  \/ \E k \in outbox : HandlerFault(k)

Next == (\E s \in Slots : RunnerStep(s)) \/ ApiStep \/ Environment

Spec == Init /\ [][Next]_vars

(***************************************************************************)
(* Workers poll their queues, a handler in progress keeps running, an API  *)
(* handler past its database write reaches its enqueue, and time passes.   *)
(* Nobody is obliged to resolve an approval, and nothing has to crash.     *)
(***************************************************************************)
Fairness ==
  /\ \A s \in Slots : WF_vars(RunnerStep(s))
  /\ WF_vars(\E i \in DOMAIN requests, d \in Decisions : CommitResolve(i, d))
  /\ WF_vars(\E k \in outbox : EnqueueRun(k))
  /\ WF_vars(Tick)

FairSpec == Spec /\ Fairness

-----------------------------------------------------------------------------
(* Properties that hold however many runners work on the execution. *)

(* An approval node counts as succeeded only along a branch that a request *)
(* of that node was really resolved to (executeNode, case 'approval').     *)
ApprovalGate ==
  \A n \in Node :
    Kind[n] = "approval" /\ step[n].status = "succeeded" =>
      \E i \in RequestsOf(n) : requests[i].status = step[n].branch

(* A resolved approval request keeps its resolution: of two racing resolve *)
(* calls one gets CONFLICT (UPDATE ... WHERE status = 'pending').          *)
DecisionIsFinal ==
  [][\A i \in DOMAIN requests :
       requests[i].status # "pending" => requests'[i].status = requests[i].status]_vars

(* A resume job exists only for a request whose decision is committed, so  *)
(* the run it starts can see the decision.                                 *)
ResumeFollowsDecision ==
  \A k \in outbox \union {j.key : j \in {x \in queue : x.type = "execution.run"}} :
    k # 0 => k \in DOMAIN requests /\ requests[k].status # "pending"

(* An edge leads from m to n, whatever its branch.                         *)
Precedes(m, n) == \E e \in DOMAIN Edges : Edges[e].from = m /\ Edges[e].to = n

(* A wait node succeeds no sooner than its duration after a node in front  *)
(* of it did, be it the first wait of the execution or a later one: not    *)
(* when a redelivered job or a second runner executes it again early, nor  *)
(* when its resume time is recorded twice.                                 *)
WaitElapses ==
  \A n \in Node :
    Kind[n] = "wait" /\ doneAt[n] # 0 =>
      \E m \in Node :
        Precedes(m, n) /\ doneAt[m] # 0 /\ doneAt[n] >= doneAt[m] + WaitFor

-----------------------------------------------------------------------------
(* Properties of executions that one runner at a time works on. *)

Busy(s) == pc[s] \notin {"idle", "done"}

(* At any time at most one slot is running the execution.  The code takes  *)
(* no lock: where this holds it is the order of enqueues, timers and queue *)
(* deliveries that makes it hold.                                          *)
NoOverlap == \A s, t \in Slots : Busy(s) /\ Busy(t) => s = t

(* "Completed steps are never re-executed": a node being executed has no   *)
(* succeeded record in the database.                                       *)
NeverReexecuted ==
  \A s \in Slots :
    pc[s] \in {"exec", "retry", "ask"} => step[cur[s]].status # "succeeded"

(* A succeeded or failed execution is never touched again.                 *)
TerminalIsFinal == [][(status \in Terminal) => status' = status]_vars

(* A node has a step record only if it is the trigger or the edge of a     *)
(* succeeded step's branch leads to it: retries, resumptions and crashes   *)
(* never take the execution off the graph.                                 *)
FollowsEdges ==
  \A n \in Node :
    step[n].status # "none" /\ n # Trigger =>
      \E m \in Node : step[m].status = "succeeded" /\ LeadsTo(m, step[m].branch, n)

(* The engine implements the promise of WorkflowRun: seen through the      *)
(* persisted status and step records it walks the definition from the      *)
(* trigger and records each node it completes once and for all.            *)
Abstract == INSTANCE WorkflowRun WITH
  phase <- status,
  trail <- [n \in Node |-> IF step[n].status = "succeeded" THEN step[n].branch ELSE "ahead"]

ImplementsRun == Abstract!RunSpec

(* Every condition took the branch its expression yields on complete data. *)
BranchMatchesData ==
  \A n \in Conditions : step[n].status = "succeeded" => step[n].branch = verdict[n]

(* "Runs (or resumes) a workflow execution to its next pause or terminal   *)
(* state": a run that has started comes to the end of its job.             *)
RunsEnd == \A s \in Slots : pc[s] = "visit" ~> pc[s] \in {"done", "idle"}

(* The execution waits for a human who can still answer.                   *)
AwaitingHuman ==
  /\ status = "waiting_approval"
  /\ \E i \in DOMAIN requests :
       /\ IsLatest(i, requests[i].node)
       /\ Resolvable(i)
       /\ step[requests[i].node].status = "pending"

(* Unless a call to Postgres or Redis failed, an execution that is not     *)
(* over is being run, has a job that will run it, has an API handler about *)
(* to enqueue one, or waits for a human: crashes alone strand nothing.     *)
NoLostWakeup ==
  status \notin Terminal /\ faults = 0 =>
    \/ queue # {}
    \/ outbox # {}
    \/ \E s \in Slots : Busy(s)
    \/ AwaitingHuman

(* Unless a call to Postgres or Redis fails, the execution always comes to *)
(* an end or to a human again.                                             *)
Settles == []<>(status \in Terminal \/ AwaitingHuman \/ faults > 0)
=============================================================================
