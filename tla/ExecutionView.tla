--------------------------- MODULE ExecutionView ---------------------------
(***************************************************************************)
(* Somebody who watches an execution of WorkflowEngine from a browser tab, *)
(* either on its page or on the list of pending approvals (apps/web).      *)
(* Nothing is pushed to the tab.  It polls the API, the page of the        *)
(* execution until it has seen the execution end, and a decision is made   *)
(* on a list that may be old.  The other people who decide are those of    *)
(* WorkflowEngine.  The tab stays on its page, and no worker crashes       *)
(* (bounds).                                                               *)
(*                                                                         *)
(* A poll of the list is read at the server in one step and lands in a     *)
(* later one: a decision may be answered in between.  It may also fail, for *)
(* good after its retries, and the page goes on showing the list it has.   *)
(* The other polls are one step; one of them that fails is one that comes  *)
(* later, and is left out.  So are the logs.                               *)
(***************************************************************************)
EXTENDS WorkflowEngine

VARIABLES
  page,       \* what the tab shows: "execution" or "approvals"
  execution,  \* useExecution: the status shown, "none" before the first poll
  table,      \* useExecutionSteps
  list,       \* useApprovals('pending'): the requests listed
  broken,     \* its error, which the page does not show
  fetch,      \* its answer on the way: a sequence of at most one
  resolve     \* useResolveApproval: the request, the decision, how far it is

view == <<page, execution, table, list, broken, fetch, resolve>>
viewVars == <<vars, view>>

NotAsked == [at |-> "idle", request |-> 0, decision |-> "none"]

ViewInit ==
  /\ Init
  /\ page \in {"execution", "approvals"}
  /\ execution = "none"
  /\ table = [n \in Node |-> NoStep]
  /\ list = {} /\ broken = FALSE /\ fetch = <<>>
  /\ resolve = NotAsked

-----------------------------------------------------------------------------
(* The page of the execution. *)

(* Mutant: a paused execution is not polled. *)
PolledWhileRunning(st) == st \notin Terminal \union {"waiting", "waiting_approval"}

(* refetchInterval of useExecution: false once the execution is over. *)
Polled(st) == st \notin Terminal

(* GET /executions/:executionId. *)
PollExecution ==
  /\ page = "execution"
  /\ Polled(execution)
  /\ execution # status
  /\ execution' = status
  /\ UNCHANGED <<vars, page, table, list, broken, fetch, resolve>>

(* GET /executions/:executionId/steps is polled for ever. *)
PollSteps ==
  /\ page = "execution"
  /\ table # step
  /\ table' = step
  /\ UNCHANGED <<vars, page, execution, list, broken, fetch, resolve>>

(* The rows of the table: one per step record. *)
StepRows(records) ==
  {<<n, records[n].status, records[n].attempt, records[n].branch>> :
     n \in {m \in Node : records[m].status # "none"}}

-----------------------------------------------------------------------------
(* The list of approvals. *)

Pending == {i \in DOMAIN requests : requests[i].status = "pending"}

Answered(requested) == [ok |-> TRUE, listed |-> requested]
Unanswered == [ok |-> FALSE, listed |-> {}]

(* GET /approvals?status=pending, at the server: overdue requests too.     *)
(* While nothing changes a poll is left out, except beside a decision; so  *)
(* is one that fails after another has failed, except after a decision.    *)
ReadApprovals ==
  /\ page = "approvals"
  /\ fetch = <<>>
  /\ list # Pending \/ broken \/ resolve.at \in {"checked", "refetching"}
  /\ \/ fetch' = <<Answered(Pending)>>
     \/ /\ ~broken \/ resolve.at = "refetching"
        /\ fetch' = <<Unanswered>>
  /\ UNCHANGED <<vars, page, execution, table, list, broken, resolve>>

(* The answer is taken in.  The mutation that waits for it ends either way: *)
(* invalidateQueries catches what a refetch throws.                        *)
LandApprovals ==
  /\ fetch # <<>>
  /\ broken' = ~Head(fetch).ok
  /\ list' = IF Head(fetch).ok THEN Head(fetch).listed ELSE list
  /\ fetch' = <<>>
  /\ resolve' = IF resolve.at = "refetching"
                THEN [resolve EXCEPT !.at = "accepted"] ELSE resolve
  /\ UNCHANGED <<vars, page, execution, table>>

(* "Aprobar" and "Rechazar" of a listed request; every button is disabled  *)
(* while the mutation is pending.  This browser decides once (a bound).    *)
PressResolve(i, d) ==
  /\ i \in list
  /\ resolve = NotAsked
  /\ resolve' = [at |-> "sent", request |-> i, decision |-> d]
  /\ UNCHANGED <<vars, page, execution, table, list, broken, fetch>>

At(label) == resolve' = [resolve EXCEPT !.at = label]

(* POST /approvals/:approvalId/resolve: the checks, the UPDATE and the     *)
(* enqueue of WorkflowEngine, each with its answer to the browser.         *)
CheckMine ==
  /\ resolve.at = "sent"
  /\ \/ BeginResolve(resolve.request, resolve.decision) /\ At("checked")
     \/ ~Resolvable(resolve.request) /\ At("refused") /\ UNCHANGED vars
  /\ UNCHANGED <<page, execution, table, list, broken, fetch>>

UpdateMine ==
  /\ resolve.at = "checked"
  /\ CommitResolve(resolve.request, resolve.decision)
  /\ At(IF UpdateMatches(resolve.request) THEN "updated" ELSE "refused")
  /\ UNCHANGED <<page, execution, table, list, broken, fetch>>

EnqueueMine ==
  /\ resolve.at = "updated"
  /\ \/ EnqueueRun(resolve.request) /\ At("answered")
     \/ HandlerFault(resolve.request) /\ At("refused")
  /\ UNCHANGED <<page, execution, table, list, broken, fetch>>

(* Mutant: a poll under way counts as the refetch. *)
JoinPoll == fetch' = fetch

(* invalidateQueries(['approvals']) drops a poll that is under way. *)
DropPoll == fetch' = <<>>

(* onSuccess: the mutation stays pending until the list is fetched again.  *)
(* A refusal only shows its message; the list is left to the next poll.    *)
Refresh ==
  /\ resolve.at = "answered"
  /\ DropPoll
  /\ At("refetching")
  /\ UNCHANGED <<vars, page, execution, table, list, broken>>

-----------------------------------------------------------------------------
(* The steps of WorkflowEngine that are not this browser's request. *)

IsMine(i, d) == resolve.at = "checked" /\ i = resolve.request /\ d = resolve.decision
KeyIsMine(k) == resolve.at = "updated" /\ k = resolve.request

Run(s) == RunnerStep(s) /\ UNCHANGED view

DecideOther ==
  /\ \E i \in DOMAIN requests, d \in Decisions :
       ~IsMine(i, d) /\ (BeginResolve(i, d) \/ CommitResolve(i, d))
  /\ UNCHANGED view

EnqueueOther == (\E k \in outbox : ~KeyIsMine(k) /\ EnqueueRun(k)) /\ UNCHANGED view

Surroundings ==
  /\ \/ Tick
     \/ \E s \in Slots : RunnerFault(s)
     \/ \E k \in outbox : ~KeyIsMine(k) /\ HandlerFault(k)
  /\ UNCHANGED view

Resolve == CheckMine \/ UpdateMine \/ EnqueueMine \/ Refresh

ViewNext ==
  \/ \E s \in Slots : Run(s)
  \/ DecideOther \/ EnqueueOther \/ Surroundings
  \/ PollExecution \/ PollSteps
  \/ ReadApprovals \/ LandApprovals
  \/ \E i \in list, d \in Decisions : PressResolve(i, d)
  \/ Resolve

(* The fairness of WorkflowEngine, and polls are answered.  Nobody has to  *)
(* press a button.                                                         *)
ViewSpec ==
  /\ ViewInit /\ [][ViewNext]_viewVars
  /\ \A s \in Slots : WF_viewVars(Run(s))
  /\ WF_viewVars(DecideOther /\ deciding' \subseteq deciding)
  /\ WF_viewVars(EnqueueOther) /\ WF_viewVars(Tick /\ UNCHANGED view)
  /\ WF_viewVars(PollExecution) /\ WF_viewVars(PollSteps)
  /\ WF_viewVars(ReadApprovals) /\ WF_viewVars(LandApprovals)
  /\ WF_viewVars(Resolve)

-----------------------------------------------------------------------------
(* Unless a call to Postgres or Redis fails, the execution always comes to *)
(* an end or to a human again, and the tab shows it: the page its status   *)
(* and its steps, although it stops polling at the first terminal status   *)
(* it sees, and the list every request that a human still has to answer.   *)
PageSettles ==
  []<>(\/ /\ status \in Terminal \/ AwaitingHuman
          /\ page = "execution" => execution = status /\ StepRows(table) = StepRows(step)
          /\ page = "approvals" => list = Pending
       \/ faults > 0)

(* Who is told that a decision is in sees that: it is the request's final  *)
(* decision whoever else decides, and when the buttons are enabled again   *)
(* the request is listed no more, whichever poll was under way meanwhile.  *)
(* Unless the refetch has failed: then the old list stays, with buttons    *)
(* that will be refused, until the first poll that succeeds.               *)
AcceptedDecisionShows ==
  resolve.at \in {"answered", "refetching", "accepted"} =>
    /\ requests[resolve.request].status = resolve.decision
    /\ resolve.at = "accepted" /\ ~broken => resolve.request \notin list
=============================================================================
