# FlowHub AI: TLA+ models and proofs

FlowHub AI is a multi-tenant service that installs workflows and runs them: an
API (`apps/api`, Fastify), workers (`apps/worker`, BullMQ on Redis), Postgres,
and the packages they share (`packages/*`). This directory models the parts in
which processes, crashes, queues and people interleave. Every definition is
translated from the source; `PROJECT.json` names the lines each one stands for.

## 1. The system

| Component | State it keeps | Operations | What is hard about it | What makes it correct |
|---|---|---|---|---|
| Workflow engine, `packages/workflow-engine` | none of its own: it works on the rows of one execution | `runExecution`, resumed by every job | each await is a point where a worker may die or another runner step in | completed nodes are not run again, the graph is followed, a terminal status is final, pauses end |
| Worker, `apps/worker` | the memory of each running job | `execution.run`, `execution.resume-wait`, `approval.expire` handlers, the Postgres store | three loops per process, no lock between them; redelivery | a job in hand is never lost by a crash alone |
| Job queue, `packages/jobs` | delayed and waiting jobs in Redis | `enqueue`, `schedule`, `process` | at-least-once delivery, `jobId` deduplication, one redelivery of a stalled job, no retry of a failed one | |
| Approvals API | `approval_requests` | `resolve` | races with other approvers, with expiry and with the run that asked | one decision, decided by someone, that reaches the run |
| Executions API | `workflow_executions` | `trigger`, listings | insert and enqueue are two steps; the version read is pinned later | every execution gets its job; the pinned version is not outdated |
| Workflows API | `installed_workflows`, `workflow_versions`, the node and edge projection | `install`, create, publish | several statements, one transaction among them, racing editors | a linear version history with one current version |
| Billing and limits | `subscriptions`, counts of everything else | checkout, portal, webhooks, `assertWithinPlanLimits` | webhooks repeat and overtake each other; limits are counted before the insert | the plan follows the provider; limits hold up to the number of concurrent requests |
| Connectors | `connector_accounts`, `secrets` | authorize, callback, connect, revoke, token refresh by workers | refresh races, rotation, partial failures | a live account has a usable secret, a revoked one none |
| Organizations, sessions | members, invitations, sessions | create, invite, accept, switch, login, logout | check-then-write, several writes without a transaction | one membership, sessions that stay revoked |
| AI gateway | `ai_calls`, usage | budget check, call with timeout, record | the budget is read before and charged after a call | overshoot is bounded |
| Rate limiter | a window per organization, in the memory of one API process | `check` | window boundary, two looks at the clock | never more than the limit per window, nobody refused without cause |
| Web application, `apps/web` | the query cache, pending mutations, the canvas of the editor | fetch, poll, save, run, decide, connect; add, connect and delete nodes | answers that arrive after a newer one, pages that are left, cookies shared by tabs | what it sends and shows does not go back |
| Catalog, config, observability, shared, UI, schema | read-only or stateless | | | not modelled |

Components meet in three ways: through rows in Postgres (the API writes a
decision, the engine reads it), through jobs in Redis (an API handler enqueues
what a worker loop takes), and through timers (a wait node schedules a delayed
job). No component calls another one synchronously while holding state, except
the engine, which calls connectors and the AI gateway in the middle of a node.

## 2. Modules

| Module | Role |
|---|---|
| `WorkflowDefinition` | the definition as constants (nodes, kinds, edges), `findNext`, `firstUnfinished` |
| `WorkflowRun` | abstract: what the engine promises about one execution |
| `WorkflowEngine` | one execution with its worker loops, jobs, timers, approvals, API handlers, crashes and failed calls |
| `MCWorkflowEngine` | the graphs and the worker set-ups for TLC |
| `ApprovalExpiry` | `WorkflowEngine` with the third loop of a worker, `approval.expire` |
| `WorkflowEngine_proofs` | what holds however many runners overlap, and of `ExecutionView` |
| `WorkflowEngineLock_proofs` | what holds when runners do not overlap, refinement included, and when they do not |
| `VersionRegister` | abstract: the current version as one register, replaced in single steps |
| `WorkflowVersions` | install, publish and pin, statement by statement |
| `WorkflowEditor`, `WorkflowEditor_proofs` | extends `WorkflowVersions`: a browser on the page and in the editor of the workflow; the proofs are of both |
| `WorkflowCanvas`, `WorkflowCanvas_proofs` | what the editor does to nodes and edges before they are saved; the proofs are of the layout too |
| `WorkflowLayout` | the picture drawn of a definition, a pure function, against a reference definition |
| `MCWorkflowVersions` | instances of the two: the requests, or the canvas |
| `ExecutionView`, `MCExecutionView` | extends `WorkflowEngine`: the pages that watch an execution and decide its approvals |
| `Subscriptions`, `MCSubscriptions`, `Subscriptions_proofs` | the subscription of an organization: checkout, the payment gateway, webhooks |
| `Metering`, `Metering_proofs` | plan limits, usage events, the AI budget; the proofs are of the limiter too |
| `OrgRateLimiter` | the sliding window in front of the trigger |
| `MCMetering` | instances of the two, side by side |
| `Credentials` | one connector account: connect, revoke, token refresh |
| `ConnectorAuthorization`, `MCCredentials`, `Credentials_proofs` | extends `Credentials`: tabs, consents, the shared cookie and the callbacks that lead to an account |
| `Sessions` | rows of `sessions`, the requests that present them, the clock |
| `Organizations`, `MCOrganizations`, `Organizations_proofs` | extends `Sessions`: one organization, its members and invitations |

### WorkflowEngine and the code

A *slot* is one BullMQ `Worker` (`bullmq-queue.ts`, concurrency 1): it serves
one job type, one job at a time; `Proc` says which process it lives in. `pc`
names the next await of `runExecution` that a slot will make:

| `pc` | code |
|---|---|
| `load`, `loadSteps` | the two queries of `store.load` (execution row, step records) |
| `start` | `updateExecution({status:'running'})`, choice of the first node |
| `visit` | the head of the `while` loop: reuse a succeeded step or execute the node |
| `exec`, `ask`, `retry` | `executeNode`; the INSERT of an approval request; the record of a failed attempt |
| `saveStep`, `saveContext` | the two writes after a node: step record, then context snapshot |
| `pause`, `schedule` | the two writes of a pause: status, then the delayed job |
| `fail`, `finish`, `done` | `failExecution`; the final update; the handler has returned |

`steps`, `ctx`, `attempt` and `out` are the local variables of a run and are
lost with its process; `status`, `context`, `step` and `requests` are rows;
`queue` is Redis. The context is reduced to the set of nodes whose output it
holds: a condition whose references are all there evaluates to `verdict`, one
that misses an output may go either way (an undefined reference interpolates to
the empty string). Connector and AI calls succeed, fail for good or fail
transiently, at will. `deciding` holds resolve requests that have passed their
checks, `outbox` the run jobs an API handler has yet to enqueue after its
database write, so a handler can die between the two (`HandlerFault`).

Faults: `Crash` kills a process at any await; BullMQ puts its jobs back unless
they have already stalled `MaxStalled` times. `RunnerFault` makes a store or
queue call throw: inside `executeNode` it fails the node, elsewhere it fails the
job, which is not retried.

`doneAt` is history: the `finished_at` that `upsertStep` first writes with a
node's success. The column itself does not keep it: a runner that does not know
of the success records the node again and overwrites it.

### WorkflowVersions and the code

One installed workflow, its install request, editors and triggers. `FindCurrent`
and `ClearCurrent` are the snapshot and the row lock of one UPDATE: between
them other transactions commit, and the locked row is looked at again, as
Postgres does under READ COMMITTED. `InsertVersion` is refused by either unique
index and then rolls back; `Commit` publishes both writes. The projection is
written after the commit in four statements. `Fail` ends a request anywhere.
What a publish amounts to, for those who look at the current version, is
`VersionRegister`: read, then replace what was read or be refused.

### WorkflowEditor, WorkflowCanvas, WorkflowLayout and the code

`WorkflowEditor` puts one browser beside those requests. `cache`, `broken` and
`fetch` are the query of `useWorkflow`: its data, its error and the request
under way. A GET is answered by the server in one step (`Answer`) and reaches
the cache in another (`Land`), so that publishes and clicks fall between.
`canvas` is the version the editor was filled from, once, on its first data;
`draft` what a save is then made of. `mutation` is `useUpdateWorkflow` or
`useRunWorkflow`, which after a save stays pending until the mounted pages have
fetched again; `mine` says that the page that started it is still there, since
React Query calls nobody back who has gone. The request itself is one of
`WorkflowVersions` (`Serve`), which starts when the browser has sent it.

`WorkflowCanvas` is what happens between filling and saving: nodes numbered
with the first free number of their kind, edges drawn once between two nodes,
labels and deletions by id. An id is the sequence of its pieces between hyphens,
because the editor and React Flow join ids with hyphens into new ones: the nodes
it adds are `${kind}-${i}`, the edges of a definition become
`e${i}-${from}-${to}`, and an edge drawn by hand is React Flow's
`xy-edge__${source}-${target}`. Joining is concatenation of those sequences, so
that different ends may give one id, as they do in the code.

Definitions are kept as the sequences they are, because `layoutPositions` goes
through the edges in their order: `WorkflowLayout` computes it pass by pass and
push by push, as recursive functions. The reference is `IsLongestPath`: a node
is as deep as the longest path to it *from a node that nothing leads to*. The
comment of the code says "from the trigger", which is not the same (section 5).
`Only` is the code's `filter`, written with cardinalities instead of the
recursion behind `SelectSeq`, so that it can be proved about.

### Subscriptions, Metering and the code

`sub` is the row of `subscriptions`. A webhook for a completed checkout is one
UPDATE by organization (`Complete`); any other event is a SELECT by
`external_ref` (`FindSubscription`) and an UPDATE by `id`
(`UpdateSubscription`), with other handlers in between. The gateway is an
external: a customer pays, is charged or cancels, each of which appends an event
to `log`, and any handler may be given any event of the log at any time, which
is repetition and reordering in one. The variables `answered` and `orderly` are
history: which events were answered, and whether deliveries were in turn.

In `Metering` a request reads the plan (`GetPlan`), then the usage (`GetUsage`),
inserts its row, and for an execution writes the usage event last
(`RecordUsage`). An AI call reads the month's spend, calls the provider, and
records what the answer cost, which is the code's own estimate from the tokens
used. A call that fails is recorded at no cost. Of those, some were never
charged (`ProviderFails`) and some were (`LoseAnswer`): `withTimeout` gave up on
an answer that still came, or the provider answered and was paid and the content
was no JSON, which makes `provider.call` throw after the fact. The two halves share the month and
nothing else. `launched`, `unmetered`, `charged` and `unrecorded` are history
that the code does not keep and the limits are about. `OrgRateLimiter` is `check`: the old
entries are dropped by one reading of the clock and the new one is made at the
next, so it may be a tick later than the window it was admitted in (`Admit`).
Its array is a set of numbered entries, since it is only filtered, measured and
appended to.

### Credentials, ConnectorAuthorization and the code

An account is three rows written one statement at a time. Its connect
(`StoreSecret`, `InsertAccount`, `InsertMetadata`), any number of revocations
and the lookups of worker loops (`FindActive`, `FindMetadata`, `Retrieve`,
`Refresh`, `UpdateSecret`) interleave at each statement, and each may fail
there. `DeleteSecret` is `deps.secrets?.delete`: an API that runs without the key
of the secrets deletes nothing and goes on (`skipped` remembers that it did). A
secret is reduced to the number of its refresh token, and the provider
to whether it issues a new one with every refresh and refuses the old.

`ConnectorAuthorization` leads to that connect. An authorization is an
organization and a provider, written into its signed state when the authorize
handler runs: the organization is the session's at that moment, which a tab that
was left open need not show; `cookie` names the authorization the browser's one state cookie
belongs to. A callback takes the cookie along when it is sent, is checked, has
its code redeemed by the provider (an external: once, and for the verifier it
was challenged with) and clears the cookie with its answer, whichever
authorization that belongs to by then. The first callback whose code is
redeemed is the connect of `Credentials` (`Persist`); later accounts share
nothing with it and are one step.

### ExecutionView and the code

A tab is on the page of the execution or on the list of approvals. `execution`,
`table` and `list` are what its three queries hold; the first is polled until a
terminal status is seen, the others for ever. A poll of the list is read in one
step and lands in another. `resolve` is `useResolveApproval`: its request goes
through the three steps of the resolve handler of `WorkflowEngine`
(`BeginResolve`, `CommitResolve`, `EnqueueRun`), among the steps of other
approvers, and once it is answered the polls under way are dropped (`DropPoll`)
and the mutation waits for a new list. A poll may fail (`Unanswered`): the page then
keeps the list it had, and `broken` says that its last fetch failed. A failed
refetch ends the mutation like one that succeeds, since `invalidateQueries`
catches what it throws.

### Sessions, Organizations and the code

In `Sessions` a request is `slide` between the SELECT of `resolveSession` and
its UPDATE, and `in` once it was let through. `MaxLag` bounds the time between
the two; the code's lifetimes of seven and six days leave it a day.
`Organizations` runs the handlers of requests that are `in`: `task` says which
statement is next, `Die` ends a request anywhere and leaves what was written.
`session[s].active` stands for an `active_organization_id` that is the one
organization modelled, and FALSE for none and for any other. The rows the
creation writes to `subscriptions` and every audit row are left out. Nothing in
the code removes a member, changes a role or revokes an invitation, so no action
does. Whoever has an invitation's token may accept it, since the handler does
not compare the user's e-mail with the invited one.

## 3. Runs

All runs but `metering` disable TLC's deadlock check because the system stops
when the execution is over, every request answered, every plan bought or the
time is up, and nothing is queued; that nothing stops too early is what
`NoLostWakeup`, `Settles` and `RequestsEnd` say.

| Run | Set-up | Shows |
|---|---|---|
| `engine_crash` | the graph of `docs/workflows/invoice-intake-demo.md` (call, condition, approval on one branch, an edge missing for `rejected`), one loop, one crash, one failed call | `FollowsEdges`, `NeverReexecuted`, `TerminalIsFinal`, `ImplementsRun`; `NoLostWakeup`: only a failed call can strand an execution; `Settles` |
| `engine_solo` | approval, wait, condition in a row; the run and the resume-wait loop of one process; one failed call; a tab that watches or decides, whose polls may fail | `NoOverlap`: on this graph the order of enqueues and timers alone keeps the two loops apart; `BranchMatchesData`; `AcceptedDecisionShows`: an accepted decision is seen, whatever poll was under way, unless the refetch itself failed; `PageSettles`: the tab ends up showing the end, or whom the execution waits for, although it stops polling |
| `engine_overlap` | a condition with a wait on either branch, one in front of another wait, one in front of an approval; both loops do run the execution at once; a crash, two approval requests | `TypeOK`, `ApprovalGate`, `ResumeFollowsDecision`, `WaitElapses` (of either wait, since the node in front of it), `DecisionIsFinal`: they need no lock |
| `engine_lock` | a wait in front of an approval, no faults | violated `TerminalIsFinal`: see 5 |
| `engine_context` | the invoice graph, one crash | violated `BranchMatchesData`: see 5 |
| `engine_cycle` | a graph with a cycle | violated `RunsEnd`: see 5 |
| `engine_expiry` | an approval that expires, with the expiry loop | violated `ExpiryHappens`: see 5 |
| `billing` | three plans, two checkouts, four gateway events, two handlers, both gateways | `PlanWasPaid` and `CancelledIsFree` under any delivery; `FollowsGateway`: which deliveries leave the row right |
| `metering` | two plans, one unlimited in one quota, two requests, two AI calls, one lost record of either kind, two months; or a window of three ticks for two hits | `OvershootIsBounded`, `LaunchesAreBounded`, `BudgetHolds`; `WindowHolds`: every window of that length, not only those that end at a check |
| `credentials` | two tabs and two callbacks in two organizations; or one of each, two revocations and two refreshing loops; three refresh tokens, providers that rotate and that do not | `RevokedIsClean`, `ActiveIsUsable`; `AccountsFollowConsents`: one account per consent, where its button was pressed; `RefusalsHaveACause` |
| `organizations` | two users with a session each, two requests, one invitation, one death, a clock | `SlidesEnough`, `OwnerStays`, `ActiveIsMember`, `JoinsAreBounded` |
| `versions` | install, two editors, one trigger, one request that dies, a browser that sends one of them; or three edits of five graphs | `HistoryIsLinear`, `PinsAreFresh`, `ProjectionFollows`, `RequestsEnd`; `ImplementsRegister`: racing publishes act like single steps, and refusals have a winner; `RequestsGoForward`, `SavesShowUp`, `MutationsEnd`: what the browser sends, what it shows after a save, and that it stops waiting; `EditsKeepGraph`, `LayoutFollowsPaths`: what the canvas saves is a graph, drawn by its longest paths; which edges share an id |

**Bounds.** `MaxCrashes`, `MaxFaults`: one of each suffices to reach every await
with and without a fault before it, since a second fault only repeats what a
resumed run does from rows a first one can already leave. `MaxCrashes` must not
exceed `MaxStalled` for `NoLostWakeup` and `Settles`: BullMQ gives up a job
whose worker has died twice, and the execution is then stranded. `MaxRequests`
is two because a second approval request for a node exists only after an
overlap, and the latest one decides. Time is cut off behind the last instant
the system has recorded (`Instants`), durations are one tick. The waits of
`engine_overlap` lie on two branches of a condition because one run cannot hold
two waits and an approval behind each other within minutes; its second wait is
reached at an instant of its own, which is what tells a duration from an instant
counted from the start. No call fails there; what a failed call does beside
overlapping runners is left to the theorems, which allow any number. A death between a pause and its timer
(`executor.ts:172`) happens there, not in `engine_crash`, whose graph has no
wait; that it strands nothing is proved (`OneLoopWakes`, `WakeupUnderLock`). The retry bounds
2 and 1 of the invoice graph make a retried and an unretried call. Two editors
are the smallest race; the theorems cover any number. Two checkouts are what an
event of an old subscription needs to disturb a new one, and four events let the
old one be paid, cancelled and the new one be paid and charged. In `Metering`
two requests reach the bound with equality, and the second month meets requests
begun in the first; plans, workflows and lost records are bounded because they
only shift the bound. In `Credentials` two revocations and two loops are the
smallest race of each kind, and three tokens let both loops refresh once. In
`Organizations` the clock runs long enough for two requests to slide a session
from different instants, in either order, and for sessions and invitations to
expire; `Ttl - Threshold` is exactly `MaxLag`, the least the theorem assumes.
Two requests and one death reach the bound of `JoinsAreBounded`: two accepts side
by side after one that died before its mark.

The browser of `WorkflowEditor` sends a save or a run, not both: the two touch
only through versions, which the other editor publishes as well. It opens a
workflow only after its install has ended: before, there is hardly a version to
show. In `Casts` either two tabs and two callbacks race
for the cookie, or one consent's account lives on with two revocations and two
loops; the theorems cover all of it at once. In `ExecutionView` a tab stays on
its page and decides once, workers do not crash, a failed poll of the execution
is one that comes later, and the list is not polled while nothing has changed,
except beside a decision, where an old answer or a failed one could do harm.
Since the loops of `engine_solo` do not overlap, no terminal status is left
there once it is written, so `PageSettles` says nothing of a page that has seen
one of the statuses that `engine_lock` shows being overwritten: that page has
stopped polling, and is wrong until something else makes it fetch. Where two systems share a run
(requests and canvas, usage and window) a behaviour moves one of them: they
share no state. Three edits are what adding a node, deleting it and adding
another takes; the five graphs hold a line, a fork with both branches on one
node, gaps in the numbers, no edges, and ids that read alike when joined ("a",
"b-c", "a-b" and "c"), and edits make cycles of them. Nine
ticks are three windows, so that entries are dropped twice.

**Fairness.** Worker loops poll and handlers run on (`WF` of each slot's step,
of the commit of a decision in flight, of the enqueue after it); time passes.
There is none on `BeginResolve` (no human has to answer), on crashes or on
faults. `Settles` therefore ends at a human who *can* still answer, at a
terminal status, or at a failed call. In `WorkflowVersions` each begun request
runs on and Postgres grants a free lock; in `WorkflowEditor` GETs are answered
and answers are taken in, but no button has to be pressed. In `ExecutionView`
polls go on, by their timers, and a decision that was sent is carried through.

## 4. Proofs

TLC checks the instances above; TLAPS proves the following for every
definition that satisfies `DefinitionAssumption`, any number of loops,
processes and requests, and every bound.

*`WorkflowEngine_proofs`*, no assumption about overlap:

- `TypeCorrect`.
- `DecisionsAreFinal`, an action property, from `TypeOK`.
- `GateHolds` (`ApprovalGate`). Not inductive alone: an outcome that was read
  is recorded later. `GateInFlight` adds that a slot about to record a success
  of an approval node holds a branch some request was resolved to; it stays
  true because decisions are final.
- `ResumesFollowDecisions` (`ResumeFollowsDecision`). A crash puts the job a
  slot holds back into the queue, so the invariant also speaks of the jobs in
  the slots' memory.
- `WaitsElapse` (`WaitElapses`): a wait node, the first one or
  a later one, is first done no sooner than its duration after some node in front
  of it was. The invariant (`WaitInv`) says of every record, every copy of one
  and every slot that it is about the trigger or about a node behind one that is
  done (`Reached`), that every recorded or remembered resume time is a whole
  duration after such a node (`LateEnough`), and that a success in flight was
  decided when that time had come; a node's first instant never changes, so all
  this stays true as the history grows (`StillTrue`).
- `ViewImplementsEngine`: `ViewSpec` implies `Spec`, since every step of a tab is
  a step of the engine or leaves its variables alone. All theorems here and in
  `WorkflowEngineLock_proofs` therefore hold of a watched execution.
- `DecisionsShow` (`AcceptedDecisionShows`). The invariant says that once the
  UPDATE of this browser's decision has matched, the request holds it
  (`DecisionMade`), that lists and answers on their way name existing requests
  (`ListsRequests`), and that an answer which was read after the polls under way
  were dropped does not contain the request (`ListedNoMore`). The list follows
  it unless the refetch failed; section 5 says what the user then sees.

*`WorkflowEngineLock_proofs`*, under `[]NoOverlap` (at most one busy slot):

- `NoReexecutionUnderLock`, `PathUnderLock`, `TerminalUnderLock`, and
  `RefinementUnderLock` (`ImplementsRun`: every step is a step of `WorkflowRun`
  or a stutter). The invariant relates the busy slot's memory to the rows: what
  it remembers of the steps is what is recorded, the nodes with a record form a
  path from the trigger, and the slot stands at the end of that path.
- `OneLoopSuffices`: with a single loop the premise holds, so the four results
  hold of the specification itself. With more loops the premise is exactly what
  the lock of the architecture documents would provide; `engine_lock` shows
  that the code does not.
- `WakeupUnderLock` (`NoLostWakeup`), if `MaxCrashes <= MaxStalled` and no
  approval expires, and `OneLoopWakes`, which needs no lock. Both hypotheses are
  those under which the property is true: BullMQ gives up a job that has stalled
  too often, and an approval that expires is answered by nobody (section 5, 4).
  The invariant (`WakeInv`) counts how often a job in flight has stalled against
  the crashes so far (`StallsCounted`), and says of a slot that is about to
  pause for a human that the request it asked for is the latest one and pending,
  or that a job is coming (`HumanAsked`). The instance of `engine_crash` meets
  these hypotheses.
- `OrderIsALock` (`NoOverlap`): why the code gets by without a lock as long as
  it does. If no worker crashes, one loop takes the run jobs, and no approval
  comes behind a wait (`NoApprovalBehindWaits`), then the order of enqueues and
  timers keeps the loops apart, whatever calls fail. The invariant (`SoloInv`)
  says that all that could start a run, jobs, decisions in flight and busy
  slots, is one trace (`OneTrace`), that before the first timer it is only in the
  run loop (`BeforeTimers`), and that from then on the run stays behind waits,
  where nobody is asked (`AfterTimers`). The nodes behind waits are a set closed
  under edges that contains the successors of waits and no approval; in
  `engine_solo` it is `{3, 4}`. `engine_lock` shows what happens otherwise.
- `OrderSuffices` (the four results of the lock) and `OrderWakes`
  (`NoLostWakeup`, if no approval expires) follow.
- `OrderKeepsData` (`BranchMatchesData`), under the same hypotheses and
  `ReadsWhatRan`: each expression reads nodes that every path to it has run. The
  context lags behind the step records only while a slot is about to save it, or
  after that save has failed, and then nothing runs the execution again
  (`DataInv`); `engine_context` shows that a crash there is what breaks it. In `engine_solo` the sets of `ReadsWhatRan` are the nodes
  before each node.

*`WorkflowEditor_proofs`*, the versions: `HistoryLinear`, `PinsFresh`,
`ProjectionsComplete`, `VersionsAreARegister`. An editor past its UPDATE either
holds the lock of the current row, so that nobody else can commit, or a row with
its number exists, so that its INSERT is refused (`Inserts`). From that, a commit always appends the successor of the current
version. Numbers are counted from 1 without gaps in the form "every number up
to a taken one is taken", which is inductive without counting. The projection
of a version is written by its own request only, so where that request stands
says how much of it is there (`Projected`). `VersionsAreARegister`
(`ImplementsRegister`) maps the rows to `VersionRegister`: the register holds
the one current row, a `Commit` replaces the version its editor has read
although nobody compares the two (its number is free, so that nothing has come
after what it read), an INSERT that is refused is a publish whose base has been
replaced, and every other statement changes nothing one can see.

The browser: `EditorImplementsVersions`, since a browser only
delays the start of the request it sends. `RequestsForward`
(`RequestsGoForward`) relates every version the browser holds: an answer on its
way is not older than what is shown, the cache is not older than the canvas, and
a request that is sent starts its transaction after the versions it was made
from were committed. It holds because GETs read one at a time and are taken in
before the next one is sent. `SavesVisible` (`SavesShowUp`) rests on the refetch
that a save waits for being asked after the commit of its version (`Waits`,
`Refetched`); it is the step that drops the older fetch that makes it so.

*`WorkflowCanvas_proofs`*, for every set of accepted definitions, every number of
edits and nodes: `EditorKeepsGraph` (`EditsKeepGraph`) needs to know besides that
every edge has the id of its ends, numbered when it came with the definition and
drawn when it came from a hand (`EdgesNamed`), that numbered ids differ and no
two edges join the same two nodes by hand (`EdgesApart`), and that a free number
exists among as many as there are nodes and one (`FreshIdUnused`, a pigeonhole
argument). Ids are concatenations and may coincide; what is proved is that equal
ids of two edges are of drawn edges whose sources differ in length
(`DrawnApart`), and that no node's id is given twice.
`CanvasLaidOut` (`LayoutFollowsPaths`) is a proof of the algorithm. After `i`
passes there is a set of more than `i` nodes, or of all, that contains the
predecessors of its members and on which depths are settled: below all
predecessors and smaller than the set (`SettledAfter`). The next pass leaves it
alone, push by push (`Pushing`), and settles every node whose predecessors are
all in it, of which an acyclic graph has one (`OnePass`); there are only as many
nodes as passes. No push ever puts a node more than one below a predecessor
(`Supported`). Two nodes of a row stand apart because of two nested sets of
nodes to their left one is larger (`IndicesDiffer`). These are inductions: the
induction rules of the library cannot be instantiated here, but its theorem that
the subsets of a finite set are well-founded can, and `Least`, `Induction` and
`Recursion` derive from it that numbers have a least element, that induction
over `0 .. N` is sound and that recursive functions over `0 .. N` exist.

*`Subscriptions_proofs`*: `PaidPlans` (`PlanWasPaid`) rests on the events in the
log naming subscriptions that were paid for, which nothing takes back.
`CancelledRows` (`CancelledIsFree`) holds step by step: the only UPDATE that
writes `cancelled` also writes the free plan, and the only one that writes
another plan writes `active`, so no interleaving separates them.
`RowFollowsGateway` (`FollowsGateway`) follows every event from the log to the
row: while deliveries are in turn, the row is what the answered part of the log
amounts to, and a handler under way is about to make it so for one event more.

*`Metering_proofs`*: `Overshoot`, `Launches` and `Spend`. The invariant counts
the requests of a quota that have read their usage and not yet recorded theirs:
usage and that number together stay below the highest limit plus the number of
requests. `Spend` bounds what is recorded of AI calls in the same way, with one
`MaxCost` for every loop that holds an answer, and `Budget` (`BudgetHolds`) what
the provider charges: whatever is charged and not recorded is the answer of a
call under way, or was lost with a failed call or a failed record
(`ChargesAreOwed`; amounts are
counted as sets, one element per call and unit, where the provers have no sums).
With a plan that is unlimited in workflows, as the code has one, that half of
`OvershootIsBounded` asks nothing of the run; the theorem is about any plans.
`LimiterWindow` (`WindowHolds`): what was dropped from the entries is older than
any window that is still to be checked (`EntriesKept`), so all entries of a
window are there when its last one is admitted or refused.

*`Credentials_proofs`*: `Revocations` (`RevokedIsClean`) rests on the order of
the statements: the reference is written after the secret and deleted after it,
so without a reference there is no secret, unless an API without the key dropped
the reference alone (`skipped`), and an UPDATE of a deleted row writes nothing. `Refreshes` (`ActiveIsUsable`) rests on the freshest token of a
provider that rotates being in one pair of hands: a loop that spends the stored
token is the only one to have its successor. `AuthorizationImplementsCredentials`
carries both over to accounts that were authorized: the callbacks race for the
code, and the one that wins is the only connect. `AccountsFromConsents`
(`AccountsFollowConsents`) rests on a callback getting past its checks only with
the cookie of its own authorization, and on the provider redeeming a code once
(`RedeemedOnce`): the code's own check lets two callbacks of one consent
through. `RefusalsCaused` (`RefusalsHaveACause`) needs to know where a missing
cookie went: while only one authorization was started and one callback of it was
sent, nobody else has cleared or replaced it (`Missing`).

*`Organizations_proofs`*, for any lifetimes with `Threshold + MaxLag <= Ttl`:
`Sliding` (`SlidesEnough`: who was let in stays in, as far as the row goes; the
browser drops the cookie itself `Ttl` after the login, section 5), since an
UPDATE is at most `MaxLag` older than the use it overtakes; `Membership` (`ActiveIsMember`), since a request between its
check or INSERT and its UPDATE of the session keeps its session's row
(`SessionIsHeld`) and its user's role; `Ownership` (`OwnerStays`), since at most
one request is between the two INSERTs of a creation; `Admissions`
(`JoinsAreBounded`). The last is not inductive alone: until an invitation is
marked, its joins are counted by the requests that are joining or died, from
then on by those that had found it open before (`JoinsAreCounted`), which are
disjoint sets of requests at the moment of the first mark.

**Only model-checked:** what needs fairness (`Settles`, `PageSettles`,
`RequestsEnd`, `MutationsEnd`, and the refutations of `RunsEnd` and
`ExpiryHappens`); liveness is out of the prover's reach. Every invariant and
action property of a passing run is stated by a theorem; `NoLostWakeup`,
`NoOverlap` and `BranchMatchesData` under the hypotheses named above, which the
instances of their runs satisfy and without which they are false, as
`engine_lock` and `engine_context` show of two of them.

## 5. Disagreements found

1. **No lock per execution** (`engine_lock`). The documents promise one; the
   code reads the status, and later writes it unconditionally. The run that
   asks for an approval makes it resolvable before it pauses, so a quick
   decision starts a second runner in the other loop of the same process, and
   one overwrites the terminal status the other has written.
2. **A crash loses an output** (`engine_context`). The step record and the
   context snapshot are two writes. After a crash between them the step is
   reused, its output is not, and a later condition decides on missing data.
3. **A cycle never ends** (`engine_cycle`). The schema accepts it, and a step
   that succeeded is reused without an await, so the process is blocked.
4. **Approvals do not expire** (`engine_expiry`). The handler exists, nothing
   enqueues its job, and the request can then not be resolved either.
5. **The AI budget is not a hard cap.** `gateway.ts:45` calls it "Hard monthly
   cap", `docs/security/SECURITY_MODEL.md:19` "cap duro". The spend is read
   before a call and recorded after it, so calls under way pass it together, and
   calls that were charged and failed (a timeout, an answer that is no JSON) are
   recorded at no cost and never count. `BudgetHolds` (`metering`) is the bound
   that is left; a cap of zero or less is none at all.
6. **Rows of the drawing.** `workflow-graph.tsx:86` explains a node's row as
   "depth = longest path from the trigger". The code starts in row 0 with every
   node that nothing leads to, whether or not it is the trigger, and the editor
   and the schema allow others. With edges `action-3` to `condition-1` to
   `action-1` and the trigger to `action-1` (in `versions` one graph is three
   edits away from it), `action-1` is drawn in row 2, where the comment says 1.
   `LayoutFollowsPaths` states what the code does.

Three windows are less than a disagreement but worth knowing, because the
properties have to name them as premises. `RevokedIsClean` holds only of a
connect that was answered: a revocation may overtake the last INSERT of the
connect, or follow a connect that died, and then leaves the secret behind. It
also excepts an API started without `CONNECTOR_SECRETS_KEY`
(`connectors/routes.ts:427`): there a revocation deletes the only reference to
the secret, keeps the secret, and reports the account as revoked.
`ActiveIsUsable` excepts a loop that dies between a rotating refresh and its
UPDATE, which leaves a spent token stored. `JoinsAreBounded` is weaker than the
single use that `docs/product/BACKLOG.md` claims for invitations ("un solo
uso"): requests that accept side by side are all admitted.

More of the same kind, from the web application and the limiter:

- A PUT carries no base version. An editor that opens over a cached copy is
  filled from it, and not again when a newer one arrives, while name and
  variables come from the newer one: the last writer wins with a mixture.
  `RequestsGoForward` says how far back that can reach.
- A refetch that fails after a decision was accepted is swallowed
  (`hooks.ts:210`), and the page of approvals shows no error of a list it already
  has: the decided request stays there with its buttons enabled, and pressing one
  is answered with a conflict, until a poll succeeds.
- Two edges drawn by hand can share an id: React Flow joins `source` and
  `target` with a hyphen, and node ids of a definition may contain hyphens. The
  panel of the editor finds edges by id, so it relabels or deletes both.
- The session row slides, the cookie does not: its `expires` (`auth.ts:71`) is
  set at login and never sent again, so that a browser in daily use is logged
  out after seven days although its row is valid.
- A save that dies after its commit is reported as an error, with its version
  published and perhaps half projected.
- The answer of a callback clears the cookie even if another tab has set a new
  one, whose consent is then refused (`RefusalsHaveACause`); and the cookie is
  cleared only with the answer, so that two callbacks of one consent both pass
  the checks and only the provider's single-use code keeps them at one account.
- The editor's default configurations (`edit/page.tsx:42`) name fields that the
  engine does not read: `timeoutHours`, `seconds` and `template`, where
  `executor.ts` reads `expiresInHours`, `durationSeconds` and `promptTemplate`.
- The limiter keeps its window per process and forgets it on a restart, so
  `WindowHolds` is a statement about one process that lives.
- The final record of a step carries `existing.attempt + 1`
  (`executor.ts:203`), which need not be the attempt that ended it.

## 6. What is not modelled

The catalog's queries, configuration, logging, the schema's migrations and the
UI kit: they keep no state that anything here depends on. Of the web
application, the dashboard, billing and sign-in pages, the forms that create a
workflow or connect an API key (one request each, modelled at the API), what is
typed into a node's configuration, and where nodes are dragged to.

Logs and audit rows (only their failure between two writes), formatting,
expression syntax and interpolation (only which outputs are read), HTTP,
passwords, signatures of cookies and of the OAuth state and PKCE (a forged one is
not considered), roles outside
`Organizations` (a resolve request stands for one that is allowed), the
effects of connectors outside the system (calls are repeated after a crash; the
code passes no idempotency key). A worker that is alive but so slow that BullMQ
takes its job for stalled would be one more way to overlap; the overlap it
causes is the one `engine_overlap` and the first group of theorems already
allow. `cancelled` and `skipped` are statuses nothing writes. The in-memory
queue and store are test doubles.

## 7. Plan

Done: the engine, its queue and approvals, watched from a browser; the version
history with the editor in front of it; subscriptions and their webhooks; plan
limits, the AI budget and the rate limiter; accounts, their authorization and
their credentials; sessions, organizations and invitations.

Worth doing next, in order of what the system depends on most:

1. How far the members of an organization overshoot their limit, which is
   checked when inviting and not when accepting.
2. Two browsers in `WorkflowEditor`, each with a cache of its own; the theorems
   speak of one browser among any number of other requests.
