-------------------------- MODULE WorkflowVersions --------------------------
(***************************************************************************)
(* The versions of one installed workflow: the request that installs it,   *)
(* requests that publish new versions (createWorkflowVersion of            *)
(* apps/api/src/modules/workflows/service.ts) and requests that trigger an *)
(* execution, which pins the current version.                              *)
(*                                                                         *)
(* Every SQL statement is a step.  The UPDATE and the INSERT of a publish  *)
(* run in one READ COMMITTED transaction: what they wrote is visible to    *)
(* others only after the commit, an UPDATE takes the lock of the row its   *)
(* snapshot found and looks at the row again once it has the lock, and an  *)
(* INSERT that violates one of the two unique indexes rolls back.          *)
(***************************************************************************)
EXTENDS Naturals

CONSTANTS
  Installer,  \* the request that installs the workflow
  Editors,    \* requests that publish a version (PUT /workflows/:id)
  Triggers,   \* requests that trigger an execution
  NoRow,      \* no version
  MaxFaults   \* bound: requests that fail half-way

(* A version row is named after the request that writes it. *)
Writers == {Installer} \union Editors
Requests == Writers \union Triggers

ASSUME VersionsAssumption ==
  /\ Installer \notin Editors \union Triggers
  /\ Editors \intersect Triggers = {}
  /\ NoRow \notin Requests
  /\ MaxFaults \in Nat

VARIABLES
  installed,   \* the installed_workflows row exists
  row,         \* committed workflow_versions rows; number 0 is no row
  projection,  \* which of workflow_nodes and workflow_edges a version has
  pc,          \* the next statement of each request
  seen,        \* the version getCurrentVersion returned to a request
  target,      \* the row the UPDATE of an editor has found
  cleared,     \* rows an open transaction has locked and marked not current
  pinned,      \* the version of the execution a trigger has inserted
  known,       \* history: the version numbers current when a trigger began
  faults

tables == <<installed, row, projection>>
vars == <<tables, pc, seen, target, cleared, pinned, known, faults>>

Rebuilding == {"dropNodes", "dropEdges", "addNodes", "addEdges"}
Ended == {"done", "conflict", "failed"}
Labels == {"start", "read", "update", "lock", "insert", "commit"} \union Rebuilding \union Ended

Versions == [number : Nat, current : BOOLEAN]

TypeOK ==
  /\ installed \in BOOLEAN
  /\ row \in [Writers -> Versions]
  /\ projection \in [Writers -> SUBSET {"nodes", "edges"}]
  /\ pc \in [Requests -> Labels]
  /\ seen \in [Requests -> Writers \union {NoRow}]
  /\ target \in [Editors -> Writers \union {NoRow}]
  /\ cleared \in [Editors -> SUBSET Writers]
  /\ pinned \in [Triggers -> Writers \union {NoRow}]
  /\ known \in [Triggers -> SUBSET Nat]
  /\ faults \in Nat

Init ==
  /\ installed = FALSE
  /\ row = [w \in Writers |-> [number |-> 0, current |-> FALSE]]
  /\ projection = [w \in Writers |-> {}]
  /\ pc = [r \in Requests |-> "start"]
  /\ seen = [r \in Requests |-> NoRow]
  /\ target = [e \in Editors |-> NoRow]
  /\ cleared = [e \in Editors |-> {}]
  /\ pinned = [t \in Triggers |-> NoRow]
  /\ known = [t \in Triggers |-> {}]
  /\ faults = 0

-----------------------------------------------------------------------------
Goto(r, label) == pc' = [pc EXCEPT ![r] = label]

Rows == {w \in Writers : row[w].number > 0}

(* Mutant: WHERE without is_current. *)
AllRows == Rows

CurrentRows == {w \in Rows : row[w].current}

(* createInstalledWorkflow: the workflow row, then its version 1, each in  *)
(* a transaction of its own.                                               *)
InsertWorkflow ==
  /\ pc[Installer] = "start"
  /\ installed' = TRUE
  /\ Goto(Installer, "insert")
  /\ UNCHANGED <<row, projection, seen, target, cleared, pinned, known, faults>>

InsertFirstVersion ==
  /\ pc[Installer] = "insert"
  /\ row' = [row EXCEPT ![Installer] = [number |-> 1, current |-> TRUE]]
  /\ Goto(Installer, "dropNodes")
  /\ UNCHANGED <<installed, projection, seen, target, cleared, pinned, known, faults>>

(* A request for the workflow passes getInstalledWorkflow. *)
Begin(r) ==
  /\ r # Installer
  /\ pc[r] = "start"
  /\ installed
  /\ Goto(r, "read")
  /\ known' = [t \in Triggers |->
                 IF t = r THEN {row[w].number : w \in CurrentRows} ELSE known[t]]
  /\ UNCHANGED <<tables, seen, target, cleared, pinned, faults>>

GetCurrentVersion(r) ==
  /\ pc[r] = "read"
  /\ \/ /\ \E w \in CurrentRows : seen' = [seen EXCEPT ![r] = w]
        /\ Goto(r, IF r \in Editors THEN "update" ELSE "insert")
     \/ /\ CurrentRows = {}
        /\ Goto(r, "failed")
        /\ UNCHANGED seen
  /\ UNCHANGED <<tables, target, cleared, pinned, known, faults>>

-----------------------------------------------------------------------------
(* The publishing transaction. *)

(* The snapshot of UPDATE ... SET is_current = false WHERE is_current. *)
FindCurrent(e) ==
  /\ pc[e] = "update"
  /\ \E w \in CurrentRows : target' = [target EXCEPT ![e] = w]
  /\ Goto(e, "lock")
  /\ UNCHANGED <<tables, seen, cleared, pinned, known, faults>>

Unlocked(w) == \A e \in Editors : w \notin cleared[e]

(* Mutants: the statements run outside a transaction; no UPDATE at all. *)
ClearAtOnce(e) ==
  /\ pc[e] = "lock"
  /\ row' = [row EXCEPT ![target[e]].current = FALSE]
  /\ Goto(e, "insert")
  /\ UNCHANGED <<installed, projection, seen, target, cleared, pinned, known, faults>>
ClearNothing(e) ==
  /\ pc[e] = "lock"
  /\ Goto(e, "insert")
  /\ UNCHANGED <<tables, seen, target, cleared, pinned, known, faults>>

(* The UPDATE waits for the row's lock.  A row that is not current any     *)
(* more by then is left alone.                                             *)
ClearCurrent(e) ==
  /\ pc[e] = "lock"
  /\ Unlocked(target[e])
  /\ cleared' = [cleared EXCEPT ![e] = {target[e]} \intersect CurrentRows]
  /\ Goto(e, "insert")
  /\ UNCHANGED <<tables, seen, target, pinned, known, faults>>

NextNumber(e) == row[seen[e]].number + 1

(* One of the unique indexes (installation, version) and (installation)    *)
(* WHERE is_current refuses the row.                                       *)
Refused(e) ==
  \/ \E w \in Rows : row[w].number = NextNumber(e)
  \/ CurrentRows \ cleared[e] # {}

(* Mutant: the failed transaction is left open. *)
LeaveOpen(r) == UNCHANGED cleared

Rollback(r) == cleared' = [e \in Editors |-> IF e = r THEN {} ELSE cleared[e]]

InsertVersion(e) ==
  /\ e \in Editors
  /\ pc[e] = "insert"
  /\ \/ /\ Refused(e)
        /\ Rollback(e)
        /\ Goto(e, "conflict")
     \/ /\ ~Refused(e)
        /\ \A f \in Editors : pc[f] # "commit"
        /\ Goto(e, "commit")
        /\ UNCHANGED cleared
  /\ UNCHANGED <<tables, seen, target, pinned, known, faults>>

Commit(e) ==
  /\ pc[e] = "commit"
  /\ row' = [w \in Writers |->
               IF w = e THEN [number |-> NextNumber(e), current |-> TRUE]
               ELSE [row[w] EXCEPT !.current = @ /\ w \notin cleared[e]]]
  /\ cleared' = [cleared EXCEPT ![e] = {}]
  /\ Goto(e, "dropNodes")
  /\ UNCHANGED <<installed, projection, seen, target, pinned, known, faults>>

-----------------------------------------------------------------------------
(* regenerateProjection: four statements after the commit. *)

(* Mutant: the deletes come last. *)
DeletesLast(label) ==
  CASE label = "dropNodes" -> "dropEdges"
    [] label = "addNodes" -> "addEdges"
    [] label = "addEdges" -> "done"
    [] label = "dropEdges" -> "done"

NextStatement(label) ==
  CASE label = "dropNodes" -> "dropEdges"
    [] label = "dropEdges" -> "addNodes"
    [] label = "addNodes" -> "addEdges"
    [] label = "addEdges" -> "done"

RegenerateProjection(w) ==
  /\ pc[w] \in Rebuilding
  /\ projection' =
       [projection EXCEPT ![w] =
          CASE pc[w] = "dropNodes" -> @ \ {"nodes"}
            [] pc[w] = "dropEdges" -> @ \ {"edges"}
            [] pc[w] = "addNodes" -> @ \union {"nodes"}
            [] pc[w] = "addEdges" -> @ \union {"edges"}]
  /\ Goto(w, NextStatement(pc[w]))
  /\ UNCHANGED <<installed, row, seen, target, cleared, pinned, known, faults>>

(* The trigger handler inserts the execution with the version it has read; *)
(* WorkflowEngine goes on from here.                                       *)
InsertExecution(t) ==
  /\ t \in Triggers
  /\ pc[t] = "insert"
  /\ pinned' = [pinned EXCEPT ![t] = seen[t]]
  /\ Goto(t, "done")
  /\ UNCHANGED <<tables, seen, target, cleared, known, faults>>

(* The process dies or a statement fails; an open transaction rolls back. *)
Fail(r) ==
  /\ faults < MaxFaults
  /\ pc[r] \notin Ended \union {"start"}
  /\ Rollback(r)
  /\ Goto(r, "failed")
  /\ faults' = faults + 1
  /\ UNCHANGED <<tables, seen, target, pinned, known>>

Publish(e) ==
  \/ FindCurrent(e)
  \/ ClearCurrent(e)
  \/ InsertVersion(e)
  \/ Commit(e)

(* POST /workflows/install, and POST /workflows with a definition in JSON. *)
Install == InsertWorkflow \/ InsertFirstVersion

Handle(r) ==
  \/ r = Installer /\ Install
  \/ Begin(r)
  \/ GetCurrentVersion(r)
  \/ r \in Editors /\ Publish(r)
  \/ r \in Writers /\ RegenerateProjection(r)
  \/ InsertExecution(r)

Next == \E r \in Requests : Handle(r) \/ Fail(r)

Spec == Init /\ [][Next]_vars

(* A handler that has begun keeps running, and Postgres grants a free lock. *)
FairSpec == Spec /\ \A r \in Requests : WF_vars(Handle(r))

-----------------------------------------------------------------------------
(* Committed versions are numbered 1, 2, ... without gaps or repetitions,  *)
(* and the latest one, and no other, is current ("flips is_current         *)
(* atomically"), whatever publishes race and wherever one of them dies.    *)
UniqueNumbers == \A v, w \in Rows : row[v].number = row[w].number => v = w
NoGaps == \A w \in Rows : \A n \in 1 .. row[w].number : \E v \in Rows : row[v].number = n
CurrentIsLatest ==
  \A w \in Rows : row[w].current <=> \A v \in Rows : row[v].number <= row[w].number
SomeCurrent == Rows # {} => CurrentRows # {}

HistoryIsLinear == UniqueNumbers /\ NoGaps /\ CurrentIsLatest /\ SomeCurrent

(* An execution never runs a version older than one that was current when  *)
(* its trigger request arrived.                                            *)
PinsAreFresh ==
  \A t \in Triggers : pinned[t] # NoRow =>
    \A n \in known[t] : n <= row[pinned[t]].number

(* Racing publishes, whatever their statements interleave with and         *)
(* wherever one of them dies, act on the current version like single       *)
(* steps: a publish replaces the very version it has read, a refused one   *)
(* has lost to another that replaced it first, so that some editor always  *)
(* wins, and an execution runs the version its trigger has read.           *)
Register == INSTANCE VersionRegister WITH
  latest <- IF CurrentRows = {} THEN NoRow ELSE CHOOSE w \in CurrentRows : TRUE,
  number <- [w \in Writers |-> row[w].number],
  base <- seen,
  refused <- {e \in Editors : pc[e] = "conflict"},
  runs <- pinned

ImplementsRegister == Register!RegisterSpec

(* Unless a request failed half-way, the editor's projection of every      *)
(* version is complete once its writer has answered.                       *)
ProjectionFollows ==
  faults = 0 =>
    \A w \in Rows : pc[w] \in Rebuilding \/ projection[w] = {"nodes", "edges"}

(* No publish waits for a lock for ever: again and again every request    *)
(* that has begun has its answer, even if one dies in its transaction.     *)
RequestsEnd == []<>(\A r \in Requests : pc[r] \in {"start"} \union Ended)
=============================================================================
