--------------------------- MODULE WorkflowEditor ---------------------------
(***************************************************************************)
(* One browser on the pages of an installed workflow, beside the requests  *)
(* of WorkflowVersions: the detail page and the visual editor of apps/web, *)
(* the query cache they share (useWorkflow of lib/hooks.ts) and the        *)
(* mutations of their buttons (useUpdateWorkflow, useRunWorkflow).  GET    *)
(* /workflows/:id is answered in one step and arrives in a later one, so   *)
(* what a page shows may be old.                                           *)
(*                                                                         *)
(* A definition is named after the version it comes from.  The canvas is   *)
(* filled once, from the data the cache holds then; what a save sends is   *)
(* the canvas' nodes and edges under the name and the variables of the     *)
(* data the cache holds when the button is pressed.                        *)
(***************************************************************************)
EXTENDS WorkflowVersions

CONSTANTS
  Save,  \* the PUT of this browser
  Run    \* its trigger; the browser sends one of the two (a bound)

ASSUME EditorAssumption == Save \in Editors /\ Run \in Triggers

VARIABLES
  page,      \* the page that is mounted
  cache,     \* workflow.data: the version it came from
  broken,    \* workflow.error: the last fetch failed
  fetch,     \* the query's fetch: none, waiting, or its answer on the way
  canvas,    \* the version the canvas was filled from, NoRow before
  request,   \* the request the browser has sent, NoRow before
  mutation,  \* how far the mutation that sent it is
  mine,      \* the page that started it has not been left
  draft      \* history: the versions the request was made from

browser == <<page, cache, broken, fetch, canvas, request, mutation, mine, draft>>
editorVars == <<vars, browser>>

Pages == {"elsewhere", "detail", "editor"}
Idle == [at |-> "idle", got |-> NoRow]
Asked == [at |-> "asked", got |-> NoRow]
Answered(v) == [at |-> "answered", got |-> v]
NoDraft == [nodes |-> NoRow, base |-> NoRow]

EditorTypeOK ==
  /\ page \in Pages
  /\ cache \in Writers \union {NoRow}
  /\ broken \in BOOLEAN
  /\ fetch \in [at : {"idle", "asked", "answered"}, got : Writers \union {NoRow}]
  /\ canvas \in Writers \union {NoRow}
  /\ request \in {Save, Run, NoRow}
  /\ mutation \in {"idle", "pending", "refetching", "settled"}
  /\ mine \in BOOLEAN
  /\ draft \in [nodes : Writers \union {NoRow}, base : Writers \union {NoRow}]

EditorInit ==
  /\ Init
  /\ page = "elsewhere" /\ cache = NoRow /\ broken = FALSE /\ fetch = Idle
  /\ canvas = NoRow /\ request = NoRow /\ mutation = "idle"
  /\ mine = FALSE /\ draft = NoDraft

-----------------------------------------------------------------------------
(* The pages. *)

(* useWorkflow asks when a page mounts (nothing stays fresh), unless an    *)
(* answer is awaited already.                                              *)
Ask == fetch' = IF fetch = Idle THEN Asked ELSE fetch

(* An editor that mounts fills its canvas at once from data that is cached *)
(* already, however old.                                                   *)
Mount(p) ==
  /\ page' = p
  /\ canvas' = IF p = "editor" THEN cache ELSE NoRow

(* The callbacks of a page that has been left are not called any more. *)
Abandon == mine' = (mine /\ mutation = "settled")

(* The catalog and the form for a definition in JSON go to the page of     *)
(* what they have installed.                                               *)
OpenInstalled == pc[Installer] = "done" /\ Mount("detail")

(* The list shows a workflow that is inserted, even if its install failed  *)
(* and it has no version; the editor may be opened by its address.  While  *)
(* the install goes on nobody looks (a bound).                             *)
OpenListed == installed /\ pc[Installer] \in Ended /\ \E p \in {"detail", "editor"} : Mount(p)

Open ==
  /\ page = "elsewhere"
  /\ OpenInstalled \/ OpenListed
  /\ Ask
  /\ UNCHANGED <<vars, cache, broken, request, mutation, mine, draft>>

Leave ==
  /\ page # "elsewhere"
  /\ Mount("elsewhere")
  /\ Abandon
  /\ UNCHANGED <<vars, cache, broken, fetch, request, mutation, draft>>

Shown == cache # NoRow /\ ~broken

(* "Editar", and "Cancelar", which stays enabled while a save is pending.  *)
Switch ==
  /\ Shown
  /\ \/ page = "detail" /\ Mount("editor")
     \/ page = "editor" /\ Mount("detail")
  /\ Ask
  /\ Abandon
  /\ UNCHANGED <<vars, cache, broken, request, mutation, draft>>

(* The network comes back. *)
Reconnect ==
  /\ page # "elsewhere"
  /\ fetch = Idle
  /\ Ask
  /\ UNCHANGED <<vars, page, cache, broken, canvas, request, mutation, mine, draft>>

-----------------------------------------------------------------------------
(* The query. *)

(* GET /workflows/:workflowId, at the server; NoRow is an error. *)
Answer ==
  /\ fetch = Asked
  /\ \E v \in CurrentRows \union {NoRow} : fetch' = Answered(v)
  /\ UNCHANGED <<vars, page, cache, broken, canvas, request, mutation, mine, draft>>

Filled(v) == IF page = "editor" /\ canvas = NoRow THEN v ELSE canvas

(* The answer reaches the cache.  A save that waited for it is settled     *)
(* then, and its editor, if still there, gives way to the detail page.     *)
Land ==
  /\ fetch.at = "answered"
  /\ broken' = (fetch.got = NoRow)
  /\ cache' = IF fetch.got = NoRow THEN cache ELSE fetch.got
  /\ mutation' = IF mutation = "refetching" THEN "settled" ELSE mutation
  /\ \/ /\ mutation = "refetching" /\ mine
        /\ page' = "detail" /\ canvas' = NoRow /\ fetch' = Asked
     \/ /\ ~(mutation = "refetching" /\ mine)
        /\ page' = page /\ canvas' = Filled(cache') /\ fetch' = Idle
  /\ UNCHANGED <<vars, request, mine, draft>>

-----------------------------------------------------------------------------
(* The mutations. *)

Send(r, d) ==
  /\ request = NoRow
  /\ Shown
  /\ request' = r
  /\ mutation' = "pending"
  /\ mine' = TRUE
  /\ draft' = d

(* Mutant: nodes and edges from the cache, the rest from the canvas. *)
Swapped == [nodes |-> cache, base |-> canvas]

(* buildDefinition(workflow.data.definition, nodes, edges) *)
Built == [nodes |-> canvas, base |-> cache]

PressSave ==
  /\ page = "editor"
  /\ canvas # NoRow
  /\ Send(Save, Built)
  /\ UNCHANGED <<vars, page, cache, broken, fetch, canvas>>

PressRun ==
  /\ page = "detail"
  /\ Send(Run, [nodes |-> cache, base |-> cache])
  /\ UNCHANGED <<vars, page, cache, broken, fetch, canvas>>

(* Mutants: a fetch under way is not replaced; it is only cancelled. *)
JoinFetch == fetch' = IF fetch = Idle THEN Asked ELSE fetch
CancelOnly == fetch' = Idle

(* invalidateQueries drops a fetch that is under way and asks again. *)
Refetch == fetch' = Asked

(* The request is answered.  A refusal leaves the page as it is.  After a  *)
(* save the mutation stays pending until the mounted pages have fetched    *)
(* again; after a run the page of the execution is opened.                 *)
RequestAnswered ==
  /\ mutation = "pending"
  /\ pc[request] \in Ended
  /\ \/ /\ pc[request] = "done" /\ request = Save /\ page # "elsewhere"
        /\ mutation' = "refetching"
        /\ Refetch
        /\ UNCHANGED <<page, canvas>>
     \/ /\ pc[request] = "done" /\ request = Run /\ mine
        /\ mutation' = "settled"
        /\ Mount("elsewhere")
        /\ UNCHANGED fetch
     \/ /\ pc[request] = "done" => page = "elsewhere" \/ (request = Run /\ ~mine)
        /\ mutation' = "settled"
        /\ UNCHANGED <<page, canvas, fetch>>
  /\ UNCHANGED <<vars, cache, broken, request, mine, draft>>

-----------------------------------------------------------------------------
(* The requests of WorkflowVersions; the browser's start when it has sent  *)
(* them.                                                                   *)
Sent(r) == r \in {Save, Run} => r = request

Serve(r) == Sent(r) /\ Handle(r) /\ UNCHANGED browser
Break(r) == Sent(r) /\ Fail(r) /\ UNCHANGED browser

Browse ==
  \/ Open \/ Leave \/ Switch \/ Reconnect
  \/ Answer \/ Land
  \/ PressSave \/ PressRun \/ RequestAnswered

EditorNext == (\E r \in Requests : Serve(r) \/ Break(r)) \/ Browse

EditorSpec == EditorInit /\ [][EditorNext]_editorVars

(* Requests are handled and answered, and answers arrive; no click is due. *)
EditorFairness ==
  /\ \A r \in Requests : WF_editorVars(Serve(r))
  /\ WF_editorVars(Answer) /\ WF_editorVars(Land) /\ WF_editorVars(RequestAnswered)

FairEditorSpec == EditorSpec /\ EditorFairness

-----------------------------------------------------------------------------
(* A save never carries nodes newer than the settings around them, and     *)
(* what the browser publishes or runs comes after, or is, every version it *)
(* had shown ("cada guardado publica una nueva versión (actual: vN)"),     *)
(* whatever is published between the fetch, the click and the transaction. *)
RequestsGoForward ==
  request # NoRow =>
    /\ row[draft.nodes].number > 0
    /\ row[draft.nodes].number <= row[draft.base].number
    /\ Save \in Rows => row[draft.base].number < row[Save].number
    /\ pinned[Run] # NoRow => row[draft.base].number <= row[pinned[Run]].number

(* The page an editor gives way to after its save shows that version or a  *)
(* later one, even if an older answer was on its way when the save was     *)
(* answered, or the page says that it could not fetch.                     *)
SavesShowUp ==
  request = Save /\ mutation = "settled" /\ mine /\ pc[Save] = "done" /\ ~broken =>
    cache # NoRow /\ row[Save].number <= row[cache].number

(* "Guardando…" and "Lanzando…" end, also when the request is refused or   *)
(* dies, or when another one dies in its transaction.                      *)
MutationsEnd == mutation = "pending" ~> mutation = "settled"
=============================================================================
