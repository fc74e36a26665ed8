------------------------ MODULE WorkflowEditor_proofs ------------------------
(***************************************************************************)
(* Proofs about WorkflowVersions and, after them, about WorkflowEditor,    *)
(* for any number of racing requests: publishes, and triggers and runs     *)
(* beside the browser's own.                                               *)
(*                                                                         *)
(* The argument on the server: an editor that has passed its UPDATE either *)
(* holds the lock of the current row, and then nobody else can commit, or  *)
(* its number is taken already, and then its INSERT is refused.  Either    *)
(* way the statements add up to a step of VersionRegister or to none.      *)
(*                                                                         *)
(* The argument in the browser: the canvas is no newer than the cache, and *)
(* the cache no newer than an answer on its way, so that what is sent is   *)
(* ordered; the server reads the current version after the click, so that  *)
(* the request comes later; and a refetch is answered after the save.      *)
(***************************************************************************)
EXTENDS WorkflowEditor, TLAPS

-----------------------------------------------------------------------------
(* The versions on the server. *)

NumberTaken(n) == \E w \in Rows : row[w].number = n

(* A writer has no row before it commits one, and nothing exists before    *)
(* version 1.                                                              *)
Fresh ==
  /\ \A e \in Editors :
       pc[e] \in {"start", "read", "update", "lock", "insert", "commit"} => row[e].number = 0
  /\ pc[Installer] \in {"start", "insert"} => Rows = {}
  /\ pc[Installer] # "read"

SeenExists ==
  \A e \in Editors :
    pc[e] \in {"update", "lock", "insert", "commit", "conflict"} => seen[e] \in Rows

(* Only an open transaction holds locks, on current rows, exclusively. *)
Locks ==
  \A e \in Editors :
    /\ cleared[e] # {} => pc[e] \in {"insert", "commit"}
    /\ cleared[e] \subseteq CurrentRows
    /\ \A f \in Editors : f # e => cleared[e] \intersect cleared[f] = {}

(* The row an UPDATE has found is no older than the one the editor read. *)
Targets ==
  \A e \in Editors :
    pc[e] = "lock" =>
      /\ target[e] \in Rows
      /\ row[seen[e]].number <= row[target[e]].number

(* Either the editor holds the current row or its number is taken. *)
Inserts ==
  \A e \in Editors :
    /\ pc[e] = "insert" => CurrentRows \subseteq cleared[e] \/ NumberTaken(NextNumber(e))
    /\ pc[e] = "commit" => CurrentRows \subseteq cleared[e] /\ ~NumberTaken(NextNumber(e))
    /\ pc[e] = "conflict" => NumberTaken(NextNumber(e))

(* What a trigger knew is no newer than what it reads and pins. *)
Known ==
  \A t \in Triggers :
    /\ \A n \in known[t] : NumberTaken(n)
    /\ pc[t] = "insert" =>
         seen[t] \in Rows /\ \A n \in known[t] : n <= row[seen[t]].number
    /\ pinned[t] # NoRow =>
         /\ pc[t] = "done"
         /\ pinned[t] \in Rows
         /\ \A n \in known[t] : n <= row[pinned[t]].number

IInv ==
  /\ TypeOK
  /\ HistoryIsLinear
  /\ Fresh
  /\ SeenExists
  /\ Locks
  /\ Targets
  /\ Inserts
  /\ Known

USE VersionsAssumption

LEMMA InitIInv == Init => IInv
  <1> SUFFICES ASSUME Init PROVE IInv
    OBVIOUS
  <1>1. Rows = {} /\ CurrentRows = {}
    BY DEF Init, Rows, CurrentRows, Writers
  <1>2. TypeOK
    BY DEF Init, TypeOK, Versions, Labels, Writers, Requests
  <1>3. HistoryIsLinear
    BY <1>1 DEF HistoryIsLinear, UniqueNumbers, NoGaps, CurrentIsLatest, SomeCurrent
  <1>4. Fresh /\ SeenExists /\ Locks /\ Targets /\ Inserts /\ Known
    BY <1>1 DEF Init, Fresh, SeenExists, Locks, Targets, Inserts, Known, Writers, Requests
  <1> QED
    BY <1>2, <1>3, <1>4 DEF IInv

(* TypeOK is preserved by every step. *)
LEMMA TypeStep == TypeOK /\ SeenExists /\ [Next]_vars => TypeOK'
  <1> SUFFICES ASSUME TypeOK, SeenExists, [Next]_vars PROVE TypeOK'
    OBVIOUS
  <1> USE DEF TypeOK, Versions, Labels, Rebuilding, Ended, Requests, Writers, tables
  <1>1. CASE Install
    <2>1. CASE InsertWorkflow
      BY <2>1 DEF InsertWorkflow, Goto
    <2>2. CASE InsertFirstVersion
      <3> HIDE DEF Versions, Requests, Writers, Labels
      <3>0. [number |-> 1, current |-> TRUE] \in Versions
        BY DEF Versions
      <3>1. row' \in [Writers -> Versions]
        BY <2>2, <3>0 DEF InsertFirstVersion
      <3>2. pc' \in [Requests -> Labels]
        BY <2>2 DEF InsertFirstVersion, Goto, Labels, Rebuilding
      <3> QED
        BY <2>2, <3>1, <3>2 DEF InsertFirstVersion
    <2> QED
      BY <1>1, <2>1, <2>2 DEF Install
  <1>2. ASSUME NEW r \in Requests, Begin(r) PROVE TypeOK'
    BY <1>2 DEF Begin, Goto, CurrentRows, Rows
  <1>3. ASSUME NEW r \in Requests, GetCurrentVersion(r) PROVE TypeOK'
    <2> HIDE DEF Versions, Requests, Writers, Labels
    <2>1. seen' \in [Requests -> Writers \union {NoRow}]
      BY <1>3 DEF GetCurrentVersion, CurrentRows, Rows
    <2>2. pc' \in [Requests -> Labels]
      BY <1>3 DEF GetCurrentVersion, Goto, Labels
    <2> QED
      BY <1>3, <2>1, <2>2 DEF GetCurrentVersion
  <1>4. ASSUME NEW e \in Editors, Publish(e) PROVE TypeOK'
    <2>1. CASE FindCurrent(e)
      BY <2>1 DEF FindCurrent, Goto, CurrentRows, Rows
    <2>2. CASE ClearCurrent(e)
      BY <2>2 DEF ClearCurrent, Goto, CurrentRows, Rows
    <2>3. CASE InsertVersion(e)
      <3> HIDE DEF Versions, Requests, Writers, Labels
      <3>1. e \in Requests
        BY DEF Requests, Writers
      <3>2. pc' \in [Requests -> Labels]
        BY <2>3, <3>1 DEF InsertVersion, Goto, Labels
      <3>3. cleared' \in [Editors -> SUBSET Writers]
        BY <2>3 DEF InsertVersion, Rollback
      <3> QED
        BY <2>3, <3>2, <3>3 DEF InsertVersion
    <2>4. CASE Commit(e)
      <3>1. NextNumber(e) \in Nat
        BY <2>4 DEF Commit, SeenExists, Rows, NextNumber
      <3>2. ASSUME NEW w \in Writers
            PROVE  [row[w] EXCEPT !.current = @ /\ w \notin cleared[e]] \in Versions
        <4>1. \A b \in BOOLEAN : [row[w] EXCEPT !.current = b] \in Versions
          OBVIOUS
        <4>2. (row[w].current /\ w \notin cleared[e]) \in BOOLEAN
          BY Zenon
        <4> QED
          BY <4>1, <4>2, Zenon
      <3>3. [number |-> NextNumber(e), current |-> TRUE] \in Versions
        BY <3>1
      <3>4. row' \in [Writers -> Versions]
        BY <2>4, <3>2, <3>3, Zenon DEF Commit
      <3> QED
        BY <2>4, <3>4 DEF Commit, Goto
    <2> QED
      BY <1>4, <2>1, <2>2, <2>3, <2>4 DEF Publish
  <1>5. ASSUME NEW w \in Writers, RegenerateProjection(w) PROVE TypeOK'
    BY <1>5 DEF RegenerateProjection, NextStatement, Goto
  <1>6. ASSUME NEW t \in Requests, InsertExecution(t) PROVE TypeOK'
    BY <1>6 DEF InsertExecution, Goto
  <1>7. ASSUME NEW r \in Requests, Fail(r) PROVE TypeOK'
    BY <1>7 DEF Fail, Rollback, Goto
  <1>8. CASE UNCHANGED vars
    BY <1>8 DEF vars
  <1> QED
    BY <1>1, <1>2, <1>3, <1>4, <1>5, <1>6, <1>7, <1>8 DEF Next, Handle

(* Most steps leave the version rows alone. *)
LEMMA RowsStay ==
  ASSUME row' = row
  PROVE  /\ Rows' = Rows
         /\ CurrentRows' = CurrentRows
         /\ HistoryIsLinear => HistoryIsLinear'
         /\ \A n : NumberTaken(n) => NumberTaken(n)'
         /\ \A n : NumberTaken(n)' => NumberTaken(n)
  BY DEF Rows, CurrentRows, HistoryIsLinear, UniqueNumbers, NoGaps, CurrentIsLatest,
         SomeCurrent, NumberTaken

LEMMA BeginStep ==
  ASSUME IInv, NEW r \in Requests, Begin(r)
  PROVE  HistoryIsLinear' /\ Fresh' /\ SeenExists' /\ Locks' /\ Targets' /\ Inserts' /\ Known'
  <1> USE DEF IInv, TypeOK, Begin, Goto, tables
  <1>1. /\ Rows' = Rows /\ CurrentRows' = CurrentRows /\ HistoryIsLinear'
        /\ \A n : NumberTaken(n) <=> NumberTaken(n)'
    BY RowsStay
  <1>2. Fresh'
    BY <1>1 DEF Fresh
  <1>3. SeenExists' /\ Locks' /\ Targets'
    BY <1>1 DEF SeenExists, Locks, Targets
  <1>4. Inserts'
    BY <1>1 DEF Inserts, NextNumber
  <1>5. Known'
    BY <1>1 DEF Known, CurrentRows, NumberTaken
  <1> QED
    BY <1>1, <1>2, <1>3, <1>4, <1>5

LEMMA ReadStep ==
  ASSUME IInv, NEW r \in Requests, GetCurrentVersion(r)
  PROVE  HistoryIsLinear' /\ Fresh' /\ SeenExists' /\ Locks' /\ Targets' /\ Inserts' /\ Known'
  <1> USE DEF IInv, TypeOK, tables
  <1>1. /\ Rows' = Rows /\ CurrentRows' = CurrentRows /\ HistoryIsLinear'
        /\ \A n : NumberTaken(n) <=> NumberTaken(n)'
    BY RowsStay DEF GetCurrentVersion
  <1>2. r # Installer
    BY DEF GetCurrentVersion, Fresh
  <1>3. /\ \A q \in Requests \ {r} : pc'[q] = pc[q] /\ seen'[q] = seen[q]
        /\ pc'[r] \in {"update", "insert", "failed"}
        /\ pc'[r] # "failed" => seen'[r] \in CurrentRows
        /\ pc'[r] = "update" <=> (pc'[r] # "failed" /\ r \in Editors)
    <2>1. CASE CurrentRows = {} /\ UNCHANGED seen
      BY <2>1 DEF GetCurrentVersion, Goto
    <2>2. ASSUME NEW v \in CurrentRows, seen' = [seen EXCEPT ![r] = v]
          PROVE  /\ \A q \in Requests \ {r} : pc'[q] = pc[q] /\ seen'[q] = seen[q]
                 /\ pc'[r] \in {"update", "insert", "failed"}
                 /\ pc'[r] # "failed" => seen'[r] \in CurrentRows
                 /\ pc'[r] = "update" <=> (pc'[r] # "failed" /\ r \in Editors)
      BY <2>2 DEF GetCurrentVersion, Goto
    <2> QED
      BY <2>1, <2>2 DEF GetCurrentVersion
  <1>4. /\ pc[r] = "read"
        /\ row' = row /\ target' = target /\ cleared' = cleared
        /\ pinned' = pinned /\ known' = known
        /\ Installer \in Requests /\ Editors \subseteq Requests /\ Triggers \subseteq Requests
    BY DEF GetCurrentVersion, Requests, Writers
  <1>5. CurrentRows \subseteq Rows
    BY DEF CurrentRows
  <1>6. Fresh'
    BY <1>1, <1>2, <1>3, <1>4 DEF Fresh
  <1>7. SeenExists' /\ Locks' /\ Targets'
    BY <1>1, <1>3, <1>4, <1>5 DEF SeenExists, Locks, Targets
  <1>8. Inserts'
    BY <1>1, <1>3, <1>4 DEF Inserts, NextNumber
  <1>9. Known'
    BY <1>1, <1>3, <1>4, <1>5 DEF Known, CurrentRows, NumberTaken, HistoryIsLinear, CurrentIsLatest
  <1> QED
    BY <1>1, <1>6, <1>7, <1>8, <1>9

LEMMA FindStep ==
  ASSUME IInv, NEW e \in Editors, FindCurrent(e)
  PROVE  HistoryIsLinear' /\ Fresh' /\ SeenExists' /\ Locks' /\ Targets' /\ Inserts' /\ Known'
  <1> USE DEF IInv, TypeOK, FindCurrent, Goto, tables
  <1>1. /\ Rows' = Rows /\ CurrentRows' = CurrentRows /\ HistoryIsLinear'
        /\ \A n : NumberTaken(n) <=> NumberTaken(n)'
    BY RowsStay
  <1>2. Fresh'
    BY <1>1 DEF Fresh
  <1>3. SeenExists' /\ Locks'
    BY <1>1 DEF SeenExists, Locks
  <1>4. Targets'
    BY <1>1 DEF Targets, SeenExists, CurrentRows, HistoryIsLinear, CurrentIsLatest
  <1>5. Inserts' /\ Known'
    BY <1>1 DEF Inserts, NextNumber, Known
  <1> QED
    BY <1>1, <1>2, <1>3, <1>4, <1>5

(* With the lock of the row it found, an editor either holds the current   *)
(* row or a later version exists, and with it the number it would take.    *)
LEMMA ClearStep ==
  ASSUME IInv, NEW e \in Editors, ClearCurrent(e)
  PROVE  HistoryIsLinear' /\ Fresh' /\ SeenExists' /\ Locks' /\ Targets' /\ Inserts' /\ Known'
  <1> USE DEF IInv, TypeOK, ClearCurrent, Goto, tables
  <1>1. /\ Rows' = Rows /\ CurrentRows' = CurrentRows /\ HistoryIsLinear'
        /\ \A n : NumberTaken(n) <=> NumberTaken(n)'
    BY RowsStay
  <1>2. Fresh'
    BY <1>1 DEF Fresh
  <1>3. SeenExists' /\ Targets'
    BY <1>1 DEF SeenExists, Targets
  <1>4. Locks'
    <2>1. ASSUME NEW f \in Editors \ {e}
          PROVE  cleared'[f] = cleared[f] /\ pc'[f] = pc[f]
      BY DEF Requests, Writers
    <2>2. cleared'[e] = {target[e]} \intersect CurrentRows /\ pc'[e] = "insert"
      BY DEF Requests, Writers
    <2>3. \A f \in Editors \ {e} : cleared'[e] \intersect cleared'[f] = {}
      BY <2>1, <2>2 DEF Unlocked
    <2> QED
      BY <1>1, <2>1, <2>2, <2>3 DEF Locks
  <1>5. CurrentRows \subseteq {target[e]} \intersect CurrentRows \/ NumberTaken(NextNumber(e))
    <2>1. CASE target[e] \in CurrentRows
      BY <2>1 DEF CurrentRows, Rows, HistoryIsLinear, UniqueNumbers, CurrentIsLatest, Versions
    <2>2. CASE target[e] \notin CurrentRows
      <3>1. PICK v \in Rows : ~(row[v].number <= row[target[e]].number)
        BY <2>2 DEF Targets, CurrentRows, HistoryIsLinear, CurrentIsLatest
      <3>2. NextNumber(e) \in 1 .. row[v].number
        BY <3>1 DEF Targets, SeenExists, Rows, NextNumber, Versions
      <3> QED
        BY <3>1, <3>2 DEF HistoryIsLinear, NoGaps, NumberTaken
    <2> QED
      BY <2>1, <2>2
  <1>6. Inserts'
    BY <1>1, <1>5 DEF Inserts, NextNumber
  <1>7. Known'
    BY <1>1 DEF Known
  <1> QED
    BY <1>1, <1>2, <1>3, <1>4, <1>6, <1>7

LEMMA InsertStep ==
  ASSUME IInv, NEW e \in Editors, InsertVersion(e)
  PROVE  HistoryIsLinear' /\ Fresh' /\ SeenExists' /\ Locks' /\ Targets' /\ Inserts' /\ Known'
  <1> USE DEF IInv, TypeOK, tables
  <1>1. /\ Rows' = Rows /\ CurrentRows' = CurrentRows /\ HistoryIsLinear'
        /\ \A n : NumberTaken(n) <=> NumberTaken(n)'
    BY RowsStay DEF InsertVersion
  <1>2. /\ \A q \in Requests \ {e} : pc'[q] = pc[q]
        /\ \A f \in Editors \ {e} : cleared'[f] = cleared[f]
        /\ pc[e] = "insert"
        /\ \/ pc'[e] = "conflict" /\ cleared'[e] = {} /\ Refused(e)
           \/ pc'[e] = "commit" /\ cleared'[e] = cleared[e] /\ ~Refused(e)
        /\ row' = row /\ seen' = seen /\ target' = target
        /\ pinned' = pinned /\ known' = known
        /\ Installer \in Requests /\ Editors \subseteq Requests /\ Triggers \subseteq Requests
    BY DEF InsertVersion, Goto, Rollback, Requests, Writers
  <1>3. Fresh' /\ SeenExists' /\ Targets'
    BY <1>1, <1>2 DEF Fresh, SeenExists, Targets
  <1>4. Locks'
    BY <1>1, <1>2 DEF Locks
  <1>5. NumberTaken(NextNumber(e)) => Refused(e)
    BY DEF Refused, NumberTaken
  <1>6. Refused(e) => NumberTaken(NextNumber(e))
    BY <1>2 DEF Refused, NumberTaken, Inserts
  <1>7. Inserts'
    BY <1>1, <1>2, <1>5, <1>6 DEF Inserts, NextNumber, Refused
  <1>8. Known'
    BY <1>1, <1>2 DEF Known
  <1> QED
    BY <1>1, <1>3, <1>4, <1>7, <1>8

(* The rows after a commit are the old ones and the editor's, which is one *)
(* later than the row it had locked.                                       *)
LEMMA CommitStep ==
  ASSUME IInv, NEW e \in Editors, Commit(e)
  PROVE  HistoryIsLinear' /\ Fresh' /\ SeenExists' /\ Locks' /\ Targets' /\ Inserts' /\ Known'
  <1> USE DEF IInv, TypeOK, tables
  <1>1. /\ \A q \in Requests \ {e} : pc'[q] = pc[q]
        /\ \A f \in Editors \ {e} : cleared'[f] = cleared[f]
        /\ pc[e] = "commit" /\ pc'[e] = "dropNodes" /\ cleared'[e] = {}
        /\ seen' = seen /\ target' = target /\ pinned' = pinned /\ known' = known
        /\ Installer \in Requests /\ Editors \subseteq Requests /\ Triggers \subseteq Requests
        /\ Editors \subseteq Writers
    BY DEF Commit, Goto, Requests, Writers
  <1>2. /\ \A w \in Rows : row[w].number \in Nat /\ row[w].number > 0
        /\ CurrentRows \subseteq Rows /\ Rows \subseteq Writers
        /\ \A w \in CurrentRows : row[w].current
    BY DEF CurrentRows, Rows, Versions
  <1>3. e \notin Rows
    BY <1>1 DEF Fresh, Rows
  <1>4. seen[e] \in Rows /\ CurrentRows \subseteq cleared[e] /\ ~NumberTaken(NextNumber(e))
    BY <1>1 DEF SeenExists, Inserts
  <1>5. NextNumber(e) \in Nat /\ NextNumber(e) > 1
    BY <1>2, <1>4 DEF NextNumber
  <1>6. \A w \in Rows : row[w].number < NextNumber(e)
    <2> SUFFICES ASSUME NEW w \in Rows, NextNumber(e) <= row[w].number PROVE FALSE
      BY <1>2, <1>5
    <2>1. NextNumber(e) \in 1 .. row[w].number
      BY <1>2, <1>5
    <2> QED
      BY <2>1, <1>4 DEF HistoryIsLinear, NoGaps, NumberTaken
  <1>7. /\ \A w \in Writers \ {e} : row'[w].number = row[w].number
        /\ \A w \in Writers \ {e} : row'[w].current <=> (row[w].current /\ w \notin cleared[e])
        /\ row'[e].number = NextNumber(e) /\ row'[e].current
    <2>1. row'[e] = [number |-> NextNumber(e), current |-> TRUE]
      BY <1>1 DEF Commit
    <2>2. ASSUME NEW w \in Writers \ {e}
          PROVE  row'[w] = [row[w] EXCEPT !.current = @ /\ w \notin cleared[e]]
      BY Zenon DEF Commit
    <2>3. ASSUME NEW w \in Writers \ {e}
          PROVE  /\ row'[w].number = row[w].number
                 /\ row'[w].current <=> (row[w].current /\ w \notin cleared[e])
      <3>1. row[w] \in [number : Nat, current : BOOLEAN]
        BY DEF Versions
      <3>2. CASE w \in cleared[e]
        <4>1. (row[w].current /\ w \notin cleared[e]) = FALSE
          BY <3>2
        <4> QED
          BY <2>2, <3>1, <3>2, <4>1
      <3>3. CASE w \notin cleared[e]
        <4>1. (row[w].current /\ w \notin cleared[e]) = row[w].current
          BY <3>1, <3>3
        <4> QED
          BY <2>2, <3>1, <3>3, <4>1
      <3> QED
        BY <3>2, <3>3
    <2> QED
      BY <2>1, <2>3
  <1>8. Rows' = Rows \union {e}
    BY <1>1, <1>3, <1>5, <1>7 DEF Rows
  <1>9. /\ \A w \in Rows : row'[w].number = row[w].number
        /\ \A w \in Rows : ~row'[w].current
    BY <1>2, <1>3, <1>4, <1>7 DEF CurrentRows
  <1>10. CurrentRows' = {e}
    BY <1>7, <1>8, <1>9 DEF CurrentRows
  <1>11. \A n : NumberTaken(n)' <=> NumberTaken(n) \/ n = NextNumber(e)
    BY <1>7, <1>8, <1>9 DEF NumberTaken
  <1>12. HistoryIsLinear'
    <2>1. UniqueNumbers'
      BY <1>6, <1>7, <1>8, <1>9, <1>2, <1>5 DEF HistoryIsLinear, UniqueNumbers
    <2>2. NoGaps'
      <3> SUFFICES ASSUME NEW w \in Rows', NEW n \in 1 .. row'[w].number
                   PROVE  \E v \in Rows' : row'[v].number = n
        BY DEF NoGaps
      <3>1. CASE w \in Rows
        BY <3>1, <1>8, <1>9 DEF HistoryIsLinear, NoGaps
      <3>2. CASE w = e /\ n = NextNumber(e)
        BY <3>2, <1>7, <1>8
      <3>3. CASE w = e /\ n # NextNumber(e)
        <4>1. n \in 1 .. row[seen[e]].number
          <5>1. n \in 1 .. NextNumber(e) /\ row[seen[e]].number \in Nat
            BY <3>3, <1>2, <1>4, <1>7
          <5> QED
            BY <5>1, <3>3 DEF NextNumber
        <4> QED
          BY <4>1, <1>4, <1>8, <1>9 DEF HistoryIsLinear, NoGaps
      <3> QED
        BY <3>1, <3>2, <3>3, <1>8
    <2>3. CurrentIsLatest'
      BY <1>2, <1>5, <1>6, <1>7, <1>8, <1>9 DEF CurrentIsLatest
    <2>4. SomeCurrent'
      BY <1>10 DEF SomeCurrent
    <2> QED
      BY <2>1, <2>2, <2>3, <2>4 DEF HistoryIsLinear
  <1>13. Fresh'
    <2>1. \A f \in Editors : f # e => row'[f].number = row[f].number
      BY <1>1, <1>7
    <2>2. pc[Installer] \notin {"start", "insert"}
      BY <1>4 DEF Fresh
    <2> QED
      BY <1>1, <2>1, <2>2 DEF Fresh
  <1>14. SeenExists'
    BY <1>1, <1>8, <1>4 DEF SeenExists
  <1>15. \A f \in Editors : f # e => cleared[f] = {}
    BY <1>4 DEF Locks
  <1>16. Locks'
    BY <1>1, <1>15 DEF Locks
  <1>17. Targets'
    BY <1>1, <1>8, <1>9 DEF Targets, SeenExists
  <1>18. \A f \in Editors : seen[f] \in Rows => NextNumber(f)' = NextNumber(f)
    BY <1>1, <1>9 DEF NextNumber
  <1>19. Inserts'
    <2> SUFFICES ASSUME NEW f \in Editors, f # e, pc[f] \in {"insert", "commit", "conflict"}
                 PROVE  /\ pc[f] # "commit"
                        /\ NumberTaken(NextNumber(f))'
      BY <1>1 DEF Inserts
    <2>1. CurrentRows # {}
      BY <1>4 DEF HistoryIsLinear, SomeCurrent
    <2>2. ~(CurrentRows \subseteq cleared[f])
      BY <2>1, <1>15
    <2>3. pc[f] # "commit" /\ NumberTaken(NextNumber(f))
      BY <2>2 DEF Inserts
    <2> QED
      BY <2>3, <1>11, <1>18 DEF SeenExists
  <1>20. Known'
    BY <1>1, <1>8, <1>9, <1>11 DEF Known
  <1> QED
    BY <1>12, <1>13, <1>14, <1>16, <1>17, <1>19, <1>20

LEMMA InstallStep ==
  ASSUME IInv, Install
  PROVE  HistoryIsLinear' /\ Fresh' /\ SeenExists' /\ Locks' /\ Targets' /\ Inserts' /\ Known'
  <1> USE DEF IInv, TypeOK, tables
  <1>1. /\ Rows = {} /\ CurrentRows = {} /\ pc[Installer] \in {"start", "insert"}
        /\ \A q \in Requests \ {Installer} : pc'[q] = pc[q]
        /\ pc'[Installer] \in {"insert", "dropNodes"}
        /\ seen' = seen /\ target' = target /\ cleared' = cleared
        /\ pinned' = pinned /\ known' = known
        /\ Installer \in Requests /\ Editors \subseteq Requests /\ Triggers \subseteq Requests
        /\ Installer \in Writers /\ Editors \subseteq Writers
    BY DEF Install, InsertWorkflow, InsertFirstVersion, Goto, Fresh, CurrentRows, Requests, Writers
  <1>2. /\ \A e \in Editors : row'[e] = row[e]
        /\ \/ pc'[Installer] = "insert" /\ row' = row
           \/ /\ pc'[Installer] = "dropNodes"
              /\ row' = [row EXCEPT ![Installer] = [number |-> 1, current |-> TRUE]]
    BY <1>1 DEF Install, InsertWorkflow, InsertFirstVersion, Goto
  <1>3. \A e \in Editors : cleared[e] = {} /\ pc[e] \in {"start", "read", "done", "failed"} \union Rebuilding
    BY <1>1 DEF Locks, SeenExists, Labels, Ended
  <1>4. SeenExists' /\ Locks' /\ Targets' /\ Inserts'
    BY <1>1, <1>3 DEF SeenExists, Locks, Targets, Inserts, Rebuilding
  <1>5. Known'
    BY <1>1 DEF Known, NumberTaken
  <1>6. CASE row' = row /\ pc'[Installer] = "insert"
    BY <1>1, <1>4, <1>5, <1>6, RowsStay DEF Fresh
  <1>7. CASE /\ pc'[Installer] = "dropNodes"
             /\ row' = [row EXCEPT ![Installer] = [number |-> 1, current |-> TRUE]]
    <2>1. \A w \in Writers \ {Installer} : row'[w].number = 0
      BY <1>1, <1>7 DEF Rows, Versions
    <2>2. row'[Installer].number = 1 /\ row'[Installer].current
      BY <1>1, <1>7
    <2>3. Rows' = {Installer} /\ CurrentRows' = {Installer}
      BY <1>1, <2>1, <2>2 DEF Rows, CurrentRows
    <2>4. HistoryIsLinear'
      BY <2>2, <2>3 DEF HistoryIsLinear, UniqueNumbers, NoGaps, CurrentIsLatest, SomeCurrent
    <2>5. Fresh'
      BY <1>1, <1>2, <1>7 DEF Fresh
    <2> QED
      BY <1>4, <1>5, <2>4, <2>5
  <1> QED
    BY <1>2, <1>6, <1>7

(* The projection, the pinned execution and failures change no version. *)
LEMMA OtherSteps ==
  ASSUME IInv, NEW r \in Requests,
         \/ r \in Writers /\ RegenerateProjection(r)
         \/ InsertExecution(r)
         \/ Fail(r)
  PROVE  HistoryIsLinear' /\ Fresh' /\ SeenExists' /\ Locks' /\ Targets' /\ Inserts' /\ Known'
  <1> USE DEF IInv, TypeOK, tables
  <1>1. /\ Rows' = Rows /\ CurrentRows' = CurrentRows /\ HistoryIsLinear'
        /\ \A n : NumberTaken(n) <=> NumberTaken(n)'
    BY RowsStay DEF RegenerateProjection, InsertExecution, Fail
  <1>2. /\ \A q \in Requests \ {r} : pc'[q] = pc[q]
        /\ pc'[r] \in Rebuilding \union {"done", "failed"}
        /\ row' = row /\ seen' = seen /\ target' = target /\ known' = known
        /\ Installer \in Requests /\ Editors \subseteq Requests /\ Triggers \subseteq Requests
    BY DEF RegenerateProjection, NextStatement, InsertExecution, Fail, Goto, Rebuilding,
           Requests, Writers
  <1>3. \A e \in Editors :
          /\ cleared'[e] \subseteq cleared[e]
          /\ cleared'[e] # {} => pc'[e] = pc[e] \/ cleared[e] = {}
    <2>1. CASE UNCHANGED cleared /\ (r \in Triggers \/ pc[r] \in Rebuilding)
      BY <2>1, <1>2 DEF Locks, Rebuilding
    <2>2. CASE Fail(r)
      BY <2>2, <1>2 DEF Fail, Rollback
    <2> QED
      BY <2>1, <2>2 DEF RegenerateProjection, InsertExecution
  <1>4. Fresh' /\ SeenExists' /\ Targets'
    BY <1>1, <1>2 DEF Fresh, SeenExists, Targets, Rebuilding
  <1>5. Locks'
    BY <1>1, <1>2, <1>3 DEF Locks
  <1>6. \A e \in Editors : pc'[e] \in {"insert", "commit"} => cleared'[e] = cleared[e]
    BY <1>2 DEF RegenerateProjection, InsertExecution, Fail, Rollback, Rebuilding
  <1>7. Inserts'
    BY <1>1, <1>2, <1>6 DEF Inserts, NextNumber, Rebuilding
  <1>8. Known'
    <2>1. CASE InsertExecution(r)
      BY <2>1, <1>1, <1>2 DEF InsertExecution, Known, Goto
    <2>2. CASE pinned' = pinned /\ pc[r] # "done"
      BY <2>2, <1>1, <1>2 DEF Known, Rebuilding
    <2> QED
      BY <2>1, <2>2 DEF RegenerateProjection, Fail, Ended, Rebuilding
  <1> QED
    BY <1>1, <1>4, <1>5, <1>7, <1>8

LEMMA NextIInv == IInv /\ [Next]_vars => IInv'
  <1> SUFFICES ASSUME IInv, [Next]_vars PROVE IInv'
    OBVIOUS
  <1>1. TypeOK'
    BY TypeStep DEF IInv
  <1>2. HistoryIsLinear' /\ Fresh' /\ SeenExists' /\ Locks' /\ Targets' /\ Inserts' /\ Known'
    <2>1. CASE UNCHANGED vars
      <3>1. /\ Rows' = Rows /\ CurrentRows' = CurrentRows /\ HistoryIsLinear'
            /\ \A n : NumberTaken(n) <=> NumberTaken(n)'
        BY <2>1, RowsStay DEF vars, tables, IInv
      <3> QED
        BY <2>1, <3>1 DEF vars, tables, IInv, Fresh, SeenExists, Locks, Targets, Inserts, Known, NextNumber
    <2>2. ASSUME NEW r \in Requests, Handle(r) \/ Fail(r)
          PROVE  HistoryIsLinear' /\ Fresh' /\ SeenExists' /\ Locks' /\ Targets' /\ Inserts' /\ Known'
      <3>1. CASE r \in Editors /\ Publish(r)
        BY <3>1, FindStep, ClearStep, InsertStep, CommitStep DEF Publish
      <3>2. CASE Install \/ Begin(r) \/ GetCurrentVersion(r)
        BY <3>2, InstallStep, BeginStep, ReadStep
      <3>3. CASE (r \in Writers /\ RegenerateProjection(r)) \/ InsertExecution(r) \/ Fail(r)
        BY <3>3, OtherSteps
      <3> QED
        BY <2>2, <3>1, <3>2, <3>3 DEF Handle
    <2> QED
      BY <2>1, <2>2 DEF Next
  <1> QED
    BY <1>1, <1>2 DEF IInv

LEMMA IInvHolds == Spec => []IInv
  BY InitIInv, NextIInv, PTL DEF Spec

(* The versions of a workflow are 1, 2, ... and exactly the latest one is  *)
(* current, for any number of racing publishes and failures                *)
(* (createWorkflowVersion, createInstalledWorkflow).                       *)
THEOREM HistoryLinear == Spec => []HistoryIsLinear
  <1>1. IInv => HistoryIsLinear
    BY DEF IInv
  <1> QED
    BY <1>1, IInvHolds, PTL

(* An execution is never pinned to a version older than one its trigger    *)
(* request could already see (trigger handler, getCurrentVersion).         *)
THEOREM PinsFresh == Spec => []PinsAreFresh
  <1>1. IInv => PinsAreFresh
    BY DEF IInv, Known, PinsAreFresh
  <1> QED
    BY <1>1, IInvHolds, PTL

(* Nobody has a base before the request has read one. *)
Unread == \A r \in Requests : pc[r] \in {"start", "read"} => seen[r] = NoRow

LEMMA UnreadStep == IInv /\ Unread /\ [Next]_vars => Unread'
  <1> SUFFICES ASSUME IInv, Unread, [Next]_vars, NEW r \in Requests,
                      pc'[r] \in {"start", "read"}
               PROVE  seen'[r] = NoRow
    BY DEF Unread
  <1> USE DEF Unread, IInv, TypeOK
  <1>1. pc[r] \in {"start", "read"} /\ seen'[r] = seen[r]
    <2>1. CASE UNCHANGED vars
      BY <2>1 DEF vars
    <2>2. ASSUME NEW q \in Requests, GetCurrentVersion(q)
          PROVE  pc[r] \in {"start", "read"} /\ seen'[r] = seen[r]
      <3>1. pc' = [pc EXCEPT ![q] = pc'[q]] /\ pc'[q] \notin {"start", "read"}
        BY <2>2 DEF GetCurrentVersion, Goto
      <3>2. q # r
        BY <3>1
      <3>3. seen'[r] = seen[r]
        BY <2>2, <3>2 DEF GetCurrentVersion
      <3> QED
        BY <3>1, <3>2, <3>3
    <2>3. ASSUME NEW q \in Requests, Begin(q) \/ Install \/ InsertExecution(q) \/ Fail(q)
          PROVE  pc[r] \in {"start", "read"} /\ seen'[r] = seen[r]
      BY <2>3 DEF Begin, Install, InsertWorkflow, InsertFirstVersion, InsertExecution, Fail, Goto
    <2>4. ASSUME NEW e \in Editors, Publish(e)
          PROVE  pc[r] \in {"start", "read"} /\ seen'[r] = seen[r]
      BY <2>4 DEF Publish, FindCurrent, ClearCurrent, InsertVersion, Commit, Goto
    <2>5. ASSUME NEW w \in Writers, RegenerateProjection(w)
          PROVE  pc[r] \in {"start", "read"} /\ seen'[r] = seen[r]
      BY <2>5 DEF RegenerateProjection, NextStatement, Rebuilding, Goto
    <2> QED
      BY <2>1, <2>2, <2>3, <2>4, <2>5 DEF Next, Handle
  <1> QED
    BY <1>1

(* The version the register holds is the one current row. *)
Latest == IF CurrentRows = {} THEN NoRow ELSE CHOOSE w \in CurrentRows : TRUE

LEMMA LatestIsCurrent ==
  ASSUME IInv
  PROVE  /\ CurrentRows \subseteq {Latest}
         /\ CurrentRows = {} => Latest = NoRow /\ Rows = {}
         /\ CurrentRows # {} => Latest \in CurrentRows /\ Latest # NoRow
  <1>1. CurrentRows # {} => Latest \in CurrentRows
    BY DEF Latest
  <1>2. CurrentRows = {} => Latest = NoRow /\ Rows = {}
    BY DEF Latest, IInv, HistoryIsLinear, SomeCurrent
  <1>3. ASSUME NEW v \in CurrentRows, NEW w \in CurrentRows
        PROVE  v = w
    <2>1. /\ v \in Rows /\ w \in Rows
          /\ row[v].number \in Nat /\ row[w].number \in Nat
          /\ row[v].number <= row[w].number /\ row[w].number <= row[v].number
      BY DEF IInv, TypeOK, Versions, HistoryIsLinear, CurrentIsLatest, CurrentRows, Rows
    <2> QED
      BY <2>1 DEF IInv, HistoryIsLinear, UniqueNumbers
  <1>4. NoRow \notin CurrentRows
    BY DEF CurrentRows, Rows, Requests
  <1> QED
    BY <1>1, <1>2, <1>3, <1>4

LEMMA CurrentIsLatestNext ==
  ASSUME IInv', NEW v \in CurrentRows'
  PROVE  Latest' = v
  <1>1. ASSUME NEW w \in CurrentRows'
        PROVE  w = v
    <2>1. /\ v \in Rows' /\ w \in Rows'
          /\ row'[v].number \in Nat /\ row'[w].number \in Nat
          /\ row'[v].number <= row'[w].number /\ row'[w].number <= row'[v].number
      BY DEF IInv, TypeOK, Versions, HistoryIsLinear, CurrentIsLatest, CurrentRows, Rows
    <2> QED
      BY <2>1 DEF IInv, HistoryIsLinear, UniqueNumbers
  <1> QED
    BY <1>1 DEF Latest

(* What the register is made of, and that most statements leave it alone. *)
Numbers == [w \in Writers |-> row[w].number]
Lost == {e \in Editors : pc[e] = "conflict"}

LEMMA RegisterStays ==
  ASSUME row' = row, seen' = seen, Lost' = Lost, pinned' = pinned
  PROVE  UNCHANGED Register!registerVars
  BY DEF Register!registerVars, CurrentRows, Rows, Lost

LEMMA RegisterRead ==
  ASSUME IInv, Unread, NEW r \in Requests, GetCurrentVersion(r)
  PROVE  [Register!RegisterNext]_(Register!registerVars)
  <1> USE DEF IInv, TypeOK
  <1>1. r \in Editors \union Triggers /\ pc[r] = "read" /\ seen[r] = NoRow
    BY DEF GetCurrentVersion, Fresh, Unread, Requests, Writers
  <1>2. /\ row' = row /\ pinned' = pinned
        /\ pc' = [pc EXCEPT ![r] = pc'[r]] /\ pc'[r] # "conflict"
    BY DEF GetCurrentVersion, tables, Goto
  <1>3. Lost' = Lost
    BY <1>1, <1>2 DEF Lost, Requests, Writers
  <1>4. CASE CurrentRows = {} /\ UNCHANGED seen
    BY <1>2, <1>3, <1>4, RegisterStays
  <1>5. CASE CurrentRows # {} /\ seen' = [seen EXCEPT ![r] = Latest]
    <2>1. Latest # NoRow
      BY <1>5, LatestIsCurrent
    <2>2. Register!Read(r)
      BY <1>1, <1>2, <1>3, <1>5, <2>1
      DEF Register!Read, Latest, CurrentRows, Rows, Lost
    <2> QED
      BY <1>1, <2>2 DEF Register!RegisterNext
  <1> QED
    BY <1>4, <1>5, LatestIsCurrent DEF GetCurrentVersion

(* A refused INSERT comes too late: its number is taken, so that the row   *)
(* it was computed from is not the current one any more.                   *)
LEMMA RegisterRefuse ==
  ASSUME IInv, NEW e \in Editors, InsertVersion(e)
  PROVE  [Register!RegisterNext]_(Register!registerVars)
  <1> USE DEF IInv, TypeOK
  <1>1. /\ pc[e] = "insert" /\ e \in Requests
        /\ row' = row /\ seen' = seen /\ pinned' = pinned
        /\ pc' = [pc EXCEPT ![e] = pc'[e]]
    BY DEF InsertVersion, tables, Goto, Requests, Writers
  <1>2. CASE pc'[e] # "conflict"
    <2>1. Lost' = Lost
      BY <1>1, <1>2 DEF Lost, Requests, Writers
    <2> QED
      BY <1>1, <2>1, RegisterStays
  <1>3. CASE pc'[e] = "conflict"
    <2>1. Refused(e)
      BY <1>1, <1>3 DEF InsertVersion, Goto
    <2>2. NumberTaken(NextNumber(e))
      BY <1>1, <2>1 DEF Refused, NumberTaken, Inserts
    <2>3. seen[e] \in Rows /\ seen[e] # NoRow
      BY <1>1 DEF SeenExists, Rows, Requests
    <2>4. seen[e] # Latest
      <3>1. PICK w \in Rows : row[w].number = NextNumber(e)
        BY <2>2 DEF NumberTaken
      <3>2. ~row[seen[e]].current
        <4>1. row[seen[e]].number \in Nat /\ row[w].number = row[seen[e]].number + 1
          BY <2>3, <3>1 DEF NextNumber, Rows, Versions
        <4>2. ~(row[w].number <= row[seen[e]].number)
          BY <4>1
        <4> QED
          BY <2>3, <3>1, <4>2 DEF HistoryIsLinear, CurrentIsLatest
      <3> QED
        BY <2>3, <3>2, LatestIsCurrent DEF CurrentRows
    <2>5. e \notin Lost /\ Lost' = Lost \union {e}
      BY <1>1, <1>3 DEF Lost, Requests, Writers
    <2>6. row[e].number = 0
      BY <1>1 DEF Fresh
    <2>7. Numbers[e] = 0
      BY <2>6 DEF Numbers, Writers
    <2>8. Register!Refuse(e)
      BY <1>1, <2>3, <2>4, <2>5, <2>7
      DEF Register!Refuse, Register!Trying, Latest, Numbers, Lost, CurrentRows, Rows
    <2> QED
      BY <2>8 DEF Register!RegisterNext
  <1> QED
    BY <1>2, <1>3

(* A commit replaces the row it has locked, which is the one it has read. *)
LEMMA RegisterReplace ==
  ASSUME IInv, IInv', NEW e \in Editors, Commit(e)
  PROVE  [Register!RegisterNext]_(Register!registerVars)
  <1> USE DEF IInv, TypeOK
  <1>1. /\ pc[e] = "commit" /\ e \in Requests /\ e \in Writers
        /\ seen' = seen /\ pinned' = pinned
        /\ pc' = [pc EXCEPT ![e] = "dropNodes"]
    BY DEF Commit, Goto, Requests, Writers
  <1>2. Lost' = Lost /\ e \notin Lost
    BY <1>1 DEF Lost
  <1>3. seen[e] \in Rows /\ seen[e] # NoRow /\ ~NumberTaken(NextNumber(e))
    BY <1>1 DEF SeenExists, Inserts, Rows, Requests
  <1>4. seen[e] = Latest
    <2>1. seen[e] \in CurrentRows
      <3> SUFFICES ASSUME NEW v \in Rows, ~(row[v].number <= row[seen[e]].number)
                   PROVE  FALSE
        BY <1>3 DEF CurrentRows, HistoryIsLinear, CurrentIsLatest
      <3>1. NextNumber(e) \in 1 .. row[v].number
        BY <1>3 DEF Rows, NextNumber, Versions
      <3> QED
        BY <1>3, <3>1 DEF HistoryIsLinear, NoGaps, NumberTaken
    <2> QED
      BY <2>1, LatestIsCurrent
  <1>5. row[e].number = 0
    BY <1>1 DEF Fresh
  <1>6. row'[e] = [number |-> NextNumber(e), current |-> TRUE]
    BY <1>1 DEF Commit
  <1>7. Latest' = e
    <2>1. e \in CurrentRows'
      BY <1>1, <1>3, <1>6 DEF CurrentRows, Rows, NextNumber, Versions
    <2> QED
      BY <2>1, CurrentIsLatestNext
  <1>8. Numbers' = [Numbers EXCEPT ![e] = Numbers[Latest] + 1]
    <2>1. Numbers'[e] = Numbers[Latest] + 1
      BY <1>1, <1>3, <1>4, <1>6 DEF Numbers, NextNumber, Rows
    <2>2. ASSUME NEW w \in Writers \ {e}
          PROVE  Numbers'[w] = Numbers[w]
      <3>1. row'[w] = [row[w] EXCEPT !.current = row[w].current /\ w \notin cleared[e]]
        BY Zenon DEF Commit
      <3>2. row[w] \in [number : Nat, current : BOOLEAN]
        BY DEF Versions
      <3>3. row'[w].number = row[w].number
        BY <3>1, <3>2
      <3> QED
        BY <3>3 DEF Numbers
    <2> QED
      BY <2>1, <2>2 DEF Numbers
  <1>9. Numbers[e] = 0
    BY <1>1, <1>5 DEF Numbers
  <1>10. Register!Replace(e)
    BY <1>1, <1>2, <1>3, <1>4, <1>7, <1>8, <1>9
    DEF Register!Replace, Register!Trying, Latest, Numbers, Lost
  <1> QED
    BY <1>10 DEF Register!RegisterNext

LEMMA RegisterCreate ==
  ASSUME IInv, IInv', Install
  PROVE  [Register!RegisterNext]_(Register!registerVars)
  <1> USE DEF IInv, TypeOK
  <1>1. CASE InsertWorkflow
    <2>1. Lost' = Lost
      BY <1>1 DEF InsertWorkflow, Goto, Lost
    <2> QED
      BY <1>1, <2>1, RegisterStays DEF InsertWorkflow
  <1>2. CASE InsertFirstVersion
    <2>1. /\ Rows = {} /\ Installer \in Writers
          /\ seen' = seen /\ pinned' = pinned
          /\ row' = [row EXCEPT ![Installer] = [number |-> 1, current |-> TRUE]]
      BY <1>2 DEF InsertFirstVersion, Fresh, Writers
    <2>2. Lost' = Lost
      BY <1>2 DEF InsertFirstVersion, Goto, Lost
    <2>3. Latest = NoRow
      BY <2>1 DEF Latest, CurrentRows
    <2>4. Latest' = Installer
      <3>1. row'[Installer] = [number |-> 1, current |-> TRUE]
        BY <2>1
      <3>2. Installer \in CurrentRows'
        BY <2>1, <3>1 DEF CurrentRows, Rows
      <3> QED
        BY <3>2, CurrentIsLatestNext
    <2>5. Numbers' = [Numbers EXCEPT ![Installer] = 1]
      BY <2>1 DEF Numbers
    <2>6. Register!Create
      BY <2>1, <2>2, <2>3, <2>4, <2>5 DEF Register!Create, Latest, Numbers, Lost
    <2> QED
      BY <2>6 DEF Register!RegisterNext
  <1> QED
    BY <1>1, <1>2 DEF Install

LEMMA RegisterStep ==
  IInv /\ Unread /\ IInv' /\ [Next]_vars => [Register!RegisterNext]_(Register!registerVars)
  <1> SUFFICES ASSUME IInv, Unread, IInv', [Next]_vars
               PROVE  [Register!RegisterNext]_(Register!registerVars)
    OBVIOUS
  <1> USE DEF IInv, TypeOK
  <1>1. CASE UNCHANGED vars
    <2>1. Lost' = Lost
      BY <1>1 DEF vars, Lost
    <2> QED
      BY <1>1, <2>1, RegisterStays DEF vars, tables
  <1>2. CASE Install
    BY <1>2, RegisterCreate
  <1>3. ASSUME NEW r \in Requests, GetCurrentVersion(r)
        PROVE  [Register!RegisterNext]_(Register!registerVars)
    BY <1>3, RegisterRead
  <1>4. ASSUME NEW e \in Editors, Publish(e)
        PROVE  [Register!RegisterNext]_(Register!registerVars)
    <2>1. CASE FindCurrent(e) \/ ClearCurrent(e)
      <3>1. Lost' = Lost /\ row' = row /\ seen' = seen /\ pinned' = pinned
        BY <2>1 DEF FindCurrent, ClearCurrent, Goto, tables, Lost, Requests, Writers
      <3> QED
        BY <3>1, RegisterStays
    <2> QED
      BY <1>4, <2>1, RegisterRefuse, RegisterReplace DEF Publish
  <1>5. ASSUME NEW r \in Requests, Begin(r) \/ Fail(r) \/ (r \in Writers /\ RegenerateProjection(r))
        PROVE  [Register!RegisterNext]_(Register!registerVars)
    <2>1. /\ row' = row /\ seen' = seen /\ pinned' = pinned
          /\ pc' = [pc EXCEPT ![r] = pc'[r]]
          /\ pc[r] # "conflict" /\ pc'[r] # "conflict"
      BY <1>5 DEF Begin, Fail, RegenerateProjection, Rebuilding, NextStatement, Ended, Goto, tables
    <2>2. Lost' = Lost
      BY <2>1 DEF Lost, Requests, Writers
    <2> QED
      BY <2>1, <2>2, RegisterStays
  <1>6. ASSUME NEW t \in Requests, InsertExecution(t)
        PROVE  [Register!RegisterNext]_(Register!registerVars)
    <2>1. /\ t \in Triggers /\ pc[t] = "insert"
          /\ row' = row /\ seen' = seen
          /\ pinned' = [pinned EXCEPT ![t] = seen[t]]
          /\ pc' = [pc EXCEPT ![t] = "done"]
      BY <1>6 DEF InsertExecution, Goto, tables
    <2>2. Lost' = Lost
      BY <2>1 DEF Lost, Requests, Writers
    <2>3. seen[t] # NoRow /\ pinned[t] = NoRow
      BY <2>1 DEF Known, Rows, Requests
    <2>4. Register!Pin(t)
      BY <2>1, <2>2, <2>3 DEF Register!Pin, CurrentRows, Rows, Lost
    <2> QED
      BY <2>1, <2>4 DEF Register!RegisterNext
  <1> QED
    BY <1>1, <1>2, <1>3, <1>4, <1>5, <1>6 DEF Next, Handle

(* However the statements of publishes, triggers and the install           *)
(* interleave, and wherever one of them dies, every step is a single step  *)
(* of the register or invisible to it: versions are replaced one at a time *)
(* by a request that has read the one it replaces, and a refused publish   *)
(* has lost to a committed one (createWorkflowVersion and its indexes).    *)
THEOREM VersionsAreARegister == Spec => ImplementsRegister
  <1>1. Init => Register!RegisterInit /\ Unread
    <2> SUFFICES ASSUME Init PROVE Register!RegisterInit /\ Unread
      OBVIOUS
    <2>1. CurrentRows = {}
      BY DEF Init, CurrentRows, Rows, Writers
    <2>2. Numbers = [w \in Writers |-> 0] /\ Lost = {}
      BY DEF Init, Numbers, Lost, Writers, Requests
    <2>3. Unread
      BY DEF Init, Unread
    <2> QED
      BY <2>1, <2>2, <2>3 DEF Init, Register!RegisterInit, Numbers, Lost, Writers, Requests
  <1> QED
    BY <1>1, IInvHolds, UnreadStep, RegisterStep, PTL
    DEF Spec, ImplementsRegister, Register!RegisterSpec

(* A version that exists keeps its number. *)
LEMMA RowsGrow ==
  ASSUME IInv, [Next]_vars
  PROVE  Rows \subseteq Rows' /\ \A w \in Rows : row'[w].number = row[w].number
  <1> USE DEF IInv, TypeOK, tables
  <1>1. CASE InsertFirstVersion
    BY <1>1 DEF InsertFirstVersion, Fresh
  <1>2. ASSUME NEW e \in Editors, Commit(e)
        PROVE  Rows \subseteq Rows' /\ \A w \in Rows : row'[w].number = row[w].number
    <2>1. e \notin Rows
      BY <1>2 DEF Commit, Fresh, Rows
    <2>2. \A w \in Writers \ {e} : row'[w] = [row[w] EXCEPT !.current = @ /\ w \notin cleared[e]]
      BY <1>2, Zenon DEF Commit
    <2>3. \A w \in Writers : \A b : [row[w] EXCEPT !.current = b].number = row[w].number
      BY DEF Versions
    <2>4. ASSUME NEW w \in Rows PROVE w \in Writers \ {e}
      BY <2>1 DEF Rows
    <2>5. ASSUME NEW w \in Rows PROVE row'[w].number = row[w].number
      BY <2>2, <2>3, <2>4, Zenon
    <2> QED
      BY <2>5 DEF Rows
  <1>3. CASE row' = row
    BY <1>3 DEF Rows
  <1>4. ASSUME NEW r \in Requests, Handle(r) \/ Fail(r)
        PROVE  \/ InsertFirstVersion \/ (\E e \in Editors : Commit(e)) \/ row' = row
    BY <1>4 DEF Handle, Install, InsertWorkflow, Begin, GetCurrentVersion, Publish, FindCurrent,
                ClearCurrent, InsertVersion, RegenerateProjection, InsertExecution, Fail
  <1> QED
    BY <1>1, <1>2, <1>3, <1>4 DEF Next, vars

(* Until a request fails, the writer of a version goes on to rebuild its   *)
(* projection, in the order of the statements.                             *)
Projected ==
  faults = 0 =>
    \A w \in Rows :
      /\ pc[w] \in Rebuilding \union {"done"}
      /\ pc[w] = "addEdges" => "nodes" \in projection[w]
      /\ pc[w] = "done" => projection[w] = {"nodes", "edges"}

LEMMA ProjectedStep == IInv /\ Projected /\ [Next]_vars => Projected'
  <1> SUFFICES ASSUME IInv, Projected, [Next]_vars, faults' = 0, NEW w \in Rows'
               PROVE  /\ pc'[w] \in Rebuilding \union {"done"}
                      /\ pc'[w] = "addEdges" => "nodes" \in projection'[w]
                      /\ pc'[w] = "done" => projection'[w] = {"nodes", "edges"}
    BY DEF Projected
  <1> USE DEF IInv, TypeOK, tables
  <1>1. w \in Writers /\ w \in Requests /\ Editors \subseteq Requests
    BY DEF Rows, Requests, Writers
  <1>2. CASE UNCHANGED vars
    BY <1>2, RowsStay DEF vars, Projected
  <1>3. ASSUME NEW r \in Requests, Fail(r) PROVE FALSE
    BY <1>3 DEF Fail
  <1>4. CASE Install
    <2>1. Rows = {}
      BY <1>4 DEF Install, InsertWorkflow, InsertFirstVersion, Fresh
    <2>2. CASE InsertWorkflow
      BY <2>1, <2>2, RowsStay DEF InsertWorkflow
    <2>3. CASE InsertFirstVersion
      <3>1. w = Installer
        BY <2>1, <2>3, <1>1 DEF InsertFirstVersion, Rows
      <3> QED
        BY <2>3, <3>1, <1>1 DEF InsertFirstVersion, Goto, Rebuilding
    <2> QED
      BY <1>4, <2>2, <2>3 DEF Install
  <1>5. ASSUME NEW e \in Editors, Commit(e)
        PROVE  /\ pc'[w] \in Rebuilding \union {"done"}
               /\ pc'[w] = "addEdges" => "nodes" \in projection'[w]
               /\ pc'[w] = "done" => projection'[w] = {"nodes", "edges"}
    <2>1. CASE w = e
      BY <1>1, <1>5, <2>1 DEF Commit, Goto, Rebuilding
    <2>2. CASE w # e
      <3>1. row'[w] = [row[w] EXCEPT !.current = @ /\ w \notin cleared[e]]
        BY <1>1, <1>5, <2>2, Zenon DEF Commit
      <3>2. \A b : [row[w] EXCEPT !.current = b].number = row[w].number
        BY <1>1 DEF Versions
      <3>3. row'[w].number = row[w].number
        BY <3>1, <3>2, Zenon
      <3>4. w \in Rows
        BY <1>1, <3>3 DEF Rows
      <3> QED
        BY <1>1, <1>5, <2>2, <3>4 DEF Commit, Goto, Projected
    <2> QED
      BY <2>1, <2>2
  <1>6. ASSUME NEW r \in Requests, Handle(r), ~Install, \A e \in Editors : ~Commit(e)
        PROVE  /\ pc'[w] \in Rebuilding \union {"done"}
               /\ pc'[w] = "addEdges" => "nodes" \in projection'[w]
               /\ pc'[w] = "done" => projection'[w] = {"nodes", "edges"}
    <2>1. CASE r \in Writers /\ RegenerateProjection(r)
      <3>1. w \in Rows /\ faults = 0
        BY <2>1, RowsStay DEF RegenerateProjection
      <3>2. CASE r # w
        BY <1>1, <2>1, <3>1, <3>2 DEF RegenerateProjection, Goto, Projected
      <3>3. CASE r = w
        BY <1>1, <2>1, <3>1, <3>3 DEF RegenerateProjection, NextStatement, Goto, Projected, Rebuilding
      <3> QED
        BY <3>2, <3>3
    <2>2. CASE Begin(r) \/ GetCurrentVersion(r) \/ InsertExecution(r) \/ (r \in Editors /\ Publish(r))
      <3>1. row' = row /\ projection' = projection /\ faults' = faults
        BY <1>6, <2>2 DEF Begin, GetCurrentVersion, InsertExecution, Publish, FindCurrent,
                          ClearCurrent, InsertVersion
      <3>2. w \in Rows
        BY <3>1, RowsStay
      <3>3. /\ pc[r] \in {"start", "read", "update", "lock", "insert"}
            /\ \A q \in Requests \ {r} : pc'[q] = pc[q]
        BY <1>6, <2>2 DEF Begin, GetCurrentVersion, InsertExecution, Publish, FindCurrent,
                          ClearCurrent, InsertVersion, Goto
      <3>4. r # w
        BY <3>1, <3>2, <3>3 DEF Projected, Rebuilding
      <3> QED
        BY <1>1, <3>1, <3>2, <3>3, <3>4 DEF Projected
    <2> QED
      BY <1>6, <2>1, <2>2 DEF Handle
  <1> QED
    BY <1>2, <1>3, <1>4, <1>5, <1>6 DEF Next

(* Unless a request failed half-way, every version has its nodes and edges *)
(* in the projection once its writer has answered, whatever publishes race *)
(* (regenerateProjection, after the commit).                               *)
THEOREM ProjectionsComplete == Spec => []ProjectionFollows
  <1>1. Init => Projected
    BY DEF Init, Projected, Rows, Writers
  <1>2. IInv /\ Projected => ProjectionFollows
    BY DEF Projected, ProjectionFollows
  <1> QED
    BY <1>1, <1>2, IInvHolds, ProjectedStep, PTL DEF Spec

-----------------------------------------------------------------------------
(* The browser. *)

NotNewer(v, w) == row[v].number <= row[w].number

(* What the browser shows, or is about to show, are versions in order. *)
ShownInOrder ==
  /\ cache # NoRow => cache \in Rows
  /\ canvas # NoRow => canvas \in Rows /\ cache \in Rows /\ NotNewer(canvas, cache)
  /\ fetch.got # NoRow =>
       /\ fetch.at = "answered"
       /\ fetch.got \in Rows
       /\ cache # NoRow => NotNewer(cache, fetch.got)

(* The browser's requests start when they are sent. *)
Unsent ==
  /\ \A r \in {Save, Run} : r # request => pc[r] = "start"
  /\ request = NoRow <=> mutation = "idle"

DraftInOrder ==
  request # NoRow =>
    draft.nodes \in Rows /\ draft.base \in Rows /\ NotNewer(draft.nodes, draft.base)

(* The server has read no version older than the one the draft was made    *)
(* from.                                                                   *)
ReadAfterClick ==
  /\ request = Save =>
       /\ pc[Save] \in {"update", "lock", "insert", "commit"} => NotNewer(draft.base, seen[Save])
       /\ Save \in Rows => row[draft.base].number < row[Save].number
  /\ request = Run =>
       /\ pc[Run] = "insert" => NotNewer(draft.base, seen[Run])
       /\ pinned[Run] # NoRow => NotNewer(draft.base, pinned[Run])

(* A publish that goes well has committed its row. *)
Published == \A e \in Editors : pc[e] \in Rebuilding \union {"done"} => e \in Rows

(* The page that waits for a save is the editor. *)
Waits ==
  /\ mine /\ request = Save /\ mutation \in {"pending", "refetching"} => page = "editor"
  /\ mutation \in {"refetching", "settled"} => pc[request] \in Ended

(* An answer that is on its way after the save was read after it. *)
Refetched ==
  request = Save /\ pc[Save] = "done" /\ mine /\ mutation \in {"refetching", "settled"} =>
    (fetch.got # NoRow => NotNewer(Save, fetch.got))

EInv ==
  /\ EditorTypeOK
  /\ ShownInOrder
  /\ Unsent
  /\ DraftInOrder
  /\ ReadAfterClick
  /\ Published
  /\ Waits
  /\ Refetched
  /\ SavesShowUp

USE VersionsAssumption, EditorAssumption

LEMMA InitEInv == EditorInit => EInv
  <1> SUFFICES ASSUME EditorInit PROVE EInv
    OBVIOUS
  <1> USE DEF EditorInit, Idle, NoDraft
  <1>1. EditorTypeOK
    BY DEF EditorTypeOK, Pages
  <1>2. ShownInOrder /\ DraftInOrder
    BY DEF ShownInOrder, DraftInOrder
  <1>4. Waits
    BY DEF Waits
  <1>5. Refetched /\ SavesShowUp
    BY DEF Refetched, SavesShowUp
  <1>3. Unsent /\ ReadAfterClick /\ Published
    BY DEF Unsent, ReadAfterClick, Published, Init, Requests, Writers, Rebuilding
  <1> QED
    BY <1>1, <1>2, <1>3, <1>4, <1>5 DEF EInv

(* Every step of the browser leaves the requests alone, and every other    *)
(* step is one of WorkflowVersions.                                        *)
LEMMA Projects == [EditorNext]_editorVars => [Next]_vars
  <1>1. Browse => UNCHANGED vars
    BY DEF Browse, Open, Leave, Switch, Reconnect, Answer, Land, PressSave, PressRun,
           RequestAnswered
  <1> QED
    BY <1>1 DEF EditorNext, Serve, Break, Next, editorVars

(* A request changes its own entries, and those that have ended rest. *)
LEMMA OwnEntries ==
  ASSUME IInv, NEW r \in Requests, Handle(r) \/ Fail(r)
  PROVE  /\ \A q \in Requests \ {r} : pc'[q] = pc[q] /\ seen'[q] = seen[q]
         /\ \A t \in Triggers \ {r} : pinned'[t] = pinned[t]
         /\ pc[r] \notin Ended
  <1> USE DEF IInv, TypeOK, Goto
  <1>1. CASE r = Installer /\ Install
    BY <1>1 DEF Install, InsertWorkflow, InsertFirstVersion, Ended
  <1>2. CASE Begin(r) \/ GetCurrentVersion(r) \/ InsertExecution(r)
    <2>1. CASE Begin(r)
      BY <2>1 DEF Begin, Ended
    <2>2. CASE GetCurrentVersion(r)
      BY <2>2 DEF GetCurrentVersion, Ended
    <2>3. CASE InsertExecution(r)
      BY <2>3 DEF InsertExecution, Ended
    <2> QED
      BY <1>2, <2>1, <2>2, <2>3
  <1>3. CASE r \in Editors /\ Publish(r)
    BY <1>3 DEF Publish, FindCurrent, ClearCurrent, InsertVersion, Commit, Ended
  <1>4. CASE r \in Writers /\ RegenerateProjection(r)
    BY <1>4 DEF RegenerateProjection, Rebuilding, Ended
  <1>5. CASE Fail(r)
    BY <1>5 DEF Fail
  <1> QED
    BY <1>1, <1>2, <1>3, <1>4, <1>5 DEF Handle

(* Every version is no newer than a current one. *)
LEMMA CurrentIsNewest ==
  ASSUME IInv, NEW v \in CurrentRows
  PROVE  v \in Rows /\ \A w \in Rows : NotNewer(w, v)
  BY DEF IInv, HistoryIsLinear, CurrentIsLatest, CurrentRows, NotNewer

-----------------------------------------------------------------------------
(* The steps of the requests. *)

LEMMA RequestStep ==
  ASSUME IInv, IInv', EInv, NEW r \in Requests, Serve(r) \/ Break(r)
  PROVE  EInv'
  <1> USE DEF EInv
  <1>1. [Next]_vars /\ (Handle(r) \/ Fail(r)) /\ Sent(r) /\ UNCHANGED browser
    BY DEF Serve, Break, Next
  <1>2. Rows \subseteq Rows' /\ \A w \in Rows : row'[w].number = row[w].number
    BY <1>1, RowsGrow
  <1>3. \A v, w \in Rows : NotNewer(v, w) => NotNewer(v, w)'
    BY <1>2 DEF NotNewer
  <1>4. /\ \A q \in Requests \ {r} : pc'[q] = pc[q] /\ seen'[q] = seen[q]
        /\ \A t \in Triggers \ {r} : pinned'[t] = pinned[t]
        /\ pc[r] \notin Ended
    BY <1>1, OwnEntries
  <1>5. /\ page' = page /\ cache' = cache /\ broken' = broken /\ fetch' = fetch
        /\ canvas' = canvas /\ request' = request /\ mutation' = mutation
        /\ mine' = mine /\ draft' = draft
    BY <1>1 DEF browser
  <1>6. /\ Save \in Requests /\ Run \in Requests /\ Save # Run /\ NoRow \notin Requests
        /\ Save \in Writers /\ Save # Installer /\ Run \notin Writers
        /\ Editors \subseteq Requests
    BY DEF Requests, Writers
  <1>7. /\ TypeOK /\ TypeOK' /\ HistoryIsLinear /\ Fresh /\ Fresh' /\ SeenExists /\ SeenExists'
        /\ Known /\ Known'
    BY DEF IInv
  <1>8. EditorTypeOK'
    BY <1>5 DEF EditorTypeOK
  <1>9. ShownInOrder'
    BY <1>2, <1>3, <1>5 DEF ShownInOrder
  <1>10. Unsent'
    BY <1>1, <1>4, <1>5, <1>6 DEF Unsent, Sent
  <1>11. DraftInOrder'
    BY <1>2, <1>3, <1>5 DEF DraftInOrder
  <1>12. Published'
    <2> SUFFICES ASSUME NEW e \in Editors, pc'[e] \in Rebuilding \union {"done"}
                 PROVE  e \in Rows'
      BY DEF Published
    <2>1. CASE e # r
      BY <1>2, <1>4, <1>6, <2>1 DEF Published
    <2>2. CASE e = r
      <3>1. Commit(e) \/ RegenerateProjection(e)
        <4> USE <1>7 DEF TypeOK, Goto
        <4>1. e # Installer /\ e \notin Triggers
          OBVIOUS
        <4>2. ~Begin(e) /\ ~GetCurrentVersion(e) /\ ~InsertExecution(e)
          BY <2>2, <4>1 DEF Begin, GetCurrentVersion, InsertExecution, Rebuilding
        <4>3. ~FindCurrent(e) /\ ~ClearCurrent(e) /\ ~InsertVersion(e) /\ ~Fail(e)
          BY <2>2 DEF FindCurrent, ClearCurrent, InsertVersion, Fail, Rebuilding
        <4> QED
          BY <1>1, <2>2, <4>1, <4>2, <4>3 DEF Handle, Publish
      <3>2. CASE RegenerateProjection(e)
        BY <1>2, <3>2 DEF RegenerateProjection, Published
      <3>3. CASE Commit(e)
        <4>1. NextNumber(e) \in Nat /\ NextNumber(e) > 0
          BY <1>7, <3>3 DEF Commit, SeenExists, Rows, NextNumber, TypeOK, Versions
        <4>2. row'[e].number = NextNumber(e) /\ e \in Writers
          BY <3>3 DEF Commit, Writers
        <4> QED
          BY <4>1, <4>2 DEF Rows
      <3> QED
        BY <3>1, <3>2, <3>3
    <2> QED
      BY <2>1, <2>2
  <1>13. ReadAfterClick'
    <2>1. CASE r = request
      <3>1. draft.base \in Rows
        BY <1>6, <2>1 DEF DraftInOrder
      <3>2. CASE GetCurrentVersion(r)
        <4>1. row' = row /\ pinned' = pinned /\ pc[r] = "read"
          BY <3>2 DEF GetCurrentVersion, tables
        <4>2. pc'[r] # "failed" => seen'[r] \in CurrentRows
          BY <1>7, <3>2 DEF GetCurrentVersion, TypeOK, Goto
        <4>3. pc'[r] # "failed" => NotNewer(draft.base, seen[r])'
          BY <1>5, <3>1, <4>1, <4>2, CurrentIsNewest DEF NotNewer
        <4>4. Rows' = Rows
          BY <4>1 DEF Rows
        <4>5. request = Run => pinned[Run] = NoRow
          BY <1>7, <2>1, <4>1 DEF Known
        <4>6. request = Save => Save \notin Rows
          BY <1>7, <2>1, <4>1 DEF Fresh, Rows
        <4> QED
          BY <1>5, <1>6, <2>1, <4>1, <4>3, <4>4, <4>5, <4>6 DEF ReadAfterClick
      <3>3. CASE InsertExecution(r)
        <4>1. r = Run /\ row' = row /\ seen' = seen /\ pinned'[r] = seen[r] /\ pc'[r] = "done"
              /\ pc[r] = "insert"
          BY <1>6, <1>7, <2>1, <3>3 DEF InsertExecution, tables, TypeOK, Goto, EditorTypeOK
        <4> QED
          BY <1>5, <1>6, <2>1, <4>1 DEF ReadAfterClick, NotNewer
      <3>4. CASE r = Save /\ Commit(r)
        <4>1. /\ seen[r] \in Rows /\ NotNewer(draft.base, seen[r])
          BY <1>7, <2>1, <3>4 DEF Commit, SeenExists, ReadAfterClick
        <4>2. row'[r].number = row[seen[r]].number + 1 /\ pc'[r] = "dropNodes"
          BY <1>6, <1>7, <3>4 DEF Commit, NextNumber, TypeOK, Goto
        <4>3. row[draft.base].number \in Nat /\ row[seen[r]].number \in Nat
          BY <1>7, <3>1, <4>1 DEF Rows, TypeOK, Versions
        <4>4. row'[draft.base].number < row'[r].number
          BY <1>2, <3>1, <4>1, <4>2, <4>3 DEF NotNewer
        <4> QED
          BY <1>5, <1>6, <2>1, <3>4, <4>2, <4>4 DEF ReadAfterClick
      <3>5. CASE ~GetCurrentVersion(r) /\ ~InsertExecution(r) /\ ~(r = Save /\ Commit(r))
        <4>1. r # Installer
          BY <1>6, <2>1 DEF EditorTypeOK
        <4>2. /\ row' = row /\ seen' = seen /\ pinned' = pinned
              /\ pc'[r] \in {"update", "lock", "insert", "commit"} =>
                   pc[r] \in {"update", "lock", "insert", "commit"}
              /\ r = Run => pc'[r] # "insert"
          <5>1. CASE Begin(r) \/ Fail(r)
            BY <1>7, <5>1 DEF Begin, Fail, TypeOK, Goto, tables
          <5>2. CASE r \in Editors /\ Publish(r)
            <6>1. r = Save
              BY <1>6, <2>1, <5>2 DEF EditorTypeOK
            <6> QED
              BY <1>6, <1>7, <3>5, <5>2, <6>1 DEF Publish, FindCurrent, ClearCurrent,
                 InsertVersion, TypeOK, Goto, tables
          <5>3. CASE r \in Writers /\ RegenerateProjection(r)
            BY <1>6, <1>7, <5>3 DEF RegenerateProjection, NextStatement, Rebuilding, TypeOK, Goto
          <5> QED
            BY <1>1, <3>5, <4>1, <5>1, <5>2, <5>3 DEF Handle
        <4>3. Rows' = Rows
          BY <4>2 DEF Rows
        <4> QED
          BY <1>5, <1>6, <2>1, <4>2, <4>3 DEF ReadAfterClick, NotNewer
      <3> QED
        BY <3>2, <3>3, <3>4, <3>5
    <2>2. CASE r # request
      <3>1. request = Save =>
              /\ pc'[Save] = pc[Save] /\ seen'[Save] = seen[Save] /\ draft.base \in Rows
              /\ pc[Save] \in {"update", "lock", "insert", "commit"} => seen[Save] \in Rows
        BY <1>4, <1>6, <1>7, <2>2 DEF DraftInOrder, SeenExists
      <3>2. request = Save /\ Save \in Rows' => Save \in Rows
        <4> SUFFICES ASSUME request = Save, Save \in Rows' PROVE Save \in Rows
          OBVIOUS
        <4>1. r # Save
          BY <2>2
        <4>2. CASE row' = row
          BY <4>2 DEF Rows
        <4>3. CASE r \in Editors /\ Commit(r)
          <5>1. row'[Save] = [row[Save] EXCEPT !.current = @ /\ Save \notin cleared[r]]
            BY <1>6, <4>1, <4>3, Zenon DEF Commit
          <5>2. \A b : [row[Save] EXCEPT !.current = b].number = row[Save].number
            BY <1>6, <1>7 DEF TypeOK, Versions
          <5>3. row'[Save].number = row[Save].number
            BY <5>1, <5>2, Zenon
          <5> QED
            BY <1>6, <5>3 DEF Rows
        <4>4. CASE InsertFirstVersion
          BY <1>6, <1>7, <4>4 DEF InsertFirstVersion, TypeOK, Rows
        <4>5. row' = row \/ (r \in Editors /\ Commit(r)) \/ InsertFirstVersion
          BY <1>1 DEF Handle, Install, InsertWorkflow, Begin, GetCurrentVersion, Publish,
               FindCurrent, ClearCurrent, InsertVersion, RegenerateProjection, InsertExecution,
               Fail, tables
        <4> QED
          BY <4>2, <4>3, <4>4, <4>5
      <3>3. request = Run =>
              /\ pc'[Run] = pc[Run] /\ seen'[Run] = seen[Run] /\ pinned'[Run] = pinned[Run]
              /\ draft.base \in Rows
              /\ pc[Run] = "insert" => seen[Run] \in Rows
              /\ pinned[Run] # NoRow => pinned[Run] \in Rows
        BY <1>4, <1>6, <1>7, <2>2 DEF DraftInOrder, Known
      <3> QED
        BY <1>2, <1>3, <1>5, <1>6, <3>1, <3>2, <3>3 DEF ReadAfterClick
    <2> QED
      BY <2>1, <2>2
  <1>14. mutation \in {"refetching", "settled"} => pc'[request] = pc[request]
    BY <1>4, <1>6 DEF Waits, Unsent, EditorTypeOK
  <1>15. Waits'
    BY <1>5, <1>14 DEF Waits
  <1>16. pc[Save] = "done" => Save \in Rows
    BY DEF Published
  <1>17. Refetched'
    BY <1>3, <1>5, <1>14, <1>16 DEF Refetched, ShownInOrder
  <1>18. SavesShowUp'
    BY <1>2, <1>5, <1>14, <1>16 DEF SavesShowUp, ShownInOrder
  <1> QED
    BY <1>8, <1>9, <1>10, <1>11, <1>12, <1>13, <1>15, <1>17, <1>18

-----------------------------------------------------------------------------
(* The steps of the browser. *)

LEMMA BrowseStep ==
  ASSUME IInv, EInv, Browse
  PROVE  EInv'
  <1> USE DEF EInv
  <1>1. UNCHANGED vars
    BY DEF Browse, Open, Leave, Switch, Reconnect, Answer, Land, PressSave, PressRun,
           RequestAnswered
  <1>2. /\ row' = row /\ pc' = pc /\ seen' = seen /\ pinned' = pinned /\ Rows' = Rows
        /\ CurrentRows \subseteq Rows /\ Rows \subseteq Writers /\ NoRow \notin Rows
        /\ Save \in Requests /\ Run \in Requests /\ NoRow \notin Requests /\ Save # Run
    BY <1>1 DEF vars, tables, Rows, CurrentRows, Requests, Writers
  <1>3. \A v \in Rows : row[v].number \in Nat
    BY DEF Rows, IInv, TypeOK, Versions
  <1>4. Published'
    BY <1>2 DEF Published
  <1>5. ASSUME UNCHANGED <<cache, broken, request, mutation, draft>>,
               fetch' = fetch \/ fetch' = Asked,
               canvas' \in {canvas, cache, NoRow}, page' \in Pages, mine' \in BOOLEAN,
               mine' => mine,
               mine' => mutation = "settled" \/ page' = page \/ page = "elsewhere"
        PROVE  EInv'
    <2> USE <1>5 DEF Asked
    <2>1. EditorTypeOK'
      BY DEF EditorTypeOK
    <2>2. ShownInOrder'
      BY <1>2, <1>3 DEF ShownInOrder, NotNewer
    <2>3. Unsent' /\ DraftInOrder' /\ ReadAfterClick'
      BY <1>2 DEF Unsent, DraftInOrder, ReadAfterClick, NotNewer
    <2>4. Waits'
      BY <1>2 DEF Waits
    <2>5. Refetched'
      BY <1>2 DEF Refetched, NotNewer
    <2>6. SavesShowUp'
      BY <1>2 DEF SavesShowUp
    <2> QED
      BY <1>4, <2>1, <2>2, <2>3, <2>4, <2>5, <2>6
  <1>6. CASE Open \/ Leave \/ Switch \/ Reconnect
    <2> USE DEF Mount, Ask, Pages
    <2>1. CASE Open
      BY <1>5, <2>1 DEF Open, OpenInstalled, OpenListed, EditorTypeOK
    <2>2. CASE Leave
      BY <1>5, <2>2 DEF Leave, Abandon, EditorTypeOK
    <2>3. CASE Switch
      BY <1>5, <2>3 DEF Switch, Abandon, EditorTypeOK
    <2>4. CASE Reconnect
      BY <1>5, <2>4 DEF Reconnect, EditorTypeOK
    <2> QED
      BY <1>6, <2>1, <2>2, <2>3, <2>4
  <1>7. CASE Answer
    <2> USE <1>7 DEF Answer, Asked, Answered
    <2>1. PICK v \in CurrentRows \union {NoRow} : fetch' = Answered(v)
      OBVIOUS
    <2>2. fetch'.got = v /\ fetch'.at = "answered"
      BY <2>1
    <2>3. EditorTypeOK'
      BY <1>2, <2>1 DEF EditorTypeOK
    <2>4. v # NoRow => v \in Rows /\ \A w \in Rows : NotNewer(w, v)
      BY <2>1, CurrentIsNewest
    <2>5. ShownInOrder'
      BY <1>2, <2>2, <2>4 DEF ShownInOrder, NotNewer
    <2>6. Unsent' /\ DraftInOrder' /\ ReadAfterClick' /\ Waits' /\ SavesShowUp'
      BY <1>2 DEF Unsent, DraftInOrder, ReadAfterClick, Waits, SavesShowUp, NotNewer
    <2>7. Refetched'
      BY <1>2, <2>2, <2>4 DEF Refetched, Published, NotNewer
    <2> QED
      BY <1>4, <2>3, <2>5, <2>6, <2>7
  <1>8. CASE Land
    <2> USE <1>8 DEF Land, Filled, Asked, Idle
    <2>1. EditorTypeOK'
      BY DEF EditorTypeOK, Pages
    <2>2. ShownInOrder'
      BY <1>2, <1>3 DEF ShownInOrder, NotNewer
    <2>3. Unsent' /\ DraftInOrder' /\ ReadAfterClick'
      BY <1>2 DEF Unsent, DraftInOrder, ReadAfterClick, NotNewer
    <2>4. Waits'
      BY <1>2 DEF Waits
    <2>5. fetch' = Asked \/ fetch' = Idle
      BY Zenon
    <2>6. Refetched'
      BY <2>5 DEF Refetched
    <2>7. SavesShowUp'
      <3> SUFFICES ASSUME request = Save, mutation \in {"refetching", "settled"}, mine,
                          pc[Save] = "done", fetch.got # NoRow
                   PROVE  fetch.got \in Rows /\ row[Save].number <= row[fetch.got].number
        BY <1>2 DEF SavesShowUp
      <3> QED
        BY DEF Refetched, ShownInOrder, NotNewer
    <2> QED
      BY <1>4, <2>1, <2>2, <2>3, <2>4, <2>6, <2>7
  <1>9. ASSUME NEW q \in {Save, Run}, NEW d, Send(q, d),
               d.nodes \in Rows, d.base \in Rows, NotNewer(d.nodes, d.base),
               d \in [nodes : Writers \union {NoRow}, base : Writers \union {NoRow}],
               q = Save => page = "editor",
               UNCHANGED <<vars, page, cache, broken, fetch, canvas>>
        PROVE  EInv'
    <2> USE <1>9 DEF Send
    <2>1. EditorTypeOK'
      BY DEF EditorTypeOK
    <2>2. ShownInOrder'
      BY <1>2 DEF ShownInOrder, NotNewer
    <2>3. Unsent'
      BY <1>2 DEF Unsent
    <2>4. DraftInOrder'
      BY <1>2 DEF DraftInOrder, NotNewer
    <2>5. Save \notin Rows /\ pinned[Run] = NoRow /\ pc[Save] = "start" /\ pc[Run] = "start"
      BY <1>2 DEF Unsent, IInv, Fresh, Known, Rows
    <2>6. ReadAfterClick'
      BY <1>2, <2>5 DEF ReadAfterClick
    <2>7. Waits' /\ Refetched' /\ SavesShowUp'
      BY <1>2 DEF Waits, Refetched, SavesShowUp
    <2> QED
      BY <1>4, <2>1, <2>2, <2>3, <2>4, <2>6, <2>7
  <1>10. CASE PressSave
    <2>1. Send(Save, Built) /\ cache # NoRow /\ canvas # NoRow /\ page = "editor"
      BY <1>10 DEF PressSave, Send, Shown
    <2>2. Built.nodes = canvas /\ Built.base = cache
      BY DEF Built
    <2> QED
      BY <1>2, <1>9, <1>10, <2>1, <2>2 DEF PressSave, Built, ShownInOrder
  <1>11. CASE PressRun
    <2> DEFINE d == [nodes |-> cache, base |-> cache]
    <2>1. Send(Run, d) /\ cache # NoRow
      BY <1>11 DEF PressRun, Send, Shown
    <2>2. NotNewer(d.nodes, d.base) /\ cache \in Rows
      BY <1>3, <2>1 DEF NotNewer, ShownInOrder
    <2> QED
      BY <1>2, <1>9, <1>11, <2>1, <2>2 DEF PressRun
  <1>12. CASE RequestAnswered
    <2> USE <1>12 DEF RequestAnswered, Refetch, Asked, Mount
    <2>1. EditorTypeOK'
      BY DEF EditorTypeOK, Pages
    <2>2. ShownInOrder'
      BY <1>2 DEF ShownInOrder, NotNewer
    <2>3. Unsent' /\ DraftInOrder' /\ ReadAfterClick'
      BY <1>2 DEF Unsent, DraftInOrder, ReadAfterClick, NotNewer
    <2>4. Waits'
      BY <1>2 DEF Waits
    <2>5. request = Save /\ pc[Save] = "done" /\ mine =>
            mutation' = "refetching" /\ fetch'.got = NoRow
      BY <1>2 DEF Waits
    <2>6. Refetched' /\ SavesShowUp'
      BY <1>2, <2>5 DEF Refetched, SavesShowUp
    <2> QED
      BY <1>4, <2>1, <2>2, <2>3, <2>4, <2>6
  <1> QED
    BY <1>6, <1>7, <1>8, <1>10, <1>11, <1>12 DEF Browse

LEMMA StutterStep ==
  ASSUME EInv, UNCHANGED editorVars
  PROVE  EInv'
  <1>1. /\ UNCHANGED <<row, pc, seen, pinned>> /\ Rows' = Rows
        /\ UNCHANGED <<page, cache, broken, fetch, canvas, request, mutation, mine, draft>>
    BY DEF editorVars, browser, vars, tables, Rows
  <1> QED
    BY <1>1 DEF EInv, EditorTypeOK, ShownInOrder, Unsent, DraftInOrder, ReadAfterClick, Published,
         Waits, Refetched, SavesShowUp, NotNewer

-----------------------------------------------------------------------------
(* A browser only adds to the requests: whatever the proofs of             *)
(* WorkflowVersions say holds beside it (apps/web calls the API and        *)
(* nothing else).                                                          *)
THEOREM EditorImplementsVersions == EditorSpec => Spec
  <1>1. EditorInit => Init
    BY DEF EditorInit
  <1> QED
    BY <1>1, Projects, PTL DEF EditorSpec, Spec

LEMMA EInvHolds == EditorSpec => []EInv
  <1>1. EditorInit => Init
    BY DEF EditorInit
  <1>2. IInv /\ IInv' /\ EInv /\ [EditorNext]_editorVars => EInv'
    BY RequestStep, BrowseStep, StutterStep DEF EditorNext
  <1>3. EditorSpec => []IInv
    BY EditorImplementsVersions, IInvHolds, PTL
  <1> QED
    BY <1>2, <1>3, InitEInv, PTL DEF EditorSpec

(* What the browser publishes or runs comes after, or is, every version it *)
(* had shown, for any number of other publishes between fetch, click and   *)
(* transaction (buildDefinition and onSave of the editor's page, onRun of  *)
(* the detail page, createWorkflowVersion).                                *)
THEOREM RequestsForward == EditorSpec => []RequestsGoForward
  <1>1. IInv /\ EInv => RequestsGoForward
    <2> SUFFICES ASSUME IInv, EInv, request # NoRow PROVE RequestsGoForward
      BY DEF RequestsGoForward
    <2>1. draft.nodes \in Rows /\ draft.base \in Rows /\ NotNewer(draft.nodes, draft.base)
      BY DEF EInv, DraftInOrder
    <2>2. request # Save => pc[Save] = "start" /\ Save \notin Rows
      BY DEF EInv, Unsent, IInv, Fresh, Rows
    <2>3. request # Run => pc[Run] = "start" /\ pinned[Run] = NoRow
      BY DEF EInv, Unsent, IInv, Known
    <2> QED
      BY <2>1, <2>2, <2>3 DEF EInv, ReadAfterClick, RequestsGoForward, NotNewer, Rows, EditorTypeOK
  <1>2. EditorSpec => []IInv
    BY EditorImplementsVersions, IInvHolds, PTL
  <1> QED
    BY <1>1, <1>2, EInvHolds, PTL

(* The page an editor gives way to after its save shows that version or a  *)
(* later one, or says that it could not fetch (useUpdateWorkflow and the   *)
(* editor's page).                                                         *)
THEOREM SavesVisible == EditorSpec => []SavesShowUp
  <1>1. EInv => SavesShowUp
    BY DEF EInv
  <1> QED
    BY <1>1, EInvHolds, PTL
=============================================================================
