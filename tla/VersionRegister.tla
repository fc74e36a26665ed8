-------------------------- MODULE VersionRegister --------------------------
(***************************************************************************)
(* What the versions of an installed workflow promise, without statements, *)
(* transactions, locks or indexes: one register that holds the current     *)
(* version.  A request reads it once; a publish then replaces what it has  *)
(* read if that is still there, in one step ("flips is_current             *)
(* atomically", apps/api/src/modules/workflows/service.ts), and is refused *)
(* only if it is not; an execution runs the version its trigger has read.  *)
(***************************************************************************)
EXTENDS Naturals

CONSTANTS Installer, Editors, Triggers, NoRow

VARIABLES
  latest,   \* the current version, named after the request that wrote it
  number,   \* the number of each version; 0 is no version
  base,     \* the version each request has read
  refused,  \* publishes answered with a conflict
  runs      \* the version of the execution of each trigger

registerVars == <<latest, number, base, refused, runs>>

RegisterInit ==
  /\ latest = NoRow
  /\ number = [w \in {Installer} \union Editors |-> 0]
  /\ base = [r \in {Installer} \union Editors \union Triggers |-> NoRow]
  /\ refused = {}
  /\ runs = [t \in Triggers |-> NoRow]

Create ==
  /\ latest = NoRow
  /\ latest' = Installer
  /\ number' = [number EXCEPT ![Installer] = 1]
  /\ UNCHANGED <<base, refused, runs>>

Read(r) ==
  /\ latest # NoRow
  /\ base[r] = NoRow
  /\ base' = [base EXCEPT ![r] = latest]
  /\ UNCHANGED <<latest, number, refused, runs>>

(* The publish has its base and no answer. *)
Trying(e) == base[e] # NoRow /\ number[e] = 0 /\ e \notin refused

Replace(e) ==
  /\ Trying(e)
  /\ base[e] = latest
  /\ latest' = e
  /\ number' = [number EXCEPT ![e] = number[latest] + 1]
  /\ UNCHANGED <<base, refused, runs>>

Refuse(e) ==
  /\ Trying(e)
  /\ base[e] # latest
  /\ refused' = refused \union {e}
  /\ UNCHANGED <<latest, number, base, runs>>

Pin(t) ==
  /\ base[t] # NoRow /\ runs[t] = NoRow
  /\ runs' = [runs EXCEPT ![t] = base[t]]
  /\ UNCHANGED <<latest, number, base, refused>>

RegisterNext ==
  \/ Create
  \/ \E r \in Editors \union Triggers : Read(r)
  \/ \E e \in Editors : Replace(e) \/ Refuse(e)
  \/ \E t \in Triggers : Pin(t)

RegisterSpec == RegisterInit /\ [][RegisterNext]_registerVars
=============================================================================
