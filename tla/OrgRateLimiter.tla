--------------------------- MODULE OrgRateLimiter ---------------------------
(***************************************************************************)
(* The sliding window in front of launching executions: one organization   *)
(* in OrgRateLimiter of apps/api/src/lib/org-rate-limit.ts.  The map of    *)
(* hits is the memory of one API process; organizations share nothing.     *)
(* check() has no await, but it asks for the time twice.                   *)
(*                                                                         *)
(* The array of timestamps is only filtered, measured and pushed to: it is *)
(* a set here, in which a number tells entries of the same instant apart.  *)
(***************************************************************************)
EXTENDS Integers, FiniteSets

CONSTANTS
  MaxHits,   \* max: hits per window
  WindowMs,  \* the window, in ticks
  MaxClock   \* bound: the last tick

ASSUME LimiterAssumption == MaxHits \in Nat \ {0} /\ WindowMs \in Nat /\ MaxClock \in Nat

VARIABLES
  clock,
  hits,      \* the entries of the organization
  admitted,  \* history: every entry ever made
  refused    \* history: when checks were refused

limiterVars == <<clock, hits, admitted, refused>>

LimiterInit == clock = WindowMs /\ hits = {} /\ admitted = {} /\ refused = {}

(* Mutant: a hit as old as the window still counts. *)
AtBoundary(t) == {h \in hits : h.at >= t - WindowMs}

Entries(t) == {h \in hits : h.at > t - WindowMs}

NewEntry(at) == [at |-> at, nr |-> Cardinality(admitted)]

(* The entry is made at the time of the second look at the clock. *)
Admit(later) ==
  /\ Cardinality(Entries(clock)) < MaxHits
  /\ later \in {clock, clock + 1} /\ later <= MaxClock
  /\ clock' = later
  /\ hits' = Entries(clock) \union {NewEntry(later)}
  /\ admitted' = admitted \union {NewEntry(later)}
  /\ UNCHANGED refused

Refuse ==
  /\ Cardinality(Entries(clock)) >= MaxHits
  /\ refused' = refused \union {clock}
  /\ UNCHANGED <<clock, hits, admitted>>

Later ==
  /\ clock < MaxClock
  /\ clock' = clock + 1
  /\ UNCHANGED <<hits, admitted, refused>>

LimiterNext == (\E t \in {clock, clock + 1} : Admit(t)) \/ Refuse \/ Later

LimiterSpec == LimiterInit /\ [][LimiterNext]_limiterVars

-----------------------------------------------------------------------------
AdmittedWithin(t) == {a \in admitted : t - WindowMs < a.at /\ a.at <= t}

(* No window of that length, wherever it begins, admits more than the      *)
(* limit, and nobody is refused whose last window was not full: "allows up *)
(* to max hits per window, then throws RATE_LIMITED", and "the window      *)
(* slides", whatever was dropped from the entries at earlier checks.       *)
WindowHolds ==
  /\ \A t \in 0 .. MaxClock : Cardinality(AdmittedWithin(t)) <= MaxHits
  /\ \A t \in refused : Cardinality(AdmittedWithin(t)) >= MaxHits
=============================================================================
