------------------------------ MODULE Sessions ------------------------------
(***************************************************************************)
(* Rows of table sessions and the requests that present their cookies:     *)
(* apps/api/src/plugins/auth.ts, with login, registration and logout of    *)
(* apps/api/src/modules/auth/routes.ts.                                    *)
(*                                                                         *)
(* A session slides: a request that finds less than Threshold left moves   *)
(* the expiry to Ttl after the instant the request began, in an UPDATE     *)
(* after the SELECT, while other requests of the session do the same.      *)
(***************************************************************************)
EXTENDS Integers

CONSTANTS
  Users, NoUser,
  SessionIds, NoId,  \* rows of sessions
  Requests,          \* concurrent requests
  Ttl,               \* SESSION_TTL_MS
  Threshold,         \* SESSION_EXTEND_THRESHOLD_MS
  MaxLag,            \* a request is authenticated in at most this time
  MaxTime            \* bound: the clock

ASSUME SessionsAssumption ==
  /\ NoUser \notin Users /\ NoId \notin SessionIds
  /\ Ttl \in Nat /\ Threshold \in Nat /\ MaxLag \in Nat /\ MaxTime \in Nat
  /\ Threshold + MaxLag <= Ttl

VARIABLES
  now,       \* the clock
  session,   \* each row; active: its organization is the one in module Organizations
  request,   \* each request: how far it is, what its SELECT read, if it is to slide when it began
  lastUse    \* history: when the last request of a session began that it let through

sessionVars == <<now, session, request, lastUse>>

NoSession == [user |-> NoUser, expires |-> 0, revoked |-> FALSE, active |-> FALSE]
NoRequest == [at |-> "idle", id |-> NoId, began |-> 0, active |-> FALSE]

SessionRows == [user : Users \union {NoUser}, expires : Nat,
                revoked : BOOLEAN, active : BOOLEAN]
RequestStates == [at : {"idle", "slide", "in"}, id : SessionIds \union {NoId},
                  began : Nat, active : BOOLEAN]

SessionsTypeOK ==
  /\ now \in Nat
  /\ session \in [SessionIds -> SessionRows]
  /\ request \in [Requests -> RequestStates]
  /\ \A r \in Requests : request[r].at # "idle" => request[r].id \in SessionIds
  /\ lastUse \in [SessionIds -> Nat]

SessionsInit ==
  /\ now = 0
  /\ session = [s \in SessionIds |-> NoSession]
  /\ request = [r \in Requests |-> NoRequest]
  /\ lastUse = [s \in SessionIds |-> 0]

-----------------------------------------------------------------------------
(* createSession, at the end of a login or a registration. *)
CreateSession(s, u, active) ==
  /\ session[s] = NoSession
  /\ session' = [session EXCEPT ![s] =
       [user |-> u, expires |-> now + Ttl, revoked |-> FALSE, active |-> active]]
  /\ lastUse' = [lastUse EXCEPT ![s] = now]
  /\ UNCHANGED <<now, request>>

IsLive(s) ==
  /\ session[s] # NoSession
  /\ ~session[s].revoked
  /\ session[s].expires > now

(* Mutant: hours and days mixed up, the expiry moves far too late. *)
HardlyEver(s) == session[s].expires - now < 1

MustSlide(s) == session[s].expires - now < Threshold

Used(s, t) == lastUse' = [lastUse EXCEPT ![s] = IF t > @ THEN t ELSE @]

(* resolveSession, the SELECT. *)
ResolveSession(r, s) ==
  /\ request[r].at = "idle"
  /\ IsLive(s)
  /\ request' = [request EXCEPT ![r] =
       [at |-> IF MustSlide(s) THEN "slide" ELSE "in", id |-> s,
        began |-> IF MustSlide(s) THEN now ELSE 0, active |-> session[s].active]]
  /\ IF MustSlide(s) THEN UNCHANGED lastUse ELSE Used(s, now)
  /\ UNCHANGED <<now, session>>

(* resolveSession, the UPDATE, computed from the clock before the SELECT. *)
SlideSession(r) ==
  LET s == request[r].id IN
  /\ request[r].at = "slide"
  /\ session' = [session EXCEPT ![s].expires = request[r].began + Ttl]
  /\ request' = [request EXCEPT ![r].at = "in", ![r].began = 0]
  /\ Used(s, request[r].began)
  /\ UNCHANGED now

Reply(r) == request' = [request EXCEPT ![r] = NoRequest]

(* POST /auth/logout. *)
RevokeSession(r) ==
  /\ request[r].at = "in"
  /\ session' = [session EXCEPT ![request[r].id].revoked = TRUE]
  /\ Reply(r)
  /\ UNCHANGED <<now, lastUse>>

(* Time passes, but for no request's authentication more than MaxLag. *)
Tick ==
  /\ now < MaxTime
  /\ \A r \in Requests : request[r].at = "slide" => now < request[r].began + MaxLag
  /\ now' = now + 1
  /\ UNCHANGED <<session, request, lastUse>>

-----------------------------------------------------------------------------
(* Who was let in stays in: unless it is revoked, a session lives at least *)
(* Threshold longer than the last request it let through began, whatever   *)
(* older UPDATEs land after newer ones.                                    *)
SlidesEnough ==
  \A s \in SessionIds :
    session[s] # NoSession => session[s].expires >= lastUse[s] + Threshold
=============================================================================
