------------------------- MODULE Organizations_proofs -------------------------
(***************************************************************************)
(* What holds of Sessions and Organizations for any number of users,       *)
(* sessions, requests and invitations, and any lifetimes.                  *)
(*                                                                         *)
(* A session is never shortened too far because no UPDATE is older than    *)
(* MaxLag.  A request between a check and the write that relies on it      *)
(* keeps its session, whose user keeps its membership.  A join is one of   *)
(* the requests that found the invitation open, each of which is joining,  *)
(* has marked it, or died.                                                 *)
(***************************************************************************)
EXTENDS Organizations, FiniteSetTheorems, TLAPS

RowsAreOwned == \A s \in SessionIds : session[s] = NoSession \/ session[s].user \in Users

(* A request that was let in, or will be, keeps its session's row. *)
SessionIsHeld ==
  \A r \in Requests : request[r].at # "idle" =>
    request[r].id \in SessionIds /\ session[request[r].id] # NoSession

UsesArePast == \A s \in SessionIds : lastUse[s] <= now

LagsAreBounded ==
  \A r \in Requests : request[r].at = "slide" =>
    request[r].began <= now /\ now <= request[r].began + MaxLag

SessionsInv ==
  /\ SessionsTypeOK
  /\ RowsAreOwned
  /\ SessionIsHeld
  /\ UsesArePast
  /\ LagsAreBounded
  /\ SlidesEnough

HandlersAreLetIn == \A r \in Requests : task[r].at # "none" => request[r].at = "in"

InvitationsGiveRoles ==
  \A i \in Invitations : invitation[i].status # "none" => invitation[i].role \in GuestRoles

AcceptsHoldInvitations ==
  \A r \in Requests : task[r].at \in {"found", "joined"} =>
    task[r].invitation \in Invitations /\ invitation[task[r].invitation].status # "none"

SwitchersAreMembers ==
  \A r \in Requests : task[r].at = "switch" => role[User(r)] # "none"

(* The request that has inserted the organization and not yet its owner. *)
CreatorIsAlone ==
  /\ \A r \in Requests : task[r].at = "inserted" => created /\ Owners = {}
  /\ \A q, r \in Requests : task[q].at = "inserted" /\ task[r].at = "inserted" => q = r

MembersInv ==
  /\ TypeOK
  /\ HandlersAreLetIn
  /\ InvitationsGiveRoles
  /\ AcceptsHoldInvitations
  /\ SwitchersAreMembers
  /\ CreatorIsAlone
  /\ ActiveIsMember
  /\ OwnerStays

Found(i) == {r \in Requests : task[r].at = "found" /\ task[r].invitation = i}
Joining(i) == {r \in Requests : task[r].at = "joined" /\ task[r].invitation = i}

(* Until it is marked, every join is still joining or died doing so; from  *)
(* then on only the requests that found it open before can add to them.    *)
JoinsAreCounted ==
  \A i \in Invitations :
    /\ invitation[i].status # "accepted" => joins[i] <= Cardinality(Joining(i)) + losses
    /\ invitation[i].status = "accepted" =>
         joins[i] + Cardinality(Found(i)) <= Cardinality(Requests) + losses

IInv == SessionsInv /\ MembersInv /\ JoinsAreCounted
-----------------------------------------------------------------------------
LEMMA NoSessionIsNobodys == NoSession.user \notin Users
BY SessionsAssumption DEF NoSession

LEMMA InitInv == Init => SessionsInv /\ MembersInv
<1> SUFFICES ASSUME Init PROVE SessionsInv /\ MembersInv
  OBVIOUS
<1> USE SessionsAssumption, OrganizationsAssumption DEF Init, SessionsInit
<1>1. SessionsTypeOK
  BY DEF SessionsTypeOK, NoSession, NoRequest, SessionRows, RequestStates
<1>2. RowsAreOwned /\ SessionIsHeld /\ UsesArePast /\ LagsAreBounded
  BY DEF RowsAreOwned, SessionIsHeld, UsesArePast, LagsAreBounded, NoRequest
<1>3. SlidesEnough
  BY DEF SlidesEnough
<1>4. TypeOK
  BY <1>1 DEF TypeOK, NoInvite, NoTask, InvitationRows, Tasks
<1>5. HandlersAreLetIn /\ InvitationsGiveRoles /\ AcceptsHoldInvitations
      /\ SwitchersAreMembers
  BY DEF HandlersAreLetIn, InvitationsGiveRoles, AcceptsHoldInvitations,
         SwitchersAreMembers, NoTask, NoInvite
<1>6. CreatorIsAlone /\ ActiveIsMember /\ OwnerStays
  BY DEF CreatorIsAlone, ActiveIsMember, OwnerStays, Owners, NoTask, NoSession
<1> QED
  BY <1>1, <1>2, <1>3, <1>4, <1>5, <1>6 DEF SessionsInv, MembersInv

(* An answer, whatever else the step does to the row it used. *)
LEMMA ReplyKeepsSessions ==
  ASSUME SessionsInv, NEW r \in Requests, Reply(r), UNCHANGED <<now, lastUse>>,
         NEW s \in SessionIds,
         \/ UNCHANGED session
         \/ session' = [session EXCEPT ![s].active = TRUE] /\ session[s] # NoSession
         \/ session' = [session EXCEPT ![s].revoked = TRUE] /\ session[s] # NoSession
  PROVE  SessionsInv'
<1> USE SessionsAssumption DEF SessionsInv
<1>1. SessionsTypeOK'
  <2>1. session' \in [SessionIds -> SessionRows]
    <3>1. CASE UNCHANGED session BY <3>1 DEF SessionsTypeOK
    <3>2. CASE session' = [session EXCEPT ![s].active = TRUE]
      <4>1. [session[s] EXCEPT !.active = TRUE] \in SessionRows
        <5>1. ASSUME NEW x \in SessionRows PROVE [x EXCEPT !.active = TRUE] \in SessionRows
          <6> HIDE DEF SessionsInv
          <6> QED BY <5>1 DEF SessionRows
        <5> QED BY <5>1 DEF SessionsTypeOK
      <4> QED BY <3>2, <4>1 DEF SessionsTypeOK
    <3>3. CASE session' = [session EXCEPT ![s].revoked = TRUE]
      <4>1. [session[s] EXCEPT !.revoked = TRUE] \in SessionRows
        <5>1. ASSUME NEW x \in SessionRows PROVE [x EXCEPT !.revoked = TRUE] \in SessionRows
          <6> HIDE DEF SessionsInv
          <6> QED BY <5>1 DEF SessionRows
        <5> QED BY <5>1 DEF SessionsTypeOK
      <4> QED BY <3>3, <4>1 DEF SessionsTypeOK
    <3> QED BY <3>1, <3>2, <3>3
  <2>2. request' \in [Requests -> RequestStates]
        /\ \A q \in Requests : request'[q].at # "idle" => request'[q].id \in SessionIds
    BY DEF SessionsTypeOK, Reply, NoRequest, RequestStates
  <2> QED BY <2>1, <2>2 DEF SessionsTypeOK
<1>2. ASSUME NEW t \in SessionIds
      PROVE  /\ session[t] = NoSession => session'[t] = NoSession
             /\ session'[t].user = session[t].user
             /\ session'[t].expires = session[t].expires
  <2>2. CASE t # s BY <2>2 DEF SessionsTypeOK
  <2>3. CASE t = s /\ UNCHANGED session BY <2>3
  <2>4. CASE t = s /\ session' = [session EXCEPT ![s].active = TRUE] /\ session[s] # NoSession
    BY <2>4 DEF SessionsTypeOK, SessionRows
  <2>5. CASE t = s /\ session' = [session EXCEPT ![s].revoked = TRUE] /\ session[s] # NoSession
    BY <2>5 DEF SessionsTypeOK, SessionRows
  <2> QED BY <2>2, <2>3, <2>4, <2>5
<1>3. \A q \in Requests : request'[q] = request[q] \/ request'[q] = NoRequest
  BY DEF Reply, SessionsTypeOK
<1>4. \A t \in SessionIds : session[t] # NoSession =>
        session'[t].user \in Users /\ session'[t] # NoSession
  <2>1. ASSUME NEW t \in SessionIds, session[t] # NoSession
        PROVE  session'[t].user \in Users
    BY <1>2, <2>1 DEF RowsAreOwned
  <2> QED BY <2>1, NoSessionIsNobodys
<1>5. RowsAreOwned' /\ SessionIsHeld'
  <2>1. RowsAreOwned' BY <1>2, <1>4 DEF RowsAreOwned
  <2>2. ASSUME NEW q \in Requests, request'[q].at # "idle"
        PROVE  request'[q].id \in SessionIds /\ session'[request'[q].id] # NoSession
    <3>1. request'[q] = request[q] BY <1>3, <2>2 DEF NoRequest
    <3> QED BY <1>4, <2>2, <3>1 DEF SessionIsHeld
  <2> QED BY <2>1, <2>2 DEF SessionIsHeld
<1>6. UsesArePast' /\ LagsAreBounded' /\ SlidesEnough'
  BY <1>2, <1>3 DEF UsesArePast, LagsAreBounded, SlidesEnough, NoRequest
<1> QED
  BY <1>1, <1>5, <1>6

LEMMA CreateSessionStep ==
  ASSUME SessionsInv, NEW s \in SessionIds, NEW u \in Users, NEW active \in BOOLEAN,
         CreateSession(s, u, active)
  PROVE  SessionsInv'
<1> USE SessionsAssumption DEF SessionsInv, CreateSession
<1>1. SessionsTypeOK'
  BY DEF SessionsTypeOK, SessionRows
<1>2. session'[s].user = u /\ session'[s] # NoSession /\ session'[s].expires = now + Ttl
      /\ \A t \in SessionIds : t # s => session'[t] = session[t]
  BY DEF SessionsTypeOK, NoSession
<1>3. RowsAreOwned' /\ SessionIsHeld'
  BY <1>2 DEF RowsAreOwned, SessionIsHeld
<1>4. UsesArePast' /\ LagsAreBounded'
  BY DEF UsesArePast, LagsAreBounded, SessionsTypeOK
<1>5. SlidesEnough'
  BY <1>2 DEF SlidesEnough, SessionsTypeOK, SessionRows
<1> QED
  BY <1>1, <1>3, <1>4, <1>5

LEMMA ResolveSessionStep ==
  ASSUME SessionsInv, NEW r \in Requests, NEW s \in SessionIds, ResolveSession(r, s)
  PROVE  SessionsInv'
<1> USE SessionsAssumption DEF SessionsInv, ResolveSession
<1>1. SessionsTypeOK'
  BY DEF SessionsTypeOK, SessionRows, RequestStates, Used
<1>2. RowsAreOwned' /\ SessionIsHeld'
  BY DEF RowsAreOwned, SessionIsHeld, IsLive, SessionsTypeOK
<1>3. UsesArePast' /\ LagsAreBounded'
  BY DEF UsesArePast, LagsAreBounded, SessionsTypeOK, Used
<1>4. SlidesEnough'
  BY DEF SlidesEnough, SessionsTypeOK, SessionRows, MustSlide, Used
<1> QED
  BY <1>1, <1>2, <1>3, <1>4

(* The UPDATE that lands may be older than another, by MaxLag at most. *)
LEMMA SlideSessionStep ==
  ASSUME SessionsInv, NEW r \in Requests, SlideSession(r)
  PROVE  SessionsInv'
<1> DEFINE s == request[r].id
<1> USE SessionsAssumption DEF SessionsInv, SlideSession
<1>0. s \in SessionIds /\ session[s] # NoSession /\ session[s].user \in Users
      /\ request[r].began \in Nat
  BY DEF SessionIsHeld, RowsAreOwned, SessionsTypeOK, RequestStates
<1>1. SessionsTypeOK'
  <2>1. session' \in [SessionIds -> SessionRows]
    BY <1>0 DEF SessionsTypeOK, SessionRows
  <2>2. request' \in [Requests -> RequestStates]
        /\ \A q \in Requests : request'[q].id = request[q].id
                            /\ (request'[q].at # "idle" => request[q].at # "idle")
    BY <1>0 DEF SessionsTypeOK, RequestStates
  <2>3. lastUse' \in [SessionIds -> Nat]
    BY <1>0 DEF SessionsTypeOK, Used
  <2> QED BY <2>1, <2>2, <2>3 DEF SessionsTypeOK
<1>2. session'[s].user = session[s].user /\ session'[s] # NoSession
      /\ session'[s].expires = request[r].began + Ttl
      /\ \A t \in SessionIds : t # s => session'[t] = session[t]
  BY <1>0 DEF SessionsTypeOK, SessionRows, NoSession
<1>3. RowsAreOwned' /\ SessionIsHeld'
  BY <1>0, <1>2 DEF RowsAreOwned, SessionIsHeld, SessionsTypeOK
<1>4. UsesArePast' /\ LagsAreBounded'
  BY <1>0 DEF UsesArePast, LagsAreBounded, SessionsTypeOK, Used
<1>5. SlidesEnough'
  BY <1>0, <1>2 DEF SlidesEnough, SessionsTypeOK, SessionRows, UsesArePast, LagsAreBounded, Used
<1> QED
  BY <1>1, <1>3, <1>4, <1>5

LEMMA TickStep ==
  ASSUME SessionsInv, Tick
  PROVE  SessionsInv'
<1> USE SessionsAssumption DEF SessionsInv, Tick
<1>1. SessionsTypeOK' /\ RowsAreOwned' /\ SessionIsHeld' /\ SlidesEnough'
  BY DEF SessionsTypeOK, RowsAreOwned, SessionIsHeld, SlidesEnough
<1>2. UsesArePast' /\ LagsAreBounded'
  BY DEF UsesArePast, LagsAreBounded, SessionsTypeOK, RequestStates
<1> QED
  BY <1>1, <1>2

-----------------------------------------------------------------------------
(* Steps of module Sessions, seen from Organizations. *)
LEMMA SessionsMove ==
  ASSUME SessionsInv, SessionsInv', MembersInv, UNCHANGED organizationVars,
         \A r \in Requests : task[r].at # "none" => request'[r] = request[r],
         \A s \in SessionIds : session[s] # NoSession => session'[s].user = session[s].user,
         \A s \in SessionIds : session'[s].active => role[session'[s].user] # "none"
  PROVE  MembersInv'
<1> USE DEF MembersInv, organizationVars
<1>1. TypeOK' /\ HandlersAreLetIn' /\ InvitationsGiveRoles' /\ AcceptsHoldInvitations'
  BY DEF TypeOK, SessionsInv, HandlersAreLetIn, InvitationsGiveRoles, AcceptsHoldInvitations
<1>2. SwitchersAreMembers'
  <2>1. ASSUME NEW r \in Requests, task[r].at = "switch"
        PROVE  User(r)' = User(r)
    BY <2>1 DEF User, SessionsInv, SessionIsHeld, HandlersAreLetIn
  <2> QED BY <2>1 DEF SwitchersAreMembers
<1>3. CreatorIsAlone' /\ OwnerStays'
  BY DEF CreatorIsAlone, OwnerStays, Owners
<1>4. ActiveIsMember'
  BY DEF ActiveIsMember
<1> QED
  BY <1>1, <1>2, <1>3, <1>4

(* A handler that goes on after its check. *)
LEMMA BeginHandler ==
  ASSUME SessionsInv, MembersInv, NEW r \in Requests, Begins(r), NEW t \in Tasks,
         task' = [task EXCEPT ![r] = t],
         t.at \in {"free", "invite", "switch", "found"},
         t.at = "switch" => role[User(r)] # "none",
         t.at = "found" =>
           t.invitation \in Invitations /\ invitation[t.invitation].status # "none",
         UNCHANGED <<sessionVars, created, role, invitation, joins, losses>>
  PROVE  SessionsInv' /\ MembersInv'
<1> USE DEF MembersInv, sessionVars
<1>1. SessionsInv'
  BY DEF SessionsInv, SessionsTypeOK, RowsAreOwned, SessionIsHeld, UsesArePast,
         LagsAreBounded, SlidesEnough
<1>2. TypeOK'
  BY <1>1 DEF TypeOK, SessionsInv
<1>3. \A q \in Requests : q # r => task'[q] = task[q]
  BY DEF TypeOK
<1>4. task'[r] = t
  BY DEF TypeOK
<1>5. HandlersAreLetIn' /\ InvitationsGiveRoles' /\ AcceptsHoldInvitations'
  BY <1>3, <1>4 DEF HandlersAreLetIn, InvitationsGiveRoles, AcceptsHoldInvitations, Begins
<1>6. SwitchersAreMembers' /\ ActiveIsMember'
  BY <1>3, <1>4 DEF SwitchersAreMembers, ActiveIsMember, User
<1>7. \A q \in Requests : task'[q].at = "inserted" <=> task[q].at = "inserted"
  BY <1>3, <1>4 DEF Begins, NoTask
<1>8. CreatorIsAlone' /\ OwnerStays'
  BY <1>7 DEF CreatorIsAlone, OwnerStays, Owners
<1> QED
  BY <1>1, <1>2, <1>5, <1>6, <1>8

(* A handler that ends, by its answer or its death. *)
LEMMA FinishHandler ==
  ASSUME SessionsInv, SessionsInv', MembersInv, NEW r \in Requests, Finish(r),
         UNCHANGED <<created, role>>,
         task[r].at = "inserted" => losses' > 0,
         losses' \in Nat, losses' >= losses, UNCHANGED joins,
         invitation' \in [Invitations -> InvitationRows], InvitationsGiveRoles',
         \A i \in Invitations : invitation[i].status # "none" => invitation'[i].status # "none",
         \A s \in SessionIds : session[s] # NoSession => session'[s].user = session[s].user,
         \A s \in SessionIds : session'[s].active => role[session'[s].user] # "none"
  PROVE  MembersInv'
<1> USE DEF MembersInv, Finish, Reply
<1>1. TypeOK'
  BY DEF TypeOK, SessionsInv, NoTask, Tasks
<1>2. \A q \in Requests : q # r => task'[q] = task[q] /\ request'[q] = request[q]
  BY DEF TypeOK, SessionsTypeOK
<1>3. task'[r] = NoTask
  BY DEF TypeOK
<1>4. HandlersAreLetIn' /\ AcceptsHoldInvitations'
  BY <1>2, <1>3 DEF HandlersAreLetIn, AcceptsHoldInvitations, NoTask
<1>5. SwitchersAreMembers'
  <2>1. ASSUME NEW q \in Requests, task'[q].at = "switch"
        PROVE  task[q].at = "switch" /\ User(q)' = User(q)
    <3>1. q # r BY <1>3, <2>1 DEF NoTask
    <3> QED BY <1>2, <2>1, <3>1 DEF User, SessionsInv, SessionIsHeld, HandlersAreLetIn
  <2> QED BY <2>1 DEF SwitchersAreMembers
<1>6. \A q \in Requests : /\ task'[q].at = "inserted" => task[q].at = "inserted"
                          /\ task[q].at = "inserted" => task'[q].at = "inserted" \/ q = r
  BY <1>2, <1>3 DEF NoTask
<1>7. CreatorIsAlone' /\ OwnerStays'
  BY <1>6 DEF CreatorIsAlone, OwnerStays, Owners, TypeOK
<1>8. ActiveIsMember'
  BY DEF ActiveIsMember
<1> QED
  BY <1>1, <1>4, <1>5, <1>7, <1>8

(* The same, when the step touches no session. *)
LEMMA FinishKeepsSession ==
  ASSUME SessionsInv, SessionsInv', MembersInv, NEW r \in Requests, Finish(r),
         UNCHANGED <<created, role, session, joins>>,
         task[r].at = "inserted" => losses' > 0,
         losses' \in Nat, losses' >= losses,
         invitation' \in [Invitations -> InvitationRows], InvitationsGiveRoles',
         \A i \in Invitations : invitation[i].status # "none" => invitation'[i].status # "none"
  PROVE  MembersInv'
<1>1. \A s \in SessionIds : session'[s].active => role[session'[s].user] # "none"
  BY DEF MembersInv, ActiveIsMember
<1> QED
  BY <1>1, FinishHandler

LEMMA InsertOrganizationStep ==
  ASSUME SessionsInv, SessionsInv', MembersInv, NEW r \in Requests, InsertOrganization(r), ~created
  PROVE  MembersInv'
<1> USE DEF MembersInv, InsertOrganization, Goto
<1>1. TypeOK'
  BY DEF TypeOK, SessionsInv, Tasks
<1>2. /\ \A q \in Requests : q # r => task'[q] = task[q]
      /\ task'[r].at = "inserted" /\ created'
  BY DEF TypeOK, Tasks
<1>3. HandlersAreLetIn' /\ InvitationsGiveRoles' /\ AcceptsHoldInvitations'
  BY <1>2 DEF HandlersAreLetIn, InvitationsGiveRoles, AcceptsHoldInvitations
<1>4. SwitchersAreMembers' /\ ActiveIsMember'
  BY <1>2 DEF SwitchersAreMembers, ActiveIsMember, User
<1>5. CreatorIsAlone' /\ OwnerStays'
  BY <1>2 DEF CreatorIsAlone, OwnerStays, Owners
<1> QED
  BY <1>1, <1>3, <1>4, <1>5

(* The only owner there will be. *)
LEMMA InsertOwnerStep ==
  ASSUME SessionsInv, SessionsInv', MembersInv, NEW r \in Requests, InsertOwner(r)
  PROVE  MembersInv'
<1> DEFINE u == User(r)
<1> USE DEF MembersInv, InsertOwner, Goto
<1>1. u \in Users
  BY DEF User, SessionsInv, SessionIsHeld, RowsAreOwned, HandlersAreLetIn
<1>2. /\ role'[u] = "owner"
      /\ \A v \in Users : v # u => role'[v] = role[v]
      /\ \A v \in Users : role[v] # "none" => role'[v] # "none"
  BY <1>1 DEF TypeOK
<1>3. /\ \A q \in Requests : q # r => task'[q] = task[q]
      /\ task'[r].at = "switch"
  BY DEF TypeOK, Tasks
<1>4. TypeOK'
  <2>1. role' \in [Users -> GuestRoles \union {"owner", "none"}]
    BY <1>1 DEF TypeOK
  <2>2. task' \in [Requests -> Tasks]
    BY DEF TypeOK, Tasks
  <2> QED BY <2>1, <2>2 DEF TypeOK, SessionsInv
<1>5. HandlersAreLetIn' /\ InvitationsGiveRoles' /\ AcceptsHoldInvitations'
  BY <1>3 DEF HandlersAreLetIn, InvitationsGiveRoles, AcceptsHoldInvitations
<1>6. SwitchersAreMembers'
  <2>1. ASSUME NEW q \in Requests, task'[q].at = "switch"
        PROVE  role'[User(q)'] # "none"
    <3>1. User(q)' = User(q)
      BY DEF User
    <3>2. User(q) \in Users
      BY <1>3, <2>1 DEF User, SessionsInv, SessionIsHeld, RowsAreOwned, HandlersAreLetIn
    <3>3. CASE q = r BY <1>2, <3>1, <3>3
    <3>4. CASE q # r BY <1>2, <1>3, <2>1, <3>1, <3>2, <3>4 DEF SwitchersAreMembers
    <3> QED BY <3>3, <3>4
  <2> QED BY <2>1 DEF SwitchersAreMembers
<1>7. ActiveIsMember'
  <2>1. ASSUME NEW s \in SessionIds, session[s].active
        PROVE  role'[session[s].user] # "none"
    <3>1. session[s].user \in Users
      BY <2>1 DEF SessionsInv, RowsAreOwned, NoSession
    <3> QED BY <1>2, <2>1, <3>1 DEF ActiveIsMember
  <2> QED BY <2>1 DEF ActiveIsMember
<1>8. Owners' = {u}
  BY <1>1, <1>2 DEF Owners, CreatorIsAlone
<1>9. \A q \in Requests : task'[q].at # "inserted"
  BY <1>3 DEF CreatorIsAlone
<1>10. CreatorIsAlone' /\ OwnerStays'
  BY <1>8, <1>9 DEF CreatorIsAlone, OwnerStays
<1> QED
  BY <1>4, <1>5, <1>6, <1>7, <1>10

(* Whoever joins was no member, and becomes none but a guest. *)
LEMMA InsertMemberStep ==
  ASSUME SessionsInv, SessionsInv', MembersInv, NEW r \in Requests, InsertMember(r)
  PROVE  MembersInv'
<1> DEFINE u == User(r)
           i == task[r].invitation
<1> USE DEF MembersInv, InsertMember, Goto
<1>1. u \in Users /\ i \in Invitations /\ invitation[i].role \in GuestRoles
  BY DEF User, SessionsInv, SessionIsHeld, RowsAreOwned, HandlersAreLetIn,
         AcceptsHoldInvitations, InvitationsGiveRoles
<1>2. Graded(u, i) \in GuestRoles \union {"owner"} /\ Graded(u, i) # "none"
      /\ (Graded(u, i) = "owner" <=> role[u] = "owner")
  BY <1>1, OrganizationsAssumption DEF Graded, TypeOK
<1>3. /\ role'[u] = Graded(u, i)
      /\ \A v \in Users : v # u => role'[v] = role[v]
      /\ \A v \in Users : role[v] # "none" => role'[v] # "none"
  BY <1>1, <1>2 DEF TypeOK
<1>4. /\ \A q \in Requests : q # r => task'[q] = task[q]
      /\ task'[r].at = "joined" /\ task'[r].invitation = i
  BY DEF TypeOK, Tasks
<1>5. TypeOK'
  <2>1. role' \in [Users -> GuestRoles \union {"owner", "none"}]
    BY <1>1, <1>2 DEF TypeOK
  <2>2. task' \in [Requests -> Tasks]
    BY DEF TypeOK, Tasks
  <2>3. joins' \in [Invitations -> Nat]
    BY <1>1 DEF TypeOK
  <2> QED BY <2>1, <2>2, <2>3 DEF TypeOK, SessionsInv
<1>6. HandlersAreLetIn' /\ InvitationsGiveRoles' /\ AcceptsHoldInvitations'
  BY <1>4 DEF HandlersAreLetIn, InvitationsGiveRoles, AcceptsHoldInvitations
<1>7. SwitchersAreMembers'
  <2>1. ASSUME NEW q \in Requests, task'[q].at = "switch"
        PROVE  role'[User(q)'] # "none"
    <3>1. User(q)' = User(q) /\ task[q].at = "switch"
      BY <1>4, <2>1 DEF User
    <3>2. User(q) \in Users
      BY <3>1 DEF User, SessionsInv, SessionIsHeld, RowsAreOwned, HandlersAreLetIn
    <3> QED BY <1>3, <3>1, <3>2 DEF SwitchersAreMembers
  <2> QED BY <2>1 DEF SwitchersAreMembers
<1>8. ActiveIsMember'
  <2>1. ASSUME NEW s \in SessionIds, session[s].active
        PROVE  role'[session[s].user] # "none"
    <3>1. session[s].user \in Users
      BY <2>1 DEF SessionsInv, RowsAreOwned, NoSession
    <3> QED BY <1>3, <2>1, <3>1 DEF ActiveIsMember
  <2> QED BY <2>1 DEF ActiveIsMember
<1>9. Owners' = Owners
  BY <1>1, <1>2, <1>3 DEF Owners
<1>10. \A q \in Requests : task'[q].at = "inserted" <=> task[q].at = "inserted"
  BY <1>4
<1>11. CreatorIsAlone' /\ OwnerStays'
  BY <1>9, <1>10 DEF CreatorIsAlone, OwnerStays
<1> QED
  BY <1>5, <1>6, <1>7, <1>8, <1>11

LEMMA StutterKeepsSessions ==
  ASSUME SessionsInv, UNCHANGED sessionVars
  PROVE  SessionsInv'
BY DEF SessionsInv, sessionVars, SessionsTypeOK, RowsAreOwned, SessionIsHeld, UsesArePast,
       LagsAreBounded, SlidesEnough

(* An answer that writes nothing, or an invitation, or follows a death. *)
LEMMA PlainFinish ==
  ASSUME SessionsInv, MembersInv, NEW r \in Requests, Finish(r),
         UNCHANGED <<now, session, lastUse, created, role, joins>>,
         task[r].at = "inserted" => losses' > 0,
         losses' \in Nat, losses' >= losses,
         invitation' \in [Invitations -> InvitationRows], InvitationsGiveRoles',
         \A i \in Invitations : invitation[i].status # "none" => invitation'[i].status # "none"
  PROVE  SessionsInv' /\ MembersInv'
<1>1. SessionsInv'
  <2>1. CASE request[r].at = "idle"
    <3>1. request' \in [Requests -> RequestStates]
          /\ \A q \in Requests : request'[q] = request[q] \/ request'[q] = NoRequest
      BY DEF Finish, Reply, SessionsInv, SessionsTypeOK, NoRequest, RequestStates
    <3> QED BY <3>1 DEF SessionsInv, SessionsTypeOK, RowsAreOwned, SessionIsHeld, UsesArePast,
                        LagsAreBounded, SlidesEnough, NoRequest
  <2>2. CASE request[r].at # "idle"
    BY <2>2, ReplyKeepsSessions DEF Finish, SessionsInv, SessionIsHeld
  <2> QED BY <2>1, <2>2
<1> QED
  BY <1>1, FinishKeepsSession

LEMMA LoginStep ==
  ASSUME SessionsInv, MembersInv, NEW s \in SessionIds, NEW u \in Users, Login(s, u)
  PROVE  SessionsInv' /\ MembersInv'
<1>1. PICK active \in {FALSE, role[u] # "none"} : CreateSession(s, u, active)
  BY DEF Login
<1>2. active \in BOOLEAN
  OBVIOUS
<1>3. SessionsInv'
  BY <1>1, <1>2, CreateSessionStep
<1>4. \A t \in SessionIds : session'[t].active => role[session'[t].user] # "none"
  BY <1>1 DEF CreateSession, SessionsInv, SessionsTypeOK, MembersInv, ActiveIsMember
<1>5. \A t \in SessionIds : session[t] # NoSession => session'[t].user = session[t].user
  BY <1>1 DEF CreateSession, SessionsInv, SessionsTypeOK
<1> QED
  BY <1>1, <1>3, <1>4, <1>5, SessionsMove DEF Login, CreateSession

LEMMA AuthenticateStep ==
  ASSUME SessionsInv, MembersInv, NEW r \in Requests, Authenticate(r)
  PROVE  SessionsInv' /\ MembersInv'
<1>1. CASE \E s \in SessionIds : ResolveSession(r, s)
  <2>1. PICK s \in SessionIds : ResolveSession(r, s)
    BY <1>1
  <2>2. SessionsInv'
    BY <2>1, ResolveSessionStep
  <2>3. \A q \in Requests : task[q].at # "none" => request'[q] = request[q]
    BY <2>1 DEF ResolveSession, SessionsInv, SessionsTypeOK, MembersInv, HandlersAreLetIn
  <2> QED
    BY <2>1, <2>2, <2>3, SessionsMove DEF ResolveSession, Authenticate, MembersInv, ActiveIsMember
<1>2. CASE SlideSession(r)
  <2>1. SessionsInv'
    BY <1>2, SlideSessionStep
  <2>2. \A q \in Requests : task[q].at # "none" => request'[q] = request[q]
    BY <1>2 DEF SlideSession, SessionsInv, SessionsTypeOK, MembersInv, HandlersAreLetIn
  <2>3. \A s \in SessionIds : session'[s].user = session[s].user
                            /\ session'[s].active = session[s].active
    BY <1>2 DEF SlideSession, SessionsInv, SessionsTypeOK, SessionRows
  <2> QED
    BY <2>1, <2>2, <2>3, SessionsMove DEF Authenticate, MembersInv, ActiveIsMember
<1> QED
  BY <1>1, <1>2 DEF Authenticate

LEMMA LogoutStep ==
  ASSUME SessionsInv, MembersInv, NEW r \in Requests, Logout(r)
  PROVE  SessionsInv' /\ MembersInv'
<1> USE DEF Logout, RevokeSession, Begins
<1>1. request[r].id \in SessionIds /\ session[request[r].id] # NoSession
  BY DEF SessionsInv, SessionIsHeld
<1>2. SessionsInv'
  BY <1>1, ReplyKeepsSessions
<1>3. \A q \in Requests : task[q].at # "none" => request'[q] = request[q]
  BY DEF Reply, SessionsInv, SessionsTypeOK, NoTask
<1>4. \A s \in SessionIds : session'[s].user = session[s].user
                          /\ session'[s].active = session[s].active
  BY DEF SessionsInv, SessionsTypeOK, SessionRows
<1> QED
  BY <1>2, <1>3, <1>4, SessionsMove DEF MembersInv, ActiveIsMember

LEMMA AnswerStep ==
  ASSUME SessionsInv, MembersInv, NEW r \in Requests, Answer(r)
  PROVE  SessionsInv' /\ MembersInv'
<1> USE DEF Answer, Begins
<1>1. request[r].id \in SessionIds
  BY DEF SessionsInv, SessionIsHeld
<1>2. SessionsInv'
  BY <1>1, ReplyKeepsSessions
<1>3. \A q \in Requests : task[q].at # "none" => request'[q] = request[q]
  BY DEF Reply, SessionsInv, SessionsTypeOK, NoTask
<1> QED
  BY <1>2, <1>3, SessionsMove DEF MembersInv, ActiveIsMember

LEMMA ActivateSessionStep ==
  ASSUME SessionsInv, MembersInv, NEW r \in Requests, ActivateSession(r)
  PROVE  SessionsInv' /\ MembersInv'
<1> USE DEF ActivateSession
<1>1. request[r].id \in SessionIds /\ session[request[r].id] # NoSession
  BY DEF SessionsInv, SessionIsHeld, MembersInv, HandlersAreLetIn
<1>2. SessionsInv'
  BY <1>1, ReplyKeepsSessions DEF Finish
<1>3. \A s \in SessionIds : session'[s].user = session[s].user
  BY DEF SessionsInv, SessionsTypeOK, SessionRows
<1>4. \A s \in SessionIds : session'[s].active => session[s].active \/ s = request[r].id
  BY DEF SessionsInv, SessionsTypeOK
<1>5. \A s \in SessionIds : session'[s].active => role[session'[s].user] # "none"
  BY <1>3, <1>4 DEF MembersInv, ActiveIsMember, SwitchersAreMembers, User
<1>6. invitation' \in [Invitations -> InvitationRows] /\ InvitationsGiveRoles'
      /\ losses' \in Nat /\ losses' >= losses
  BY DEF MembersInv, TypeOK, InvitationsGiveRoles
<1> QED
  BY <1>2, <1>3, <1>5, <1>6, FinishHandler

LEMMA CreateStep ==
  ASSUME SessionsInv, MembersInv, NEW r \in Requests, Create(r)
  PROVE  SessionsInv' /\ MembersInv'
<1>1. losses \in Nat /\ invitation \in [Invitations -> InvitationRows] /\ InvitationsGiveRoles
  BY DEF MembersInv, TypeOK
<1>2. CASE FindSlug(r)
  <2>1. CASE created
    BY <1>1, <1>2, <2>1, PlainFinish DEF FindSlug, Begins, NoTask, InvitationsGiveRoles
  <2>2. CASE ~created
    <3> DEFINE t == [task[r] EXCEPT !.at = "free"]
    <3>1. t \in Tasks /\ t.at = "free" /\ task' = [task EXCEPT ![r] = t]
      BY <1>2, <2>2 DEF FindSlug, Goto, MembersInv, TypeOK, Tasks
    <3> QED BY <1>2, <2>2, <3>1, BeginHandler DEF FindSlug, sessionVars
  <2> QED BY <2>1, <2>2
<1>3. CASE InsertOrganization(r)
  <2>1. CASE created
    BY <1>1, <1>3, <2>1, PlainFinish DEF InsertOrganization, InvitationsGiveRoles
  <2>2. CASE ~created
    BY <1>3, <2>2, InsertOrganizationStep, StutterKeepsSessions
       DEF InsertOrganization, sessionVars
  <2> QED BY <2>1, <2>2
<1>4. CASE InsertOwner(r)
  BY <1>4, InsertOwnerStep, StutterKeepsSessions DEF InsertOwner, sessionVars
<1> QED
  BY <1>2, <1>3, <1>4 DEF Create

LEMMA SwitchStep ==
  ASSUME SessionsInv, MembersInv, NEW r \in Requests, Switch(r)
  PROVE  SessionsInv' /\ MembersInv'
<1>1. losses \in Nat /\ invitation \in [Invitations -> InvitationRows] /\ InvitationsGiveRoles
  BY DEF MembersInv, TypeOK
<1>2. CASE FindMembership(r) /\ role[User(r)] = "none"
  BY <1>1, <1>2, PlainFinish DEF FindMembership, Begins, NoTask, InvitationsGiveRoles
<1>3. CASE FindMembership(r) /\ role[User(r)] # "none"
  <2> DEFINE t == [task[r] EXCEPT !.at = "switch"]
  <2>1. t \in Tasks /\ t.at = "switch" /\ task' = [task EXCEPT ![r] = t]
    BY <1>3 DEF FindMembership, Goto, MembersInv, TypeOK, Tasks
  <2> QED BY <1>3, <2>1, BeginHandler DEF FindMembership, sessionVars
<1> QED
  BY <1>2, <1>3, ActivateSessionStep DEF Switch

LEMMA InviteStep ==
  ASSUME SessionsInv, MembersInv, NEW r \in Requests, Invite(r)
  PROVE  SessionsInv' /\ MembersInv'
<1>1. losses \in Nat /\ invitation \in [Invitations -> InvitationRows] /\ InvitationsGiveRoles
  BY DEF MembersInv, TypeOK
<1>2. CASE CheckInvite(r) /\ Finish(r)
  BY <1>1, <1>2, PlainFinish DEF CheckInvite, Begins, NoTask, InvitationsGiveRoles
<1>3. CASE CheckInvite(r) /\ Goto(r, "invite") /\ UNCHANGED request
  <2> DEFINE t == [task[r] EXCEPT !.at = "invite"]
  <2>1. t \in Tasks /\ t.at = "invite" /\ task' = [task EXCEPT ![r] = t]
    BY <1>3 DEF Goto, MembersInv, TypeOK, Tasks
  <2> QED BY <1>3, <2>1, BeginHandler DEF CheckInvite, sessionVars
<1>4. ASSUME NEW i \in Invitations, NEW guestRole \in GuestRoles,
             InsertInvitation(r, i, guestRole)
      PROVE  SessionsInv' /\ MembersInv'
  <2>1. invitation' \in [Invitations -> InvitationRows]
    BY <1>1, <1>4, OrganizationsAssumption, SessionsAssumption
       DEF InsertInvitation, InvitationRows, SessionsInv, SessionsTypeOK
  <2>2. InvitationsGiveRoles'
    BY <1>1, <1>4 DEF InsertInvitation, InvitationsGiveRoles
  <2>3. \A j \in Invitations : invitation[j].status # "none" => invitation'[j].status # "none"
    BY <1>1, <1>4 DEF InsertInvitation
  <2> QED BY <1>1, <1>4, <2>1, <2>2, <2>3, PlainFinish DEF InsertInvitation
<1> QED
  BY <1>2, <1>3, <1>4 DEF Invite, CheckInvite

LEMMA AcceptStep ==
  ASSUME SessionsInv, MembersInv, NEW r \in Requests, Accept(r)
  PROVE  SessionsInv' /\ MembersInv'
<1>1. losses \in Nat /\ invitation \in [Invitations -> InvitationRows] /\ InvitationsGiveRoles
  BY DEF MembersInv, TypeOK
<1>2. ASSUME NEW i \in Invitations, FindInvitation(r, i), ~IsOpen(i)
      PROVE  SessionsInv' /\ MembersInv'
  BY <1>1, <1>2, PlainFinish DEF FindInvitation, Begins, NoTask, InvitationsGiveRoles
<1>3. ASSUME NEW i \in Invitations, FindInvitation(r, i), IsOpen(i)
      PROVE  SessionsInv' /\ MembersInv'
  <2> DEFINE t == [at |-> "found", invitation |-> i]
  <2>1. t \in Tasks /\ t.at = "found" /\ task' = [task EXCEPT ![r] = t]
        /\ t.invitation \in Invitations /\ invitation[t.invitation].status # "none"
    BY <1>3 DEF FindInvitation, IsOpen, Tasks
  <2> QED BY <1>3, <2>1, BeginHandler DEF FindInvitation, sessionVars
<1>4. CASE InsertMember(r)
  BY <1>4, InsertMemberStep, StutterKeepsSessions DEF InsertMember, sessionVars
<1>5. CASE MarkAccepted(r)
  <2>1. invitation' \in [Invitations -> InvitationRows]
    BY <1>1, <1>5 DEF MarkAccepted, InvitationRows
  <2>2. InvitationsGiveRoles'
    BY <1>1, <1>5 DEF MarkAccepted, InvitationsGiveRoles, InvitationRows,
       MembersInv, AcceptsHoldInvitations
  <2>3. \A j \in Invitations : invitation[j].status # "none" => invitation'[j].status # "none"
    BY <1>1, <1>5 DEF MarkAccepted, InvitationRows
  <2> QED BY <1>1, <1>5, <2>1, <2>2, <2>3, PlainFinish DEF MarkAccepted
<1> QED
  BY <1>2, <1>3, <1>4, <1>5 DEF Accept

LEMMA NextKeepsMembers ==
  ASSUME SessionsInv, MembersInv, [Next]_vars
  PROVE  SessionsInv' /\ MembersInv'
<1>1. ASSUME NEW r \in Requests, Die(r)
      PROVE  SessionsInv' /\ MembersInv'
  BY <1>1, PlainFinish DEF Die, MembersInv, TypeOK, InvitationsGiveRoles
<1>2. ASSUME NEW r \in Requests, Handle(r)
      PROVE  SessionsInv' /\ MembersInv'
  BY <1>1, <1>2, AuthenticateStep, LogoutStep, AnswerStep, CreateStep, SwitchStep,
     InviteStep, AcceptStep DEF Handle
<1>3. CASE Tick /\ UNCHANGED organizationVars
  <2>1. SessionsInv'
    BY <1>3, TickStep
  <2> QED BY <1>3, <2>1, SessionsMove DEF Tick, MembersInv, ActiveIsMember
<1>4. CASE UNCHANGED vars
  <2>1. SessionsInv'
    BY <1>4, StutterKeepsSessions DEF vars
  <2> QED BY <1>4, <2>1, SessionsMove DEF vars, sessionVars, MembersInv, ActiveIsMember
<1> QED
  BY <1>2, <1>3, <1>4, LoginStep DEF Next

-----------------------------------------------------------------------------
FoundOf(t, i) == IF t.at = "found" /\ t.invitation = i THEN 1 ELSE 0
JoiningOf(t, i) == IF t.at = "joined" /\ t.invitation = i THEN 1 ELSE 0

(* What it does to the counts that request r goes on to t. *)
CountsMove(r, t, i) ==
  /\ Cardinality(Found(i)) \in Nat /\ Cardinality(Joining(i)) \in Nat
  /\ Cardinality(Requests) \in Nat
  /\ Cardinality(Found(i)) + Cardinality(Joining(i)) <= Cardinality(Requests)
  /\ Cardinality(Found(i))' = Cardinality(Found(i)) + FoundOf(t, i) - FoundOf(task[r], i)
  /\ Cardinality(Joining(i))' = Cardinality(Joining(i)) + JoiningOf(t, i) - JoiningOf(task[r], i)

LEMMA TaskMoves ==
  ASSUME TypeOK, NEW r \in Requests, NEW t \in Tasks, task' = [task EXCEPT ![r] = t], NEW i
  PROVE  CountsMove(r, t, i)
<1> DEFINE F == Found(i)
           J == Joining(i)
<1>1. IsFiniteSet(Requests)
  BY OrganizationsAssumption
<1>2. F \in SUBSET Requests /\ J \in SUBSET Requests /\ F \cap J = {}
      /\ F' \in SUBSET Requests /\ J' \in SUBSET Requests
  BY DEF Found, Joining
<1>3. IsFiniteSet(F) /\ IsFiniteSet(J) /\ IsFiniteSet(F') /\ IsFiniteSet(J')
  BY <1>1, <1>2, FS_Subset
<1>4. /\ Cardinality(F) \in Nat /\ Cardinality(J) \in Nat
      /\ Cardinality(F') \in Nat /\ Cardinality(J') \in Nat /\ Cardinality(Requests) \in Nat
  BY <1>1, <1>3, FS_CardinalityType
<1>5. Cardinality(F) + Cardinality(J) <= Cardinality(Requests)
  <2>1. Cardinality(F \cup J) = Cardinality(F) + Cardinality(J) - Cardinality(F \cap J)
    BY <1>3, FS_Union
  <2>2. Cardinality(F \cap J) = 0
    BY <1>2, FS_EmptySet
  <2>3. Cardinality(F \cup J) <= Cardinality(Requests)
    BY <1>1, <1>2, FS_Subset
  <2> QED BY <1>4, <2>1, <2>2, <2>3
<1>6. Cardinality(F') = Cardinality(F) + FoundOf(t, i) - FoundOf(task[r], i)
  <2>1. /\ F \ {r} = F' \ {r}
        /\ r \in F <=> FoundOf(task[r], i) = 1
        /\ r \in F' <=> FoundOf(t, i) = 1
    BY DEF Found, FoundOf, TypeOK
  <2>2. FoundOf(t, i) \in {0, 1} /\ FoundOf(task[r], i) \in {0, 1}
    BY DEF FoundOf
  <2>3. Cardinality(F \ {r}) = IF r \in F THEN Cardinality(F) - 1 ELSE Cardinality(F)
    BY <1>3, FS_RemoveElement
  <2>4. Cardinality(F' \ {r}) = IF r \in F' THEN Cardinality(F') - 1 ELSE Cardinality(F')
    BY <1>3, FS_RemoveElement
  <2>5. Cardinality(F \ {r}) = Cardinality(F' \ {r})
    BY <2>1
  <2> HIDE DEF F
  <2> QED BY <1>4, <2>1, <2>2, <2>3, <2>4, <2>5
<1>7. Cardinality(J') = Cardinality(J) + JoiningOf(t, i) - JoiningOf(task[r], i)
  <2>1. /\ J \ {r} = J' \ {r}
        /\ r \in J <=> JoiningOf(task[r], i) = 1
        /\ r \in J' <=> JoiningOf(t, i) = 1
    BY DEF Joining, JoiningOf, TypeOK
  <2>2. JoiningOf(t, i) \in {0, 1} /\ JoiningOf(task[r], i) \in {0, 1}
    BY DEF JoiningOf
  <2>3. Cardinality(J \ {r}) = IF r \in J THEN Cardinality(J) - 1 ELSE Cardinality(J)
    BY <1>3, FS_RemoveElement
  <2>4. Cardinality(J' \ {r}) = IF r \in J' THEN Cardinality(J') - 1 ELSE Cardinality(J')
    BY <1>3, FS_RemoveElement
  <2>5. Cardinality(J \ {r}) = Cardinality(J' \ {r})
    BY <2>1
  <2> HIDE DEF J
  <2> QED BY <1>4, <2>1, <2>2, <2>3, <2>4, <2>5
<1> QED
  BY <1>4, <1>5, <1>6, <1>7 DEF CountsMove

(* A step of a request that is not accepting. *)
LEMMA ElsewhereKeepsJoins ==
  ASSUME TypeOK, JoinsAreCounted, NEW r \in Requests, NEW t \in Tasks,
         task' = [task EXCEPT ![r] = t],
         task[r].at \notin {"found", "joined"}, t.at \notin {"found", "joined"},
         UNCHANGED <<joins, losses>>,
         \A i \in Invitations :
           invitation'[i].status = "accepted" <=> invitation[i].status = "accepted"
  PROVE  JoinsAreCounted'
<1>1. ASSUME NEW i \in Invitations
      PROVE  /\ Cardinality(Found(i))' = Cardinality(Found(i))
             /\ Cardinality(Joining(i))' = Cardinality(Joining(i))
  <2>1. CountsMove(r, t, i) BY TaskMoves
  <2> QED BY <2>1 DEF CountsMove, FoundOf, JoiningOf
<1> QED
  BY <1>1 DEF JoinsAreCounted

LEMMA FindInvitationKeepsJoins ==
  ASSUME TypeOK, JoinsAreCounted, NEW r \in Requests, NEW k \in Invitations,
         FindInvitation(r, k), IsOpen(k)
  PROVE  JoinsAreCounted'
<1> DEFINE t == [at |-> "found", invitation |-> k]
<1>1. t \in Tasks /\ task' = [task EXCEPT ![r] = t] /\ task[r].at = "none"
  BY DEF FindInvitation, Tasks, Begins, NoTask
<1>2. ASSUME NEW i \in Invitations
      PROVE  /\ Cardinality(Joining(i))' = Cardinality(Joining(i))
             /\ i # k => Cardinality(Found(i))' = Cardinality(Found(i))
  <2>1. CountsMove(r, t, i) BY <1>1, TaskMoves
  <2> QED BY <1>1, <2>1 DEF CountsMove, FoundOf, JoiningOf
<1> QED
  BY <1>2 DEF JoinsAreCounted, FindInvitation, IsOpen

LEMMA InsertMemberKeepsJoins ==
  ASSUME TypeOK, AcceptsHoldInvitations, JoinsAreCounted, NEW r \in Requests, InsertMember(r)
  PROVE  JoinsAreCounted'
<1> DEFINE k == task[r].invitation
           t == [task[r] EXCEPT !.at = "joined"]
<1>1. /\ k \in Invitations /\ task[r].at = "found"
      /\ t \in Tasks /\ t.at = "joined" /\ t.invitation = k /\ task' = [task EXCEPT ![r] = t]
  BY DEF InsertMember, Goto, TypeOK, Tasks, AcceptsHoldInvitations
<1> HIDE DEF t
<1>2. ASSUME NEW i \in Invitations
      PROVE  /\ invitation'[i].status # "accepted" =>
                  joins'[i] <= Cardinality(Joining(i))' + losses'
             /\ invitation'[i].status = "accepted" =>
                  joins'[i] + Cardinality(Found(i))' <= Cardinality(Requests) + losses'
  <2>1. /\ invitation'[i] = invitation[i] /\ losses' = losses /\ losses \in Nat
        /\ joins[i] \in Nat /\ joins'[i] = IF i = k THEN joins[i] + 1 ELSE joins[i]
    BY <1>1 DEF InsertMember, TypeOK
  <2>2. /\ Cardinality(Found(i)) \in Nat /\ Cardinality(Joining(i)) \in Nat
        /\ Cardinality(Requests) \in Nat
        /\ Cardinality(Joining(i))' = Cardinality(Joining(i)) + (IF i = k THEN 1 ELSE 0)
        /\ Cardinality(Found(i))' = Cardinality(Found(i)) - (IF i = k THEN 1 ELSE 0)
    <3>1. /\ FoundOf(t, i) = 0 /\ JoiningOf(task[r], i) = 0
          /\ FoundOf(task[r], i) = (IF i = k THEN 1 ELSE 0)
          /\ JoiningOf(t, i) = (IF i = k THEN 1 ELSE 0)
      BY <1>1 DEF FoundOf, JoiningOf
    <3>2. CountsMove(r, t, i) BY <1>1, TaskMoves
    <3> QED BY <3>1, <3>2 DEF CountsMove
  <2> QED
    BY <2>1, <2>2 DEF JoinsAreCounted
<1> QED
  BY <1>2 DEF JoinsAreCounted

(* From the first mark on, only the requests that had found it open count. *)
LEMMA MarkAcceptedKeepsJoins ==
  ASSUME TypeOK, AcceptsHoldInvitations, JoinsAreCounted, NEW r \in Requests, MarkAccepted(r)
  PROVE  JoinsAreCounted'
<1> DEFINE k == task[r].invitation
<1>1. k \in Invitations /\ NoTask \in Tasks /\ task' = [task EXCEPT ![r] = NoTask]
  BY DEF MarkAccepted, Finish, NoTask, Tasks, AcceptsHoldInvitations
<1>2. ASSUME NEW i \in Invitations
      PROVE  /\ invitation'[i].status # "accepted" =>
                  joins'[i] <= Cardinality(Joining(i))' + losses'
             /\ invitation'[i].status = "accepted" =>
                  joins'[i] + Cardinality(Found(i))' <= Cardinality(Requests) + losses'
  <2>1. /\ joins'[i] = joins[i] /\ joins[i] \in Nat /\ losses' = losses /\ losses \in Nat
        /\ i # k => invitation'[i] = invitation[i]
        /\ i = k => invitation'[i].status = "accepted"
    BY <1>1 DEF MarkAccepted, TypeOK, InvitationRows
  <2>2. /\ Cardinality(Found(i)) \in Nat /\ Cardinality(Joining(i)) \in Nat
        /\ Cardinality(Requests) \in Nat
        /\ Cardinality(Found(i)) + Cardinality(Joining(i)) <= Cardinality(Requests)
        /\ Cardinality(Found(i))' = Cardinality(Found(i))
        /\ i # k => Cardinality(Joining(i))' = Cardinality(Joining(i))
    <3>1. /\ FoundOf(NoTask, i) = 0 /\ JoiningOf(NoTask, i) = 0 /\ FoundOf(task[r], i) = 0
          /\ i # k => JoiningOf(task[r], i) = 0
      BY DEF FoundOf, JoiningOf, NoTask, MarkAccepted
    <3>2. CountsMove(r, NoTask, i) BY <1>1, TaskMoves
    <3> QED BY <3>1, <3>2 DEF CountsMove
  <2>3. CASE i = k
    BY <2>1, <2>2, <2>3 DEF JoinsAreCounted
  <2>4. CASE i # k
    BY <2>1, <2>2, <2>4 DEF JoinsAreCounted
  <2> QED BY <2>3, <2>4
<1> QED
  BY <1>2 DEF JoinsAreCounted

LEMMA DieKeepsJoins ==
  ASSUME TypeOK, JoinsAreCounted, NEW r \in Requests, Die(r)
  PROVE  JoinsAreCounted'
<1>1. NoTask \in Tasks /\ task' = [task EXCEPT ![r] = NoTask]
  BY DEF Die, Finish, NoTask, Tasks
<1>2. ASSUME NEW i \in Invitations
      PROVE  /\ invitation'[i].status # "accepted" =>
                  joins'[i] <= Cardinality(Joining(i))' + losses'
             /\ invitation'[i].status = "accepted" =>
                  joins'[i] + Cardinality(Found(i))' <= Cardinality(Requests) + losses'
  <2>1. /\ joins'[i] = joins[i] /\ joins[i] \in Nat /\ losses' = losses + 1 /\ losses \in Nat
        /\ invitation'[i] = invitation[i]
    BY DEF Die, TypeOK
  <2>2. /\ Cardinality(Found(i)) \in Nat /\ Cardinality(Joining(i)) \in Nat
        /\ Cardinality(Requests) \in Nat
        /\ Cardinality(Found(i))' = Cardinality(Found(i)) - FoundOf(task[r], i)
        /\ Cardinality(Joining(i))' = Cardinality(Joining(i)) - JoiningOf(task[r], i)
        /\ FoundOf(task[r], i) \in {0, 1} /\ JoiningOf(task[r], i) \in {0, 1}
    <3>1. FoundOf(NoTask, i) = 0 /\ JoiningOf(NoTask, i) = 0
      BY DEF FoundOf, JoiningOf, NoTask
    <3>2. FoundOf(task[r], i) \in {0, 1} /\ JoiningOf(task[r], i) \in {0, 1}
      BY DEF FoundOf, JoiningOf
    <3>3. CountsMove(r, NoTask, i) BY <1>1, TaskMoves
    <3> QED BY <3>1, <3>2, <3>3 DEF CountsMove
  <2> QED
    BY <2>1, <2>2 DEF JoinsAreCounted
<1> QED
  BY <1>2 DEF JoinsAreCounted

LEMMA FinishKeepsJoins ==
  ASSUME TypeOK, JoinsAreCounted, NEW r \in Requests, Finish(r),
         task[r].at \notin {"found", "joined"}, UNCHANGED <<joins, losses>>,
         \A i \in Invitations :
           invitation'[i].status = "accepted" <=> invitation[i].status = "accepted"
  PROVE  JoinsAreCounted'
BY ElsewhereKeepsJoins DEF Finish, NoTask, Tasks

LEMMA GotoKeepsJoins ==
  ASSUME TypeOK, JoinsAreCounted, NEW r \in Requests,
         NEW at \in {"free", "inserted", "switch", "invite"}, Goto(r, at),
         task[r].at \notin {"found", "joined"}, UNCHANGED <<joins, losses, invitation>>
  PROVE  JoinsAreCounted'
<1> DEFINE t == [task[r] EXCEPT !.at = at]
<1>1. t \in Tasks /\ t.at = at /\ task' = [task EXCEPT ![r] = t]
  BY DEF Goto, TypeOK, Tasks
<1> HIDE DEF t
<1> QED
  BY <1>1, ElsewhereKeepsJoins

LEMMA NextKeepsJoins ==
  ASSUME MembersInv, JoinsAreCounted, [Next]_vars
  PROVE  JoinsAreCounted'
<1> USE DEF MembersInv
<1>1. CASE UNCHANGED <<task, invitation, joins, losses>>
  BY <1>1 DEF JoinsAreCounted, Found, Joining
<1>2. ASSUME NEW r \in Requests, Authenticate(r) \/ Logout(r) \/ Answer(r)
      PROVE  JoinsAreCounted'
  BY <1>1, <1>2 DEF Authenticate, Logout, Answer, organizationVars
<1>3. ASSUME NEW r \in Requests, Create(r) \/ Switch(r)
      PROVE  JoinsAreCounted'
  <2>1. CASE FindSlug(r)
    BY <2>1, FinishKeepsJoins, GotoKeepsJoins DEF FindSlug, Begins, NoTask
  <2>2. CASE InsertOrganization(r)
    BY <2>2, FinishKeepsJoins, GotoKeepsJoins DEF InsertOrganization
  <2>3. CASE InsertOwner(r)
    BY <2>3, GotoKeepsJoins DEF InsertOwner
  <2>4. CASE FindMembership(r)
    BY <2>4, FinishKeepsJoins, GotoKeepsJoins DEF FindMembership, Begins, NoTask
  <2>5. CASE ActivateSession(r)
    BY <2>5, FinishKeepsJoins DEF ActivateSession
  <2> QED BY <1>3, <2>1, <2>2, <2>3, <2>4, <2>5 DEF Create, Switch
<1>4. ASSUME NEW r \in Requests, Invite(r)
      PROVE  JoinsAreCounted'
  <2>1. CASE CheckInvite(r)
    BY <2>1, FinishKeepsJoins, GotoKeepsJoins DEF CheckInvite, Begins, NoTask
  <2>2. ASSUME NEW k \in Invitations, NEW guestRole \in GuestRoles,
               InsertInvitation(r, k, guestRole)
        PROVE  JoinsAreCounted'
    <3>1. \A i \in Invitations :
            invitation'[i].status = "accepted" <=> invitation[i].status = "accepted"
      BY <2>2 DEF InsertInvitation, TypeOK, NoInvite
    <3> QED BY <2>2, <3>1, FinishKeepsJoins DEF InsertInvitation
  <2> QED BY <1>4, <2>1, <2>2 DEF Invite
<1>5. ASSUME NEW r \in Requests, Accept(r)
      PROVE  JoinsAreCounted'
  <2>1. ASSUME NEW k \in Invitations, FindInvitation(r, k), ~IsOpen(k)
        PROVE  JoinsAreCounted'
    BY <2>1, FinishKeepsJoins DEF FindInvitation, Begins, NoTask
  <2> QED
    BY <1>5, <2>1, FindInvitationKeepsJoins, InsertMemberKeepsJoins, MarkAcceptedKeepsJoins
       DEF Accept
<1>6. ASSUME NEW r \in Requests, Handle(r)
      PROVE  JoinsAreCounted'
  BY <1>2, <1>3, <1>4, <1>5, <1>6, DieKeepsJoins DEF Handle
<1>7. ASSUME NEW s \in SessionIds, NEW u \in Users, Login(s, u)
      PROVE  JoinsAreCounted'
  BY <1>1, <1>7 DEF Login, organizationVars
<1>8. CASE Tick /\ UNCHANGED organizationVars
  BY <1>1, <1>8 DEF organizationVars
<1>9. CASE UNCHANGED vars
  BY <1>1, <1>9 DEF vars, organizationVars
<1> QED
  BY <1>6, <1>7, <1>8, <1>9 DEF Next

LEMMA CountedIsBounded ==
  ASSUME TypeOK, JoinsAreCounted
  PROVE  JoinsAreBounded
<1>1. SUFFICES ASSUME NEW i \in Invitations
               PROVE  joins[i] <= Cardinality(Requests) + losses
  BY DEF JoinsAreBounded
<1>2. Found(i) \in SUBSET Requests /\ Joining(i) \in SUBSET Requests
  BY DEF Found, Joining
<1>3. IsFiniteSet(Requests) /\ IsFiniteSet(Found(i)) /\ IsFiniteSet(Joining(i))
  BY <1>2, OrganizationsAssumption, FS_Subset
<1>4. /\ Cardinality(Found(i)) \in Nat /\ Cardinality(Joining(i)) \in Nat
      /\ Cardinality(Requests) \in Nat
  BY <1>3, FS_CardinalityType
<1>5. Cardinality(Joining(i)) <= Cardinality(Requests)
  BY <1>2, <1>3, FS_Subset
<1> QED
  BY <1>4, <1>5 DEF JoinsAreCounted, TypeOK

-----------------------------------------------------------------------------
(* The inductive invariant, for every instance. *)
THEOREM Invariant == Spec => []IInv
<1>1. Init => IInv
  <2>1. ASSUME Init
        PROVE  JoinsAreCounted
    <3>1. \A i \in Invitations : Joining(i) = {}
      BY <2>1 DEF Init, Joining, NoTask
    <3>2. Cardinality({}) = 0
      BY FS_EmptySet
    <3> QED BY <2>1, <3>1, <3>2 DEF JoinsAreCounted, Init, NoInvite
  <2> QED BY <2>1, InitInv DEF IInv
<1>2. IInv /\ [Next]_vars => IInv'
  BY NextKeepsMembers, NextKeepsJoins DEF IInv
<1> QED
  BY <1>1, <1>2, PTL DEF Spec

(* A session lives at least Threshold longer than its last use, in whatever *)
(* order the UPDATEs of its requests land.                                 *)
THEOREM Sliding == Spec => []SlidesEnough
<1>1. IInv => SlidesEnough
  BY DEF IInv, SessionsInv
<1> QED
  BY <1>1, Invariant, PTL

(* One owner, whoever else accepts or creates at the same time. *)
THEOREM Ownership == Spec => []OwnerStays
<1>1. IInv => OwnerStays
  BY DEF IInv, MembersInv
<1> QED
  BY <1>1, Invariant, PTL

(* No session is in an organization without its user being a member. *)
THEOREM Membership == Spec => []ActiveIsMember
<1>1. IInv => ActiveIsMember
  BY DEF IInv, MembersInv
<1> QED
  BY <1>1, Invariant, PTL

(* How many an invitation can admit. *)
THEOREM Admissions == Spec => []JoinsAreBounded
<1>1. IInv => JoinsAreBounded
  BY CountedIsBounded DEF IInv, MembersInv
<1> QED
  BY <1>1, Invariant, PTL
=============================================================================
