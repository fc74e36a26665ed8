---------------------------- MODULE Organizations ----------------------------
(***************************************************************************)
(* One organization: its creation, its members and its invitations, of     *)
(* apps/api/src/modules/organizations/routes.ts, and switching to it, of   *)
(* apps/api/src/modules/auth/routes.ts, by requests that module Sessions   *)
(* has let in.  Every handler is several statements without a transaction. *)
(***************************************************************************)
EXTENDS Sessions, FiniteSets

CONSTANTS
  Invitations,  \* rows of invitations
  NoInvitation,
  GuestRoles,   \* roles an invitation may give
  MaxUsers,     \* plans.limits.maxUsers, negative if unlimited
  InviteTtl,    \* INVITATION_TTL_MS
  MaxLosses     \* bound: requests that die in a handler

ASSUME OrganizationsAssumption ==
  /\ NoInvitation \notin Invitations
  /\ GuestRoles \subseteq {"admin", "member", "viewer"}
  /\ MaxUsers \in Int
  /\ InviteTtl \in Nat
  /\ IsFiniteSet(Requests)
  /\ MaxLosses \in Nat

VARIABLES
  created,     \* is there an organizations row with this slug?
  role,        \* organization_members: each user's role
  invitation,  \* each row of invitations
  task,        \* each request: how far its handler is, its invitation
  joins,       \* history: accepts that carried out their INSERT, by invitation
  losses       \* history: requests that died in a handler

organizationVars == <<created, role, invitation, task, joins, losses>>
vars == <<sessionVars, organizationVars>>

NoInvite == [status |-> "none", role |-> "none", expires |-> 0]
NoTask == [at |-> "none", invitation |-> NoInvitation]

InvitationRows == [status : {"none", "open", "accepted"},
                   role : GuestRoles \union {"none"}, expires : Nat]
Tasks == [at : {"none", "free", "inserted", "switch", "invite", "found", "joined"},
          invitation : Invitations \union {NoInvitation}]

TypeOK ==
  /\ SessionsTypeOK
  /\ created \in BOOLEAN
  /\ role \in [Users -> GuestRoles \union {"owner", "none"}]
  /\ invitation \in [Invitations -> InvitationRows]
  /\ task \in [Requests -> Tasks]
  /\ joins \in [Invitations -> Nat]
  /\ losses \in Nat

Init ==
  /\ SessionsInit
  /\ created = FALSE
  /\ role = [u \in Users |-> "none"]
  /\ invitation = [i \in Invitations |-> NoInvite]
  /\ task = [r \in Requests |-> NoTask]
  /\ joins = [i \in Invitations |-> 0]
  /\ losses = 0

-----------------------------------------------------------------------------
User(r) == session[request[r].id].user

Goto(r, at) == task' = [task EXCEPT ![r].at = at]

(* The handler answers. *)
Finish(r) == Reply(r) /\ task' = [task EXCEPT ![r] = NoTask]

Begins(r) == request[r].at = "in" /\ task[r] = NoTask

(* A login picks one of the user's organizations, a registration none. *)
Login(s, u) ==
  /\ \E active \in {FALSE, role[u] # "none"} : CreateSession(s, u, active)
  /\ UNCHANGED organizationVars

Logout(r) ==
  /\ Begins(r)
  /\ RevokeSession(r)
  /\ UNCHANGED organizationVars

(* POST /organizations: is the slug free? *)
FindSlug(r) ==
  /\ Begins(r)
  /\ IF created THEN Finish(r) ELSE Goto(r, "free") /\ UNCHANGED request
  /\ UNCHANGED <<now, session, lastUse, created, role, invitation, joins, losses>>

(* The unique index refuses a slug that was taken meanwhile. *)
InsertOrganization(r) ==
  /\ task[r].at = "free"
  /\ IF created THEN Finish(r) /\ UNCHANGED created
     ELSE created' = TRUE /\ Goto(r, "inserted") /\ UNCHANGED request
  /\ UNCHANGED <<now, session, lastUse, role, invitation, joins, losses>>

(* Mutant: the session is switched first. *)
ActivateFirst(r) ==
  /\ task[r].at = "inserted"
  /\ session' = [session EXCEPT ![request[r].id].active = TRUE]
  /\ Goto(r, "switch")
  /\ UNCHANGED <<now, request, lastUse, created, role, invitation, joins, losses>>

InsertOwner(r) ==
  /\ task[r].at = "inserted"
  /\ role' = [role EXCEPT ![User(r)] = "owner"]
  /\ Goto(r, "switch")
  /\ UNCHANGED <<now, session, request, lastUse, created, invitation, joins, losses>>

(* POST /auth/switch-organization: only a member may. *)
FindMembership(r) ==
  /\ Begins(r)
  /\ IF role[User(r)] = "none" THEN Finish(r) ELSE Goto(r, "switch") /\ UNCHANGED request
  /\ UNCHANGED <<now, session, lastUse, created, role, invitation, joins, losses>>

(* Creation and switch end alike. *)
ActivateSession(r) ==
  /\ task[r].at = "switch"
  /\ session' = [session EXCEPT ![request[r].id].active = TRUE]
  /\ Finish(r)
  /\ UNCHANGED <<now, lastUse, created, role, invitation, joins, losses>>

-----------------------------------------------------------------------------
Members == {u \in Users : role[u] # "none"}

WithinLimit == MaxUsers < 0 \/ Cardinality(Members) < MaxUsers

(* POST /organizations/current/invitations: requireTenant('admin') and the *)
(* limit of members, for the organization the session was read with.       *)
CheckInvite(r) ==
  /\ Begins(r)
  /\ IF request[r].active /\ role[User(r)] \in {"owner", "admin"} /\ WithinLimit
     THEN Goto(r, "invite") /\ UNCHANGED request
     ELSE Finish(r)
  /\ UNCHANGED <<now, session, lastUse, created, role, invitation, joins, losses>>

InsertInvitation(r, i, guestRole) ==
  /\ task[r].at = "invite"
  /\ invitation[i] = NoInvite
  /\ invitation' = [invitation EXCEPT ![i] =
       [status |-> "open", role |-> guestRole, expires |-> now + InviteTtl]]
  /\ Finish(r)
  /\ UNCHANGED <<now, session, lastUse, created, role, joins, losses>>

(* Mutant: an accepted invitation is still good. *)
IsKnown(i) == invitation[i].status # "none" /\ now <= invitation[i].expires

IsOpen(i) == invitation[i].status = "open" /\ now <= invitation[i].expires

(* POST /invitations/accept, by whoever has the token. *)
FindInvitation(r, i) ==
  /\ Begins(r)
  /\ IF IsOpen(i)
     THEN task' = [task EXCEPT ![r] = [at |-> "found", invitation |-> i]] /\ UNCHANGED request
     ELSE Finish(r)
  /\ UNCHANGED <<now, session, lastUse, created, role, invitation, joins, losses>>

(* Mutant: ON CONFLICT UPDATE. *)
Regraded(u, i) == invitation[i].role

(* ON CONFLICT DO NOTHING: a member keeps the role it has. *)
Graded(u, i) == IF role[u] = "none" THEN invitation[i].role ELSE role[u]

InsertMember(r) ==
  LET i == task[r].invitation IN
  /\ task[r].at = "found"
  /\ role' = [role EXCEPT ![User(r)] = Graded(User(r), i)]
  /\ joins' = [joins EXCEPT ![i] = @ + 1]
  /\ Goto(r, "joined")
  /\ UNCHANGED <<now, session, request, lastUse, created, invitation, losses>>

MarkAccepted(r) ==
  /\ task[r].at = "joined"
  /\ invitation' = [invitation EXCEPT ![task[r].invitation].status = "accepted"]
  /\ Finish(r)
  /\ UNCHANGED <<now, session, lastUse, created, role, joins, losses>>

-----------------------------------------------------------------------------
(* The process dies or a statement fails; what was written stays. *)
Die(r) ==
  /\ request[r].at # "idle"
  /\ losses < MaxLosses
  /\ losses' = losses + 1
  /\ Finish(r)
  /\ UNCHANGED <<now, session, lastUse, created, role, invitation, joins>>

(* Every other endpoint: authenticated, answered. *)
Answer(r) ==
  /\ Begins(r)
  /\ Reply(r)
  /\ UNCHANGED <<now, session, lastUse, organizationVars>>

Authenticate(r) ==
  /\ (\E s \in SessionIds : ResolveSession(r, s)) \/ SlideSession(r)
  /\ UNCHANGED organizationVars

Create(r) == FindSlug(r) \/ InsertOrganization(r) \/ InsertOwner(r)

Switch(r) == FindMembership(r) \/ ActivateSession(r)

Invite(r) ==
  \/ CheckInvite(r)
  \/ \E i \in Invitations, guestRole \in GuestRoles : InsertInvitation(r, i, guestRole)

Accept(r) ==
  \/ \E i \in Invitations : FindInvitation(r, i)
  \/ InsertMember(r) \/ MarkAccepted(r)

Handle(r) ==
  \/ Authenticate(r) \/ Logout(r) \/ Answer(r)
  \/ Create(r) \/ Switch(r) \/ Invite(r) \/ Accept(r)
  \/ Die(r)

Next ==
  \/ \E s \in SessionIds, u \in Users : Login(s, u)
  \/ \E r \in Requests : Handle(r)
  \/ Tick /\ UNCHANGED organizationVars

Spec == Init /\ [][Next]_vars

-----------------------------------------------------------------------------
Owners == {u \in Users : role[u] = "owner"}

(* Two requests never create the organization twice, and nobody who        *)
(* accepts an invitation takes the owner's place, the owner included:      *)
(* there is one owner, unless the request that creates it is on its way to *)
(* its second INSERT or died there.                                        *)
OwnerStays ==
  /\ ~created => Owners = {}
  /\ \A u, v \in Owners : u = v
  /\ created /\ Owners = {} =>
       losses > 0 \/ \E r \in Requests : task[r].at = "inserted"

(* A session works in an organization only for one of its members.         *)
ActiveIsMember ==
  \A s \in SessionIds : session[s].active => role[session[s].user] # "none"

(* "Un solo uso" for invitations: one admits no more than the requests     *)
(* that accept it side by side before the first of them marks it, and one  *)
(* for each that died before it could.                                     *)
JoinsAreBounded ==
  \A i \in Invitations : joins[i] <= Cardinality(Requests) + losses
=============================================================================
