\* Two users with a session each, two requests, one invitation, one death.
SPECIFICATION Spec
CONSTANTS
  alice = alice
  bob = bob
  cookie1 = cookie1
  cookie2 = cookie2
  req1 = req1
  req2 = req2
  invite1 = invite1
  NoUser = NoUser
  NoId = NoId
  NoInvitation = NoInvitation
  Users <- TwoUsers
  SessionIds <- TwoSessions
  Requests <- TwoRequests
  Invitations <- OneInvitation
  GuestRoles <- OneRole
  Ttl = 4
  Threshold = 3
  MaxLag = 1
  MaxTime = 4
  MaxUsers = 2
  InviteTtl = 2
  MaxLosses = 1
SYMMETRY Symmetry
INVARIANTS SlidesEnough OwnerStays ActiveIsMember JoinsAreBounded
\* Once the time is up, nothing is left but to answer.
CHECK_DEADLOCK FALSE
