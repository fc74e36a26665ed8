-------------------------- MODULE MCOrganizations --------------------------
(* Instances of Organizations for TLC. *)
EXTENDS Organizations, TLC

CONSTANTS alice, bob, cookie1, cookie2, req1, req2, invite1

TwoUsers == {alice, bob}
TwoSessions == {cookie1, cookie2}
TwoRequests == {req1, req2}
OneInvitation == {invite1}
OneRole == {"admin"}

Symmetry ==
  Permutations(TwoUsers) \union Permutations(TwoSessions) \union Permutations(TwoRequests)
=============================================================================
