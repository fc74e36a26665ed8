--------------------------- MODULE MCCredentials ---------------------------
(* Instances of ConnectorAuthorization for TLC. *)
EXTENDS ConnectorAuthorization, TLC

CONSTANTS admin1, admin2, loop1, loop2, tab1, tab2, call1, call2, acme, globex

TwoAdmins == {admin1, admin2}
TwoLoops == {loop1, loop2}
TwoTabs == {tab1, tab2}
TwoCalls == {call1, call2}
TwoOrgs == {acme, globex}
OnlySlack == {"slack"}

(* Two tabs and two callbacks, or one of each and all that happens to the   *)
(* account later.                                                          *)
TabsOrLife ==
  {TwoTabs \union TwoCalls}
    \union {TwoAdmins \union TwoLoops \union {f, c} : f \in TwoTabs, c \in TwoCalls}

Symmetry ==
  Permutations(TwoAdmins) \union Permutations(TwoLoops) \union Permutations(TwoTabs)
    \union Permutations(TwoCalls) \union Permutations(TwoOrgs)
=============================================================================
