\* Two tabs and two callbacks, or one of each with two revocations and two
\* loops that refresh; up to three refresh tokens.
SPECIFICATION AuthSpec
CONSTANTS
  admin1 = admin1
  admin2 = admin2
  loop1 = loop1
  loop2 = loop2
  tab1 = tab1
  tab2 = tab2
  call1 = call1
  call2 = call2
  acme = acme
  globex = globex
  Admins <- TwoAdmins
  Loops <- TwoLoops
  MaxToken = 3
  Flows <- TwoTabs
  Calls <- TwoCalls
  Orgs <- TwoOrgs
  Configured <- OnlySlack
  HasSecrets = TRUE
  Casts <- TabsOrLife
  None = None
SYMMETRY Symmetry
INVARIANTS RevokedIsClean ActiveIsUsable AccountsFollowConsents RefusalsHaveACause
\* A connect that fails before its second row ends everything.
CHECK_DEADLOCK FALSE
