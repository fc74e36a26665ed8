\* One worker process, no crash: the second loop serves the wake-up.  Two
\* tabs watch it, and one call to Postgres or Redis may fail.
SPECIFICATION ViewSpec
CONSTANTS
  NumNodes = 4
  Kind <- DelayKind
  Edges <- DelayEdges
  Reads <- DelayReads
  Slots <- TwoLoops
  Proc <- OneProc
  Serves <- ServesByName
  MaxAttempts <- ThreeAttempts
  WaitFor = 1
  ExpiresIn = 0
  MaxStalled = 1
  MaxCrashes = 0
  MaxFaults = 1
  MaxRequests = 2
INVARIANTS NoOverlap BranchMatchesData AcceptedDecisionShows
PROPERTIES PageSettles
\* The system stops when the execution is over and every slot is idle.
CHECK_DEADLOCK FALSE
