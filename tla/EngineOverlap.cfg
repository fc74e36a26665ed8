\* Both loops may run the execution at once, on either branch; one crash.
SPECIFICATION Spec
CONSTANTS
  NumNodes = 6
  Kind <- TwoWaitsKind
  Edges <- TwoWaitsEdges
  Reads <- NothingRead
  Slots <- TwoLoops
  Proc <- OneProc
  Serves <- ServesByName
  MaxAttempts <- ThreeAttempts
  WaitFor = 1
  ExpiresIn = 0
  MaxStalled = 1
  MaxCrashes = 1
  MaxFaults = 0
  MaxRequests = 2
INVARIANTS TypeOK ApprovalGate ResumeFollowsDecision WaitElapses
PROPERTIES DecisionIsFinal
\* The system stops when the execution is over and every slot is idle.
CHECK_DEADLOCK FALSE
