\* A wait in front of an approval: two loops, no crash, no failure.
SPECIFICATION Spec
CONSTANTS
  NumNodes = 3
  Kind <- HoldKind
  Edges <- HoldEdges
  Reads <- NothingRead
  Slots <- TwoLoops
  Proc <- OneProc
  Serves <- ServesByName
  MaxAttempts <- ThreeAttempts
  WaitFor = 1
  ExpiresIn = 0
  MaxStalled = 1
  MaxCrashes = 0
  MaxFaults = 0
  MaxRequests = 2
PROPERTIES TerminalIsFinal
\* The system stops when the execution is over and every slot is idle.
CHECK_DEADLOCK FALSE
