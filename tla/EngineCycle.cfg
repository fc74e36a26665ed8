\* A definition with a cycle, as the schema accepts.
SPECIFICATION FairSpec
CONSTANTS
  NumNodes = 4
  Kind <- CycleKind
  Edges <- CycleEdges
  Reads <- CycleReads
  Slots <- OneLoop
  Proc <- OneProc
  Serves <- ServesByName
  MaxAttempts <- ThreeAttempts
  WaitFor = 1
  ExpiresIn = 0
  MaxStalled = 1
  MaxCrashes = 0
  MaxFaults = 0
  MaxRequests = 2
PROPERTIES RunsEnd
\* The system stops when the execution is over and every slot is idle.
CHECK_DEADLOCK FALSE
