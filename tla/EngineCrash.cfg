\* One run loop, one crash and one failed call anywhere.
SPECIFICATION FairSpec
CONSTANTS
  NumNodes = 5
  Kind <- InvoiceKind
  Edges <- InvoiceEdges
  Reads <- InvoiceReads
  Slots <- OneLoop
  Proc <- OneProc
  Serves <- ServesByName
  MaxAttempts <- InvoiceAttempts
  WaitFor = 1
  ExpiresIn = 0
  MaxStalled = 1
  MaxCrashes = 1
  MaxFaults = 1
  MaxRequests = 2
INVARIANTS FollowsEdges NeverReexecuted NoLostWakeup
PROPERTIES TerminalIsFinal ImplementsRun Settles
\* The system stops when the execution is over and every slot is idle.
CHECK_DEADLOCK FALSE
