\* One run loop, one crash: what the condition reads.
SPECIFICATION Spec
CONSTANTS
  NumNodes = 5
  Kind <- InvoiceKind
  Edges <- InvoiceEdges
  Reads <- InvoiceReads
  Slots <- OneLoop
  Proc <- OneProc
  Serves <- ServesByName
  MaxAttempts <- InvoiceAttempts
  WaitFor = 1
  ExpiresIn = 0
  MaxStalled = 1
  MaxCrashes = 1
  MaxFaults = 0
  MaxRequests = 2
INVARIANTS BranchMatchesData
\* The system stops when the execution is over and every slot is idle.
CHECK_DEADLOCK FALSE
