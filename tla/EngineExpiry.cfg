\* An approval that expires, with the loop that would expire it.
SPECIFICATION ExpirySpec
CONSTANTS
  NumNodes = 5
  Kind <- InvoiceKind
  Edges <- InvoiceEdges
  Reads <- InvoiceReads
  Slots <- RunAndExpire
  Proc <- OneProc
  Serves <- ServesByName
  MaxAttempts <- InvoiceAttempts
  WaitFor = 1
  ExpiresIn = 1
  MaxStalled = 1
  MaxCrashes = 0
  MaxFaults = 0
  MaxRequests = 2
PROPERTIES ExpiryHappens
\* The system stops when the execution is over and every slot is idle.
CHECK_DEADLOCK FALSE
