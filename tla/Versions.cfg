\* Two racing publishes, one of them from a browser, a trigger, and one
\* request that dies anywhere; and three edits of five graphs.
SPECIFICATION MCSpec
CONSTANTS
  install = install
  put1 = put1
  put2 = put2
  run1 = run1
  NoRow = NoRow
  Installer = install
  Save = put1
  Run = run1
  Editors <- TwoEditors
  Triggers <- OneTrigger
  MaxFaults = 1
  Hydrations <- SomeGraphs
  NewKinds <- TriggerAndAction
  Branches <- TrueOrNothing
  MaxEdits = 3
INVARIANTS HistoryIsLinear PinsAreFresh ProjectionFollows RequestsGoForward SavesShowUp EditsKeepGraph LayoutFollowsPaths
PROPERTIES ImplementsRegister RequestsEnd MutationsEnd
\* The system stops when every request has been answered.
CHECK_DEADLOCK FALSE
