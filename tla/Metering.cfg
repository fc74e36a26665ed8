\* Two requests and two AI calls beside each other, two plans, two months; and
\* a window of three ticks for two hits, over nine ticks.
SPECIFICATION MCSpec
CONSTANTS
  starter = starter
  unlimited = unlimited
  req1 = req1
  req2 = req2
  loop1 = loop1
  loop2 = loop2
  Requests <- TwoRequests
  Calls <- TwoLoops
  Plans <- TwoPlans
  Limit <- PlanLimits
  Cap = 2
  MaxCost = 1
  MaxWorkflows = 2
  MaxMisses = 1
  MaxMonths = 1
  MaxHits = 2
  WindowMs = 3
  MaxClock = 12
SYMMETRY Symmetry
INVARIANTS OvershootIsBounded LaunchesAreBounded BudgetHolds WindowHolds
