\* Two checkouts of one organization, up to four events, two handlers.
SPECIFICATION Spec
CONSTANTS
  free = free
  pro = pro
  business = business
  sub1 = sub1
  sub2 = sub2
  hook1 = hook1
  hook2 = hook2
  NoRef = NoRef
  Free = free
  Plans <- AllPlans
  Refs <- TwoRefs
  Hooks <- TwoHooks
  Charges <- SomeCharges
  MaxEvents = 4
SYMMETRY Symmetry
INVARIANTS PlanWasPaid CancelledIsFree FollowsGateway
\* A mock gateway emits nothing: the system stops when every plan is bought.
CHECK_DEADLOCK FALSE
