CONSTANTS
  Event = {push}
  Limit = 1
  MaxSends = 2
  MaxDispatch = 2
SPECIFICATION GcfFairSpec
INVARIANTS
  HandlerRunsBounded
  GcfInv
PROPERTY TasksLeave
CHECK_DEADLOCK FALSE
