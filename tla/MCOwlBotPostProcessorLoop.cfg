CONSTANTS
  Run = {r1, r2}
  None = None
  CircuitBreaker = 1
  CommitPage = 3
  MaxCommits = 2
  MaxExtras = 1
SPECIFICATION FairSpec
PROPERTY TriggersAreServed
CHECK_DEADLOCK FALSE
