CONSTANTS
  Run = {r1, r2}
  None = None
  CircuitBreaker = 1
  CommitPage = 4
  MaxCommits = 3
  MaxExtras = 1
SPECIFICATION Spec
SYMMETRY Symmetric
INVARIANTS
  LeaseInv
  UserCommitsKept
  IgnoredIsLeft
  StreakBounded
CHECK_DEADLOCK FALSE
