CONSTANTS
  TestCase = {2, 3}
  Worker = {w1, w2}
  Threshold = 2
  MaxReports = 3
  MaxRevision = 2
  MaxIssues = 4
  MaxUpsets = 1
SPECIFICATION Spec
SYMMETRY Workers
INVARIANTS
  FlakybotTypeOK
  FailureIsKnown
  NotedOnce
  FlakyStaysOpen
CHECK_DEADLOCK FALSE
