CONSTANTS
  Worker = {w1}
  MaxCommits = 2
  MaxEdits = 2
  MaxFaults = 0
  Ages = FALSE
SPECIFICATION Spec
INVARIANT ExactReviewed
CHECK_DEADLOCK FALSE
