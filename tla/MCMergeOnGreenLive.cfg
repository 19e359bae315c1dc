CONSTANTS
  Worker = {w1}
  MaxCommits = 2
  MaxEdits = 1
  MaxFaults = 1
  Ages = TRUE
SPECIFICATION FairSpec
PROPERTIES
  RowsAreCleared
  HangingIsFound
  OldRowsLeave
CHECK_DEADLOCK FALSE
