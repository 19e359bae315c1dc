CONSTANTS
  Workers = {w1, w2}
  MaxTries = 2
  PageSize = 2
  LabelTries = 1
  Contents <- MCContents
  Titles <- MCTitles
  MaxChanges = 2
  MaxFaults = 2
SPECIFICATION Spec
INVARIANTS
  AutoApproveTypeOK
  OnlyNamedDependency
PROPERTY FittingIsApproved
CHECK_DEADLOCK FALSE
