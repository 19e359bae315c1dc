CONSTANTS
  Worker = {w1, w2}
  MaxCommits = 1
  MaxEdits = 3
  MaxFaults = 0
  Ages = FALSE
SPECIFICATION Spec
INVARIANTS
  DoNotMergeHeld
  LabelKept
SYMMETRY Symmetric
CHECK_DEADLOCK FALSE
