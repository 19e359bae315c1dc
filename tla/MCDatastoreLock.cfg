CONSTANTS
  Client = {c1, c2}
  None = None
  LockExpiry = 1
  AcquireTimeout = 2
  BackoffMin = 1
  BackoffMax = 2
  MaxSkew = 1
  MaxNow = 5
SPECIFICATION FairSpec
INVARIANTS
  LeaseExclusion
  LostLockMeansExpired
PROPERTIES
  OnlyOwnerDeletes
  ImplementsLease
  AcquireReturns
CHECK_DEADLOCK FALSE
