SPECIFICATION FairSpec
CONSTANTS
  Keys <- MCKeys
  Kinds <- MCKinds
  KindOf <- MCKindOf
  Owners = {w1, w2}
  MaxAttempts = 2
  MaxSuccessorAttempts = 1
  Lease = 1
  Delays <- MCDelays
  MaxItems = 3
  MaxTime = 1
CHECK_DEADLOCK FALSE
INVARIANTS RowsAreSound ActiveUnique LeaseProtects
PROPERTIES OnlyHolderSettles DueWorkIsServed QueueKeepsPromise
