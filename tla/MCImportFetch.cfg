SPECIFICATION Spec
CONSTANTS
  Committers = {}
  Stamps <- TwoEndpoints
  MaxAttempts = 2
  MaxBatches = 2
  MaxRows = 4
  MaxEdits = 1
  MaxFaults = 1
CHECK_DEADLOCK FALSE
INVARIANTS NothingIsSkipped OfferedOnce
