SPECIFICATION Spec
CONSTANTS
  Workers = {w1, w2}
  Triggers = {"manual"}
  MaxAttempts = 1
  Lease = 1
  Backoff = 1
  Keep = 1
  MaxAge = 1
  DayLength = 2
  PowerCuts = FALSE
  Patient = FALSE
  MaxRetries = 1
  MaxRuns = 2
  MaxFaults = 1
  MaxTime = 2
SYMMETRY WorkerSymmetry
CHECK_DEADLOCK FALSE
INVARIANTS RunsAreSound EnoughCopies
