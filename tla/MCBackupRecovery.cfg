SPECIFICATION FairSpec
CONSTANTS
  Workers = {w1, w2}
  Triggers = {"scheduled", "manual"}
  MaxAttempts = 2
  Lease = 1
  Backoff = 1
  Keep = 1
  MaxAge = 0
  DayLength = 2
  PowerCuts = TRUE
  Patient = TRUE
  MaxRetries = 1
  MaxRuns = 1
  MaxFaults = 1
  MaxTime = 6
CHECK_DEADLOCK FALSE
INVARIANT FinalNameIsTrusted
PROPERTY WorkSettles
