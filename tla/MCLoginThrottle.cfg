SPECIFICATION MCSpec
CONSTANTS
  Attempts = {a1, a2, a3, r1, r2}
  Scopes = {"user", "ip", "session"}
  ScopesOf <- MCScopesOf
  Addresses = {"ip"}
  Reauths = {r1, r2}
  Budget = 2
  Window = 2
  Faults = TRUE
  MaxTime = 2
SYMMETRY AttemptSymmetry
CHECK_DEADLOCK FALSE
INVARIANTS CountersAreSound BudgetHolds AddressWindowHolds RefusedHoldsNothing
PROPERTY AddressBlockStands
