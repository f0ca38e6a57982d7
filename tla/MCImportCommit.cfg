SPECIFICATION Spec
CONSTANTS
  Committers = {u1, u2}
  Stamps <- OneItem
  MaxAttempts = 1
  MaxBatches = 2
  MaxRows = 2
  MaxEdits = 1
  MaxFaults = 0
SYMMETRY CommitterSymmetry
CHECK_DEADLOCK FALSE
INVARIANTS ReviewIsSound PostedOnce
PROPERTIES OutcomesStand
