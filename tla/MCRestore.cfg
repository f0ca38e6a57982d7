SPECIFICATION Spec
CONSTANTS
  Restores = {p1, p2}
  NoOne = NoOne
  Server = Server
  MaxDirs = 2
  MaxBooks = 4
  MaxCommits = 2
  MaxCuts = 2
SYMMETRY RestoreSymmetry
CHECK_DEADLOCK FALSE
INVARIANTS DirectoryIsSound NothingIsLost

