SPECIFICATION Spec
CONSTANTS
  Requests = {r1, r2}
  Challenges = {c1}
  Sessions = {s1, s2}
  NoId = NoId
  CodesPerSet = 1
  ChallengeLife = 1
  MaxNow = 1
  MaxSecrets = 2
  MaxSets = 2
SYMMETRY SignInSymmetry
CHECK_DEADLOCK FALSE
INVARIANTS FactorIsSound OneSessionPerChallenge
PROPERTIES NoCodeIsAcceptedTwice FactorIsCurrent
