CONSTANTS
  Commit <- MCCommit
  Repos <- MCRepos
  Afters = {0, 2, 3}
  LinearBelow = 3
  Results = {"GFC_CONTINUE", "GFC_STOP", "GFC_SKIP"}
SPECIFICATION Spec
INVARIANTS TypeOK VisitedOnce LatestFirst AllVisited
PROPERTY Terminates
CHECK_DEADLOCK FALSE
