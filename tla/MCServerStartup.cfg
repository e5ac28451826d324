SPECIFICATION Spec
CONSTANTS
  Seeds <- ThreeSeeds
  None = None
  MaxStarts = 3
  MaxScripts = 2
INVARIANTS
  SeedsCompleted
  ReleasedExactlyOnce
  ServesMatchingPair
  LogTellsTheOutcome
CHECK_DEADLOCK FALSE
