CONSTANTS
  None = None
  Dir = Dir
  Paths <- MCPaths
  Above <- MCAbove
  Stamps <- TwoStamps
  KindFlips = FALSE
SPECIFICATION Spec
INVARIANTS PreexistingStay DifferencesReported NothingLost
CHECK_DEADLOCK FALSE
