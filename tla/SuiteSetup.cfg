CONSTANTS
  r1 = r1
  r2 = r2
  t1 = t1
  t2 = t2
  t3 = t3
  t4 = t4
  Runs <- TwoRuns
  Tests <- FourTests
  Selections <- MCSelections
  Lines <- OneLine
  Mutants <- MCMutants
  MaxBaselineRounds = 2
  MaxEdits = 1
  MaxStored = 1
SYMMETRY Unnamed
SPECIFICATION Spec
INVARIANTS JudgesTrusted NoTestDropped SetupCurrent FailuresPersisted
