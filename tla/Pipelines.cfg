CONSTANTS
  NoJob = 0
  NumSlots = 2
  MaxTests = 2
  MaxMutants = 2
  TestCounts <- Counts
  MutantCounts <- Counts
  VerifyKills = TRUE
  MinScore = 60
  SuiteDir <- Dependent
  GuardCover <- Flat
  Jobs <- MCJobs
  Dirs <- MCDirs
  DirsOf <- MCDirsOf
  Tasks <- PipelineTasks
SPECIFICATION FairSpec
INVARIANTS VerdictsFinal ExitHonest ProcessesGuarded NoForeignGuard NothingLeftBehind
PROPERTIES VerdictsChangeAlone Terminates
CHECK_DEADLOCK FALSE
