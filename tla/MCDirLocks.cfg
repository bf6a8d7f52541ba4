CONSTANTS
  NoJob = 0
  NumSlots = 4
  Jobs <- MCJobs
  Dirs <- MCDirs
  DirsOf <- MCDirsOf
SPECIFICATION FairLockSpec
INVARIANTS LocksExclude
PROPERTIES EveryLockGranted ExclusionSpec
CHECK_DEADLOCK FALSE
