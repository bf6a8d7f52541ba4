SPECIFICATION Spec
CONSTANTS
  Files <- MCFiles
  FileOrder <- MCFileOrder
  PkgOf <- MCPkgOf
  Source <- MCSource
  FuncOf <- MCFuncOf
  Editable <- MCEditable
  Cuttable <- MCCuttable
  Looks <- MCLooks
  TestPkg <- MCTestPkg
  Reach <- MCReach
  FuncRank <- MCFuncRank
  Looping <- MCLooping
  Drift <- MCDrift
  Others <- MCOthers
  Alike <- MCAlike
  NoFile = "none"
  Own = "own"
  MaxLine = 4
  Hidden = {"testdata"}
  New = {"app.go"}
  Doomed = {"fix.go"}
  Mins = {50, 100}
  Limit = 1
  MaxSteps = 3
  MaxSetup = 2
INVARIANTS ScopeExact SettingsKept
PROPERTIES GateHonest BriefComplete NeverTrapped
CHECK_DEADLOCK FALSE
