SPECIFICATION Spec
CONSTANTS
  Width = 5
  Narrow = 4
  Programs <- MCPrograms
  Inputs <- MCInputs
INVARIANT RecoverWorks
CHECK_DEADLOCK FALSE
