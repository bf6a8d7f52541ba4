SPECIFICATION Spec
CONSTANTS
  Width = 5
  Narrow = 4
  Programs <- MCPrograms
  Inputs <- MCInputs
INVARIANTS SchemaFaithful SchemaCompiles
CHECK_DEADLOCK FALSE
