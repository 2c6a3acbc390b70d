SPECIFICATION Spec
CONSTANTS
  INT_MAX = 2147483647
  MaxTable = 2
  MaxSorted = 4
  Inputs <- MCInputs
INVARIANTS
  EqualValuesByName
