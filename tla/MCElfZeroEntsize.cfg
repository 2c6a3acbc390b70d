SPECIFICATION Spec
CONSTANTS
  WORD = 1048576
  Units <- MCUnits
INVARIANTS
  ZeroEntsizeResolved
