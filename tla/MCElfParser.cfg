SPECIFICATION Spec
CONSTANTS
  WORD = 1048576
  Units <- MCUnits
INVARIANTS
  TypeOK
  ReadsInBounds
  NamesTerminated
  AllOrNothing
  LettersFaithful
  HeapBalanced
  UnitContract
PROPERTIES
  Terminates
