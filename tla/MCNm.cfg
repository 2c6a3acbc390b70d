SPECIFICATION Spec
CONSTANTS
  WORD = 32768
  MaxArgs = 3
  ArgVectors <- MCArgVectors
  File <- MCFile
INVARIANTS
  TypeOK
  TriedInOrder
  ExitStatusExact
  ResourcesBalanced
  FailureExplained
PROPERTIES
  Terminates
