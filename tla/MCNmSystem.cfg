SPECIFICATION System
CONSTANTS
  WORD = 32768
  NameField = 8
  LongNameBuf = 12
  MaxArgs = 2
  ArgVectors <- MCArgVectors
  File <- MCFile
INVARIANTS
  ReadsInMapping
  NamesSurvive
PROPERTIES
  ImplementsBatch
