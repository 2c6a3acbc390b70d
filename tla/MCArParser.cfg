SPECIFICATION Spec
CONSTANTS
  WORD = 32768
  NameField = 8
  LongNameBuf = 12
  MaxMembers = 3
  Archives <- MCArchives
INVARIANTS
  TypeOK
  ListedExactly
  WindowsDisjoint
  VerdictExact
  FailureExplained
  NamesAsWritten
PROPERTIES
  WalkAdvances
