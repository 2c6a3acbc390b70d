SPECIFICATION Spec
CONSTANTS
  WORD = 32768
  NameField = 8
  LongNameBuf = 12
  MaxMembers = 1
  Archives <- MCArchives
INVARIANTS
  ShortNamesAsWritten
