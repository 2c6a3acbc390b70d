SPECIFICATION Spec
CONSTANTS
  Variants = {"plain", "bonus"}
  Fds = {0, 1, 1024}
  Texts <- MCTexts
  MaxText = 3
  BUFFER_SIZE = 2
  MaxCalls = 5
  MaxErrors = 1
  MaxOoms = 1
INVARIANTS
  TypeOK
  LinesExact
  NullMeansEnd
  CrashOnlyOutOfMemory
