SPECIFICATION Spec
CONSTANTS
  DIGITS = 2
  MaxFailures = 3
  Sessions <- MCSessions
  Listings <- MCListings
INVARIANTS
  TypeOK
  ResultTellsLoss
  LinesTerminated
  PrintsExpected
  BuffersHold
  LineReadsBack
