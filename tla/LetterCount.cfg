SPECIFICATION Spec
INVARIANTS
  EveryDocumentedLetter
