SPECIFICATION Spec
INVARIANTS
  LettersComputed
