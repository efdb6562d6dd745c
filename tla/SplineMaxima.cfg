SPECIFICATION Spec
CONSTANTS
  LinearSearchLimit = 2
  Inputs <- DuplicateMaxima
  KeyBits = 4
  MaxErrors = {1, 2}
  RadixBits = {2}
  UndefinedShifts = {0, 1, 3}
INVARIANTS
  BoundContainsEveryKey
