SPECIFICATION Spec
CONSTANTS
  LinearSearchLimit = 2
  Inputs <- DistinctOrDuplicate
  KeyBits = 4
  MaxErrors = {1, 2}
  RadixBits = {1, 3}
  UndefinedShifts = {0, 1, 3}
INVARIANTS
  AssertionsHold
  CorridorSound
  ErrorBound
  RadixTableExact
  LookupsLikeMultimap
