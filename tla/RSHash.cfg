SPECIFICATION AnySpec
CONSTANTS
  Inputs <- KeySequences
  MaxEstimate = 8
  WideCapacity = 1000
  NoAnswer = NoAnswer
  LinearSearchLimit = 2
  KeyBits = 4
  MaxErrors = {1, 2}
  RadixBits = {2}
  UndefinedShifts = {0}
INVARIANTS
  RankCorrect
  PushFits
  BucketsBounded
PROPERTIES
  Terminates
  ImplementsMMPHF
  ImplementsRSHash
