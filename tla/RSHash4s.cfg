SPECIFICATION LCPOrHashSpec
CONSTANTS
  Inputs = {}
  StringInputs <- AllInputs
  Chars = {0, 1, 2, 3}
  NumMaps = 4
  ChunkBits = 4
  MaxEstimate = 4
  WideCapacity = 1000
  NoAnswer = NoAnswer
  LinearSearchLimit = 2
  KeyBits = 4
  MaxErrors = {1}
  RadixBits = {2}
  UndefinedShifts = {0}
  ComparedTexts <- SomeTexts
  WordBytes = 2
  Wrapped = 64
INVARIANTS
  ReadsStayClose
  LCPExact
  ChunksIncrease
  StringRankCorrectWithinLimits
PROPERTIES
  ImplementsRSHash4s
CHECK_DEADLOCK FALSE
