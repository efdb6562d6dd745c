SPECIFICATION LCPOrHashSpec
CONSTANTS
  Inputs = {}
  StringInputs <- GapInputs
  Chars = {0, 1, 2, 3}
  NumMaps = 4
  ChunkBits = 8
  MaxEstimate = 4
  WideCapacity = 1000
  NoAnswer = NoAnswer
  LinearSearchLimit = 32
  KeyBits = 8
  MaxErrors = {256}
  RadixBits = {10}
  UndefinedShifts = {0}
  ComparedTexts = {}
  WordBytes = 2
  Wrapped = 64
INVARIANT
  StringRankCorrect
