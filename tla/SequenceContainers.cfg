SPECIFICATION Spec
CONSTANTS
  WordBits = 4
  FILTER_GRANULARITY = 2
  InitialAreas = 2
  MIN_DUPLICATES = 2
  MaxLength = 8
  MaxValue = 6
INVARIANTS
  RankFilterAnswers
  RunFilterAnswers
  AwareAnswersBeforeTail
  PredecessorFound
  IteratorsMove
CHECK_DEADLOCK FALSE
