SPECIFICATION PGMSpec
CONSTANTS
  Inputs <- KeySequences
  BucketMappers <- Mappers
  NoAnswer = NoAnswer
  WideCapacity = 1000
  keysPerSegment = 3
  LargestKey = 1000
  WordBits = 4
  Kinds = {"none"}
  IndexInputs <- IndexedKeys
  Epsilons = {1, 2}
  OneSegmentKeys = 6
  OneSegmentIntercept = 100
  LinearSegments = 2
  epsilon_recursive = 1
  SentinelKey = 1000
INVARIANT
  DereferencesElements
CHECK_DEADLOCK FALSE
