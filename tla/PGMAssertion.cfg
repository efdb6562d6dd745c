SPECIFICATION PGMSpec
CONSTANTS
  Inputs <- TouchingAtThree
  BucketMappers <- Mappers
  NoAnswer = NoAnswer
  WideCapacity = 1000
  keysPerSegment = 3
  LargestKey = 1000
  WordBits = 4
  Kinds = {"pgm"}
  IndexInputs <- TouchingAtThree
  Epsilons = {3}
  OneSegmentKeys = 6
  OneSegmentIntercept = 100
  LinearSegments = 2
  epsilon_recursive = 1
  SentinelKey = 1000
INVARIANT
  AssertedRanksNear
CHECK_DEADLOCK FALSE
