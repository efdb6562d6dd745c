SPECIFICATION FairPGMSpec
CONSTANTS
  Inputs <- KeySequences
  BucketMappers <- Mappers
  NoAnswer = NoAnswer
  WideCapacity = 1000
  keysPerSegment = 3
  LargestKey = 1000
  WordBits = 4
  Kinds = {"none", "succinct", "unaligned", "polymorphic", "pgm"}
  IndexInputs <- IndexedKeys
  Epsilons = {1, 2}
  OneSegmentKeys = 6
  OneSegmentIntercept = 100
  LinearSegments = 2
  epsilon_recursive = 1
  SentinelKey = 1000
INVARIANTS
  ExtremeLinesFit
  ForEachAgrees
  RanksNear
  IndexesMonotone
  LevelsFindSegment
  OnlyDisorderRejected
  PackedNumbersFit
  PushFits
PROPERTIES
  ConstructionEnds
  ImplementsMMPHF
  SegmentsMaximal
CHECK_DEADLOCK FALSE
