SPECIFICATION FairSpec
CONSTANTS
  Chars = {0, 1, 2, 3}
  ChunkBits = 4
  AsciiBound = 2
  MapIndexBits = 3
  StringInputs <- Texts
  ChunkMappers <- SmallMappers
  AlphabetThreshold = 2
  DirectThreshold = 3
  ChunkThreshold = 2
  LCPBits = 5
  PackedBits = 6
  packBaseBits = 3
  WideCapacity = 1000
  NoAnswer = NoAnswer
INVARIANTS
  ChunksBranch
  IndexesUnpacked
PROPERTIES
  TreeImplementsMMPHF
  QueriesReturn
CHECK_DEADLOCK FALSE
