SPECIFICATION FairSpec
CHECK_DEADLOCK FALSE
CONSTANTS
  ItemSets <- KeySets
  Columns = {1, 2, 3, 4, 5}
  Value <- OwnBit
  kCoeffBits = 2
  kBucketSize = 4
  thresh_ = 2
  depth = 2
  HashRange = 5
  HashFunctions <- Hashes
  SlotsPerItem = 965
  Growth = 500
  NoAnswer = NoAnswer
INVARIANTS
  EquationsKept
  BumpsAgree
  ValuesRetrieved
PROPERTIES
  RibbonEnds
