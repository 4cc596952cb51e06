SPECIFICATION FairSpec
CONSTANTS
  Setups <- MCSetups
  Bands = 5
  SumOf <- MCSumOf
  Similar <- MCSimilar
  NumFile = 3
  FileOf <- MCFileOf
  Short = {6}
  BinFiles = {1}
  MaxLine = 5
  KeyFloor = 7
  DefaultKeys = 8
  DefaultBucket = 5
  Chunk = 2
  EdgeLimit = 1
INVARIANTS TypeOK GatheredRight JoinedAlike AllOrNothing Forests MergedExactly OneOfEachKept EveryPairJoined AbortSharesNothing
PROPERTIES AllFinish
CHECK_DEADLOCK FALSE
