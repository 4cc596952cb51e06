SPECIFICATION SignSpec
CONSTANTS
  WordMod = 64
  CharMod = 4
  Q = 7
  P0 = 4
  NumHash = 4
  Shingle = 2
  TextAt = 1
  NumBands = 2
  BucketMod = 11
  BlockWords = 2
  Lines <- MCLines
  Batches <- MCBatches
  Ivs <- MCIvs
  Enc <- MCEnc
  Dec <- MCDec
  KeyWord <- MCKeyWord
  XorWord <- MCXorWord
INVARIANTS HashExact SimilarityArrives
CHECK_DEADLOCK FALSE
