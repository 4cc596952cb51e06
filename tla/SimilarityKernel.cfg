SPECIFICATION FairSpec
CONSTANTS
  Edge = 2
  NumHash = 4
  Percent = 80
  Inputs <- MCInputs
  Parts = 5
  Warp = 2
  MaxPairs = 8
INVARIANTS SimilarityExact
CHECK_DEADLOCK FALSE
