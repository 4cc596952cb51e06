SPECIFICATION FairSpec
CONSTANTS
  w1 = w1 w2 = w2 w3 = w3
  NoLine = NoLine
  Workers = {w1, w2, w3}
  Files <- ThreeFiles
INVARIANTS TypeOK LeavesNothing EveryLineOnce
PROPERTIES LoadsLikeOne AllFilesLoaded
CHECK_DEADLOCK FALSE
