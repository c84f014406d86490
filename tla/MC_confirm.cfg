SPECIFICATION FairSpec
CONSTANTS
  Tables <- SmallTables
  MinSize = 8
  MaxSize = 9
  Words = {0, 1, 2, 4}
  BUCKETS = 1
  INDEX = 1
  HEADER = 1
  N_BITS = 0
  LIT_INFO = 3
  MARK = 1
  HASH_BITS = 3
INVARIANT ReadsInside
PROPERTY WalkEnds
