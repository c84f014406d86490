SPECIFICATION LoadedSpec
CONSTANTS
  Files <- LoadedFiles
  Tables <- LoadedTables
  BUCKETS = 8
  INDEX = 4
  HEADER = 32
  N_BITS = 16
  LIT_INFO = 32
  MARK = 30
  HASH_BITS = 8
INVARIANTS SlicesNest UncheckedReadsInside OnlyFdrPanics
