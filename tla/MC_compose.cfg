SPECIFICATION ScanSpec
CONSTANTS
  Loaded <- MCLoaded
  Tables <- MCTables
  Buffers <- MCBuffers
  Starts = {0}
  Replies = {"Continue", "Terminate"}
  Squashes = {{}, {1}}
  U64 = 1000
  CONF_BYTES = 4
  ITER_BYTES = 4
  CAP = 3
  Aligns = {0, 1}
  LOOKAHEAD = 3
  WORD = 2
  FLOOD_MIN = 16
  FLOOD_TAIL = 4
  BACKOFF = 2
  MAX_IDS = 4
INVARIANTS EveryMatchOnce BlockInZone BackoffBounded Found
PROPERTIES ImplementsDelayScan StreamSpec
