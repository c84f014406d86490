SPECIFICATION Spec
CONSTANTS
  Tables <- ZoneTables
  Buffers <- ZoneBuffers
  Starts = {0, 5}
  Replies = {"Continue", "Terminate"}
  Squashes = {{}, {1}}
  CONF_BYTES = 8
  ITER_BYTES = 16
  CAP = 2
  Aligns = {0}
  LOOKAHEAD = 3
  WORD = 8
  FLOOD_MIN = 256
  FLOOD_TAIL = 128
  BACKOFF = 32
  MAX_IDS = 16
INVARIANTS QueueFits WindowShowsBuffer Found
PROPERTY StreamSpec
