SPECIFICATION Spec
CONSTANTS
  Tables <- TeddyTables
  Buffers <- TeddyBuffers
  Starts = {0, 5}
  Replies = {"Continue", "Terminate"}
  Squashes = {{}, {1}}
  CONF_BYTES = 8
  ITER_BYTES = 16
  CAP = 2
INVARIANTS QueueFits Found
PROPERTY StreamSpec
