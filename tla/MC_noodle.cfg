SPECIFICATION Spec
CONSTANTS
  Tables <- NoodleTables
  Buffers <- AllBuffers
  MaxLen = 5
  Starts = {0, 1, 3}
  Replies = {"Continue", "Terminate"}
  Letters = {0, 1}
INVARIANTS LooksInside FoundInOrder
