SPECIFICATION Spec
CONSTANTS
  Buffers <- SmallBuffers
  Checks <- PlaceChecks
  BITS = 2
  WORD = 2
INVARIANTS OutsidePasses
