SPECIFICATION Spec
CONSTANTS
  Buffers <- SmallBuffers
  Checks <- SmallChecks
  BITS = 2
  WORD = 2
INVARIANTS MaskBytewise BordersAgree LookaroundAllEntries
