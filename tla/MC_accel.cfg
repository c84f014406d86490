SPECIFICATION Spec
CONSTANTS
    LANES = 4
    WORD = 2
    NIB = 4
    BITS = {0, 1}
    CASE_BIT = 4
    Strides = {1, 4}
    MaxLen = 10
    Kernels <- MCKernels
    Buffers <- MCBuffers
INVARIANTS
    SameAsReference
    LoadsInside
    LeftBehind
