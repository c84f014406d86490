SPECIFICATION LoadSpec
CONSTANT Files <- SmallFiles
INVARIANT LoadNeverPanics
