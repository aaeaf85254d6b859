SPECIFICATION LoadSpec
CONSTANTS
  XLEN = 8
  PageBits = 2
  MtimeAddr <- MCMtime
  MtimecmpAddr <- MCMtimecmp
  Files <- MCFiles
  Junk <- MCJunk
INVARIANTS LoadTypeOK SegmentsLoaded Footprint OverreadExplained ExecutableExact
PROPERTY LoadEnds
CHECK_DEADLOCK FALSE
