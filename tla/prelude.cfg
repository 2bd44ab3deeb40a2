SPECIFICATION Spec
CHECK_DEADLOCK FALSE
CONSTANTS
  Zero = 0
  Mixed = Mixed
  Bit <- MCBit
  Calls <- EdgeCalls
  SrcMem <- MCSrcMem
  SrcBits = 1040
  DestMem <- MCDestMem
  DestBits = 1040
  IntMax = 2147483647
  SmallBitsAligned = 32
  SmallBitsUnaligned = 256
INVARIANT PreludeZeroDest
