SPECIFICATION Spec
CHECK_DEADLOCK FALSE
CONSTANTS
  Zero = 0
  Mixed = Mixed
  Bit <- MCBit
  Calls <- ThresholdCalls
  SrcMem <- MCSrcMem
  SrcBits = 400
  DestMem <- MCDestMem
  DestBits = 400
  IntMax = 2147483647
  SmallBitsAligned = 32
  SmallBitsUnaligned = 256
INVARIANT CopiedExactly
PROPERTY OnlyOwedBits
