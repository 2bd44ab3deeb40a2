SPECIFICATION Spec
CHECK_DEADLOCK FALSE
CONSTANTS
  Zero = 0
  Mixed = Mixed
  Bit <- MCBit
  Calls <- EmptyCalls
  SrcMem <- MCSrcMem
  SrcBits = 40
  DestMem <- MCDestMem
  DestBits = 40
  IntMax = 2147483647
  SmallBitsAligned = 32
  SmallBitsUnaligned = 256
PROPERTIES OnlyOwedBits
