SPECIFICATION Spec
CHECK_DEADLOCK FALSE
CONSTANTS
  Zero = 0
  Mixed = Mixed
  Bit <- MCBit
  Calls <- AllCalls
  SrcMem <- MCSrcMem
  SrcBits = 224
  DestMem <- MCDestMem
  DestBits = 224
  IntMax = 200
  SmallBitsAligned = 8
  SmallBitsUnaligned = 8
INVARIANTS TypeOK Inv CopiedExactly AccessInBounds StatedRanges WordCopyOnlyInternal IntsFit
PROPERTIES OnlyOwedBits IsBitCopy
