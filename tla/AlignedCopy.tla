---------------------------- MODULE AlignedCopy ----------------------------
(***************************************************************************)
(* BitsCopyFastAligned: both cursors stand at the same bit of their byte.  *)
(* The bits up to the next byte boundary, the whole bytes, then the rest.  *)
(***************************************************************************)
EXTENDS CopyState

(* Mutant of EnterAligned: the test of the offset is dropped.              *)
EnterAlignedAlways(offset) == "AlignedHead"

(* if (BitOffset != 0) ... : where the routine starts.                     *)
EnterAligned(offset) == IF offset # 0 THEN "AlignedHead" ELSE "AlignedMiddle"

(* The leading bits: a read-modify-write of the first byte.                *)
AlignedHead ==
  /\ pc = "AlignedHead"
  /\ LET srcCopyBits == Byte - SrcBit
         copyBits == Least(srcCopyBits, BitCount)
         mask == Mask(SrcBit, srcCopyBits - copyBits, Byte)
         word == Keep(Load(SrcMem, Src, Byte), mask)
     IN /\ mem' = Store(mem, Dest, Merge(Load(mem, Dest, Byte), mask, word), Byte)
        /\ BitCount' = BitCount - copyBits
        /\ Dest' = Dest + (copyBits + SrcBit) \div Byte
        /\ DestBit' = (copyBits + SrcBit) % Byte
  /\ Src' = Src + 1
  /\ SrcBit' = 0
  /\ Touch({Src}, {Dest})
  /\ pc' = "AlignedMiddle"
  /\ UNCHANGED <<call, locals>>

(* FMemory::Memcpy of the whole bytes.                                     *)
AlignedMiddle ==
  /\ pc = "AlignedMiddle"
  /\ LET numBytes == BitCount \div Byte
     IN /\ mem' = CopyBytes(mem, Dest, SrcMem, Src, numBytes)
        /\ BitCount' = BitCount - numBytes * Byte
        /\ Dest' = Dest + numBytes
        /\ Src' = Src + numBytes
        /\ Touch(Src .. Src + numBytes - 1, Dest .. Dest + numBytes - 1)
  /\ pc' = IF BitCount' > 0 THEN "AlignedTail" ELSE "Done"
  /\ UNCHANGED <<call, DestBit, SrcBit, locals>>

(* The 1 to 7 bits left: a read-modify-write of the last byte.             *)
AlignedTail ==
  /\ pc = "AlignedTail"
  /\ LET mask == Mask(0, Byte - BitCount, Byte)
         srcBits == Keep(Load(SrcMem, Src, Byte), mask)
     IN mem' = Store(mem, Dest, Merge(Load(mem, Dest, Byte), mask, srcBits), Byte)
  /\ BitCount' = 0
  /\ Touch({Src}, {Dest})
  /\ pc' = "Done"
  /\ UNCHANGED <<call, Dest, DestBit, Src, SrcBit, locals>>

(* The int (32-bit) values each of these steps computes.                   *)
AlignedInts ==
  LET copyBits == Least(Byte - SrcBit, BitCount)
      middle == (BitCount \div Byte) * Byte
  IN CASE pc = "AlignedHead" ->
            {Byte - SrcBit, Byte - SrcBit - copyBits, BitCount - copyBits, copyBits + SrcBit}
       [] pc = "AlignedMiddle" -> {middle, BitCount - middle}
       [] pc = "AlignedTail" -> {Byte - BitCount}
       [] OTHER -> {}

AlignedNext == AlignedHead \/ AlignedMiddle \/ AlignedTail
=============================================================================
