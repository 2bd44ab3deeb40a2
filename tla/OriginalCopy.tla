---------------------------- MODULE OriginalCopy ----------------------------
(***************************************************************************)
(* OriginalAppBitsCpyImpl: the stock routine, which FastBitCopy keeps for  *)
(* payloads up to its thresholds.  It takes the offsets as the caller gave *)
(* them; Dest and Src are its DestIndex and SrcIndex, Reg its Accu or      *)
(* BitAccu (uint32), LoopCount its FullLoop.                               *)
(***************************************************************************)
EXTENDS CopyState

Accu == 32

(* int32 division by 8: towards zero, as a zero-length call at bit 0 needs.*)
ByteOf(b) == IF b < 0 THEN -((-b) \div Byte) ELSE b \div Byte

(* uint32(Src[at]).                                                        *)
SrcByte(at) == Load(SrcMem, at, Byte)

(* 0xFF << n in a uint32.                                                  *)
Ones(n) == n .. n + Byte - 1

(* Dest[at] = uint8((Dest[at] & ~mask) | (bits & mask)).                   *)
PutByte(at, mask, bits) ==
  mem' = Store(mem, at, Merge(Load(mem, at, Byte), mask, Keep(bits, mask)), Byte)

-----------------------------------------------------------------------------
(* BitCount <= 8: one or two bytes on each side.                           *)

LastDest == ByteOf(DestBit + BitCount - 1)
LastSrc == ByteOf(SrcBit + BitCount - 1)

(* Mutant of NotLastMask: the mask is shifted by one bit more.             *)
NotLastMaskWide ==
  LET last == (DestBit + BitCount) % Byte
  IN (0 .. Accu - 1) \ (last + 1 .. last + Byte - 1)

(* ~LastMask, LastMask being 0xFE << ((DestBit + BitCount - 1) & 7).       *)
NotLastMask ==
  LET last == (DestBit + BitCount - 1) % Byte
  IN (0 .. Accu - 1) \ (last + 1 .. last + Byte - 1)

(* The 1 or 2 source bytes brought together, and the first store.          *)
OriginalSmall ==
  /\ pc = "Original" /\ BitCount <= Byte
  /\ LET destIndex == DestBit \div Byte
         srcIndex == SrcBit \div Byte
         shiftSrc == SrcBit % Byte
         shiftDest == DestBit % Byte
         first == ShiftRight(SrcByte(srcIndex), shiftSrc)
         accu == IF srcIndex = LastSrc THEN first
                 ELSE Or(first, ShiftLeft(SrcByte(LastSrc), Byte - shiftSrc))
         oneByte == destIndex = LastDest
         mask == IF oneByte THEN Ones(shiftDest) \cap NotLastMask ELSE Ones(shiftDest)
     IN /\ PutByte(destIndex, mask, ShiftLeft(accu, shiftDest))
        /\ Reg' = ShiftRight(accu, Byte - shiftDest)
        /\ pc' = IF oneByte THEN "Done" ELSE "OriginalSmallLast"
        /\ Touch({srcIndex, LastSrc}, {destIndex})
  /\ UNCHANGED <<call, cursors, WordBits, LoopCount, ShiftCount, RemainingBits>>

(* The store to the second destination byte.                               *)
OriginalSmallLast ==
  /\ pc = "OriginalSmallLast"
  /\ PutByte(LastDest, NotLastMask, Reg)
  /\ Touch({}, {LastDest})
  /\ pc' = "Done"
  /\ UNCHANGED <<call, cursors, locals>>

-----------------------------------------------------------------------------
(* BitCount > 8: a shift accumulator fed byte by byte.                     *)

(* BitAccu = ((uint32(Src[at]) << shift) + BitAccu) >> 8.                  *)
Feed(reg, at, shift) == ShiftRight(Narrow(Or(ShiftLeft(SrcByte(at), shift), reg), Accu), Byte)

(* Mutant of FullLoop: the byte read ahead when bits move down counts too. *)
FullLoopLong(destLoop, srcLoop, shift) == Greatest(destLoop, srcLoop)

(* FullLoop: the destination bytes from the first to the last whole one.   *)
FullLoop(destLoop, srcLoop, shift) ==
  Greatest(destLoop, IF shift >= 0 THEN srcLoop ELSE srcLoop - 1)

(* The accumulator is primed with one source byte, or with two when bits   *)
(* move down; then the first store.                                        *)
OriginalHead ==
  /\ pc = "Original" /\ BitCount > Byte
  /\ LET destIndex == DestBit \div Byte
         srcIndex == SrcBit \div Byte
         destLoop == (DestBit + BitCount) \div Byte - destIndex
         srcLoop == (SrcBit + BitCount) \div Byte - srcIndex
         shift == (DestBit % Byte) - (SrcBit % Byte)
         up == shift >= 0
         lastRead == IF up THEN srcIndex ELSE srcIndex + 1
         bitAccu == IF up THEN ShiftLeft(SrcByte(srcIndex), shift)
                    ELSE Feed(ShiftLeft(SrcByte(srcIndex), shift + Byte),
                              lastRead, shift + 2 * Byte)
     IN /\ PutByte(destIndex, Ones(DestBit % Byte), bitAccu)
        /\ Reg' = bitAccu
        /\ LoopCount' = FullLoop(destLoop, srcLoop, shift)
        /\ ShiftCount' = IF up THEN shift + Byte ELSE shift + 2 * Byte
        /\ Dest' = destIndex + 1
        /\ Src' = lastRead + 1
        /\ Touch(srcIndex .. lastRead, {destIndex})
  /\ pc' = "OriginalLoop"
  /\ UNCHANGED <<call, DestBit, SrcBit, BitCount, WordBits, RemainingBits>>

(* for (; FullLoop > 1; FullLoop--): a whole destination byte.             *)
OriginalLoop ==
  /\ pc = "OriginalLoop" /\ LoopCount > 1
  /\ Reg' = Feed(Reg, Src, ShiftCount)
  /\ mem' = Store(mem, Dest, Reg', Byte)
  /\ Touch({Src}, {Dest})
  /\ Src' = Src + 1
  /\ Dest' = Dest + 1
  /\ LoopCount' = LoopCount - 1
  /\ UNCHANGED <<call, pc, DestBit, SrcBit, BitCount, WordBits, ShiftCount, RemainingBits>>

(* The bits of the last, partial byte, if there is one (LastSrcMask is not *)
(* 0xFF).  A further source byte is read only if it has bits to copy.      *)
OriginalTail ==
  /\ pc = "OriginalLoop" /\ LoopCount <= 1
  /\ LET lastBits == (DestBit + BitCount) % Byte
         more == (SrcBit + BitCount - 1) \div Byte = Src
         bitAccu == IF more THEN Feed(Reg, Src, ShiftCount) ELSE ShiftRight(Reg, Byte)
     IN IF lastBits # 0
        THEN /\ PutByte(Dest, (0 .. Accu - 1) \ Ones(lastBits), bitAccu)
             /\ Reg' = bitAccu
             /\ Touch(IF more THEN {Src} ELSE {}, {Dest})
        ELSE Touch({}, {}) /\ UNCHANGED <<mem, Reg>>
  /\ pc' = "Done"
  /\ UNCHANGED <<call, cursors, WordBits, LoopCount, ShiftCount, RemainingBits>>

(* The int values these steps compute: the ends of both ranges, in bits.   *)
OriginalInts ==
  IF pc \in {"Original", "OriginalLoop"}
  THEN {DestBit + BitCount, SrcBit + BitCount, DestBit + BitCount - 1, SrcBit + BitCount - 1}
  ELSE {}

OriginalNext ==
  \/ OriginalSmall \/ OriginalSmallLast
  \/ OriginalHead \/ OriginalLoop \/ OriginalTail
=============================================================================
