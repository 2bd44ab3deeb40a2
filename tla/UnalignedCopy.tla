--------------------------- MODULE UnalignedCopy ---------------------------
(***************************************************************************)
(* BitsCopyFastUnaligned and CopyBitsSrcAligned: the cursors stand at      *)
(* different bits of their bytes.  A head pass brings the source cursor to *)
(* a byte boundary; CopyBitsSrcAligned<uint64> then shifts whole source    *)
(* words into place, carrying the bits that straddle two destination words *)
(* in a register; CopyBitsSrcAligned<uint8> does the same for the tail.    *)
(*                                                                         *)
(* WordBits is the template parameter.  The pointers, which the code       *)
(* indexes with i and advances after the loop, advance with the loop here. *)
(***************************************************************************)
EXTENDS CopyState

(* if (SrcBit != 0) ... : where the routine starts.                        *)
EnterUnaligned(srcBit) == IF srcBit # 0 THEN "UnalignedHead" ELSE "SrcAligned"

-----------------------------------------------------------------------------
(* BitsCopyFastUnaligned's head pass.                                      *)

(* Moves the bits of a source byte from SrcBit to DestBit.                 *)
Align(word, srcBit, destBit) ==
  IF destBit >= srcBit THEN ShiftLeft(word, destBit - srcBit)
                       ELSE ShiftRight(word, srcBit - destBit)

(* The bits of the first source byte that fit in the destination byte.     *)
(* Reg holds the others, RemainingBits of them, at the bottom.             *)
UnalignedHead ==
  /\ pc = "UnalignedHead"
  /\ LET copySrcBits == Byte - SrcBit
         copyBits == Least(copySrcBits, BitCount)
         word == Keep(Load(SrcMem, Src, Byte), Mask(SrcBit, copySrcBits - copyBits, Byte))
         destCopyBits == Byte - DestBit
         overlapped == Least(copyBits, destCopyBits)
         mask == Mask(DestBit, destCopyBits - overlapped, Byte)
         shifted == Align(word, SrcBit, DestBit)
         remaining == copyBits - overlapped
     IN /\ mem' = Store(mem, Dest, Merge(Load(mem, Dest, Byte), mask, Keep(shifted, mask)), Byte)
        /\ BitCount' = BitCount - copyBits
        /\ Dest' = Dest + (overlapped + DestBit) \div Byte
        /\ DestBit' = (overlapped + DestBit) % Byte
        /\ Reg' = ShiftRight(word, SrcBit + overlapped)
        /\ RemainingBits' = remaining
        /\ pc' = IF remaining > 0 THEN "UnalignedSpill" ELSE "SrcAligned"
  /\ Touch({Src}, {Dest})
  /\ Src' = Src + 1
  /\ SrcBit' = 0
  /\ UNCHANGED <<call, WordBits, LoopCount, ShiftCount>>

(* The bits of the first source byte that go to a second destination byte. *)
UnalignedSpill ==
  /\ pc = "UnalignedSpill"
  /\ LET mask == Mask(0, Byte - RemainingBits, Byte)
     IN mem' = Store(mem, Dest, Merge(Load(mem, Dest, Byte), mask, Keep(Reg, mask)), Byte)
  /\ DestBit' = RemainingBits
  /\ Touch({}, {Dest})
  /\ pc' = "SrcAligned"
  /\ UNCHANGED <<call, Dest, Src, SrcBit, BitCount, locals>>

-----------------------------------------------------------------------------
(* CopyBitsSrcAligned<WordType>.                                           *)

(* Mutant of MiddleWords: the last word is taken too.                      *)
AllMiddleWords(bitCount, wordBits) == bitCount \div wordBits

(* The iterations of the loop over middle words: the last 64-bit word is   *)
(* not guaranteed to be accessible.                                        *)
MiddleWords(bitCount, wordBits) ==
  IF wordBits > Byte THEN bitCount \div wordBits - 1 ELSE bitCount \div wordBits

(* Mutants of HighMask: one bit too far up, one bit too far down.          *)
HighMaskUp == Mask(DestBit + 1, 0, WordBits)
HighMaskDown == Mask(DestBit - 1, 0, WordBits)

(* const WordType Mask = AllOnes << DestBit.                               *)
HighMask == Mask(DestBit, 0, WordBits)

(* Entry: which loop to run, if any.  Before the shifting loop, the bits   *)
(* below the cursor are loaded into the register.                          *)
SrcAligned ==
  /\ pc = "SrcAligned"
  /\ LoopCount' = MiddleWords(BitCount, WordBits)
  /\ \/ LoopCount' <= 0 /\ pc' = "Tail" /\ Touch({}, {}) /\ UNCHANGED Reg
     \/ LoopCount' > 0 /\ DestBit = 0 /\ pc' = "WordCopy" /\ Touch({}, {}) /\ UNCHANGED Reg
     \/ /\ LoopCount' > 0 /\ DestBit # 0 /\ pc' = "WordShift"
        /\ Reg' = Drop(Load(mem, Dest, WordBits), HighMask)
        /\ Touch({}, Dest .. Dest + WordBits \div Byte - 1)
  /\ UNCHANGED <<call, mem, cursors, WordBits, ShiftCount, RemainingBits>>

(* Both cursors move by one word, and the loop goes on or ends.            *)
NextWord(loop, after) ==
  /\ Dest' = Dest + WordBits \div Byte
  /\ Src' = Src + WordBits \div Byte
  /\ BitCount' = BitCount - WordBits
  /\ LoopCount' = LoopCount - 1
  /\ pc' = IF LoopCount' > 0 THEN loop ELSE after
  /\ Touch(Src .. Src + WordBits \div Byte - 1, Dest .. Dest + WordBits \div Byte - 1)
  /\ UNCHANGED <<call, DestBit, SrcBit, WordBits, ShiftCount, RemainingBits>>

(* DestBit == 0: an iteration of the loop that copies words as they are.   *)
WordCopy ==
  /\ pc = "WordCopy"
  /\ mem' = Store(mem, Dest, Load(SrcMem, Src, WordBits), WordBits)
  /\ NextWord("WordCopy", "Tail")
  /\ UNCHANGED Reg

(* An iteration of the pipelined shift-word loop.                          *)
WordShift ==
  /\ pc = "WordShift"
  /\ LET word == Load(SrcMem, Src, WordBits)
     IN /\ mem' = Store(mem, Dest, Or(Reg, ShiftLeft(word, DestBit)), WordBits)
        /\ Reg' = ShiftRight(word, WordBits - DestBit)
  /\ NextWord("WordShift", "WordMerge")

(* The carried bits go to the low part of the word after the loop.         *)
WordMerge ==
  /\ pc = "WordMerge"
  /\ mem' = Store(mem, Dest, Or(Keep(Load(mem, Dest, WordBits), HighMask), Reg), WordBits)
  /\ Touch({}, Dest .. Dest + WordBits \div Byte - 1)
  /\ pc' = "Tail"
  /\ UNCHANGED <<call, cursors, locals>>

(* Mutant of Tail: the recursion is into the same instance.                *)
TailSameInstance ==
  /\ pc = "Tail"
  /\ Touch({}, {})
  /\ \/ BitCount = 0 /\ pc' = "Done"
     \/ BitCount > 0 /\ WordBits = Byte /\ pc' = "ByteTail"
     \/ BitCount > 0 /\ WordBits > Byte /\ pc' = "SrcAligned"
  /\ UNCHANGED <<call, mem, cursors, locals>>

(* After the loop: nothing left, the tail of the byte instance, or the     *)
(* byte instance on what the 64-bit one left.                              *)
Tail ==
  /\ pc = "Tail"
  /\ Touch({}, {})
  /\ \/ BitCount = 0 /\ pc' = "Done" /\ UNCHANGED <<Dest, DestBit, WordBits>>
     \/ BitCount > 0 /\ WordBits = Byte /\ pc' = "ByteTail" /\ UNCHANGED <<Dest, DestBit, WordBits>>
     \/ /\ BitCount > 0 /\ WordBits > Byte /\ pc' = "SrcAligned"
        /\ Dest' = Dest + DestBit \div Byte
        /\ DestBit' = DestBit % Byte
        /\ WordBits' = Byte
  /\ UNCHANGED <<call, mem, Src, SrcBit, BitCount, LoopCount, ShiftCount, RemainingBits, Reg>>

(* The last source bits: those that fit in the destination byte ...        *)
ByteTail ==
  /\ pc = "ByteTail"
  /\ LET destCopyBits == Byte - DestBit
         word == Keep(Load(SrcMem, Src, Byte), Mask(0, Byte - BitCount, Byte))
         copyBits == Least(BitCount, destCopyBits)
         mask == Mask(DestBit, destCopyBits - copyBits, Byte)
     IN /\ mem' = Store(mem, Dest, Merge(Load(mem, Dest, Byte), mask, ShiftLeft(word, DestBit)), Byte)
        /\ Dest' = Dest + (copyBits + DestBit) \div Byte
        /\ DestBit' = (copyBits + DestBit) % Byte
        /\ BitCount' = BitCount - copyBits
        /\ Reg' = ShiftRight(word, copyBits)
  /\ Touch({Src}, {Dest})
  /\ pc' = IF BitCount' > 0 THEN "ByteTailSpill" ELSE "Done"
  /\ UNCHANGED <<call, Src, SrcBit, WordBits, LoopCount, ShiftCount, RemainingBits>>

(* ... and those that go to the next one.                                  *)
ByteTailSpill ==
  /\ pc = "ByteTailSpill"
  /\ LET mask == Mask(0, Byte - BitCount, Byte)
     IN mem' = Store(mem, Dest, Merge(Load(mem, Dest, Byte), mask, Reg), Byte)
  /\ DestBit' = BitCount
  /\ BitCount' = 0
  /\ Touch({}, {Dest})
  /\ pc' = "Done"
  /\ UNCHANGED <<call, Dest, Src, SrcBit, locals>>

(* The int values each of these steps computes.                            *)
UnalignedInts ==
  LET copyBits == Least(Byte - SrcBit, BitCount)
      overlapped == Least(copyBits, Byte - DestBit)
      words == MiddleWords(BitCount, WordBits)
      tailBits == Least(BitCount, Byte - DestBit)
  IN CASE pc = "UnalignedHead" ->
            {BitCount - copyBits, Byte - SrcBit - copyBits, Byte - DestBit - overlapped,
             DestBit - SrcBit, overlapped + DestBit, SrcBit + overlapped, copyBits - overlapped}
       [] pc = "SrcAligned" ->
            {WordBits - DestBit, words}
              \cup IF words > 0 THEN {words * WordBits, BitCount - words * WordBits} ELSE {}
       [] pc = "ByteTail" -> {Byte - BitCount, Byte - DestBit - tailBits, tailBits + DestBit}
       [] OTHER -> {}

UnalignedNext ==
  \/ UnalignedHead \/ UnalignedSpill
  \/ SrcAligned \/ WordCopy \/ WordShift \/ WordMerge
  \/ Tail \/ ByteTail \/ ByteTailSpill
=============================================================================
