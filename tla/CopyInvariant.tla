--------------------------- MODULE CopyInvariant ---------------------------
(***************************************************************************)
(* Why FastBitCopy works: the inductive invariant behind its properties.   *)
(*                                                                         *)
(* At every step the destination is finished below a frontier and          *)
(* untouched from there on.  For the fast paths the frontier is the        *)
(* destination cursor, and the source cursor is in step with it; inside    *)
(* the shift-word loop the bits between the last word boundary and the     *)
(* cursor are in the register instead.  For the original routine the       *)
(* frontier is the next whole byte, and its accumulator holds the bits     *)
(* read beyond it.                                                         *)
(***************************************************************************)
EXTENDS FastBitCopy

(* Calls that ask for at least one bit.                                    *)
NonEmpty == \A c \in Calls : c.bitCount > 0

DestPos == Byte * Dest + DestBit
SrcPos == Byte * Src + SrcBit
(* The range to be written, [DestStart, End), and where it comes from.     *)
DestStart == call.destBit
SrcStart == call.srcBit
End == call.destBit + call.bitCount
SrcEnd == call.srcBit + call.bitCount

(* The source bit the destination bit j is to get.                         *)
Want(j) == SrcMem[SrcStart + (j - DestStart)]

(* Finished below bit p, untouched from p on.                              *)
Frontier(p) ==
  \A j \in 0 .. DestBits - 1 : mem[j] = IF j < p THEN Final[j] ELSE DestMem[j]

(* Nothing has happened yet.                                               *)
Untouched ==
  /\ mem = DestMem
  /\ Dest = 0 /\ DestBit = DestStart
  /\ Src = 0 /\ SrcBit = SrcStart
  /\ BitCount = call.bitCount
  /\ WordBits = 64

(* The next source bits go to the destination from p on: what is left is   *)
(* what BitCount says, and the source cursor stands at the first of them.  *)
InStep(p) ==
  /\ p >= DestStart
  /\ p + BitCount = End
  /\ BitCount > 0 => p - DestStart = SrcPos - SrcStart

AtCursor == InStep(DestPos) /\ Frontier(DestPos)

(* What the loop over the middle words leaves for the tail.                *)
Room == IF WordBits = Byte THEN BitCount - LoopCount * Byte \in 0 .. 7
                           ELSE BitCount - LoopCount * 64 \in 64 .. 127

(* The shift-word loop: the bits from the word boundary to the cursor are  *)
(* in the register, and in memory they are old or, by chance, right.       *)
Carried ==
  /\ InStep(DestPos)
  /\ SrcBit = 0 /\ DestBit \in 1 .. 7
  /\ Room
  /\ \A k \in Positions : Reg[k] = IF k < DestBit THEN Final[Byte * Dest + k] ELSE Zero
  /\ \A j \in 0 .. DestBits - 1 :
       /\ j < Byte * Dest => mem[j] = Final[j]
       /\ j \in Byte * Dest .. DestPos - 1 => mem[j] \in {DestMem[j], Final[j]}
       /\ j >= DestPos => mem[j] = DestMem[j]

(* The low n bits of the register are the next n bits to be written.       *)
Holds(n) == \A k \in 0 .. n - 1 : Reg[k] = Want(DestPos + k)

(* The original routine's accumulator: bits 0 to ShiftCount-1 are those of *)
(* the byte before Dest and of what follows it; a source byte fed at       *)
(* ShiftCount comes next.                                                  *)
Accumulated ==
  /\ Dest >= 1 /\ Byte * Dest > DestStart
  /\ Byte * (Dest - 1) + ShiftCount - DestStart = Byte * Src - SrcStart
  /\ \A k \in Positions :
       /\ k >= ShiftCount => Reg[k] = Zero
       /\ k < ShiftCount /\ Byte * (Dest - 1) + k >= DestStart
            => Reg[k] = Want(Byte * (Dest - 1) + k)

-----------------------------------------------------------------------------
(* The invariant, one part for each group of steps.                        *)

EntryInv ==
  /\ pc \in Entries => pc = call.entry
  /\ pc \in Entries \cup {"Original"} => Untouched

AlignedInv ==
  /\ pc = "AlignedHead" =>
       AtCursor /\ SrcBit \in 1 .. 7 /\ DestBit = SrcBit /\ BitCount > 0
  /\ pc = "AlignedMiddle" => AtCursor /\ (BitCount > 0 => SrcBit = 0 /\ DestBit = 0)
  /\ pc = "AlignedTail" => AtCursor /\ SrcBit = 0 /\ DestBit = 0 /\ BitCount \in 1 .. 7

UnalignedInv ==
  /\ pc = "UnalignedHead" =>
       /\ AtCursor /\ SrcBit \in 1 .. 7 /\ DestBit \in 0 .. 7 /\ BitCount > 0
       /\ WordBits = 64
  /\ pc = "UnalignedSpill" =>
       /\ DestPos >= DestStart /\ InStep(DestPos + RemainingBits) /\ Frontier(DestPos) /\ Holds(RemainingBits)
       /\ SrcBit = 0 /\ DestBit = 0 /\ RemainingBits \in 1 .. 7
       /\ WordBits = 64
  /\ pc = "SrcAligned" => AtCursor /\ SrcBit = 0 /\ DestBit \in 0 .. 7
  /\ pc = "WordCopy" => AtCursor /\ SrcBit = 0 /\ DestBit = 0 /\ LoopCount > 0 /\ Room
  /\ pc = "WordShift" => Carried /\ LoopCount > 0
  /\ pc = "WordMerge" => Carried /\ LoopCount = 0 /\ DestPos > DestStart
  /\ pc = "Tail" =>
       AtCursor /\ SrcBit = 0 /\ DestBit \in 0 .. 7 /\ (WordBits = Byte => BitCount < Byte)
  /\ pc = "ByteTail" => AtCursor /\ SrcBit = 0 /\ DestBit \in 0 .. 7 /\ BitCount \in 1 .. 7
  /\ pc = "ByteTailSpill" =>
       /\ DestPos >= DestStart /\ DestPos + BitCount = End /\ Frontier(DestPos)
       /\ Holds(BitCount) /\ \A k \in Positions : k >= BitCount => Reg[k] = Zero
       /\ DestBit = 0 /\ BitCount \in 1 .. 7

OriginalInv ==
  /\ pc = "OriginalSmallLast" =>
       LET last == DestBit \div Byte + 1
       IN /\ DestBit = DestStart /\ BitCount = call.bitCount /\ BitCount \in 1 .. 8
          /\ LastDest = last /\ Frontier(Byte * last)
          /\ \A k \in 0 .. 7 : Byte * last + k < End => Reg[k] = Want(Byte * last + k)
  /\ pc = "OriginalLoop" =>
       /\ DestBit = DestStart /\ SrcBit = SrcStart /\ BitCount = call.bitCount
       /\ BitCount > 8 /\ ShiftCount \in 8 .. 15 /\ LoopCount >= 1
       /\ Dest + LoopCount - 1 = End \div Byte
       /\ Frontier(Byte * Dest)
       /\ Accumulated

DoneInv == pc = "Done" => Frontier(End)

Inv ==
  /\ TypeOK
  /\ EntryInv /\ AlignedInv /\ UnalignedInv /\ OriginalInv /\ DoneInv
=============================================================================
