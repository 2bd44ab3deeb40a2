---------------------------- MODULE FastBitCopy ----------------------------
(***************************************************************************)
(* FastBitCopy.cpp on a little-endian target: the entry points, and the    *)
(* program they make of the three copy routines.                           *)
(***************************************************************************)
EXTENDS AlignedCopy, UnalignedCopy, OriginalCopy

CONSTANTS
  SmallBitsAligned,    (* FASTBITCOPY_SMALL_BITS_ALIGNED, 32 by default.   *)
  SmallBitsUnaligned,  (* FASTBITCOPY_SMALL_BITS_UNALIGNED, 256 by default.*)
  IntMax               (* The largest int32: 2^31 - 1.                     *)

ASSUME ThresholdAssumption == SmallBitsAligned \in Nat /\ SmallBitsUnaligned \in Nat

(* The offsets and the count of a call are int32.                          *)
ASSUME IntAssumption ==
  /\ IntMax \in Nat /\ IntMax >= 64
  /\ \A c \in Calls : c.destBit <= IntMax /\ c.srcBit <= IntMax /\ c.bitCount <= IntMax

-----------------------------------------------------------------------------
(* The entry points.                                                       *)

(* Hands the call, as it is, to the routine that starts at `first`.        *)
Start(entry, first) ==
  /\ pc = entry
  /\ pc' = first
  /\ Touch({}, {})
  /\ UNCHANGED <<call, mem, cursors, locals>>

(* bAligned: the two bit streams have the same phase.                      *)
SamePhase == (SrcBit - DestBit) % Byte = 0
SmallBits == IF SamePhase THEN SmallBitsAligned ELSE SmallBitsUnaligned

(* Small payloads go to the stock routine, offsets as they came.           *)
FastBitCopySmall == BitCount <= SmallBits /\ Start("FastBitCopy", "Original")

(* Mutants of FastBitCopyLarge: the phases are compared before the cursors *)
(* are normalised; the destination is not moved to its first byte.         *)
FastBitCopyRawPhases ==
  /\ pc = "FastBitCopy" /\ BitCount > SmallBits
  /\ Dest' = Dest + DestBit \div Byte /\ DestBit' = DestBit % Byte
  /\ Src' = Src + SrcBit \div Byte /\ SrcBit' = SrcBit % Byte
  /\ pc' = IF SrcBit = DestBit THEN EnterAligned(SrcBit') ELSE EnterUnaligned(SrcBit')
  /\ Touch({}, {})
  /\ UNCHANGED <<call, mem, BitCount, locals>>
FastBitCopyDestStays ==
  /\ pc = "FastBitCopy" /\ BitCount > SmallBits
  /\ Dest' = Dest /\ DestBit' = DestBit % Byte
  /\ Src' = Src + SrcBit \div Byte /\ SrcBit' = SrcBit % Byte
  /\ pc' = IF SrcBit' = DestBit' THEN EnterAligned(SrcBit') ELSE EnterUnaligned(SrcBit')
  /\ Touch({}, {})
  /\ UNCHANGED <<call, mem, BitCount, locals>>

(* Mutant of FastBitCopyLarge: the large payloads of different phases are  *)
(* left to the stock routine too.                                          *)
FastBitCopyStockUnaligned ==
  /\ BitCount > SmallBits
  /\ Start("FastBitCopy", "Original")

(* The others have their cursors normalised to a byte and a bit of it.     *)
FastBitCopyLarge ==
  /\ pc = "FastBitCopy" /\ BitCount > SmallBits
  /\ Dest' = Dest + DestBit \div Byte /\ DestBit' = DestBit % Byte
  /\ Src' = Src + SrcBit \div Byte /\ SrcBit' = SrcBit % Byte
  /\ pc' = IF SrcBit' = DestBit' THEN EnterAligned(SrcBit') ELSE EnterUnaligned(SrcBit')
  /\ Touch({}, {})
  /\ UNCHANGED <<call, mem, BitCount, locals>>

(* The int values the next step computes: the phases are compared by a     *)
(* difference of the offsets; the rest is in the routines.                 *)
Ints ==
  (IF pc = "FastBitCopy" THEN {SrcBit - DestBit} ELSE {})
    \cup AlignedInts \cup UnalignedInts \cup OriginalInts

(* OriginalAppBitsCpy, and its wrapper FastBitCopy_Internal_Original.      *)
OriginalAppBitsCpy == Start("OriginalAppBitsCpy", "Original")

(* FastBitCopy_Internal_Aligned and FastBitCopy_Internal_Unaligned.        *)
InternalAligned == Start("Internal_Aligned", EnterAligned(SrcBit))
InternalUnaligned == Start("Internal_Unaligned", EnterUnaligned(SrcBit))

EntryNext ==
  \/ FastBitCopySmall \/ FastBitCopyLarge
  \/ OriginalAppBitsCpy \/ InternalAligned \/ InternalUnaligned

-----------------------------------------------------------------------------
Init == CallInit
Next == EntryNext \/ AlignedNext \/ UnalignedNext \/ OriginalNext

(* One thread runs the call, without waiting for anything.                 *)
Spec == Init /\ [][Next]_vars /\ WF_vars(Next)

-----------------------------------------------------------------------------
(* Properties.                                                             *)

PcType ==
  Entries \cup
  {"AlignedHead", "AlignedMiddle", "AlignedTail",
   "UnalignedHead", "UnalignedSpill", "SrcAligned", "WordCopy", "WordShift",
   "WordMerge", "Tail", "ByteTail", "ByteTailSpill",
   "Original", "OriginalSmallLast", "OriginalLoop", "Done"}

(* Every variable has its type; for the buffer and the register this says  *)
(* that no step ever ORs two bits of data into one: the read-modify-writes *)
(* clear what they are about to set, the accumulators never overlap.       *)
TypeOK ==
  /\ pc \in PcType
  /\ call \in Calls
  /\ mem \in [0 .. DestBits - 1 -> Bit]
  /\ Dest \in Nat /\ DestBit \in Nat /\ Src \in Nat /\ SrcBit \in Nat
  /\ BitCount \in Nat
  /\ WordBits \in {8, 64}
  /\ LoopCount \in Int /\ ShiftCount \in Nat /\ RemainingBits \in Nat
  /\ Reg \in [Positions -> Bit]
  /\ access \in [src : SUBSET Nat, dest : SUBSET Nat]

(* "Copies `BitCount` bits from `Src` ... to `Dest`" (FastBitCopy.h): a    *)
(* call that returns leaves the requested bits in the destination, and     *)
(* every bit around them as it was, whatever the path, the offsets and the *)
(* thresholds.                                                             *)
CopiedExactly == pc = "Done" => mem = Final

(* The same of the moments before: a store never changes a bit the call    *)
(* does not own, and a bit it owns goes to its final value and stays: the  *)
(* loops that write a bit twice write it right both times.                 *)
OnlyOwedBits ==
  [][\A j \in 0 .. DestBits - 1 :
       mem'[j] # mem[j] => j \in Target /\ mem'[j] = Final[j]]_vars

(* Loads and stores stay in the bytes that hold requested bits: the 64-bit *)
(* accesses of the middle loop and the two-byte window of the original do  *)
(* not reach past the last of them ("the last word is not guaranteed to be *)
(* accessible"), where the next page may not be mapped.  (Comments of the  *)
(* tests say that they do, see README.md.)                                 *)
AccessInBounds ==
  /\ access.src \subseteq BytesOf(call.srcBit, call.bitCount)
  /\ access.dest \subseteq BytesOf(call.destBit, call.bitCount)

(* The ranges the comments of FastBitCopy.cpp claim and its shifts rely on *)
(* (a shift by the width of the word or by a negative count is undefined): *)
(* the counts of every masked store and of the shift-word loop.            *)
StatedRanges ==
  /\ pc = "AlignedHead" => SrcBit \in 1 .. 7
  /\ pc = "AlignedTail" => BitCount \in 1 .. 7
  /\ pc = "UnalignedHead" => SrcBit \in 1 .. 7 /\ DestBit \in 0 .. 7 /\ BitCount > 0
  /\ pc = "UnalignedSpill" => RemainingBits \in 1 .. 7 /\ DestBit = 0
  /\ pc = "WordShift" => DestBit \in 1 .. 7 /\ LoopCount > 0
  /\ pc = "WordMerge" => DestBit \in 1 .. 7 /\ LoopCount = 0
  /\ pc = "ByteTail" => DestBit \in 0 .. 7 /\ BitCount \in 1 .. 8
  /\ pc = "ByteTailSpill" => BitCount \in 1 .. 7
  /\ pc = "OriginalLoop" => ShiftCount \in 8 .. 15

(* No int overflows: whatever the offsets for a payload above the          *)
(* thresholds, even when its range ends beyond the last bit an int can     *)
(* name, because the cursors are normalised before anything is added to    *)
(* them; for a payload the stock routine gets, when both ranges end by     *)
(* that bit, whose number it computes.                                     *)
StockCall ==
  \/ call.entry = "OriginalAppBitsCpy"
  \/ call.entry = "FastBitCopy" /\ call.bitCount <= Greatest(SmallBitsAligned, SmallBitsUnaligned)
EndsFit == call.destBit + call.bitCount <= IntMax /\ call.srcBit + call.bitCount <= IntMax
IntsFit ==
  (StockCall => EndsFit) => Ints \subseteq -IntMax - 1 .. IntMax

(* The abstract copy, done when the call has returned.                     *)
Promise ==
  INSTANCE BitCopySpec WITH
    Source <- SrcMem, Old <- DestMem, Requests <- Calls,
    request <- call, buf <- mem, done <- pc = "Done"

(* The program is a bit copy: every path, however it groups its stores,    *)
(* only brings owed bits in, returns, and returns with all of them.        *)
IsBitCopy == Promise!Spec

(* FastBitCopy never gets to CopyBitsSrcAligned with both cursors on a     *)
(* byte boundary, so its DestBit == 0 loop only ever runs for the wrapper  *)
(* FastBitCopy_Internal_Unaligned, given equal offsets.                    *)
WordCopyOnlyInternal == pc = "WordCopy" => call.entry = "Internal_Unaligned"
-----------------------------------------------------------------------------
(* What comments say and the code does not do.                             *)

(* "We pick 256 as the threshold so that 257-bit payloads take the         *)
(* Original path" (FastBitCopy.cpp, above the thresholds): a copy of 257   *)
(* bits between different phases never enters the fast path.               *)
Original257 ==
  call.entry = "FastBitCopy" /\ call.bitCount = 257
      /\ (call.srcBit - call.destBit) % Byte # 0
    => pc \notin {"UnalignedHead", "SrcAligned"}

(* "(OverlappedBits + DestBit) % 8 == 0 => post-prelude DestBit == 0"      *)
(* (CI/test_main.cpp, of the edge cases with offsets 5 and 3 that are to   *)
(* reach the DestBit == 0 loop): the head pass leaves the destination on a *)
(* byte boundary.                                                          *)
PreludeZeroDest ==
  pc = "SrcAligned" /\ WordBits = 64 /\ call.destBit = 5 /\ call.srcBit = 3 => DestBit = 0
=============================================================================
