------------------------- MODULE FastBitCopyProofs --------------------------
(***************************************************************************)
(* The theorems about FastBitCopy: for all buffers, offsets, thresholds and *)
(* bit values, and for all counts but zero, the program keeps its invariant, *)
(* and the invariant gives the properties.                                 *)
(***************************************************************************)
EXTENDS RoutineProofs

(* The entry points.                                                       *)

(* A step that hands the call on, with nothing done to it.                 *)
LEMMA StartOK ==
  ASSUME NonEmpty, Inv, NEW entry, NEW first, Start(entry, first), Untouched
  PROVE  /\ TypeOK /\ Numbers /\ Untouched' /\ UNCHANGED call
         /\ pc' = first
         /\ (first \in PcType => TypeOK') /\ Keeps /\ AccessInBounds'
         /\ AtCursor' /\ WordBits' = 64
         /\ DestBit' = DestStart /\ SrcBit' = SrcStart /\ BitCount' > 0
         /\ DestBit' = DestBit /\ SrcBit' = SrcBit
<1>1. TypeOK /\ Numbers
  BY NumbersOK DEF Inv
<1>2. /\ pc' = first /\ access' = [src |-> {}, dest |-> {}] /\ UNCHANGED <<call, mem>>
      /\ UNCHANGED <<Dest, DestBit, Src, SrcBit, BitCount>>
      /\ UNCHANGED <<WordBits, LoopCount, ShiftCount, RemainingBits, Reg>>
  BY DEF Start, Touch, cursors, locals
<1>3. /\ Dest = 0 /\ DestBit = DestStart /\ Src = 0 /\ SrcBit = SrcStart
      /\ DestStart + BitCount = End /\ WordBits = 64 /\ BitCount > 0
  <2>1. /\ Dest = 0 /\ DestBit = DestStart /\ Src = 0 /\ SrcBit = SrcStart
        /\ BitCount = call.bitCount /\ WordBits = 64
    BY DEF Untouched
  <2>2. call.bitCount > 0
    BY <1>1, CallFacts
  <2> QED BY <2>1, <2>2 DEF End, DestStart
<1>4. Untouched'
  BY <1>2, SameCall DEF Untouched
<1>5. StepsTo(DestStart)
  BY <1>1, <1>2, <1>3 DEF StepsTo, Numbers
<1>6. MemType' /\ Keeps /\ Reaches(DestStart)
  <2>1. Frontier(DestStart)
    BY <1>1, UntouchedFrontier
  <2> QED BY <1>1, <1>2, <2>1, NoStore
<1>7. Touches({}, {})
  BY <1>2 DEF Touches
<1>8. AccessInBounds' /\ access' \in [src : SUBSET Nat, dest : SUBSET Nat]
  BY <1>1, <1>2, <1>7, NextAccess
<1>9. AtCursor'
  BY <1>1, <1>2, <1>5, <1>6, NextAtCursor
<1>10. first \in PcType => TypeOK'
  BY <1>1, <1>2, <1>6, <1>8 DEF TypeOK, MemType
<1> QED BY <1>1, <1>2, <1>3, <1>4, <1>6, <1>8, <1>9, <1>10

(* The steps that hand the call to the original routine.                   *)
LEMMA StartOriginalOK ==
  ASSUME NonEmpty, Inv, NEW entry, entry \in Entries, Start(entry, "Original")
  PROVE  StepOK
<1>1. Untouched
  BY DEF Start, Inv, EntryInv
<1>2. /\ Untouched' /\ pc' = "Original" /\ Keeps /\ AccessInBounds'
      /\ ("Original" \in PcType => TypeOK')
  BY <1>1, StartOK
<1>3. TypeOK'
  BY <1>2 DEF PcType
<1>4. Inv'
  BY <1>2, <1>3
     DEF Inv, EntryInv, AlignedInv, UnalignedInv, OriginalInv, DoneInv, Entries
<1> QED BY <1>2, <1>4 DEF StepOK

(* The benchmark wrapper of the aligned path starts it with its invariant. *)
LEMMA InternalAlignedOK ==
  ASSUME NonEmpty, Inv, InternalAligned
  PROVE  StepOK
<1>1. /\ Start("Internal_Aligned", EnterAligned(SrcBit)) /\ Untouched
      /\ call.entry = "Internal_Aligned" /\ TypeOK
  BY DEF InternalAligned, Start, Inv, EntryInv, Entries
<1>2. call.srcBit \in Nat /\ call.srcBit < 8 /\ call.destBit = call.srcBit
  BY <1>1, CallFacts
<1>3. SrcStart \in 0 .. 7 /\ DestStart = SrcStart
  BY <1>2 DEF SrcStart, DestStart
<1>4. /\ pc' = EnterAligned(SrcBit) /\ Keeps /\ AccessInBounds' /\ AtCursor'
      /\ DestBit' = DestStart /\ SrcBit' = SrcStart /\ BitCount' > 0 /\ SrcBit' = SrcBit
      /\ (EnterAligned(SrcBit) \in PcType => TypeOK')
  BY <1>1, StartOK
<1>5. TypeOK'
  BY <1>4 DEF PcType, EnterAligned
<1>6. CASE SrcBit # 0
  <2>1. pc' = "AlignedHead" /\ SrcBit' \in 1 .. 7 /\ DestBit' = SrcBit'
    BY <1>3, <1>4, <1>6 DEF EnterAligned
  <2>2. Inv'
    BY <1>4, <1>5, <2>1
       DEF Inv, EntryInv, AlignedInv, UnalignedInv, OriginalInv, DoneInv, Entries
  <2> QED BY <1>4, <2>2 DEF StepOK
<1>7. CASE SrcBit = 0
  <2>1. pc' = "AlignedMiddle" /\ SrcBit' = 0 /\ DestBit' = 0
    BY <1>3, <1>4, <1>7 DEF EnterAligned
  <2>2. Inv'
    BY <1>4, <1>5, <2>1
       DEF Inv, EntryInv, AlignedInv, UnalignedInv, OriginalInv, DoneInv, Entries
  <2> QED BY <1>4, <2>2 DEF StepOK
<1> QED BY <1>6, <1>7

(* The benchmark wrapper of the unaligned path starts it with its          *)
(* invariant.                                                              *)
LEMMA InternalUnalignedOK ==
  ASSUME NonEmpty, Inv, InternalUnaligned
  PROVE  StepOK
<1>1. /\ Start("Internal_Unaligned", EnterUnaligned(SrcBit)) /\ Untouched
      /\ call.entry = "Internal_Unaligned" /\ TypeOK
  BY DEF InternalUnaligned, Start, Inv, EntryInv, Entries
<1>2. call.srcBit \in Nat /\ call.srcBit < 8 /\ call.destBit \in Nat /\ call.destBit < 8
  BY <1>1, CallFacts
<1>3. SrcStart \in 0 .. 7 /\ DestStart \in 0 .. 7
  BY <1>2 DEF SrcStart, DestStart
<1>4. /\ pc' = EnterUnaligned(SrcBit) /\ Keeps /\ AccessInBounds' /\ AtCursor' /\ WordBits' = 64
      /\ DestBit' = DestStart /\ SrcBit' = SrcStart /\ BitCount' > 0 /\ SrcBit' = SrcBit
      /\ (EnterUnaligned(SrcBit) \in PcType => TypeOK')
  BY <1>1, StartOK
<1>5. TypeOK'
  BY <1>4 DEF PcType, EnterUnaligned
<1>6. CASE SrcBit # 0
  <2>1. pc' = "UnalignedHead" /\ SrcBit' \in 1 .. 7 /\ DestBit' \in 0 .. 7
    BY <1>3, <1>4, <1>6 DEF EnterUnaligned
  <2>2. Inv'
    BY <1>4, <1>5, <2>1
       DEF Inv, EntryInv, AlignedInv, UnalignedInv, OriginalInv, DoneInv, Entries
  <2> QED BY <1>4, <2>2 DEF StepOK
<1>7. CASE SrcBit = 0
  <2>1. pc' = "SrcAligned" /\ SrcBit' = 0 /\ DestBit' \in 0 .. 7
    BY <1>3, <1>4, <1>7 DEF EnterUnaligned
  <2>2. Inv'
    BY <1>4, <1>5, <2>1
       DEF Inv, EntryInv, AlignedInv, UnalignedInv, OriginalInv, DoneInv, Entries
  <2> QED BY <1>4, <2>2 DEF StepOK
<1> QED BY <1>6, <1>7

(* Offsets of any size: the cursors are normalised first.                  *)
LEMMA FastBitCopyLargeOK ==
  ASSUME NonEmpty, Inv, FastBitCopyLarge
  PROVE  StepOK
<1>1. TypeOK /\ Numbers /\ Untouched
  BY NumbersOK DEF FastBitCopyLarge, Inv, EntryInv, Entries
<1>2. /\ Dest' = Dest + DestBit \div 8 /\ DestBit' = DestBit % 8
      /\ Src' = Src + SrcBit \div 8 /\ SrcBit' = SrcBit % 8
      /\ pc' = IF SrcBit' = DestBit' THEN EnterAligned(SrcBit') ELSE EnterUnaligned(SrcBit')
      /\ access' = [src |-> {}, dest |-> {}] /\ mem' = mem /\ UNCHANGED call
      /\ BitCount' = BitCount /\ WordBits' = WordBits
      /\ UNCHANGED <<LoopCount, ShiftCount, RemainingBits, Reg>>
  BY DEF FastBitCopyLarge, Touch, locals, Byte
<1>3. /\ Dest = 0 /\ DestBit = DestStart /\ Src = 0 /\ SrcBit = SrcStart
      /\ DestStart + BitCount = End /\ WordBits = 64 /\ BitCount > 0
  <2>1. /\ Dest = 0 /\ DestBit = DestStart /\ Src = 0 /\ SrcBit = SrcStart
        /\ BitCount = call.bitCount /\ WordBits = 64
    BY <1>1 DEF Untouched
  <2>2. call.bitCount > 0
    BY <1>1, CallFacts
  <2> QED BY <2>1, <2>2 DEF End, DestStart
<1>4. /\ Dest' \in Nat /\ DestBit' \in 0 .. 7 /\ 8 * Dest' + DestBit' = DestStart
      /\ Src' \in Nat /\ SrcBit' \in 0 .. 7 /\ 8 * Src' + SrcBit' = SrcStart
  <2>1. DestStart \in Nat /\ SrcStart \in Nat
    BY <1>1 DEF Numbers
  <2>2. /\ Dest' = DestStart \div 8 /\ DestBit' = DestStart % 8
        /\ Src' = SrcStart \div 8 /\ SrcBit' = SrcStart % 8
    BY <1>2, <1>3, <2>1
  <2> QED BY <2>1, <2>2
<1>5. StepsTo(DestStart)
  <2>1. DestStart - DestStart = 8 * Src' + SrcBit' - SrcStart
    <3>1. DestStart - DestStart = 0 /\ SrcStart - SrcStart = 0
      BY <1>1 DEF Numbers
    <3> QED BY <1>4, <3>1
  <2>2. DestStart \in Nat /\ DestStart >= DestStart /\ SrcBit' \in Nat
    BY <1>1, <1>4 DEF Numbers
  <2>3. BitCount' \in Nat /\ DestStart + BitCount' = End
    BY <1>1, <1>2, <1>3 DEF Numbers
  <2> QED BY <1>4, <2>1, <2>2, <2>3 DEF StepsTo
<1>6. MemType' /\ Keeps /\ Reaches(DestStart)
  <2>1. Frontier(DestStart)
    BY <1>1, UntouchedFrontier
  <2> QED BY <1>1, <1>2, <2>1, NoStore
<1>7. Touches({}, {})
  BY <1>2 DEF Touches
<1>8. AccessInBounds' /\ access' \in [src : SUBSET Nat, dest : SUBSET Nat]
  BY <1>1, <1>2, <1>7, NextAccess
<1>9. AtCursor'
  BY <1>1, <1>2, <1>5, <1>6, NextAtCursor
<1>10. pc' \in {"AlignedHead", "AlignedMiddle", "UnalignedHead", "SrcAligned"}
  BY <1>2 DEF EnterAligned, EnterUnaligned
<1>11. TypeOK'
  BY <1>1, <1>2, <1>4, <1>6, <1>8, <1>10 DEF TypeOK, MemType, PcType
<1>12. BitCount' > 0 /\ WordBits' = 64
  BY <1>2, <1>3
<1>13. /\ pc' = "AlignedHead" => SrcBit' \in 1 .. 7 /\ DestBit' = SrcBit'
       /\ pc' = "AlignedMiddle" => SrcBit' = 0 /\ DestBit' = 0
       /\ pc' = "UnalignedHead" => SrcBit' \in 1 .. 7
       /\ pc' = "SrcAligned" => SrcBit' = 0
  BY <1>2, <1>4 DEF EnterAligned, EnterUnaligned
<1>14. Inv'
  BY <1>4, <1>9, <1>10, <1>11, <1>12, <1>13
     DEF Inv, EntryInv, AlignedInv, UnalignedInv, OriginalInv, DoneInv, Entries
<1> QED BY <1>6, <1>8, <1>14 DEF StepOK

-----------------------------------------------------------------------------
(* The program.                                                            *)

(* Whatever step is taken.                                                 *)
LEMMA NextOK ==
  ASSUME NonEmpty, Inv, Next
  PROVE  StepOK
<1>1. CASE EntryNext
  <2>1. CASE FastBitCopySmall
    BY <2>1, StartOriginalOK DEF FastBitCopySmall, Entries
  <2>2. CASE OriginalAppBitsCpy
    BY <2>2, StartOriginalOK DEF OriginalAppBitsCpy, Entries
  <2> QED BY <1>1, <2>1, <2>2, FastBitCopyLargeOK, InternalAlignedOK, InternalUnalignedOK
          DEF EntryNext
<1>2. CASE AlignedNext
  BY <1>2, AlignedHeadOK, AlignedMiddleOK, AlignedTailOK DEF AlignedNext
<1>3. CASE UnalignedNext
  BY <1>3, UnalignedHeadOK, UnalignedSpillOK, SrcAlignedOK, WordCopyOK, WordShiftOK,
     WordMergeOK, TailOK, ByteTailOK, ByteTailSpillOK DEF UnalignedNext
<1>4. CASE OriginalNext
  BY <1>4, OriginalSmallOK, OriginalSmallLastOK, OriginalHeadOK, OriginalLoopOK, OriginalTailOK
     DEF OriginalNext
<1> QED BY <1>1, <1>2, <1>3, <1>4 DEF Next

(* A call begins in the invariant, having touched nothing.                 *)
LEMMA InitOK ==
  ASSUME NonEmpty, Init
  PROVE  Inv /\ AccessInBounds
<1>1. /\ call \in Calls /\ pc = call.entry /\ mem = DestMem
      /\ Dest = 0 /\ DestBit = call.destBit /\ Src = 0 /\ SrcBit = call.srcBit
      /\ BitCount = call.bitCount
      /\ WordBits = 64 /\ LoopCount = 0 /\ ShiftCount = 0 /\ RemainingBits = 0
      /\ Reg = [k \in Positions |-> Zero] /\ access = [src |-> {}, dest |-> {}]
  BY DEF Init, CallInit
<1>2. /\ call.entry \in Entries /\ call.destBit \in Nat /\ call.srcBit \in Nat
      /\ call.bitCount \in Nat /\ DestMem \in [0 .. DestBits - 1 -> Bit]
  BY <1>1, CallsAssumption DEF CallsAssumption, CallType
<1>3. TypeOK
  <2>1. Reg \in [Positions -> Bit]
    BY <1>1, BitAssumption DEF BitAssumption
  <2>2. pc \in PcType
    BY <1>1, <1>2 DEF PcType
  <2>3. access \in [src : SUBSET Nat, dest : SUBSET Nat]
    BY <1>1
  <2> QED BY <1>1, <1>2, <2>1, <2>2, <2>3 DEF TypeOK
<1>4. Untouched /\ pc = call.entry /\ pc \in Entries
  BY <1>1, <1>2 DEF Untouched, DestStart, SrcStart
<1>5. Inv
  BY <1>3, <1>4 DEF Inv, EntryInv, AlignedInv, UnalignedInv, OriginalInv, DoneInv, Entries
<1>6. AccessInBounds
  BY <1>1 DEF AccessInBounds
<1> QED BY <1>5, <1>6

(* Nothing that is shown of a step is undone by none being taken.          *)
LEMMA StutterOK ==
  ASSUME Inv, UNCHANGED vars
  PROVE  Inv' /\ Keeps /\ (AccessInBounds => AccessInBounds')
<1>1. /\ UNCHANGED <<pc, call, mem, access>>
      /\ UNCHANGED <<Dest, DestBit, Src, SrcBit, BitCount>>
      /\ UNCHANGED <<WordBits, LoopCount, ShiftCount, RemainingBits, Reg>>
  BY DEF vars, cursors, locals
<1>2. Inv'
  <2>1. TypeOK'
    BY <1>1 DEF Inv, TypeOK
  <2>2. /\ Untouched' = Untouched /\ AtCursor' = AtCursor /\ Carried' = Carried /\ Room' = Room
        /\ Accumulated' = Accumulated /\ Final' = Final /\ LastDest' = LastDest
    BY <1>1 DEF Untouched, AtCursor, InStep, Frontier, Carried, Room, Accumulated, Final, Target,
       LastDest, ByteOf, DestPos, SrcPos, DestStart, SrcStart, End, Want
  <2>3. EntryInv' /\ AlignedInv'
    BY <1>1, <2>2 DEF Inv, EntryInv, AlignedInv
  <2>4. UnalignedInv'
    BY <1>1, <2>2 DEF Inv, UnalignedInv, InStep, Frontier, Holds, Want, DestPos, SrcPos, DestStart, SrcStart, End
  <2>5. OriginalInv' /\ DoneInv'
    BY <1>1, <2>2 DEF Inv, OriginalInv, DoneInv, Frontier, Want, DestStart, SrcStart, End
  <2> QED BY <2>1, <2>3, <2>4, <2>5 DEF Inv
<1>3. Keeps
  BY <1>1 DEF Keeps
<1>4. AccessInBounds => AccessInBounds'
  BY <1>1 DEF AccessInBounds
<1> QED BY <1>2, <1>3, <1>4

(* Every behaviour of the program keeps the invariant, whatever the        *)
(* buffers, the offsets, the counts and the thresholds.                    *)
THEOREM Invariance ==
  ASSUME NonEmpty
  PROVE  Spec => []Inv
<1>1. Init => Inv
  BY InitOK
<1>2. Inv /\ [Next]_vars => Inv'
  BY NextOK, StutterOK DEF StepOK
<1> QED BY <1>1, <1>2, PTL DEF Spec

-----------------------------------------------------------------------------
(* What the invariant gives.                                               *)

(* Every variable keeps its type; in particular no step mixes two bits.    *)
THEOREM TypeCorrect ==
  ASSUME NonEmpty
  PROVE  Spec => []TypeOK
<1>1. Inv => TypeOK
  BY DEF Inv
<1> QED BY <1>1, Invariance, PTL

(* A destination that is finished up to the end is the one promised.       *)
LEMMA FinishedIsFinal ==
  ASSUME TypeOK, NonEmpty, Frontier(End)
  PROVE  mem = Final
<1>1. DestBits \in Nat /\ End \in Nat
  BY NumbersOK DEF Numbers
<1>2. ASSUME NEW j \in 0 .. DestBits - 1 PROVE mem[j] = Final[j]
  <2>1. mem[j] = IF j < End THEN Final[j] ELSE DestMem[j]
    BY DEF Frontier
  <2>2. ~(j < End) => Final[j] = DestMem[j]
    BY <1>1, FinalBit
  <2> QED BY <2>1, <2>2
<1>3. mem = [j \in 0 .. DestBits - 1 |-> mem[j]] /\ Final = [j \in 0 .. DestBits - 1 |-> Final[j]]
  BY DEF TypeOK, Final
<1> QED BY <1>2, <1>3

(* A call that returns leaves the requested bits in the destination, and   *)
(* every other bit as it was.                                              *)
THEOREM Correctness ==
  ASSUME NonEmpty
  PROVE  Spec => []CopiedExactly
<1>1. Inv => CopiedExactly
  BY FinishedIsFinal DEF Inv, DoneInv, CopiedExactly
<1> QED BY <1>1, Invariance, PTL

(* At every moment a bit of the destination is old or final.               *)
LEMMA OldOrFinal ==
  ASSUME NonEmpty, Inv, NEW j \in 0 .. DestBits - 1
  PROVE  mem[j] \in {DestMem[j], Final[j]}
<1>1. \A p : Frontier(p) => mem[j] \in {DestMem[j], Final[j]}
  BY DEF Frontier
<1>2. Untouched => mem[j] \in {DestMem[j], Final[j]}
  BY DEF Untouched
<1>3. AtCursor => mem[j] \in {DestMem[j], Final[j]}
  BY <1>1 DEF AtCursor
<1>4. ASSUME Carried PROVE mem[j] \in {DestMem[j], Final[j]}
  <2> DEFINE p == 8 * Dest + DestBit
  <2>1. /\ j < 8 * Dest => mem[j] = Final[j]
        /\ j \in 8 * Dest .. p - 1 => mem[j] \in {DestMem[j], Final[j]}
        /\ j >= p => mem[j] = DestMem[j]
    BY <1>4, CarriedFacts DEF Inv
  <2>2. j < 8 * Dest \/ j \in 8 * Dest .. p - 1 \/ j >= p
    BY NumbersOK DEF Inv, Numbers
  <2> QED BY <2>1, <2>2
<1>5. CASE pc \in Entries \cup {"Original"}
  BY <1>2, <1>5 DEF Inv, EntryInv
<1>6. CASE pc \in {"AlignedHead", "AlignedMiddle", "AlignedTail"}
  BY <1>3, <1>6 DEF Inv, AlignedInv
<1>7. CASE pc \in {"UnalignedHead", "SrcAligned", "WordCopy", "Tail", "ByteTail"}
  BY <1>3, <1>7 DEF Inv, UnalignedInv
<1>8. CASE pc \in {"WordShift", "WordMerge"}
  BY <1>4, <1>8 DEF Inv, UnalignedInv
<1>9. CASE pc \in {"UnalignedSpill", "ByteTailSpill"}
  BY <1>1, <1>9 DEF Inv, UnalignedInv
<1>10. CASE pc \in {"OriginalSmallLast", "OriginalLoop", "Done"}
  BY <1>1, <1>10 DEF Inv, OriginalInv, DoneInv
<1> QED BY <1>5, <1>6, <1>7, <1>8, <1>9, <1>10 DEF Inv, TypeOK, PcType

(* A step changes a bit only if the call owns it, and only to its value.   *)
LEMMA OwedBit ==
  ASSUME NonEmpty, Inv, Keeps, NEW j \in 0 .. DestBits - 1, mem'[j] # mem[j]
  PROVE  j \in Target /\ mem'[j] = Final[j]
<1>1. mem'[j] = Final[j] /\ mem[j] \in {DestMem[j], Final[j]}
  BY OldOrFinal DEF Keeps
<1>2. Final[j] # DestMem[j]
  BY <1>1
<1>3. j \in Target
  BY <1>2 DEF Final
<1> QED BY <1>1, <1>3

(* No store ever changes a bit outside the range, or takes one back.       *)
THEOREM OnlyOwed ==
  ASSUME NonEmpty
  PROVE  Spec => OnlyOwedBits
<1>1. Inv /\ [Next]_vars
        => [\A j \in 0 .. DestBits - 1 :
              mem'[j] # mem[j] => j \in Target /\ mem'[j] = Final[j]]_vars
  BY NextOK, StutterOK, OwedBit DEF StepOK
<1> QED BY <1>1, Invariance, PTL DEF Spec, OnlyOwedBits

(* No load or store reaches a byte that holds no requested bit.            *)
THEOREM InBounds ==
  ASSUME NonEmpty
  PROVE  Spec => []AccessInBounds
<1>1. Init => AccessInBounds
  BY InitOK
<1>2. Inv /\ AccessInBounds /\ [Next]_vars => AccessInBounds'
  BY NextOK, StutterOK DEF StepOK
<1> QED BY <1>1, <1>2, Invariance, PTL DEF Spec

(* The ranges the comments claim, on which the shifts rely.                *)
THEOREM RangesHold ==
  ASSUME NonEmpty
  PROVE  Spec => []StatedRanges
<1>1. ASSUME Inv PROVE StatedRanges
  <2>1. pc \in {"AlignedHead", "AlignedTail"} => StatedRanges
    BY <1>1 DEF Inv, AlignedInv, StatedRanges
  <2>2. pc \in {"UnalignedHead", "UnalignedSpill", "ByteTail", "ByteTailSpill"} => StatedRanges
    BY <1>1 DEF Inv, UnalignedInv, StatedRanges
  <2>3. pc \in {"WordShift", "WordMerge"} => StatedRanges
    BY <1>1 DEF Inv, UnalignedInv, Carried, StatedRanges
  <2>4. pc = "OriginalLoop" => StatedRanges
    BY <1>1 DEF Inv, OriginalInv, StatedRanges
  <2>5. pc \notin {"AlignedHead", "AlignedTail", "UnalignedHead", "UnalignedSpill", "ByteTail",
                   "ByteTailSpill", "WordShift", "WordMerge", "OriginalLoop"} => StatedRanges
    BY DEF StatedRanges
  <2> QED BY <2>1, <2>2, <2>3, <2>4, <2>5
<1> QED BY <1>1, Invariance, PTL

-----------------------------------------------------------------------------
(* The refinement.                                                         *)

(* No step is taken after the return.                                      *)
LEMMA NotDone ==
  ASSUME Next
  PROVE  pc # "Done"
<1>1. EntryNext => pc # "Done"
  BY DEF EntryNext, FastBitCopySmall, FastBitCopyLarge, OriginalAppBitsCpy, InternalAligned,
     InternalUnaligned, Start
<1>2. AlignedNext => pc # "Done"
  BY DEF AlignedNext, AlignedHead, AlignedMiddle, AlignedTail
<1>3. UnalignedHead \/ UnalignedSpill \/ SrcAligned => pc # "Done"
  BY DEF UnalignedHead, UnalignedSpill, SrcAligned
<1>4. WordCopy \/ WordShift \/ WordMerge => pc # "Done"
  BY DEF WordCopy, WordShift, WordMerge
<1>5. Tail \/ ByteTail \/ ByteTailSpill => pc # "Done"
  BY DEF Tail, ByteTail, ByteTailSpill
<1>6. OriginalNext => pc # "Done"
  BY DEF OriginalNext, OriginalSmall, OriginalSmallLast, OriginalHead, OriginalLoop, OriginalTail
<1> QED BY <1>1, <1>2, <1>3, <1>4, <1>5, <1>6 DEF Next, UnalignedNext

(* The arguments of the call are never assigned.                           *)
LEMMA SameArguments ==
  ASSUME Next
  PROVE  UNCHANGED call
<1>1. EntryNext => UNCHANGED call
  BY DEF EntryNext, FastBitCopySmall, FastBitCopyLarge, OriginalAppBitsCpy, InternalAligned,
     InternalUnaligned, Start
<1>2. AlignedNext => UNCHANGED call
  BY DEF AlignedNext, AlignedHead, AlignedMiddle, AlignedTail
<1>3. UnalignedHead \/ UnalignedSpill \/ SrcAligned => UNCHANGED call
  BY DEF UnalignedHead, UnalignedSpill, SrcAligned
<1>4. WordCopy \/ WordShift \/ WordMerge => UNCHANGED call
  BY DEF WordCopy, WordShift, WordMerge, NextWord
<1>5. Tail \/ ByteTail \/ ByteTailSpill => UNCHANGED call
  BY DEF Tail, ByteTail, ByteTailSpill
<1>6. OriginalNext => UNCHANGED call
  BY DEF OriginalNext, OriginalSmall, OriginalSmallLast, OriginalHead, OriginalLoop, OriginalTail
<1> QED BY <1>1, <1>2, <1>3, <1>4, <1>5, <1>6 DEF Next, UnalignedNext

(* A step brings in any number of the bits owed.                           *)
LEMMA Arrives ==
  ASSUME NonEmpty, Inv, StepOK
  PROVE  Promise!Arrive
<1>1. mem' \in [0 .. DestBits - 1 -> Bit] /\ DOMAIN DestMem = 0 .. DestBits - 1
  BY CallsAssumption DEF StepOK, Inv, TypeOK, CallsAssumption
<1>2. ASSUME NEW j \in 0 .. DestBits - 1, mem'[j] # mem[j]
      PROVE  Promise!Owed(j) /\ mem'[j] = Promise!Copied(j)
  <2>1. j \in Target /\ mem'[j] = Final[j]
    BY <1>2, OwedBit DEF StepOK
  <2> QED BY <2>1 DEF Final, Target, Promise!Owed, Promise!Copied
<1> QED BY <1>1, <1>2 DEF Promise!Arrive

(* Every step of the program is a step of the abstract copy, or none.      *)
LEMMA StepRefines ==
  ASSUME NonEmpty, Inv, Next
  PROVE  Promise!Next
<1>1. StepOK /\ pc # "Done" /\ UNCHANGED call
  BY NextOK, NotDone, SameArguments
<1>2. Promise!Arrive
  BY <1>1, Arrives
<1>3. CASE pc' = "Done"
  <2>1. DestBits \in Nat /\ End \in Nat /\ DestStart \in Nat /\ call.bitCount \in Nat
    BY CallFacts, NumbersOK DEF Numbers, Inv, DestStart
  <2>2. \A j \in 0 .. DestBits - 1 : j < End => mem'[j] = Final[j]
    <3>1. Frontier(End)'
      BY <1>1, <1>3 DEF StepOK, Inv, DoneInv
    <3> QED BY <1>1, <3>1 DEF Frontier, End, Final, Target
  <2>3. ASSUME NEW j \in DOMAIN DestMem, Promise!Owed(j)
        PROVE  mem'[j] = Promise!Copied(j)
    <3>1. j \in 0 .. DestBits - 1
      BY CallsAssumption DEF CallsAssumption
    <3>2. j \in call.destBit .. call.destBit + call.bitCount - 1
      BY <2>3 DEF Promise!Owed
    <3>3. j < End
      BY <2>1, <3>2 DEF End, DestStart
    <3>4. mem'[j] = Final[j]
      BY <2>2, <3>1, <3>3
    <3> QED BY <3>1, <3>2, <3>4 DEF Final, Target, Promise!Copied
  <2> QED BY <1>1, <1>2, <1>3, <2>3 DEF Promise!Next, Promise!Return
<1>4. CASE pc' # "Done"
  BY <1>1, <1>2, <1>4 DEF Promise!Next, Promise!Write
<1> QED BY <1>3, <1>4

(* FastBitCopy implements the bit copy promised to its callers, all but    *)
(* the promise that it returns.                                            *)
THEOREM Refinement ==
  ASSUME NonEmpty
  PROVE  Spec => Promise!Init /\ [][Promise!Next]_(Promise!vars)
<1>1. Init => Promise!Init
  <2>1. Init => call \in Calls /\ mem = DestMem /\ pc = call.entry
    BY DEF Init, CallInit
  <2>2. call \in Calls => call.entry # "Done"
    BY CallsAssumption DEF CallsAssumption, CallType, Entries
  <2> QED BY <2>1, <2>2 DEF Promise!Init
<1>2. Inv /\ [Next]_vars => [Promise!Next]_(Promise!vars)
  <2>1. UNCHANGED vars => UNCHANGED Promise!vars
    BY DEF vars, Promise!vars
  <2> QED BY <2>1, StepRefines
<1> QED BY <1>1, <1>2, Invariance, PTL DEF Spec

-----------------------------------------------------------------------------
(* No int overflows.                                                       *)

(* Only the calls that StockCall names get to the stock routine.           *)
StockSteps == {"Original", "OriginalSmallLast", "OriginalLoop"}
Routed == pc \in StockSteps => StockCall

(* Every step keeps it so.                                                 *)
LEMMA RoutedOK ==
  ASSUME NonEmpty, Inv, Routed, [Next]_vars
  PROVE  Routed'
<1>1. CASE UNCHANGED vars
  BY <1>1 DEF vars, Routed, StockCall
<1>2. CASE Next
  <2>1. UNCHANGED call /\ StockCall' = StockCall
    BY <1>2, SameArguments DEF StockCall
  <2>2. CASE EntryNext
    <3>1. CASE FastBitCopySmall
      <4>1. pc = "FastBitCopy" /\ pc = call.entry /\ BitCount = call.bitCount
        BY <3>1 DEF FastBitCopySmall, Start, Inv, EntryInv, Untouched, Entries
      <4>2. BitCount <= SmallBits /\ SmallBits <= Greatest(SmallBitsAligned, SmallBitsUnaligned)
        BY <3>1, ThresholdAssumption
           DEF FastBitCopySmall, SmallBits, Greatest, ThresholdAssumption
      <4>3. /\ SmallBits \in Nat /\ Greatest(SmallBitsAligned, SmallBitsUnaligned) \in Nat
            /\ BitCount \in Nat
        BY ThresholdAssumption DEF SmallBits, Greatest, ThresholdAssumption, Inv, TypeOK
      <4>4. BitCount <= Greatest(SmallBitsAligned, SmallBitsUnaligned)
        BY <4>2, <4>3
      <4> QED BY <2>1, <4>1, <4>4 DEF StockCall, Routed
    <3>2. CASE OriginalAppBitsCpy
      <4>1. pc = "OriginalAppBitsCpy" /\ pc = call.entry
        BY <3>2 DEF OriginalAppBitsCpy, Start, Inv, EntryInv, Entries
      <4> QED BY <2>1, <4>1 DEF StockCall, Routed
    <3>3. CASE InternalAligned \/ InternalUnaligned
      <4>1. pc' \notin StockSteps
        BY <3>3 DEF InternalAligned, InternalUnaligned, Start, EnterAligned, EnterUnaligned,
           StockSteps
      <4> QED BY <4>1 DEF Routed, StockSteps
    <3>4. CASE FastBitCopyLarge
      <4>1. pc' \notin StockSteps
        BY <3>4 DEF FastBitCopyLarge, EnterAligned, EnterUnaligned, StockSteps
      <4> QED BY <4>1 DEF Routed, StockSteps
    <3> QED BY <2>2, <3>1, <3>2, <3>3, <3>4 DEF EntryNext
  <2>3. CASE AlignedNext
    <3>1. pc' \notin StockSteps
      BY <2>3 DEF AlignedNext, AlignedHead, AlignedMiddle, AlignedTail, StockSteps
    <3> QED BY <3>1 DEF Routed, StockSteps
  <2>4. CASE UnalignedNext
    <3>1. UnalignedHead \/ UnalignedSpill \/ SrcAligned => pc' \notin StockSteps
      BY DEF UnalignedHead, UnalignedSpill, SrcAligned, StockSteps
    <3>2. WordCopy \/ WordShift \/ WordMerge => pc' \notin StockSteps
      BY DEF WordCopy, WordShift, WordMerge, NextWord, StockSteps
    <3>3. Tail \/ ByteTail \/ ByteTailSpill => pc' \notin StockSteps
      BY DEF Tail, ByteTail, ByteTailSpill, StockSteps
    <3>4. pc' \notin StockSteps
      BY <2>4, <3>1, <3>2, <3>3 DEF UnalignedNext
    <3> QED BY <3>4 DEF Routed, StockSteps
  <2>5. CASE OriginalNext
    <3>1. pc \in StockSteps
      BY <2>5 DEF OriginalNext, OriginalSmall, OriginalSmallLast, OriginalHead, OriginalLoop,
         OriginalTail, StockSteps
    <3> QED BY <2>1, <3>1 DEF Routed
  <2> QED BY <1>2, <2>2, <2>3, <2>4, <2>5 DEF Next
<1> QED BY <1>1, <1>2

(* What is left to copy is at most what was asked for.                     *)
LEMMA LeftToCopy ==
  ASSUME NonEmpty, Inv, NEW p \in Nat, InStep(p)
  PROVE  BitCount <= call.bitCount
<1>1. DestStart \in Nat /\ End \in Nat /\ BitCount \in Nat /\ call.bitCount \in Nat
  BY NumbersOK, CallFacts DEF Numbers, Inv
<1>2. p >= DestStart /\ p + BitCount = End /\ End = DestStart + call.bitCount
  BY DEF InStep, End, DestStart
<1> QED BY <1>1, <1>2

(* The two invariants bound everything the next step computes.             *)
LEMMA IntsFitInv ==
  ASSUME NonEmpty, Inv, Routed
  PROVE  IntsFit
<1>1. /\ Numbers /\ IntMax \in Nat /\ IntMax >= 64
      /\ call.destBit \in Nat /\ call.srcBit \in Nat /\ call.bitCount \in Nat
      /\ call.destBit <= IntMax /\ call.srcBit <= IntMax /\ call.bitCount <= IntMax
  BY NumbersOK, CallFacts, IntAssumption DEF Inv, TypeOK, IntAssumption
<1>2. BitCount \in Nat /\ SrcBit \in Nat /\ DestBit \in Nat /\ DestPos \in Nat
  BY <1>1 DEF Numbers, DestPos, Byte
<1> DEFINE Fit(S) == S \subseteq -IntMax - 1 .. IntMax
<1>3. CASE pc = "FastBitCopy"
  <2>1. DestBit = call.destBit /\ SrcBit = call.srcBit
    BY <1>3 DEF Inv, EntryInv, Untouched, Entries, DestStart, SrcStart
  <2>2. Ints = {SrcBit - DestBit}
    BY <1>3 DEF Ints, AlignedInts, UnalignedInts, OriginalInts
  <2> QED BY <1>1, <2>1, <2>2 DEF IntsFit
<1>4. CASE pc \in {"Original", "OriginalLoop"}
  <2>1. DestBit = call.destBit /\ SrcBit = call.srcBit /\ BitCount = call.bitCount
    BY <1>4 DEF Inv, EntryInv, Untouched, OriginalInv, DestStart, SrcStart
  <2>3. Ints = {DestBit + BitCount, SrcBit + BitCount, DestBit + BitCount - 1, SrcBit + BitCount - 1}
    BY <1>4 DEF Ints, AlignedInts, UnalignedInts, OriginalInts
  <2>4. EndsFit => Fit(Ints)
    BY <1>1, <2>1, <2>3 DEF EndsFit
  <2> QED BY <1>4, <2>4 DEF IntsFit, Routed, StockSteps
<1>5. CASE pc \in {"AlignedHead", "AlignedMiddle", "AlignedTail"}
  <2>1. InStep(DestPos) /\ (pc = "AlignedHead" => SrcBit \in 1 .. 7)
    BY <1>5 DEF Inv, AlignedInv, AtCursor
  <2>2. BitCount <= IntMax
    BY <1>1, <1>2, <2>1, LeftToCopy
  <2>3. Ints = AlignedInts
    BY <1>5 DEF Ints, UnalignedInts, OriginalInts
  <2>4. pc = "AlignedTail" => BitCount \in 1 .. 7
    BY DEF Inv, AlignedInv
  <2>5. Fit(AlignedInts)
    BY <1>1, <1>2, <1>5, <2>1, <2>2, <2>4 DEF AlignedInts, Least, Byte
  <2> QED BY <2>3, <2>5 DEF IntsFit
<1>6. CASE pc = "UnalignedHead"
  <2>1. InStep(DestPos) /\ SrcBit \in 1 .. 7 /\ DestBit \in 0 .. 7
    BY <1>6 DEF Inv, UnalignedInv, AtCursor
  <2>2. BitCount <= IntMax
    BY <1>1, <1>2, <2>1, LeftToCopy
  <2>3. Ints = UnalignedInts
    BY <1>6 DEF Ints, AlignedInts, OriginalInts
  <2>4. Fit(UnalignedInts)
    BY <1>1, <1>2, <1>6, <2>1, <2>2 DEF UnalignedInts, Least, Byte
  <2> QED BY <2>3, <2>4 DEF IntsFit
<1>7. CASE pc = "SrcAligned"
  <2>1. InStep(DestPos) /\ DestBit \in 0 .. 7
    BY <1>7 DEF Inv, UnalignedInv, AtCursor
  <2>2. BitCount <= IntMax
    BY <1>1, <1>2, <2>1, LeftToCopy
  <2>3. Ints = UnalignedInts
    BY <1>7 DEF Ints, AlignedInts, OriginalInts
  <2> DEFINE words == MiddleWords(BitCount, WordBits)
  <2>4. WordBits \in {8, 64}
    BY DEF Inv, TypeOK
  <2>5. /\ words \in Int /\ words >= -1 /\ words <= BitCount
        /\ words * WordBits <= BitCount /\ (words > 0 => words * WordBits \in Nat)
    BY <1>2, <2>4 DEF MiddleWords, Byte
  <2>6. UnalignedInts = {WordBits - DestBit, words}
           \cup IF words > 0 THEN {words * WordBits, BitCount - words * WordBits} ELSE {}
    BY <1>7 DEF UnalignedInts
  <2>7. Fit(UnalignedInts)
    <3> HIDE DEF words
    <3>1. WordBits - DestBit \in -IntMax - 1 .. IntMax /\ words \in -IntMax - 1 .. IntMax
      BY <1>1, <1>2, <2>1, <2>2, <2>4, <2>5
    <3>2. words > 0 => /\ words * WordBits \in -IntMax - 1 .. IntMax
                       /\ BitCount - words * WordBits \in -IntMax - 1 .. IntMax
      BY <1>1, <1>2, <2>1, <2>2, <2>4, <2>5
    <3> QED BY <2>6, <3>1, <3>2
  <2> QED BY <2>3, <2>7 DEF IntsFit
<1>8. CASE pc = "ByteTail"
  <2>1. BitCount \in 1 .. 7 /\ DestBit \in 0 .. 7
    BY <1>8 DEF Inv, UnalignedInv
  <2>2. Ints = UnalignedInts
    BY <1>8 DEF Ints, AlignedInts, OriginalInts
  <2>3. Fit(UnalignedInts)
    BY <1>1, <1>8, <2>1 DEF UnalignedInts, Least, Byte
  <2> QED BY <2>2, <2>3 DEF IntsFit
<1>9. CASE pc \notin {"FastBitCopy", "Original", "OriginalLoop",
                   "AlignedHead", "AlignedMiddle", "AlignedTail", "UnalignedHead", "SrcAligned", "ByteTail"}
  <2>1. Ints = {}
    BY <1>9 DEF Ints, AlignedInts, UnalignedInts, OriginalInts
  <2> QED BY <2>1 DEF IntsFit
<1> QED BY <1>3, <1>4, <1>5, <1>6, <1>7, <1>8, <1>9

(* No int overflows: never for a payload above the thresholds, whatever    *)
(* its offsets; for one the stock routine gets, when both ranges end by    *)
(* the last bit an int can name.                                           *)
THEOREM NoOverflow ==
  ASSUME NonEmpty
  PROVE  Spec => []IntsFit
<1>1. Init => Routed
  BY CallsAssumption DEF Init, CallInit, Routed, StockSteps, CallsAssumption, CallType, Entries
<1>2. Inv /\ Routed /\ [Next]_vars => Routed'
  BY RoutedOK
<1>3. Inv /\ Routed => IntsFit
  BY IntsFitInv
<1> QED BY <1>1, <1>2, <1>3, Invariance, PTL DEF Spec

-----------------------------------------------------------------------------
(* The loop that copies words as they are.                                 *)

(* Once a call of different phases is on its way, the source cursor is on  *)
(* a byte boundary and the destination cursor is not, as long as there is  *)
(* something left to copy.                                                 *)
Staggered ==
  call.entry # "Internal_Unaligned" =>
    /\ pc = "UnalignedHead" => SrcBit # DestBit
    /\ pc \in {"SrcAligned", "Tail"} => DestBit # 0 \/ BitCount = 0
    /\ pc # "WordCopy"

LEMMA HeadStaggers ==
  ASSUME Inv, UnalignedHead, SrcBit # DestBit, pc' = "SrcAligned"
  PROVE  DestBit' # 0 \/ BitCount' = 0
<1>1. SrcBit \in 1 .. 7 /\ DestBit \in 0 .. 7 /\ BitCount \in Nat
  BY DEF Inv, TypeOK, UnalignedInv, UnalignedHead
<1> DEFINE copyBits == Least(Byte - SrcBit, BitCount)
           overlapped == Least(copyBits, Byte - DestBit)
<1>2. /\ BitCount' = BitCount - copyBits /\ DestBit' = (overlapped + DestBit) % 8
      /\ ~(copyBits - overlapped > 0)
  BY DEF UnalignedHead, Byte
<1>3. copyBits \in 0 .. 7 /\ (copyBits = 8 - SrcBit \/ copyBits = BitCount)
  BY <1>1 DEF Least, Byte
<1>4. overlapped = copyBits /\ copyBits <= 8 - DestBit
  <2> HIDE DEF copyBits
  <2> QED BY <1>1, <1>2, <1>3 DEF Least, Byte
<1>5. CASE copyBits = 8 - SrcBit
  <2>1. overlapped + DestBit \in 1 .. 7
    BY <1>1, <1>3, <1>4, <1>5
  <2> HIDE DEF overlapped
  <2> QED BY <1>2, <2>1
<1>6. CASE copyBits = BitCount
  BY <1>1, <1>2, <1>6
<1> QED BY <1>3, <1>5, <1>6

LEMMA StaggeredOK ==
  ASSUME NonEmpty, Inv, Staggered, Next
  PROVE  Staggered'
<1>1. UNCHANGED call
  BY SameArguments
<1> SUFFICES ASSUME call.entry # "Internal_Unaligned"
             PROVE  /\ pc' = "UnalignedHead" => SrcBit' # DestBit'
                    /\ pc' \in {"SrcAligned", "Tail"} => DestBit' # 0 \/ BitCount' = 0
                    /\ pc' # "WordCopy"
  BY <1>1 DEF Staggered
<1>2. CASE EntryNext
  <2>1. CASE FastBitCopyLarge
    BY <2>1 DEF FastBitCopyLarge, EnterAligned, EnterUnaligned
  <2>2. CASE InternalUnaligned
    BY <2>2 DEF InternalUnaligned, Start, Inv, EntryInv, Entries
  <2>3. CASE FastBitCopySmall \/ OriginalAppBitsCpy \/ InternalAligned
    BY <2>3 DEF FastBitCopySmall, OriginalAppBitsCpy, InternalAligned, Start, EnterAligned
  <2> QED BY <1>2, <2>1, <2>2, <2>3 DEF EntryNext
<1>3. CASE AlignedNext
  BY <1>3 DEF AlignedNext, AlignedHead, AlignedMiddle, AlignedTail
<1>4. CASE OriginalNext
  BY <1>4 DEF OriginalNext, OriginalSmall, OriginalSmallLast, OriginalHead, OriginalLoop,
     OriginalTail
<1>5. CASE UnalignedHead
  <2>1. SrcBit # DestBit /\ pc' \in {"UnalignedSpill", "SrcAligned"}
    BY <1>5 DEF Staggered, UnalignedHead
  <2> QED BY <1>5, <2>1, HeadStaggers
<1>6. CASE UnalignedSpill
  BY <1>6 DEF UnalignedSpill, Inv, UnalignedInv
<1>7. CASE SrcAligned
  <2>1. /\ DestBit # 0 \/ BitCount = 0
        /\ DestBit' = DestBit /\ BitCount' = BitCount /\ LoopCount' = MiddleWords(BitCount, WordBits)
    BY <1>7 DEF Staggered, SrcAligned, cursors
  <2>2. BitCount = 0 => ~(LoopCount' > 0)
    BY <2>1 DEF MiddleWords, Inv, TypeOK, Byte
  <2> QED BY <1>7, <2>1, <2>2 DEF SrcAligned
<1>8. CASE WordCopy
  BY <1>8 DEF Staggered, WordCopy
<1>9. CASE WordShift \/ WordMerge
  <2>1. DestBit \in 1 .. 7 /\ DestBit' = DestBit
    BY <1>9 DEF WordShift, WordMerge, NextWord, cursors, Inv, UnalignedInv, Carried
  <2>2. pc' \notin {"UnalignedHead", "WordCopy"}
    BY <1>9 DEF WordShift, WordMerge, NextWord
  <2> QED BY <2>1, <2>2
<1>10. CASE Tail
  <2>1. DestBit \in 0 .. 7 /\ (DestBit # 0 \/ BitCount = 0)
    BY <1>10 DEF Tail, Staggered, Inv, UnalignedInv
  <2>2. pc' \in {"Done", "ByteTail"} \/ (pc' = "SrcAligned" /\ BitCount > 0 /\ DestBit' = DestBit % 8)
    BY <1>10 DEF Tail, Byte
  <2>3. ~(BitCount = 0 /\ BitCount > 0)
    OBVIOUS
  <2> QED BY <2>1, <2>2, <2>3
<1>11. CASE ByteTail \/ ByteTailSpill
  BY <1>11 DEF ByteTail, ByteTailSpill
<1> QED BY <1>2, <1>3, <1>4, <1>5, <1>6, <1>7, <1>8, <1>9, <1>10, <1>11 DEF Next, UnalignedNext

(* No call of FastBitCopy copies words as they are: two cursors of         *)
(* different phases are never both on a byte boundary.                     *)
THEOREM WordCopyNeverReached ==
  ASSUME NonEmpty
  PROVE  Spec => []WordCopyOnlyInternal
<1>1. Init => Staggered
  BY CallsAssumption DEF Init, CallInit, Staggered, CallsAssumption, CallType, Entries
<1>2. Inv /\ Staggered /\ [Next]_vars => Staggered'
  <2>1. UNCHANGED vars /\ Staggered => Staggered'
    BY DEF vars, cursors, Staggered
  <2> QED BY <2>1, StaggeredOK
<1>3. Staggered => WordCopyOnlyInternal
  BY DEF Staggered, WordCopyOnlyInternal
<1> QED BY <1>1, <1>2, <1>3, Invariance, PTL DEF Spec
=============================================================================
