--------------------------- MODULE RoutineProofs ----------------------------
(***************************************************************************)
(* The three routines keep the invariant, change bits only to what they    *)
(* are to become, and touch only bytes that hold requested bits.           *)
(***************************************************************************)
EXTENDS StepLemmas

(* BitsCopyFastAligned.                                                    *)

(* The head of the aligned copy: bits up to the byte boundary, or all of   *)
(* them.                                                                   *)
LEMMA AlignedHeadOK ==
  ASSUME NonEmpty, Inv, AlignedHead
  PROVE  StepOK
<1> DEFINE copyBits == Least(8 - SrcBit, BitCount)
           mask == Mask(SrcBit, 8 - SrcBit - copyBits, 8)
           word == Keep(Load(SrcMem, Src, 8), mask)
           p == 8 * Dest + SrcBit
           q == 8 * Dest + SrcBit + copyBits
<1>1. /\ TypeOK /\ AtCursor /\ Numbers
      /\ SrcBit \in 1 .. 7 /\ DestBit = SrcBit /\ BitCount > 0
  BY NumbersOK DEF AlignedHead, Inv, AlignedInv
<1>2. /\ p >= DestStart /\ p + BitCount = End
      /\ 8 * Dest - DestStart = 8 * Src - SrcStart
  BY <1>1 DEF AtCursor, InStep, DestPos, SrcPos, Byte, Numbers
<1>3. Frontier(p)
  BY <1>1 DEF AtCursor, DestPos, Byte
<1>4. /\ copyBits \in 1 .. 7 /\ copyBits <= BitCount /\ SrcBit + copyBits \in 1 .. 8
      /\ copyBits # BitCount => SrcBit + copyBits = 8
  BY <1>1 DEF Least, Numbers
<1>5. /\ mem' = Store(mem, Dest, Merge(Load(mem, Dest, 8), mask, word), 8)
      /\ BitCount' = BitCount - copyBits
      /\ Dest' = Dest + (copyBits + SrcBit) \div 8
      /\ DestBit' = (copyBits + SrcBit) % 8
      /\ Src' = Src + 1 /\ SrcBit' = 0
      /\ access' = [src |-> {Src}, dest |-> {Dest}]
      /\ pc' = "AlignedMiddle"
      /\ UNCHANGED call /\ UNCHANGED <<WordBits, LoopCount, ShiftCount, RemainingBits, Reg>>
  BY DEF AlignedHead, Touch, locals, Byte
<1>6. Puts(Dest, p, q, mask, word)
  <2>1. /\ Dest \in Nat /\ p \in Nat /\ q \in Nat /\ 8 * Dest <= p /\ p <= q
        /\ q <= 8 * Dest + 8 /\ DestStart <= p /\ q <= End /\ 8 * Dest < End
    BY <1>1, <1>2, <1>4 DEF Numbers
  <2>2. \A k \in 0 .. 7 : k \in mask <=> 8 * Dest + k \in p .. q - 1
    BY <1>1, <1>4 DEF Mask, Numbers
  <2>3. \A k \in 0 .. 7 : word[k] = IF k \in mask THEN Want(8 * Dest + k) ELSE Zero
    BY <1>1, <1>2, SourceByte DEF Numbers
  <2> HIDE DEF p, q, mask, word
  <2> QED BY <1>3, <1>5, <2>1, <2>2, <2>3 DEF Puts
<1>7. StepsTo(q)
  <2>0. 8 * Dest' + DestBit' = q
    <3> DEFINE b == copyBits + SrcBit
    <3>1. b \in Nat /\ Dest' = Dest + b \div 8 /\ DestBit' = b % 8
      BY <1>1, <1>4, <1>5
    <3>2. q = 8 * Dest + b
      BY <1>1, <1>4 DEF Numbers
    <3> HIDE DEF b, q
    <3> QED BY <1>1, <3>1, <3>2 DEF Numbers
  <2>1. q \in Nat /\ q >= DestStart /\ q + BitCount' = End
    <3> HIDE DEF copyBits
    <3>1. q = p + copyBits /\ p \in Nat /\ copyBits \in Nat
      BY <1>1, <1>4 DEF Numbers
    <3> HIDE DEF p, q
    <3> QED BY <1>1, <1>2, <1>4, <1>5, <3>1 DEF Numbers
  <2>2. BitCount' \in Nat /\ Src' \in Nat /\ SrcBit' \in Nat
    <3>1. BitCount' = BitCount - copyBits /\ Src' = Src + 1 /\ SrcBit' = 0
      BY <1>5
    <3>2. copyBits \in Nat /\ copyBits <= BitCount
      BY <1>4
    <3> HIDE DEF copyBits
    <3> QED BY <1>1, <3>1, <3>2 DEF Numbers
  <2>3. BitCount' > 0 => q - DestStart = 8 * Src' + SrcBit' - SrcStart
    BY <1>1, <1>2, <1>4, <1>5 DEF Numbers
  <2> HIDE DEF q
  <2> QED BY <2>0, <2>1, <2>2, <2>3 DEF StepsTo
<1>8. BitCount' > 0 => SrcBit' = 0 /\ DestBit' = 0
  BY <1>1, <1>4, <1>5 DEF Numbers
<1>9. Touches({Src}, {Dest})
  BY <1>1, <1>2, <1>5 DEF Touches, Numbers
<1>10. Dest' \in Nat /\ DestBit' \in Nat
  <2>1. copyBits + SrcBit \in Nat /\ Dest \in Nat
    BY <1>1, <1>4 DEF Numbers
  <2> QED BY <1>5, <2>1
<1> HIDE DEF copyBits, mask, word, p, q
<1>11. MemType' /\ Keeps /\ Reaches(q)
  BY <1>1, <1>6, PutBits
<1>12. AccessInBounds' /\ access' \in [src : SUBSET Nat, dest : SUBSET Nat]
  BY <1>1, <1>5, <1>9, NextAccess
<1>13. AtCursor'
  BY <1>1, <1>5, <1>7, <1>11, NextAtCursor
<1>14. TypeOK'
  BY <1>1, <1>5, <1>7, <1>10, <1>11, <1>12 DEF TypeOK, MemType, PcType, StepsTo
<1>15. Inv'
  BY <1>5, <1>8, <1>13, <1>14
     DEF Inv, EntryInv, AlignedInv, UnalignedInv, OriginalInv, DoneInv, Entries
<1> QED BY <1>11, <1>12, <1>15 DEF StepOK

(* The memcpy of whole bytes: the destination is final up to where it      *)
(* ends.                                                                   *)
LEMMA AlignedMiddleOK ==
  ASSUME NonEmpty, Inv, AlignedMiddle
  PROVE  StepOK
<1> DEFINE n == BitCount \div 8
           p == 8 * Dest + DestBit
           q == 8 * Dest + DestBit + 8 * n
<1>1. TypeOK /\ AtCursor /\ Numbers /\ (BitCount > 0 => SrcBit = 0 /\ DestBit = 0)
  BY NumbersOK DEF AlignedMiddle, Inv, AlignedInv
<1>2. /\ p >= DestStart /\ p + BitCount = End
      /\ BitCount > 0 => 8 * Dest - DestStart = 8 * Src - SrcStart
  BY <1>1 DEF AtCursor, InStep, DestPos, SrcPos, Byte, Numbers
<1>3. n \in Nat /\ 8 * n <= BitCount /\ BitCount - 8 * n \in 0 .. 7
  BY <1>1 DEF Numbers
<1>4. /\ mem' = CopyBytes(mem, Dest, SrcMem, Src, n)
      /\ BitCount' = BitCount - n * 8 /\ Dest' = Dest + n /\ Src' = Src + n
      /\ access' = [src |-> Src .. Src + n - 1, dest |-> Dest .. Dest + n - 1]
      /\ pc' = IF BitCount' > 0 THEN "AlignedTail" ELSE "Done"
      /\ UNCHANGED call /\ SrcBit' = SrcBit /\ DestBit' = DestBit
      /\ UNCHANGED <<WordBits, LoopCount, ShiftCount, RemainingBits, Reg>>
  BY DEF AlignedMiddle, Touch, locals, Byte
<1>5. ASSUME NEW j \in 0 .. DestBits - 1
      PROVE  mem'[j] = IF j \in p .. q - 1 THEN Final[j] ELSE mem[j]
  <2>1. mem'[j] = IF j \in 8 * Dest .. 8 * (Dest + n) - 1
                  THEN SrcMem[j - 8 * Dest + 8 * Src] ELSE mem[j]
    BY <1>1, <1>4 DEF CopyBytes, TypeOK, Byte
  <2>2. j \in 8 * Dest .. 8 * (Dest + n) - 1 <=> j \in p .. q - 1
    BY <1>1, <1>3 DEF Numbers
  <2>3. CASE j \in p .. q - 1
    <3>1. BitCount > 0 /\ j >= DestStart /\ j < End
      BY <1>1, <1>2, <1>3, <2>3 DEF Numbers
    <3>2. j - 8 * Dest + 8 * Src = SrcStart + (j - DestStart)
      BY <1>1, <1>2, <3>1 DEF Numbers
    <3>3. Final[j] = Want(j)
      BY <1>1, <3>1, FinalBit
    <3> QED BY <2>1, <2>2, <2>3, <3>2, <3>3 DEF Want
  <2> QED BY <2>1, <2>2, <2>3
<1>6. mem' = [j \in 0 .. DestBits - 1 |-> mem'[j]]
  BY <1>1, <1>4 DEF CopyBytes, TypeOK
<1>7. p \in Nat /\ q \in Nat /\ p <= q /\ Frontier(p)
  BY <1>1, <1>3 DEF Numbers, AtCursor, DestPos, Byte
<1>8. Touches(Src .. Src + n - 1, Dest .. Dest + n - 1)
  <2>1. ASSUME NEW a \in Src .. Src + n - 1
        PROVE  a \in Nat /\ 8 * a < SrcEnd /\ 8 * a + 8 > SrcStart
    BY <1>1, <1>2, <1>3 DEF Numbers
  <2>2. ASSUME NEW a \in Dest .. Dest + n - 1
        PROVE  a \in Nat /\ 8 * a < End /\ 8 * a + 8 > DestStart
    BY <1>1, <1>2, <1>3 DEF Numbers
  <2> HIDE DEF n
  <2> QED BY <1>4, <2>1, <2>2 DEF Touches
<1>9. /\ BitCount' \in 0 .. 7 /\ Dest' \in Nat /\ Src' \in Nat
      /\ BitCount' > 0 => SrcBit' = 0 /\ DestBit' = 0
  BY <1>1, <1>3, <1>4 DEF Numbers
<1>10. StepsTo(q)
  <2>1. q \in Nat /\ q = 8 * Dest' + DestBit' /\ q >= DestStart /\ q + BitCount' = End
    BY <1>1, <1>2, <1>3, <1>4 DEF Numbers
  <2>2. BitCount' \in Nat /\ Src' \in Nat /\ SrcBit' \in Nat
    BY <1>1, <1>4, <1>9 DEF Numbers
  <2>3. ASSUME BitCount' > 0 PROVE q - DestStart = 8 * Src' + SrcBit' - SrcStart
    <3>1. BitCount > 0
      BY <1>1, <1>3, <1>4, <2>3 DEF Numbers
    <3> QED BY <1>1, <1>2, <1>3, <1>4, <3>1 DEF Numbers
  <2> HIDE DEF q
  <2> QED BY <2>1, <2>2, <2>3 DEF StepsTo
<1> HIDE DEF p, q, n
<1>11. MemType' /\ Keeps /\ Reaches(q)
  BY <1>1, <1>5, <1>6, <1>7, Advance
<1>12. AccessInBounds' /\ access' \in [src : SUBSET Nat, dest : SUBSET Nat]
  BY <1>1, <1>4, <1>8, NextAccess
<1>13. AtCursor'
  BY <1>1, <1>4, <1>10, <1>11, NextAtCursor
<1>14. TypeOK'
  BY <1>1, <1>4, <1>9, <1>10, <1>11, <1>12 DEF TypeOK, MemType, PcType, StepsTo
<1>15. CASE BitCount' > 0
  <2>1. pc' = "AlignedTail" /\ BitCount' \in 1 .. 7
    BY <1>4, <1>9, <1>15
  <2>2. Inv'
    BY <1>9, <1>13, <1>14, <1>15, <2>1
       DEF Inv, EntryInv, AlignedInv, UnalignedInv, OriginalInv, DoneInv, Entries
  <2> QED BY <1>11, <1>12, <2>2 DEF StepOK
<1>16. CASE BitCount' = 0
  <2>1. q = End /\ pc' = "Done"
    BY <1>1, <1>4, <1>10, <1>16 DEF StepsTo, Numbers
  <2>2. Frontier(End)'
    BY <1>4, <1>11, <2>1, EndAfter
  <2>3. Inv'
    BY <1>14, <2>1, <2>2
       DEF Inv, EntryInv, AlignedInv, UnalignedInv, OriginalInv, DoneInv, Entries
  <2> QED BY <1>11, <1>12, <2>3 DEF StepOK
<1> QED BY <1>9, <1>15, <1>16

(* The last 1 to 7 bits complete the range.                                *)
LEMMA AlignedTailOK ==
  ASSUME NonEmpty, Inv, AlignedTail
  PROVE  StepOK
<1> DEFINE mask == Mask(0, 8 - BitCount, 8)
           srcBits == Keep(Load(SrcMem, Src, 8), mask)
           p == 8 * Dest
<1>1. TypeOK /\ AtCursor /\ Numbers /\ SrcBit = 0 /\ DestBit = 0 /\ BitCount \in 1 .. 7
  BY NumbersOK DEF AlignedTail, Inv, AlignedInv
<1>2. p >= DestStart /\ p + BitCount = End /\ p - DestStart = 8 * Src - SrcStart
  BY <1>1 DEF AtCursor, InStep, DestPos, SrcPos, Byte, Numbers
<1>3. Frontier(p)
  BY <1>1 DEF AtCursor, DestPos, Byte, Numbers
<1>4. /\ mem' = Store(mem, Dest, Merge(Load(mem, Dest, 8), mask, srcBits), 8)
      /\ BitCount' = 0 /\ pc' = "Done"
      /\ access' = [src |-> {Src}, dest |-> {Dest}]
      /\ UNCHANGED call
      /\ UNCHANGED <<Dest, DestBit, Src, SrcBit, WordBits, LoopCount, ShiftCount, RemainingBits, Reg>>
  BY DEF AlignedTail, Touch, locals, Byte
<1>5. Puts(Dest, p, End, mask, srcBits)
  <2>1. \A k \in 0 .. 7 : k \in mask <=> 8 * Dest + k \in p .. End - 1
    BY <1>1, <1>2 DEF Mask, Numbers
  <2>2. \A k \in 0 .. 7 : srcBits[k] = IF k \in mask THEN Want(8 * Dest + k) ELSE Zero
    BY <1>1, <1>2, SourceByte DEF Numbers
  <2>3. /\ Dest \in Nat /\ p \in Nat /\ End \in Nat /\ 8 * Dest <= p /\ p <= End
        /\ End <= 8 * Dest + 8 /\ DestStart <= p /\ 8 * Dest < End
    BY <1>1, <1>2 DEF Numbers
  <2> HIDE DEF p, mask, srcBits
  <2> QED BY <1>1, <1>3, <1>4, <2>1, <2>2, <2>3 DEF Puts, Numbers
<1>6. Touches({Src}, {Dest})
  BY <1>1, <1>2, <1>4 DEF Touches, Numbers
<1> HIDE DEF mask, srcBits, p
<1>7. MemType' /\ Keeps /\ Reaches(End)
  BY <1>1, <1>5, PutBits
<1>8. AccessInBounds' /\ access' \in [src : SUBSET Nat, dest : SUBSET Nat]
  BY <1>1, <1>4, <1>6, NextAccess
<1>9. TypeOK'
  BY <1>1, <1>4, <1>7, <1>8 DEF TypeOK, MemType, PcType
<1>10. Frontier(End)'
  BY <1>4, <1>7, EndAfter
<1>11. Inv'
  BY <1>4, <1>9, <1>10 DEF Inv, EntryInv, AlignedInv, UnalignedInv, OriginalInv, DoneInv, Entries
<1> QED BY <1>7, <1>8, <1>11 DEF StepOK

-----------------------------------------------------------------------------
(* BitsCopyFastUnaligned and CopyBitsSrcAligned.                           *)

(* The head pass leaves q as the cursor, with r bits in the register.      *)
LEMMA NextSpill ==
  ASSUME Numbers, UNCHANGED call, NEW q \in Nat, NEW r \in Nat, q >= DestStart,
         q = 8 * Dest' + DestBit', RemainingBits' = r,
         BitCount' \in Nat, Src' \in Nat, SrcBit' = 0, q + r + BitCount' = End,
         BitCount' > 0 => q + r - DestStart = 8 * Src' - SrcStart
  PROVE  DestPos' >= DestStart' /\ InStep(DestPos + RemainingBits)'
<1>1. End' = End /\ DestStart' = DestStart /\ SrcStart' = SrcStart
  BY SameCall
<1>2. DestPos' = q
  BY DEF DestPos, Byte
<1>3. SrcPos' = 8 * Src'
  BY DEF SrcPos, Byte
<1> QED BY <1>1, <1>2, <1>3 DEF InStep, Numbers

(* After the step, the low n bits of the register are those from q on.     *)
Will(q, n) == \A k \in 0 .. n - 1 : Reg'[k] = Want(q + k)

(* A register whose low n bits are those due at the cursor is what the     *)
(* spill steps rely on.                                                    *)
LEMMA NextHolds ==
  ASSUME UNCHANGED call, NEW q, NEW n, DestPos' = q, Will(q, n)
  PROVE  /\ RemainingBits' = n => Holds(RemainingBits)'
         /\ BitCount' = n => Holds(BitCount)'
<1>1. SrcStart' = SrcStart /\ DestStart' = DestStart
  BY SameCall
<1> QED BY <1>1 DEF Holds, Want, Will

(* Each step of the head pass.                                             *)
LEMMA UnalignedHeadOK ==
  ASSUME NonEmpty, Inv, UnalignedHead
  PROVE  StepOK
<1> DEFINE copyBits == Least(8 - SrcBit, BitCount)
           word == Keep(Load(SrcMem, Src, 8), Mask(SrcBit, 8 - SrcBit - copyBits, 8))
           overlapped == Least(copyBits, 8 - DestBit)
           mask == Mask(DestBit, 8 - DestBit - overlapped, 8)
           shifted == Align(word, SrcBit, DestBit)
           remaining == copyBits - overlapped
           p == 8 * Dest + DestBit
           q == 8 * Dest + DestBit + overlapped
<1>1. /\ TypeOK /\ AtCursor /\ Numbers
      /\ SrcBit \in 1 .. 7 /\ DestBit \in 0 .. 7 /\ BitCount > 0 /\ WordBits = 64
  BY NumbersOK DEF UnalignedHead, Inv, UnalignedInv
<1>2. /\ p >= DestStart /\ p + BitCount = End
      /\ p - DestStart = 8 * Src + SrcBit - SrcStart
  BY <1>1 DEF AtCursor, InStep, DestPos, SrcPos, Byte, Numbers
<1>3. Frontier(p)
  BY <1>1 DEF AtCursor, DestPos, Byte
<1>4. /\ copyBits \in 1 .. 7 /\ copyBits <= BitCount /\ SrcBit + copyBits \in 1 .. 8
      /\ copyBits # BitCount => SrcBit + copyBits = 8
  BY <1>1 DEF Least, Numbers
<1>5. /\ overlapped \in 1 .. 7 /\ overlapped <= copyBits /\ DestBit + overlapped \in 1 .. 8
      /\ overlapped # copyBits => DestBit + overlapped = 8
      /\ remaining \in 0 .. 7
  <2> HIDE DEF copyBits
  <2>1. /\ overlapped \in 1 .. 7 /\ overlapped <= copyBits /\ DestBit + overlapped \in 1 .. 8
        /\ overlapped # copyBits => DestBit + overlapped = 8
    BY <1>1, <1>4 DEF Least
  <2> HIDE DEF overlapped
  <2> QED BY <1>4, <2>1
<1>6. /\ mem' = Store(mem, Dest, Merge(Load(mem, Dest, 8), mask, Keep(shifted, mask)), 8)
      /\ BitCount' = BitCount - copyBits
      /\ Dest' = Dest + (overlapped + DestBit) \div 8
      /\ DestBit' = (overlapped + DestBit) % 8
      /\ Reg' = ShiftRight(word, SrcBit + overlapped)
      /\ RemainingBits' = remaining
      /\ pc' = IF remaining > 0 THEN "UnalignedSpill" ELSE "SrcAligned"
      /\ access' = [src |-> {Src}, dest |-> {Dest}]
      /\ Src' = Src + 1 /\ SrcBit' = 0
      /\ UNCHANGED call /\ WordBits' = WordBits /\ UNCHANGED <<LoopCount, ShiftCount>>
  BY DEF UnalignedHead, Touch, Byte
<1>7. ASSUME NEW i \in SrcBit .. SrcBit + copyBits - 1
      PROVE  word[i] = Want(p + (i - SrcBit))
  <2> HIDE DEF copyBits
  <2>1. Matches(8, i, p + (i - SrcBit))
    BY <1>1, <1>2, <1>4 DEF Matches, Positions, Numbers
  <2>2. i \in Positions /\ i \in Mask(SrcBit, 8 - SrcBit - copyBits, 8)
    BY <1>1, <1>4 DEF Mask, Positions
  <2> QED BY <1>1, <2>1, <2>2, SourceBit DEF Keep
<1>8. ASSUME NEW k \in 0 .. 7
      PROVE  /\ k \in mask <=> k \in DestBit .. DestBit + overlapped - 1
             /\ k \in mask <=> 8 * Dest + k \in p .. q - 1
  BY <1>1, <1>5 DEF Mask, Numbers
<1>9. ASSUME NEW k \in 0 .. 7
      PROVE  Keep(shifted, mask)[k] = IF k \in mask THEN Want(8 * Dest + k) ELSE Zero
  <2>1. k \in Positions
    BY DEF Positions
  <2>2. CASE k \in mask
    <3> DEFINE i == k - DestBit + SrcBit
    <3>1. k \in DestBit .. DestBit + overlapped - 1
      BY <1>8, <2>2
    <3> HIDE DEF word, mask, overlapped, copyBits
    <3>2. i \in SrcBit .. SrcBit + copyBits - 1 /\ p + (i - SrcBit) = 8 * Dest + k
      BY <1>1, <1>4, <1>5, <3>1 DEF Numbers
    <3>3. word[i] = Want(8 * Dest + k)
      BY <1>7, <3>2
    <3>4. shifted[k] = word[i]
      <4>1. CASE DestBit >= SrcBit
        <5>1. k - (DestBit - SrcBit) = i /\ k >= DestBit - SrcBit
          BY <1>1, <3>1
        <5> QED BY <2>1, <4>1, <5>1 DEF Align, ShiftLeft
      <4>2. CASE ~(DestBit >= SrcBit)
        <5>1. k + (SrcBit - DestBit) = i /\ i <= 63
          BY <1>1, <3>1
        <5> QED BY <2>1, <4>2, <5>1 DEF Align, ShiftRight
      <4> QED BY <4>1, <4>2
    <3> QED BY <2>1, <2>2, <3>3, <3>4 DEF Keep
  <2>3. CASE k \notin mask
    BY <2>1, <2>3 DEF Keep
  <2> QED BY <2>2, <2>3
<1>10. word \in [Positions -> Bit]
  <2>1. Src \in Nat /\ 8 * Src < SrcEnd
    BY <1>1, <1>2 DEF Numbers
  <2> QED BY <1>1, <2>1, SourceByteType, WordTypes
<1>11. Reg' \in [Positions -> Bit]
  <2>1. SrcBit + overlapped \in Nat
    BY <1>1, <1>5
  <2> HIDE DEF word, overlapped
  <2> QED BY <1>6, <1>10, <2>1, WordTypes
<1>12. q \in Nat /\ 8 * Dest' + DestBit' = q /\ Dest' \in Nat /\ DestBit' \in 0 .. 7
  <2> DEFINE b == overlapped + DestBit
  <2>1. b \in Nat /\ Dest' = Dest + b \div 8 /\ DestBit' = b % 8
    BY <1>1, <1>5, <1>6
  <2>2. q = 8 * Dest + b
    BY <1>1, <1>5 DEF Numbers
  <2> HIDE DEF b, q
  <2> QED BY <1>1, <2>1, <2>2 DEF Numbers
<1>13. /\ p \in Nat /\ 8 * Dest <= p /\ p <= q /\ q = p + overlapped
       /\ q <= 8 * Dest + 8 /\ DestStart <= p /\ q <= End /\ 8 * Dest < End
  BY <1>1, <1>2, <1>4, <1>5 DEF Numbers
<1>14. Puts(Dest, p, q, mask, Keep(shifted, mask))
  <2> HIDE DEF p, q, mask, shifted
  <2> QED BY <1>1, <1>3, <1>6, <1>8, <1>9, <1>12, <1>13 DEF Puts, Numbers
<1>15. Touches({Src}, {Dest})
  BY <1>1, <1>2, <1>6 DEF Touches, Numbers
<1>16. /\ BitCount' \in Nat /\ Src' \in Nat /\ SrcBit' \in Nat
       /\ q + remaining + BitCount' = End
       /\ BitCount' > 0 => q + remaining - DestStart = 8 * Src' - SrcStart
  <2> HIDE DEF copyBits, overlapped, q
  <2>1. q + remaining = p + copyBits
    BY <1>4, <1>5, <1>12, <1>13
  <2> HIDE DEF p, remaining
  <2> QED BY <1>1, <1>2, <1>4, <1>5, <1>6, <1>12, <1>13, <2>1 DEF Numbers
<1>17. ASSUME NEW k \in 0 .. remaining - 1
       PROVE  Reg'[k] = Want(q + k)
  <2> DEFINE i == k + (SrcBit + overlapped)
  <2> HIDE DEF copyBits, overlapped, word
  <2>1. /\ i \in SrcBit .. SrcBit + copyBits - 1 /\ k \in Positions /\ i <= 63
        /\ p + (i - SrcBit) = q + k
    BY <1>1, <1>4, <1>5 DEF Positions, Numbers
  <2>2. word[i] = Want(q + k)
    BY <1>7, <2>1
  <2> QED BY <1>6, <2>1, <2>2 DEF ShiftRight
<1> HIDE DEF copyBits, word, overlapped, mask, shifted, remaining, p, q
<1>18. MemType' /\ Keeps /\ Reaches(q)
  BY <1>1, <1>14, PutBits
<1>19. AccessInBounds' /\ access' \in [src : SUBSET Nat, dest : SUBSET Nat]
  BY <1>1, <1>6, <1>15, NextAccess
<1>20. TypeOK'
  BY <1>1, <1>5, <1>6, <1>11, <1>12, <1>16, <1>18, <1>19 DEF TypeOK, MemType, PcType
<1>21. CASE remaining = 0
  <2>1. StepsTo(q)
    <3>1. q + BitCount' = End /\ (BitCount' > 0 => q - DestStart = 8 * Src' + SrcBit' - SrcStart)
      BY <1>1, <1>6, <1>12, <1>16, <1>21 DEF Numbers
    <3>2. q >= DestStart
      BY <1>1, <1>12, <1>13 DEF Numbers
    <3> QED BY <1>12, <1>16, <3>1, <3>2 DEF StepsTo
  <2>2. AtCursor'
    BY <1>1, <1>6, <1>18, <2>1, NextAtCursor
  <2>3. pc' = "SrcAligned"
    BY <1>6, <1>21
  <2>4. Inv'
    BY <1>6, <1>12, <1>20, <2>2, <2>3
       DEF Inv, EntryInv, AlignedInv, UnalignedInv, OriginalInv, DoneInv, Entries
  <2> QED BY <1>18, <1>19, <2>4 DEF StepOK
<1>22. CASE remaining > 0
  <2>1. pc' = "UnalignedSpill" /\ RemainingBits' \in 1 .. 7 /\ DestBit' = 0
    <3>1. DestBit + overlapped = 8
      BY <1>4, <1>5, <1>22 DEF remaining
    <3>2. (overlapped + DestBit) % 8 = 0
      BY <1>1, <1>5, <3>1
    <3> QED BY <1>5, <1>6, <1>22, <3>2
  <2>2. DestPos' = q
    BY <1>12 DEF DestPos, Byte
  <2>3. Frontier(DestPos)'
    BY <1>6, <1>18, <2>2, FrontierAfter
  <2>4. DestPos' >= DestStart' /\ InStep(DestPos + RemainingBits)'
    <3>1. q >= DestStart
      BY <1>1, <1>12, <1>13 DEF Numbers
    <3>2. remaining \in Nat
      BY <1>5
    <3> QED BY <1>1, <1>6, <1>12, <1>16, <2>1, <3>1, <3>2, NextSpill
  <2>5. Holds(RemainingBits)'
    <3>1. Will(q, remaining)
      BY <1>17 DEF Will
    <3> QED BY <1>6, <2>2, <3>1, NextHolds
  <2>6. WordBits' = 64 /\ SrcBit' = 0
    BY <1>1, <1>6
  <2>7. Inv'
    BY <1>20, <2>1, <2>3, <2>4, <2>5, <2>6
       DEF Inv, EntryInv, AlignedInv, UnalignedInv, OriginalInv, DoneInv, Entries
  <2> QED BY <1>18, <1>19, <2>7 DEF StepOK
<1> QED BY <1>5, <1>21, <1>22

(* The bits of the first source byte that go to the second byte.           *)
LEMMA UnalignedSpillOK ==
  ASSUME NonEmpty, Inv, UnalignedSpill
  PROVE  StepOK
<1> DEFINE mask == Mask(0, 8 - RemainingBits, 8)
           word == Keep(Reg, mask)
           p == 8 * Dest
           q == 8 * Dest + RemainingBits
<1>1. /\ TypeOK /\ Numbers
      /\ DestPos >= DestStart /\ InStep(DestPos + RemainingBits)
      /\ Frontier(DestPos) /\ Holds(RemainingBits)
      /\ SrcBit = 0 /\ DestBit = 0 /\ RemainingBits \in 1 .. 7 /\ WordBits = 64
  BY NumbersOK DEF UnalignedSpill, Inv, UnalignedInv
<1>2. DestPos = p /\ SrcPos = 8 * Src
  BY <1>1 DEF DestPos, SrcPos, Byte, Numbers
<1>3. /\ p >= DestStart /\ q >= DestStart /\ q + BitCount = End
      /\ BitCount > 0 => q - DestStart = 8 * Src - SrcStart
  BY <1>1, <1>2 DEF InStep
<1>4. /\ mem' = Store(mem, Dest, Merge(Load(mem, Dest, 8), mask, word), 8)
      /\ DestBit' = RemainingBits /\ pc' = "SrcAligned"
      /\ access' = [src |-> {}, dest |-> {Dest}]
      /\ UNCHANGED call
      /\ UNCHANGED <<Dest, Src, SrcBit, BitCount, WordBits, LoopCount, ShiftCount, RemainingBits, Reg>>
  BY DEF UnalignedSpill, Touch, locals, Byte
<1>5. Puts(Dest, p, q, mask, word)
  <2>1. \A k \in 0 .. 7 : k \in mask <=> 8 * Dest + k \in p .. q - 1
    BY <1>1 DEF Mask, Numbers
  <2>2. ASSUME NEW k \in 0 .. 7
        PROVE  word[k] = IF k \in mask THEN Want(8 * Dest + k) ELSE Zero
    <3>1. k \in mask => k \in 0 .. RemainingBits - 1
      BY <1>1 DEF Mask
    <3>2. k \in mask => Reg[k] = Want(8 * Dest + k)
      BY <1>1, <1>2, <3>1 DEF Holds
    <3> HIDE DEF mask
    <3> QED BY <3>2 DEF Keep, Positions
  <2>3. /\ Dest \in Nat /\ p \in Nat /\ q \in Nat /\ p <= q /\ q <= 8 * Dest + 8
        /\ DestStart <= p /\ q <= End /\ 8 * Dest < End
    BY <1>1, <1>3 DEF Numbers
  <2> HIDE DEF p, q, mask, word
  <2> QED BY <1>1, <1>2, <1>4, <2>1, <2>2, <2>3 DEF Puts, p
<1>6. Touches({}, {Dest})
  BY <1>1, <1>3, <1>4 DEF Touches, Numbers
<1>7. StepsTo(q)
  BY <1>1, <1>3, <1>4 DEF StepsTo, Numbers
<1> HIDE DEF mask, word, p, q
<1>8. MemType' /\ Keeps /\ Reaches(q)
  BY <1>1, <1>5, PutBits
<1>9. AccessInBounds' /\ access' \in [src : SUBSET Nat, dest : SUBSET Nat]
  BY <1>1, <1>4, <1>6, NextAccess
<1>10. TypeOK'
  BY <1>1, <1>4, <1>8, <1>9 DEF TypeOK, MemType, PcType
<1>11. AtCursor'
  BY <1>1, <1>4, <1>7, <1>8, NextAtCursor
<1>12. Inv'
  BY <1>1, <1>4, <1>10, <1>11
     DEF Inv, EntryInv, AlignedInv, UnalignedInv, OriginalInv, DoneInv, Entries
<1> QED BY <1>8, <1>9, <1>12 DEF StepOK

-----------------------------------------------------------------------------
(* CopyBitsSrcAligned.                                                     *)

(* The two instances of the template, and what a word is in bytes.         *)
LEMMA WordWidth ==
  ASSUME TypeOK
  PROVE  \/ WordBits = 8 /\ WordBits \div 8 = 1
         \/ WordBits = 64 /\ WordBits \div 8 = 8
  BY DEF TypeOK

(* A step that leaves the destination alone.                               *)
LEMMA NoStore ==
  ASSUME TypeOK, NEW p, Frontier(p), mem' = mem
  PROVE  MemType' /\ Keeps /\ Reaches(p)
  BY DEF TypeOK, MemType, Keeps, Reaches, Frontier

(* The count of middle words leaves a tail of less than a byte, or of one  *)
(* to two words.                                                           *)
LEMMA MiddleWordsLeave ==
  ASSUME TypeOK, NEW n \in Int, n = MiddleWords(BitCount, WordBits)
  PROVE  /\ n > 0 => /\ WordBits = 8 => BitCount - n * 8 \in 0 .. 7
                     /\ WordBits = 64 => BitCount - n * 64 \in 64 .. 127
                     /\ BitCount >= WordBits
         /\ n <= 0 => (WordBits = 8 => BitCount < 8)
<1>1. BitCount \in Nat
  BY DEF TypeOK
<1>2. CASE WordBits = 8
  <2>1. n = BitCount \div 8
    BY <1>2 DEF MiddleWords, Byte
  <2> QED BY <1>1, <1>2, <2>1
<1>3. CASE WordBits = 64
  <2>1. n = BitCount \div 64 - 1
    BY <1>3 DEF MiddleWords, Byte
  <2> QED BY <1>1, <1>3, <2>1
<1> QED BY <1>2, <1>3 DEF TypeOK

(* Loading the bits below the cursor before the shift-word loop.           *)
LEMMA LoadCarried ==
  ASSUME TypeOK, NonEmpty, NEW p, p = 8 * Dest + DestBit, Frontier(p), p < End,
         DestBit \in 1 .. 7
  PROVE  /\ Drop(Load(mem, Dest, WordBits), HighMask) \in [Positions -> Bit]
         /\ \A k \in Positions :
              Drop(Load(mem, Dest, WordBits), HighMask)[k]
                = IF k < DestBit THEN Final[8 * Dest + k] ELSE Zero
<1> DEFINE reg == Drop(Load(mem, Dest, WordBits), HighMask)
<1>1. Numbers /\ WordBits \in {8, 64} /\ Dest \in Nat
  BY NumbersOK DEF TypeOK
<1>2. ASSUME NEW k \in Positions
      PROVE  reg[k] = IF k < DestBit THEN Final[8 * Dest + k] ELSE Zero
  <2>1. k \in HighMask <=> k >= DestBit /\ k <= WordBits - 1
    BY <1>1 DEF HighMask, Mask, Positions
  <2>2. CASE k < DestBit
    <3>1. 8 * Dest + k \in 0 .. DestBits - 1 /\ 8 * Dest + k < p /\ k < WordBits
      BY <1>1, <2>2 DEF Numbers, Positions
    <3>2. mem[8 * Dest + k] = Final[8 * Dest + k]
      BY <3>1 DEF Frontier
    <3>3. k \notin HighMask
      BY <1>1, <2>1, <2>2 DEF Positions
    <3> QED BY <2>2, <3>1, <3>2, <3>3 DEF Drop, Load, Byte
  <2>3. CASE k >= DestBit
    <3>1. k \in HighMask \/ ~(k < WordBits)
      BY <1>1, <2>1 , <2>3 DEF Positions
    <3>2. ~(k < DestBit)
      BY <1>1, <2>3 DEF Positions
    <3> QED BY <3>1, <3>2 DEF Drop, Load
  <2> QED BY <1>1, <2>2, <2>3 DEF Positions
<1>3. ASSUME NEW k \in Positions PROVE reg[k] \in Bit
  <2>1. CASE k < DestBit
    <3>1. 8 * Dest + k \in 0 .. DestBits - 1
      BY <1>1, <2>1 DEF Numbers, Positions
    <3> QED BY <1>2, <2>1, <3>1, FinalBit
  <2>2. CASE ~(k < DestBit)
    BY <1>2, <2>2, BitAssumption DEF BitAssumption
  <2> QED BY <2>1, <2>2
<1>4. reg = [k \in Positions |-> reg[k]]
  BY DEF Drop
<1> HIDE DEF reg
<1>5. reg \in [Positions -> Bit]
  BY <1>3, <1>4
<1> QED BY <1>2, <1>5 DEF reg

(* The state when the shift-word loop starts or goes on.                   *)
LEMMA NextCarried ==
  ASSUME TypeOK, NonEmpty, UNCHANGED call, NEW q \in Nat, StepsTo(q),
         SrcBit' = 0, DestBit' \in 1 .. 7, Room',
         \A k \in Positions : Reg'[k] = IF k < DestBit' THEN Final[8 * Dest' + k] ELSE Zero,
         \A j \in 0 .. DestBits - 1 :
           /\ j < 8 * Dest' => mem'[j] = Final[j]
           /\ j \in 8 * Dest' .. q - 1 => mem'[j] \in {DestMem[j], Final[j]}
           /\ j >= q => mem'[j] = DestMem[j]
  PROVE  Carried'
<1>1. DestPos' = q
  BY DEF StepsTo, DestPos, Byte
<1>2. InStep(DestPos)'
  BY NumbersOK, NextInStep
<1>3. Final' = Final
  BY SameCall
<1> QED BY <1>1, <1>2, <1>3 DEF Carried, Byte

(* Entering an instance: the choice of the loop.                           *)
LEMMA SrcAlignedOK ==
  ASSUME NonEmpty, Inv, SrcAligned
  PROVE  StepOK
<1> DEFINE p == 8 * Dest + DestBit
<1>1. TypeOK /\ AtCursor /\ Numbers /\ SrcBit = 0 /\ DestBit \in 0 .. 7
  BY NumbersOK DEF SrcAligned, Inv, UnalignedInv
<1>2. /\ p \in Nat /\ p >= DestStart /\ p + BitCount = End
      /\ BitCount > 0 => p - DestStart = 8 * Src - SrcStart
  BY <1>1 DEF AtCursor, InStep, DestPos, SrcPos, Byte, Numbers
<1>3. Frontier(p)
  BY <1>1 DEF AtCursor, DestPos, Byte
<1>4. /\ mem' = mem /\ UNCHANGED call
      /\ UNCHANGED <<Dest, DestBit, Src, SrcBit, BitCount>> /\ WordBits' = WordBits
      /\ UNCHANGED <<ShiftCount, RemainingBits>>
      /\ LoopCount' = MiddleWords(BitCount, WordBits)
  BY DEF SrcAligned, cursors
<1>5. LoopCount' \in Int
  BY <1>1, <1>4 DEF MiddleWords, TypeOK, Byte
<1>6. /\ LoopCount' > 0 => BitCount >= WordBits /\ Room'
      /\ LoopCount' <= 0 => (WordBits = 8 => BitCount < 8)
  <2>1. /\ LoopCount' > 0 => /\ WordBits = 8 => BitCount - LoopCount' * 8 \in 0 .. 7
                             /\ WordBits = 64 => BitCount - LoopCount' * 64 \in 64 .. 127
                             /\ BitCount >= WordBits
        /\ LoopCount' <= 0 => (WordBits = 8 => BitCount < 8)
    BY <1>1, <1>4, <1>5, MiddleWordsLeave
  <2>2. LoopCount' > 0 => Room'
    BY <1>1, <1>4, <2>1 DEF Room, Byte, TypeOK
  <2> QED BY <2>1, <2>2
<1>7. StepsTo(p)
  BY <1>1, <1>2, <1>4 DEF StepsTo, Numbers
<1> HIDE DEF p
<1>8. MemType' /\ Keeps /\ Reaches(p)
  BY <1>1, <1>3, <1>4, NoStore
<1>9. AtCursor' /\ SrcBit' = 0 /\ DestBit' \in 0 .. 7
  BY <1>1, <1>4, <1>7, <1>8, NextAtCursor
<1>10. CASE pc' \in {"Tail", "WordCopy"} /\ Touch({}, {}) /\ UNCHANGED Reg
  <2>1. Touches({}, {})
    BY <1>10 DEF Touches, Touch
  <2>2. AccessInBounds' /\ access' \in [src : SUBSET Nat, dest : SUBSET Nat]
    BY <1>1, <1>4, <2>1, NextAccess
  <2>3. TypeOK'
    BY <1>1, <1>4, <1>5, <1>8, <1>10, <2>2 DEF TypeOK, MemType, PcType
  <2>4. CASE pc' = "Tail" /\ LoopCount' <= 0
    <3>1. WordBits' = 8 => BitCount' < 8
      BY <1>4, <1>6, <2>4
    <3>2. Inv'
      BY <1>9, <2>3, <2>4, <3>1
         DEF Inv, EntryInv, AlignedInv, UnalignedInv, OriginalInv, DoneInv, Entries, Byte
    <3> QED BY <1>8, <2>2, <3>2 DEF StepOK
  <2>5. CASE pc' = "WordCopy" /\ LoopCount' > 0 /\ DestBit = 0
    <3>1. DestBit' = 0 /\ Room'
      BY <1>4, <1>6, <2>5
    <3>2. Inv'
      BY <1>9, <2>3, <2>5, <3>1
         DEF Inv, EntryInv, AlignedInv, UnalignedInv, OriginalInv, DoneInv, Entries
    <3> QED BY <1>8, <2>2, <3>2 DEF StepOK
  <2> QED BY <1>10, <2>4, <2>5 DEF SrcAligned
<1>11. CASE /\ LoopCount' > 0 /\ DestBit # 0 /\ pc' = "WordShift"
            /\ Reg' = Drop(Load(mem, Dest, WordBits), HighMask)
            /\ Touch({}, Dest .. Dest + WordBits \div Byte - 1)
  <2>1. BitCount >= WordBits /\ Room' /\ DestBit \in 1 .. 7
    BY <1>1, <1>6, <1>11
  <2>2. Touches({}, Dest .. Dest + WordBits \div 8 - 1)
    <3>1. ASSUME NEW a \in Dest .. Dest + WordBits \div 8 - 1
          PROVE  a \in Nat /\ 8 * a < End /\ 8 * a + 8 > DestStart
      BY <1>1, <1>2, <2>1, WordWidth DEF Numbers, p
    <3> QED BY <1>11, <3>1 DEF Touches, Touch, Byte
  <2>3. AccessInBounds' /\ access' \in [src : SUBSET Nat, dest : SUBSET Nat]
    BY <1>1, <1>4, <2>2, NextAccess
  <2>4. p = 8 * Dest + DestBit /\ p < End
    BY <1>1, <1>2, <2>1, WordWidth DEF p, Numbers
  <2>5. /\ Reg' \in [Positions -> Bit]
        /\ \A k \in Positions : Reg'[k] = IF k < DestBit THEN Final[8 * Dest + k] ELSE Zero
    BY <1>1, <1>3, <1>11, <2>1, <2>4, LoadCarried
  <2>6. TypeOK'
    BY <1>1, <1>4, <1>5, <1>8, <1>11, <2>3, <2>5 DEF TypeOK, MemType, PcType
  <2>7. ASSUME NEW j \in 0 .. DestBits - 1
        PROVE  /\ j < 8 * Dest => mem'[j] = Final[j]
               /\ j \in 8 * Dest .. p - 1 => mem'[j] \in {DestMem[j], Final[j]}
               /\ j >= p => mem'[j] = DestMem[j]
    <3>1. mem'[j] = IF j < p THEN Final[j] ELSE DestMem[j]
      BY <1>8 DEF Reaches
    <3>2. 8 * Dest \in Nat /\ 8 * Dest <= p /\ p \in Nat
      BY <1>1, <2>1, <2>4 DEF Numbers
    <3> QED BY <3>1, <3>2
  <2>8. Carried'
    BY <1>1, <1>2, <1>4, <1>7, <2>1, <2>5, <2>7, NextCarried
  <2>9. Inv'
    BY <1>11, <2>6, <2>8
       DEF Inv, EntryInv, AlignedInv, UnalignedInv, OriginalInv, DoneInv, Entries
  <2> QED BY <1>8, <2>3, <2>9 DEF StepOK
<1> QED BY <1>10, <1>11 DEF SrcAligned

(* After the loop: done, the byte tail, or the byte instance.              *)
LEMMA TailOK ==
  ASSUME NonEmpty, Inv, Tail
  PROVE  StepOK
<1> DEFINE p == 8 * Dest + DestBit
<1>1. /\ TypeOK /\ AtCursor /\ Numbers /\ SrcBit = 0 /\ DestBit \in 0 .. 7
      /\ WordBits = 8 => BitCount < 8
  BY NumbersOK DEF Tail, Inv, UnalignedInv, Byte
<1>2. /\ p \in Nat /\ p >= DestStart /\ p + BitCount = End
      /\ BitCount > 0 => p - DestStart = 8 * Src - SrcStart
  BY <1>1 DEF AtCursor, InStep, DestPos, SrcPos, Byte, Numbers
<1>3. Frontier(p)
  BY <1>1 DEF AtCursor, DestPos, Byte
<1>4. /\ mem' = mem /\ UNCHANGED call /\ Touch({}, {})
      /\ UNCHANGED <<Src, SrcBit, BitCount, LoopCount, ShiftCount, RemainingBits, Reg>>
  BY DEF Tail
<1>5. Dest' = Dest /\ DestBit' = DestBit /\ WordBits' \in {8, 64}
  <2>1. CASE UNCHANGED <<Dest, DestBit, WordBits>>
    BY <1>1, <2>1 DEF TypeOK
  <2>2. CASE Dest' = Dest + DestBit \div Byte /\ DestBit' = DestBit % Byte /\ WordBits' = Byte
    BY <1>1, <2>2 DEF Numbers, Byte
  <2> QED BY <2>1, <2>2 DEF Tail
<1>6. StepsTo(p)
  BY <1>1, <1>2, <1>4, <1>5 DEF StepsTo, Numbers
<1>7. Touches({}, {})
  BY <1>4 DEF Touches, Touch
<1> HIDE DEF p
<1>8. MemType' /\ Keeps /\ Reaches(p)
  BY <1>1, <1>3, <1>4, NoStore
<1>9. AtCursor' /\ SrcBit' = 0 /\ DestBit' \in 0 .. 7
  BY <1>1, <1>4, <1>5, <1>6, <1>8, NextAtCursor
<1>10. AccessInBounds' /\ access' \in [src : SUBSET Nat, dest : SUBSET Nat]
  BY <1>1, <1>4, <1>7, NextAccess
<1>11. pc' \in PcType
  BY DEF Tail, PcType
<1>12. TypeOK'
  BY <1>1, <1>4, <1>5, <1>8, <1>10, <1>11 DEF TypeOK, MemType
<1>13. CASE BitCount = 0 /\ pc' = "Done"
  <2>1. p = End
    BY <1>1, <1>2, <1>13 DEF Numbers
  <2>2. Frontier(End)'
    BY <1>4, <1>8, <2>1, EndAfter
  <2>3. Inv'
    BY <1>12, <1>13, <2>2
       DEF Inv, EntryInv, AlignedInv, UnalignedInv, OriginalInv, DoneInv, Entries
  <2> QED BY <1>8, <1>10, <2>3 DEF StepOK
<1>14. CASE BitCount > 0 /\ WordBits = Byte /\ pc' = "ByteTail"
  <2>1. BitCount' \in 1 .. 7
    BY <1>1, <1>4, <1>14 DEF Numbers, Byte
  <2>2. Inv'
    BY <1>9, <1>12, <1>14, <2>1
       DEF Inv, EntryInv, AlignedInv, UnalignedInv, OriginalInv, DoneInv, Entries
  <2> QED BY <1>8, <1>10, <2>2 DEF StepOK
<1>15. CASE BitCount > 0 /\ WordBits > Byte /\ pc' = "SrcAligned"
  <2>1. Inv'
    BY <1>9, <1>12, <1>15
       DEF Inv, EntryInv, AlignedInv, UnalignedInv, OriginalInv, DoneInv, Entries
  <2> QED BY <1>8, <1>10, <2>1 DEF StepOK
<1> QED BY <1>13, <1>14, <1>15 DEF Tail

(* A loop over words is about to write one from bit p on.                  *)
AtWord(p) ==
  /\ p \in Nat /\ p = 8 * Dest + DestBit /\ p >= DestStart /\ p + BitCount = End
  /\ BitCount > 0 => p - DestStart = 8 * Src - SrcStart
  /\ SrcBit = 0 /\ DestBit \in 0 .. 7
  /\ Room /\ LoopCount > 0

(* The pointers after a word, and what is left.                            *)
LEMMA NextWordOK ==
  ASSUME TypeOK, NonEmpty, NEW p, AtWord(p),
         NEW loop, NEW after, NextWord(loop, after)
  PROVE  /\ p + WordBits \in Nat /\ p + WordBits <= End /\ StepsTo(p + WordBits)
         /\ BitCount >= WordBits
         /\ 8 * Dest' = 8 * Dest + WordBits
         /\ Dest' \in Nat /\ Src' \in Nat /\ BitCount' \in Nat /\ LoopCount' \in Int
         /\ LoopCount' >= 0 /\ Room'
         /\ LoopCount' = 0 /\ WordBits = 8 => BitCount' < 8
         /\ p - DestStart = 8 * Src - SrcStart
         /\ DestBit' = DestBit /\ SrcBit' = 0 /\ WordBits' = WordBits
         /\ UNCHANGED call /\ ShiftCount' = ShiftCount /\ RemainingBits' = RemainingBits
         /\ pc' = IF LoopCount' > 0 THEN loop ELSE after
         /\ AccessInBounds' /\ access' \in [src : SUBSET Nat, dest : SUBSET Nat]
<1>1. /\ Numbers /\ WordBits \in {8, 64}
      /\ p \in Nat /\ p = 8 * Dest + DestBit /\ p >= DestStart /\ p + BitCount = End
      /\ BitCount > 0 => p - DestStart = 8 * Src - SrcStart
      /\ SrcBit = 0 /\ DestBit \in 0 .. 7
      /\ Room /\ LoopCount > 0
  BY NumbersOK DEF TypeOK, AtWord
<1>2. /\ Dest' = Dest + WordBits \div 8 /\ Src' = Src + WordBits \div 8
      /\ BitCount' = BitCount - WordBits /\ LoopCount' = LoopCount - 1
      /\ DestBit' = DestBit /\ SrcBit' = SrcBit /\ WordBits' = WordBits
      /\ UNCHANGED call /\ ShiftCount' = ShiftCount /\ RemainingBits' = RemainingBits
      /\ pc' = IF LoopCount' > 0 THEN loop ELSE after
      /\ access' = [src |-> Src .. Src + WordBits \div 8 - 1,
                    dest |-> Dest .. Dest + WordBits \div 8 - 1]
  BY DEF NextWord, Touch, Byte
<1>3. /\ 8 * Dest' = 8 * Dest + WordBits /\ 8 * Src' = 8 * Src + WordBits
      /\ Dest' \in Nat /\ Src' \in Nat
  BY <1>1, <1>2, WordWidth DEF Numbers
<1>4. /\ WordBits = 8 => BitCount - LoopCount * 8 \in 0 .. 7
      /\ WordBits = 64 => BitCount - LoopCount * 64 \in 64 .. 127
  BY <1>1 DEF Room, Byte
<1>5. BitCount >= WordBits /\ LoopCount' \in Int /\ LoopCount' >= 0 /\ BitCount' \in Nat
  BY <1>1, <1>2, <1>4 DEF Numbers
<1>6. /\ WordBits = 8 => BitCount' - LoopCount' * 8 \in 0 .. 7
      /\ WordBits = 64 => BitCount' - LoopCount' * 64 \in 64 .. 127
  BY <1>1, <1>2, <1>4 DEF Numbers
<1>7. Room'
  BY <1>1, <1>2, <1>6 DEF Room, Byte
<1>8. LoopCount' = 0 /\ WordBits = 8 => BitCount' < 8
  BY <1>5, <1>6
<1>9. p - DestStart = 8 * Src - SrcStart
  BY <1>1, <1>5 DEF Numbers
<1>10. p + WordBits \in Nat /\ p + WordBits <= End
  BY <1>1, <1>5 DEF Numbers
<1>11. StepsTo(p + WordBits)
  <2>1. p + WordBits = 8 * Dest' + DestBit'
    BY <1>1, <1>2, <1>3 DEF Numbers
  <2>2. p + WordBits >= DestStart /\ p + WordBits + BitCount' = End
    BY <1>1, <1>2, <1>5 DEF Numbers
  <2>3. p + WordBits - DestStart = 8 * Src' + SrcBit' - SrcStart
    BY <1>1, <1>2, <1>3, <1>9 DEF Numbers
  <2>4. SrcBit' \in Nat
    BY <1>1, <1>2
  <2> DEFINE q == p + WordBits
  <2>5. /\ q \in Nat /\ q = 8 * Dest' + DestBit' /\ q >= DestStart /\ q + BitCount' = End
        /\ q - DestStart = 8 * Src' + SrcBit' - SrcStart
    BY <1>1, <1>10, <2>1, <2>2, <2>3 DEF Numbers
  <2> HIDE DEF q
  <2>6. StepsTo(q)
    BY <1>3, <1>5, <2>4, <2>5 DEF StepsTo
  <2> QED BY <2>6 DEF q
<1> DEFINE n == WordBits \div 8
<1>n. n \in Nat /\ 8 * n = WordBits /\ Src' = Src + n /\ Dest' = Dest + n
  BY <1>1, <1>2, WordWidth DEF Numbers
<1> HIDE DEF n
<1>12. Touches(Src .. Src + n - 1, Dest .. Dest + n - 1)
  <2>1. ASSUME NEW a \in Src .. Src + n - 1
        PROVE  a \in Nat /\ 8 * a < SrcEnd /\ 8 * a + 8 > SrcStart
    <3>1. 8 * Src + 8 * n <= SrcEnd
      BY <1>1, <1>5, <1>9, <1>n DEF Numbers
    <3>2. 8 * Src + 8 > SrcStart
      BY <1>1, <1>9 DEF Numbers
    <3> QED BY <1>1, <1>n, <3>1, <3>2 DEF Numbers
  <2>2. ASSUME NEW a \in Dest .. Dest + n - 1
        PROVE  a \in Nat /\ 8 * a < End /\ 8 * a + 8 > DestStart
    <3>1. 8 * Dest + 8 * n <= End
      BY <1>1, <1>5, <1>n DEF Numbers
    <3>2. 8 * Dest + 8 > DestStart
      BY <1>1 DEF Numbers
    <3> QED BY <1>1, <1>n, <3>1, <3>2 DEF Numbers
  <2>3. access' = [src |-> Src .. Src + n - 1, dest |-> Dest .. Dest + n - 1]
    BY <1>2 DEF n
  <2> QED BY <2>1, <2>2, <2>3 DEF Touches
<1>13. AccessInBounds' /\ access' \in [src : SUBSET Nat, dest : SUBSET Nat]
  BY <1>1, <1>2, <1>12, NextAccess
<1> QED BY <1>1, <1>2, <1>3, <1>5, <1>7, <1>8, <1>9, <1>10, <1>11, <1>13

(* An iteration of the loop that copies words as they are.                 *)
LEMMA WordCopyOK ==
  ASSUME NonEmpty, Inv, WordCopy
  PROVE  StepOK
<1> DEFINE p == 8 * Dest + DestBit
           word == Load(SrcMem, Src, WordBits)
<1>1. /\ TypeOK /\ AtCursor /\ Numbers /\ SrcBit = 0 /\ DestBit = 0
      /\ LoopCount > 0 /\ Room /\ WordBits \in {8, 64}
  BY NumbersOK DEF WordCopy, Inv, UnalignedInv, TypeOK
<1>2. /\ p \in Nat /\ p >= DestStart /\ p + BitCount = End /\ p = 8 * Dest
      /\ BitCount > 0 => p - DestStart = 8 * Src - SrcStart
  BY <1>1 DEF AtCursor, InStep, DestPos, SrcPos, Byte, Numbers
<1>3. Frontier(p) /\ p = 8 * Dest + DestBit
  BY <1>1 DEF AtCursor, DestPos, Byte
<1>4. mem' = Store(mem, Dest, word, WordBits) /\ Reg' = Reg
      /\ NextWord("WordCopy", "Tail")
  BY DEF WordCopy
<1> HIDE DEF p
<1>5. /\ p + WordBits \in Nat /\ p + WordBits <= End /\ StepsTo(p + WordBits)
      /\ Dest' \in Nat /\ Src' \in Nat /\ BitCount' \in Nat /\ LoopCount' \in Int
      /\ LoopCount' >= 0 /\ Room'
      /\ LoopCount' = 0 /\ WordBits = 8 => BitCount' < 8
      /\ p - DestStart = 8 * Src - SrcStart
      /\ DestBit' = 0 /\ SrcBit' = 0 /\ WordBits' = WordBits
      /\ UNCHANGED call /\ ShiftCount' = ShiftCount /\ RemainingBits' = RemainingBits
      /\ pc' = IF LoopCount' > 0 THEN "WordCopy" ELSE "Tail"
      /\ AccessInBounds' /\ access' \in [src : SUBSET Nat, dest : SUBSET Nat]
  <2>1. AtWord(p)
    BY <1>1, <1>2, <1>3 DEF AtWord
  <2> QED BY <1>1, <1>4, <2>1, NextWordOK
<1> HIDE DEF word
<1>6. /\ mem' = [j \in 0 .. DestBits - 1 |-> mem'[j]]
      /\ \A j \in 0 .. DestBits - 1 :
           mem'[j] = IF j \in 8 * Dest .. 8 * Dest + WordBits - 1 THEN word[j - 8 * Dest] ELSE mem[j]
  <2>1. Dest \in Nat /\ WordBits \in Nat
    BY <1>1 DEF Numbers
  <2> QED BY <1>1, <1>4, <2>1, StoreBits
<1>7. ASSUME NEW j \in 0 .. DestBits - 1
      PROVE  mem'[j] = IF j \in p .. p + WordBits - 1 THEN Final[j] ELSE mem[j]
  <2>1. CASE j \in p .. p + WordBits - 1
    <3>1. Matches(WordBits, j - p, j)
      BY <1>1, <1>2, <1>5, <2>1 DEF Matches, Positions, Numbers
    <3>2. word[j - p] = Want(j)
      BY <1>1, <3>1, SourceBit DEF word
    <3>3. j >= DestStart /\ j < End
      BY <1>1, <1>2, <1>5, <2>1 DEF Numbers
    <3>4. Final[j] = Want(j)
      BY <1>1, <3>3, FinalBit
    <3> QED BY <1>2, <1>6, <2>1, <3>2, <3>4
  <2>2. CASE j \notin p .. p + WordBits - 1
    BY <1>2, <1>6, <2>2
  <2> QED BY <2>1, <2>2
<1>8. MemType' /\ Keeps /\ Reaches(p + WordBits)
  <2>1. p <= p + WordBits /\ \A j \in 0 .. DestBits - 1 :
          mem'[j] = IF j \in p .. (p + WordBits) - 1 THEN Final[j] ELSE mem[j]
    BY <1>1, <1>2, <1>7
  <2>2. p + WordBits \in Nat /\ p \in Nat
    BY <1>2, <1>5
  <2> QED BY <1>1, <1>3, <1>6, <2>1, <2>2, Advance
<1>9. AtCursor'
  BY <1>1, <1>5, <1>8, NextAtCursor
<1>10. TypeOK'
  BY <1>1, <1>4, <1>5, <1>8 DEF TypeOK, MemType, PcType
<1>11. CASE LoopCount' > 0
  <2>1. Inv'
    BY <1>5, <1>9, <1>10, <1>11
       DEF Inv, EntryInv, AlignedInv, UnalignedInv, OriginalInv, DoneInv, Entries
  <2> QED BY <1>5, <1>8, <2>1 DEF StepOK
<1>12. CASE LoopCount' = 0
  <2>1. pc' = "Tail" /\ (WordBits' = 8 => BitCount' < 8)
    BY <1>5, <1>12
  <2>2. Inv'
    BY <1>5, <1>9, <1>10, <2>1
       DEF Inv, EntryInv, AlignedInv, UnalignedInv, OriginalInv, DoneInv, Entries, Byte
  <2> QED BY <1>5, <1>8, <2>2 DEF StepOK
<1> QED BY <1>5, <1>11, <1>12

(* What the invariant says in the shift-word loop.                         *)
LEMMA CarriedFacts ==
  ASSUME TypeOK, NonEmpty, Carried, NEW p, p = 8 * Dest + DestBit
  PROVE  /\ p \in Nat /\ p >= DestStart /\ p + BitCount = End
         /\ BitCount > 0 => p - DestStart = 8 * Src - SrcStart
         /\ SrcBit = 0 /\ DestBit \in 1 .. 7 /\ Room
         /\ \A k \in Positions : Reg[k] = IF k < DestBit THEN Final[8 * Dest + k] ELSE Zero
         /\ \A j \in 0 .. DestBits - 1 :
              /\ j < 8 * Dest => mem[j] = Final[j]
              /\ j \in 8 * Dest .. p - 1 => mem[j] \in {DestMem[j], Final[j]}
              /\ j >= p => mem[j] = DestMem[j]
<1>1. Numbers
  BY NumbersOK
<1>2. DestPos = p
  BY DEF DestPos, Byte
<1>3. InStep(p) /\ SrcBit = 0 /\ DestBit \in 1 .. 7 /\ Room
  BY <1>2 DEF Carried
<1>4. SrcPos = 8 * Src
  BY <1>1, <1>3 DEF SrcPos, Byte, Numbers
<1>5. /\ p \in Nat /\ p >= DestStart /\ p + BitCount = End
      /\ BitCount > 0 => p - DestStart = 8 * Src - SrcStart
  BY <1>1, <1>3, <1>4 DEF InStep, Numbers
<1>6. \A k \in Positions : Reg[k] = IF k < DestBit THEN Final[8 * Dest + k] ELSE Zero
  BY DEF Carried, Byte
<1>7. \A j \in 0 .. DestBits - 1 :
        /\ j < 8 * Dest => mem[j] = Final[j]
        /\ j \in 8 * Dest .. p - 1 => mem[j] \in {DestMem[j], Final[j]}
        /\ j >= p => mem[j] = DestMem[j]
  BY <1>2 DEF Carried, Byte
<1> QED BY <1>3, <1>5, <1>6, <1>7

(* An iteration of the pipelined shift-word loop.                          *)
LEMMA WordShiftOK ==
  ASSUME NonEmpty, Inv, WordShift
  PROVE  StepOK
<1> DEFINE p == 8 * Dest + DestBit
           word == Load(SrcMem, Src, WordBits)
           out == Or(Reg, ShiftLeft(word, DestBit))
<1>1. TypeOK /\ Carried /\ Numbers /\ LoopCount > 0 /\ WordBits \in {8, 64}
  BY NumbersOK DEF WordShift, Inv, UnalignedInv, TypeOK
<1>2. /\ p \in Nat /\ p >= DestStart /\ p + BitCount = End
      /\ BitCount > 0 => p - DestStart = 8 * Src - SrcStart
      /\ SrcBit = 0 /\ DestBit \in 1 .. 7 /\ Room
      /\ \A k \in Positions : Reg[k] = IF k < DestBit THEN Final[8 * Dest + k] ELSE Zero
      /\ \A j \in 0 .. DestBits - 1 :
           /\ j < 8 * Dest => mem[j] = Final[j]
           /\ j \in 8 * Dest .. p - 1 => mem[j] \in {DestMem[j], Final[j]}
           /\ j >= p => mem[j] = DestMem[j]
  BY <1>1, CarriedFacts
<1>3. p = 8 * Dest + DestBit
  OBVIOUS
<1>4. mem' = Store(mem, Dest, out, WordBits) /\ Reg' = ShiftRight(word, WordBits - DestBit)
      /\ NextWord("WordShift", "WordMerge")
  BY DEF WordShift
<1> HIDE DEF p, word, out
<1>5. /\ p + WordBits \in Nat /\ p + WordBits <= End /\ StepsTo(p + WordBits)
      /\ 8 * Dest' = 8 * Dest + WordBits
      /\ Dest' \in Nat /\ Src' \in Nat /\ BitCount' \in Nat /\ LoopCount' \in Int
      /\ LoopCount' >= 0 /\ Room'
      /\ p - DestStart = 8 * Src - SrcStart
      /\ DestBit' = DestBit /\ SrcBit' = 0 /\ WordBits' = WordBits
      /\ UNCHANGED call /\ ShiftCount' = ShiftCount /\ RemainingBits' = RemainingBits
      /\ pc' = IF LoopCount' > 0 THEN "WordShift" ELSE "WordMerge"
      /\ AccessInBounds' /\ access' \in [src : SUBSET Nat, dest : SUBSET Nat]
  <2>1. AtWord(p)
    BY <1>1, <1>2, <1>3 DEF AtWord
  <2> QED BY <1>1, <1>4, <2>1, NextWordOK
<1>6. /\ mem' = [j \in 0 .. DestBits - 1 |-> mem'[j]]
      /\ \A j \in 0 .. DestBits - 1 :
           mem'[j] = IF j \in 8 * Dest .. 8 * Dest + WordBits - 1 THEN out[j - 8 * Dest] ELSE mem[j]
  <2>1. Dest \in Nat /\ WordBits \in Nat
    BY <1>1 DEF Numbers
  <2> QED BY <1>1, <1>4, <2>1, StoreBits
(* The bits of the source word are the next to be written.                 *)
<1>7. ASSUME NEW i \in Positions, i < WordBits
      PROVE  /\ p + i \in 0 .. DestBits - 1
             /\ word[i] = Final[p + i]
  <2>1. /\ p + i \in 0 .. DestBits - 1 /\ p + i >= DestStart /\ p + i < End
        /\ Matches(WordBits, i, p + i)
    BY <1>1, <1>2, <1>5, <1>7 DEF Positions, Matches, Numbers
  <2>2. Final[p + i] = Want(p + i)
    BY <1>1, <2>1, FinalBit
  <2> QED BY <1>1, <2>1, <2>2, SourceBit DEF word
<1>8. ASSUME NEW j \in 0 .. DestBits - 1, j \in 8 * Dest .. 8 * Dest + WordBits - 1
      PROVE  mem'[j] = Final[j]
  <2> DEFINE k == j - 8 * Dest
  <2>1. k \in Positions /\ k < WordBits /\ 8 * Dest + k = j
    BY <1>1, <1>8 DEF Positions, Numbers
  <2>2. mem'[j] = out[k]
    BY <1>6, <1>8
  <2> HIDE DEF k
  <2>3. out[k] = OrBit(Reg[k], ShiftLeft(word, DestBit)[k])
    BY <2>1 DEF out, Or
  <2>4. CASE k < DestBit
    <3>1. Reg[k] = Final[j]
      BY <1>2, <2>1, <2>4
    <3>2. ShiftLeft(word, DestBit)[k] = Zero
      BY <1>2, <2>1, <2>4 DEF ShiftLeft, Positions
    <3> QED BY <2>2, <2>3, <3>1, <3>2 DEF OrBit
  <2>5. CASE k >= DestBit
    <3>1. Reg[k] = Zero
      BY <1>2, <2>1, <2>5 DEF Positions
    <3>2. k - DestBit \in Positions /\ k - DestBit < WordBits /\ p + (k - DestBit) = j
      BY <1>1, <1>2, <1>3, <2>1, <2>5 DEF Positions, Numbers
    <3>3. ShiftLeft(word, DestBit)[k] = word[k - DestBit]
      BY <2>1, <2>5 DEF ShiftLeft
    <3>4. word[k - DestBit] = Final[j]
      BY <1>7, <3>2
    <3> QED BY <2>2, <2>3, <3>1, <3>3, <3>4 DEF OrBit
  <2> QED BY <1>2, <2>1, <2>4, <2>5 DEF Positions
<1>9. ASSUME NEW j \in 0 .. DestBits - 1, j \notin 8 * Dest .. 8 * Dest + WordBits - 1
      PROVE  mem'[j] = mem[j]
  BY <1>6, <1>9
<1>10. MemType'
  <2>1. ASSUME NEW j \in 0 .. DestBits - 1 PROVE mem'[j] \in Bit
    BY <1>1, <1>8, <1>9, FinalBit DEF TypeOK
  <2> QED BY <1>6, <2>1 DEF MemType
<1>11. Keeps
  BY <1>8, <1>9 DEF Keeps
<1>12. ASSUME NEW k \in Positions
       PROVE  /\ Reg'[k] = IF k < DestBit' THEN Final[8 * Dest' + k] ELSE Zero
              /\ Reg'[k] \in Bit
  <2> DEFINE i == k + (WordBits - DestBit)
  <2>1. Reg'[k] = IF i <= 63 THEN word[i] ELSE Zero
    BY <1>4 DEF ShiftRight
  <2>2. CASE k < DestBit
    <3>1. i \in Positions /\ i < WordBits /\ i <= 63
      BY <1>1, <1>2, <2>2 DEF Positions
    <3>2. p + i = 8 * Dest' + k
      <4>1. p + i = 8 * Dest + WordBits + k
        BY <1>1, <1>2, <1>3 DEF Positions, Numbers
      <4> HIDE DEF i
      <4> QED BY <1>5, <4>1
    <3> HIDE DEF i
    <3>3. p + i \in 0 .. DestBits - 1 /\ word[i] = Final[p + i]
      BY <1>7, <3>1
    <3>4. Final[p + i] \in Bit
      BY <1>1, <3>3, FinalBit
    <3> QED BY <1>5, <2>1, <2>2, <3>1, <3>2, <3>3, <3>4
  <2>3. CASE ~(k < DestBit)
    <3>1. i <= 63 => i \in Positions /\ ~(i < WordBits)
      BY <1>1, <1>2, <2>3 DEF Positions
    <3> HIDE DEF i
    <3>2. Reg'[k] = Zero
      BY <2>1, <3>1 DEF word, Load
    <3> QED BY <1>5, <2>3, <3>2, BitAssumption DEF BitAssumption
  <2> QED BY <2>2, <2>3
<1>13. Reg' \in [Positions -> Bit]
  <2>1. Reg' = [k \in Positions |-> Reg'[k]]
    BY <1>4 DEF ShiftRight
  <2> QED BY <1>12, <2>1
<1>14. TypeOK'
  BY <1>1, <1>2, <1>5, <1>10, <1>13 DEF TypeOK, MemType, PcType
<1> DEFINE b == 8 * Dest + WordBits
           q == p + WordBits
<1>b. /\ b \in Nat /\ q \in Nat /\ b = 8 * Dest' /\ p <= b /\ b <= q
      /\ b = 8 * Dest + WordBits /\ StepsTo(q)
  <2>1. b \in Nat /\ p <= b /\ b <= q
    BY <1>1, <1>2, <1>3 DEF Numbers
  <2>2. q \in Nat /\ b = 8 * Dest' /\ StepsTo(q)
    BY <1>5
  <2> QED BY <2>1, <2>2
<1> HIDE DEF b, q
<1>15. ASSUME NEW j \in 0 .. DestBits - 1
       PROVE  /\ j < b => mem'[j] = Final[j]
              /\ j \in b .. q - 1 => mem'[j] \in {DestMem[j], Final[j]}
              /\ j >= q => mem'[j] = DestMem[j]
  <2>1. CASE j < 8 * Dest
    <3>1. j < b /\ ~(j >= b) /\ ~(j >= q) /\ j \notin b .. q - 1
      BY <1>1, <1>b, <2>1 DEF Numbers
    <3>2. mem'[j] = Final[j]
      BY <1>1, <1>2, <1>9, <2>1 DEF Numbers
    <3> QED BY <3>1, <3>2
  <2>2. CASE j \in 8 * Dest .. 8 * Dest + WordBits - 1
    <3>1. j < b /\ ~(j >= b) /\ ~(j >= q) /\ j \notin b .. q - 1
      BY <1>1, <1>b, <2>2 DEF Numbers
    <3> QED BY <1>8, <2>2, <3>1
  <2>3. CASE j >= b
    <3>1. j >= p /\ j \notin 8 * Dest .. 8 * Dest + WordBits - 1 /\ ~(j < b)
      BY <1>1, <1>2, <1>b, <2>3 DEF Numbers
    <3>2. mem'[j] = DestMem[j]
      BY <1>2, <1>9, <3>1
    <3> QED BY <3>1, <3>2
  <2> QED BY <1>1, <1>b, <2>1, <2>2, <2>3 DEF Numbers
<1>16. Carried'
  <2>1. \A j \in 0 .. DestBits - 1 :
          /\ j < 8 * Dest' => mem'[j] = Final[j]
          /\ j \in 8 * Dest' .. q - 1 => mem'[j] \in {DestMem[j], Final[j]}
          /\ j >= q => mem'[j] = DestMem[j]
    BY <1>b, <1>15
  <2>2. \A k \in Positions : Reg'[k] = IF k < DestBit' THEN Final[8 * Dest' + k] ELSE Zero
    BY <1>12
  <2>3. DestBit' \in 1 .. 7
    BY <1>2, <1>5
  <2> QED BY <1>1, <1>5, <1>b, <2>1, <2>2, <2>3, NextCarried
<1>17. CASE LoopCount' > 0
  <2>1. Inv'
    BY <1>5, <1>14, <1>16, <1>17
       DEF Inv, EntryInv, AlignedInv, UnalignedInv, OriginalInv, DoneInv, Entries
  <2> QED BY <1>5, <1>11, <2>1 DEF StepOK
<1>18. CASE LoopCount' = 0
  <2>1. pc' = "WordMerge"
    BY <1>5, <1>18
  <2>2. DestPos' > DestStart'
    <3>1. DestPos' = p + WordBits
      BY <1>5 DEF DestPos, StepsTo, Byte
    <3>2. p + WordBits > DestStart
      BY <1>1, <1>2 DEF Numbers
    <3> QED BY <1>5, <3>1, <3>2, SameCall
  <2>3. Inv'
    BY <1>14, <1>16, <1>18, <2>1, <2>2
       DEF Inv, EntryInv, AlignedInv, UnalignedInv, OriginalInv, DoneInv, Entries
  <2> QED BY <1>5, <1>11, <2>3 DEF StepOK
<1> QED BY <1>5, <1>17, <1>18

(* The carried bits meet the old ones of the word after the loop.          *)
LEMMA WordMergeOK ==
  ASSUME NonEmpty, Inv, WordMerge
  PROVE  StepOK
<1> DEFINE p == 8 * Dest + DestBit
           kept == Keep(Load(mem, Dest, WordBits), HighMask)
           out == Or(kept, Reg)
           n == WordBits \div 8
<1>1. /\ TypeOK /\ Carried /\ Numbers /\ LoopCount = 0 /\ DestPos > DestStart
      /\ WordBits \in {8, 64}
  BY NumbersOK DEF WordMerge, Inv, UnalignedInv, TypeOK
<1>2. /\ p \in Nat /\ p >= DestStart /\ p + BitCount = End
      /\ BitCount > 0 => p - DestStart = 8 * Src - SrcStart
      /\ SrcBit = 0 /\ DestBit \in 1 .. 7 /\ Room
      /\ \A k \in Positions : Reg[k] = IF k < DestBit THEN Final[8 * Dest + k] ELSE Zero
      /\ \A j \in 0 .. DestBits - 1 :
           /\ j < 8 * Dest => mem[j] = Final[j]
           /\ j \in 8 * Dest .. p - 1 => mem[j] \in {DestMem[j], Final[j]}
           /\ j >= p => mem[j] = DestMem[j]
  BY <1>1, CarriedFacts
<1>3. p = 8 * Dest + DestBit /\ p > DestStart
  BY <1>1 DEF DestPos, Byte
<1>4. /\ mem' = Store(mem, Dest, out, WordBits) /\ pc' = "Tail"
      /\ access' = [src |-> {}, dest |-> Dest .. Dest + n - 1]
      /\ UNCHANGED call /\ UNCHANGED <<Dest, DestBit, Src, SrcBit, BitCount>>
      /\ UNCHANGED <<LoopCount, ShiftCount, RemainingBits, Reg>> /\ WordBits' = WordBits
  BY DEF WordMerge, Touch, cursors, locals, Byte
<1>5. n \in Nat /\ 8 * n = WordBits
  BY <1>1, WordWidth
<1> HIDE DEF p, kept, out, n
<1>6. /\ WordBits = 8 => BitCount \in 0 .. 7
      /\ WordBits = 64 => BitCount \in 64 .. 127
  BY <1>1, <1>2 DEF Room, Byte, Numbers
<1>7. /\ mem' = [j \in 0 .. DestBits - 1 |-> mem'[j]]
      /\ \A j \in 0 .. DestBits - 1 :
           mem'[j] = IF j \in 8 * Dest .. 8 * Dest + WordBits - 1 THEN out[j - 8 * Dest] ELSE mem[j]
  <2>1. Dest \in Nat /\ WordBits \in Nat
    BY <1>1 DEF Numbers
  <2> QED BY <1>1, <1>4, <2>1, StoreBits
<1>8. ASSUME NEW j \in 0 .. DestBits - 1
      PROVE  mem'[j] = IF j \in 8 * Dest .. p - 1 THEN Final[j] ELSE mem[j]
  <2>1. CASE j \in 8 * Dest .. 8 * Dest + WordBits - 1
    <3> DEFINE k == j - 8 * Dest
    <3>1. k \in Positions /\ k < WordBits /\ 8 * Dest + k = j
      BY <1>1, <2>1 DEF Positions, Numbers
    <3>2. mem'[j] = out[k]
      BY <1>7, <2>1
    <3>3. k < DestBit <=> j \in 8 * Dest .. p - 1
      BY <1>1, <1>2, <1>3, <2>1 DEF Numbers
    <3>4. k \in HighMask <=> ~(k < DestBit)
      <4>1. k >= DestBit <=> ~(k < DestBit)
        BY <1>2, <3>1 DEF Positions
      <4> HIDE DEF k
      <4> QED BY <1>1, <1>2, <3>1, <4>1 DEF HighMask, Mask, Positions
    <3> HIDE DEF k
    <3>5. out[k] = OrBit(kept[k], Reg[k])
      BY <3>1 DEF out, Or
    <3>6. kept[k] = IF k \in HighMask THEN mem[j] ELSE Zero
      BY <3>1 DEF kept, Keep, Load, Byte
    <3>7. Reg[k] = IF k < DestBit THEN Final[j] ELSE Zero
      BY <1>2, <3>1
    <3> QED BY <3>2, <3>3, <3>4, <3>5, <3>6, <3>7 DEF OrBit
  <2>2. CASE j \notin 8 * Dest .. 8 * Dest + WordBits - 1
    <3>1. j \notin 8 * Dest .. p - 1
      BY <1>1, <1>2, <1>3, <2>2 DEF Numbers
    <3> QED BY <1>7, <2>2, <3>1
  <2> QED BY <2>1, <2>2
<1>9. MemType'
  <2>1. ASSUME NEW j \in 0 .. DestBits - 1 PROVE mem'[j] \in Bit
    BY <1>1, <1>8, FinalBit DEF TypeOK
  <2> QED BY <1>7, <2>1 DEF MemType
<1>10. Keeps
  BY <1>8 DEF Keeps
<1>11. Reaches(p)
  <2>1. ASSUME NEW j \in 0 .. DestBits - 1
        PROVE  mem'[j] = IF j < p THEN Final[j] ELSE DestMem[j]
    <3>1. CASE j < 8 * Dest
      BY <1>1, <1>2, <1>3, <1>8, <3>1 DEF Numbers
    <3>2. CASE j \in 8 * Dest .. p - 1
      BY <1>1, <1>2, <1>8, <3>2 DEF Numbers
    <3>3. CASE j >= p
      BY <1>1, <1>2, <1>8, <3>3 DEF Numbers
    <3> QED BY <1>1, <1>2, <3>1, <3>2, <3>3 DEF Numbers
  <2> QED BY <2>1 DEF Reaches
<1>12. StepsTo(p)
  BY <1>1, <1>2, <1>3, <1>4 DEF StepsTo, Numbers
<1>13. Touches({}, Dest .. Dest + n - 1)
  <2>1. ASSUME NEW a \in Dest .. Dest + n - 1
        PROVE  a \in Nat /\ 8 * a < End /\ 8 * a + 8 > DestStart
    <3>1. a \in Nat /\ a >= Dest /\ 8 * a + 8 <= 8 * Dest + WordBits
      BY <1>1, <1>5 DEF Numbers
    <3>2. 8 * Dest + WordBits <= End + 7 /\ 8 * Dest + 8 > DestStart
      BY <1>1, <1>2, <1>3, <1>6 DEF Numbers
    <3> QED BY <1>1, <3>1, <3>2 DEF Numbers
  <2> QED BY <1>4, <2>1 DEF Touches
<1>14. AccessInBounds' /\ access' \in [src : SUBSET Nat, dest : SUBSET Nat]
  BY <1>1, <1>4, <1>13, NextAccess
<1>15. AtCursor'
  BY <1>1, <1>4, <1>11, <1>12, NextAtCursor
<1>16. TypeOK'
  BY <1>1, <1>4, <1>9, <1>14 DEF TypeOK, MemType, PcType
<1>17. /\ WordBits' = 8 => BitCount' < 8
       /\ SrcBit' = 0 /\ DestBit' \in 0 .. 7
  BY <1>2, <1>4, <1>6
<1>18. Inv'
  BY <1>4, <1>15, <1>16, <1>17
     DEF Inv, EntryInv, AlignedInv, UnalignedInv, OriginalInv, DoneInv, Entries, Byte
<1> QED BY <1>10, <1>14, <1>18 DEF StepOK

(* The last source bits: those that fit in the destination byte.           *)
LEMMA ByteTailOK ==
  ASSUME NonEmpty, Inv, ByteTail
  PROVE  StepOK
<1> DEFINE word == Keep(Load(SrcMem, Src, 8), Mask(0, 8 - BitCount, 8))
           copyBits == Least(BitCount, 8 - DestBit)
           mask == Mask(DestBit, 8 - DestBit - copyBits, 8)
           shifted == ShiftLeft(word, DestBit)
           p == 8 * Dest + DestBit
           q == 8 * Dest + DestBit + copyBits
<1>1. /\ TypeOK /\ AtCursor /\ Numbers
      /\ SrcBit = 0 /\ DestBit \in 0 .. 7 /\ BitCount \in 1 .. 7
  BY NumbersOK DEF ByteTail, Inv, UnalignedInv
<1>2. p >= DestStart /\ p + BitCount = End /\ p - DestStart = 8 * Src - SrcStart
  BY <1>1 DEF AtCursor, InStep, DestPos, SrcPos, Byte, Numbers
<1>3. Frontier(p)
  BY <1>1 DEF AtCursor, DestPos, Byte
<1>4. /\ copyBits \in 1 .. 7 /\ copyBits <= BitCount /\ DestBit + copyBits \in 1 .. 8
      /\ copyBits # BitCount => DestBit + copyBits = 8
  BY <1>1 DEF Least
<1>5. /\ mem' = Store(mem, Dest, Merge(Load(mem, Dest, 8), mask, shifted), 8)
      /\ BitCount' = BitCount - copyBits
      /\ Dest' = Dest + (copyBits + DestBit) \div 8
      /\ DestBit' = (copyBits + DestBit) % 8
      /\ Reg' = ShiftRight(word, copyBits)
      /\ pc' = IF BitCount' > 0 THEN "ByteTailSpill" ELSE "Done"
      /\ access' = [src |-> {Src}, dest |-> {Dest}]
      /\ UNCHANGED call /\ UNCHANGED <<Src, SrcBit, LoopCount, ShiftCount, RemainingBits>>
      /\ WordBits' = WordBits
  BY DEF ByteTail, Touch, Byte
<1>6. ASSUME NEW i \in Positions
      PROVE  word[i] = IF i < BitCount THEN Want(p + i) ELSE Zero
  <2>1. CASE i < BitCount
    <3>1. Matches(8, i, p + i)
      BY <1>1, <1>2, <2>1 DEF Matches, Positions, Numbers
    <3>2. i \in Mask(0, 8 - BitCount, 8)
      BY <1>1, <2>1 DEF Mask, Positions
    <3> QED BY <1>1, <2>1, <3>1, <3>2, SourceBit DEF Keep
  <2>2. CASE ~(i < BitCount)
    <3>1. i \notin Mask(0, 8 - BitCount, 8)
      BY <1>1, <2>2 DEF Mask, Positions
    <3> QED BY <2>2, <3>1 DEF Keep
  <2> QED BY <2>1, <2>2
<1>7. ASSUME NEW k \in 0 .. 7
      PROVE  /\ k \in mask <=> k \in DestBit .. DestBit + copyBits - 1
             /\ k \in mask <=> 8 * Dest + k \in p .. q - 1
  BY <1>1, <1>4 DEF Mask, Numbers
<1> HIDE DEF copyBits, word
<1>8. ASSUME NEW k \in 0 .. 7
      PROVE  shifted[k] = IF k \in mask THEN Want(8 * Dest + k) ELSE Zero
  <2>1. k \in Positions
    BY DEF Positions
  <2>2. CASE k >= DestBit
    <3>1. /\ k - DestBit \in Positions /\ p + (k - DestBit) = 8 * Dest + k
          /\ k - DestBit < BitCount <=> k \in DestBit .. DestBit + copyBits - 1
      BY <1>1, <1>4, <2>2 DEF Positions, Numbers
    <3>2. shifted[k] = word[k - DestBit]
      BY <2>1, <2>2 DEF ShiftLeft
    <3> HIDE DEF mask, p, shifted
    <3> QED BY <1>6, <1>7, <3>1, <3>2
  <2>3. CASE ~(k >= DestBit)
    <3>1. k \notin mask
      BY <1>1, <1>7, <2>3
    <3>2. shifted[k] = Zero
      BY <2>1, <2>3 DEF ShiftLeft
    <3> QED BY <3>1, <3>2
  <2> QED BY <2>2, <2>3
<1>9. word \in [Positions -> Bit]
  <2>1. Src \in Nat /\ 8 * Src < SrcEnd
    BY <1>1, <1>2 DEF Numbers
  <2> QED BY <1>1, <2>1, SourceByteType, WordTypes DEF word
<1>10. Reg' \in [Positions -> Bit]
  <2>1. copyBits \in Nat
    BY <1>4
  <2> QED BY <1>5, <1>9, <2>1, WordTypes
<1>11. q \in Nat /\ 8 * Dest' + DestBit' = q /\ Dest' \in Nat /\ DestBit' \in 0 .. 7
  <2> DEFINE b == copyBits + DestBit
  <2>1. b \in Nat /\ Dest' = Dest + b \div 8 /\ DestBit' = b % 8
    BY <1>1, <1>4, <1>5
  <2>2. q = 8 * Dest + b
    BY <1>1, <1>4 DEF Numbers
  <2> HIDE DEF b, q
  <2> QED BY <1>1, <2>1, <2>2 DEF Numbers
<1>12. /\ p \in Nat /\ 8 * Dest <= p /\ p <= q /\ q = p + copyBits
       /\ q <= 8 * Dest + 8 /\ DestStart <= p /\ q <= End /\ 8 * Dest < End
  BY <1>1, <1>2, <1>4 DEF Numbers
<1>13. Puts(Dest, p, q, mask, shifted)
  <2> HIDE DEF p, q, mask, shifted
  <2> QED BY <1>1, <1>3, <1>5, <1>7, <1>8, <1>11, <1>12 DEF Puts, Numbers
<1>14. Touches({Src}, {Dest})
  BY <1>1, <1>2, <1>5 DEF Touches, Numbers
<1> HIDE DEF mask, shifted, p, q
<1>15. BitCount' \in 0 .. 6 /\ q + BitCount' = End
  BY <1>1, <1>2, <1>4, <1>5, <1>11, <1>12 DEF Numbers
<1>16. ASSUME NEW k \in Positions
       PROVE  Reg'[k] = IF k < BitCount' THEN Want(q + k) ELSE Zero
  <2>1. Reg'[k] = IF k + copyBits <= 63 THEN word[k + copyBits] ELSE Zero
    BY <1>5 DEF ShiftRight
  <2>2. CASE k < BitCount'
    <3>1. /\ k + copyBits \in Positions /\ k + copyBits < BitCount /\ k + copyBits <= 63
          /\ p + (k + copyBits) = q + k
      BY <1>1, <1>4, <1>5, <1>12, <1>15, <2>2 DEF Positions
    <3>2. word[k + copyBits] = Want(p + (k + copyBits))
      BY <1>6, <3>1
    <3> QED BY <2>1, <2>2, <3>1, <3>2
  <2>3. CASE ~(k < BitCount')
    <3>1. k + copyBits <= 63 => k + copyBits \in Positions /\ ~(k + copyBits < BitCount)
      BY <1>1, <1>4, <1>5, <1>15, <2>3 DEF Positions
    <3> QED BY <1>6, <2>1, <2>3, <3>1
  <2> QED BY <2>2, <2>3
<1>17. MemType' /\ Keeps /\ Reaches(q)
  BY <1>1, <1>13, PutBits
<1>18. AccessInBounds' /\ access' \in [src : SUBSET Nat, dest : SUBSET Nat]
  BY <1>1, <1>5, <1>14, NextAccess
<1>19. TypeOK'
  <2>1. BitCount' \in Nat /\ DestBit' \in Nat /\ pc' \in PcType
    BY <1>5, <1>11, <1>15 DEF PcType
  <2> QED BY <1>1, <1>5, <1>10, <1>11, <1>17, <1>18, <2>1 DEF TypeOK, MemType
<1>20. CASE BitCount' = 0
  <2>1. q = End /\ pc' = "Done"
    BY <1>1, <1>5, <1>11, <1>15, <1>20 DEF Numbers
  <2>2. Frontier(End)'
    BY <1>5, <1>17, <2>1, EndAfter
  <2>3. Inv'
    BY <1>19, <2>1, <2>2
       DEF Inv, EntryInv, AlignedInv, UnalignedInv, OriginalInv, DoneInv, Entries
  <2> QED BY <1>17, <1>18, <2>3 DEF StepOK
<1>21. CASE BitCount' > 0
  <2>1. pc' = "ByteTailSpill" /\ DestBit' = 0 /\ BitCount' \in 1 .. 7
    <3>1. copyBits + DestBit = 8
      BY <1>1, <1>4, <1>5, <1>21
    <3> QED BY <1>5, <1>15, <1>21, <3>1
  <2>2. DestPos' = q
    BY <1>11 DEF DestPos, Byte
  <2>3. Frontier(DestPos)'
    BY <1>5, <1>17, <2>2, FrontierAfter
  <2>4. DestPos' >= DestStart' /\ DestPos' + BitCount' = End'
    <3>1. q >= DestStart
      BY <1>1, <1>4, <1>12 DEF Numbers
    <3> QED BY <1>5, <1>15, <2>2, <3>1, SameCall
  <2>5. Holds(BitCount)'
    <3>1. PICK n \in 0 .. 6 : BitCount' = n
      BY <1>15
    <3>2. \A k \in 0 .. n - 1 : k \in Positions /\ k < n
      BY DEF Positions
    <3>3. Will(q, n)
      BY <1>16, <3>1, <3>2 DEF Will
    <3> QED BY <1>5, <2>2, <3>1, <3>3, NextHolds
  <2>6. \A k \in Positions : k >= BitCount' => Reg'[k] = Zero
    BY <1>15, <1>16 DEF Positions
  <2>7. Inv'
    BY <1>19, <2>1, <2>3, <2>4, <2>5, <2>6
       DEF Inv, EntryInv, AlignedInv, UnalignedInv, OriginalInv, DoneInv, Entries
  <2> QED BY <1>17, <1>18, <2>7 DEF StepOK
<1> QED BY <1>15, <1>20, <1>21

(* ... and those that go to the next one.                                  *)
LEMMA ByteTailSpillOK ==
  ASSUME NonEmpty, Inv, ByteTailSpill
  PROVE  StepOK
<1> DEFINE mask == Mask(0, 8 - BitCount, 8)
           p == 8 * Dest
<1>1. /\ TypeOK /\ Numbers
      /\ DestPos >= DestStart /\ DestPos + BitCount = End /\ Frontier(DestPos)
      /\ Holds(BitCount) /\ \A k \in Positions : k >= BitCount => Reg[k] = Zero
      /\ DestBit = 0 /\ BitCount \in 1 .. 7
  BY NumbersOK DEF ByteTailSpill, Inv, UnalignedInv
<1>2. DestPos = p
  BY <1>1 DEF DestPos, Byte, Numbers
<1>3. p >= DestStart /\ p + BitCount = End
  BY <1>1, <1>2
<1>4. /\ mem' = Store(mem, Dest, Merge(Load(mem, Dest, 8), mask, Reg), 8)
      /\ DestBit' = BitCount /\ BitCount' = 0 /\ pc' = "Done"
      /\ access' = [src |-> {}, dest |-> {Dest}]
      /\ UNCHANGED call
      /\ UNCHANGED <<Dest, Src, SrcBit, WordBits, LoopCount, ShiftCount, RemainingBits, Reg>>
  BY DEF ByteTailSpill, Touch, locals, Byte
<1>5. Puts(Dest, p, End, mask, Reg)
  <2>1. \A k \in 0 .. 7 : k \in mask <=> 8 * Dest + k \in p .. End - 1
    BY <1>1, <1>3 DEF Mask, Numbers
  <2>2. ASSUME NEW k \in 0 .. 7
        PROVE  Reg[k] = IF k \in mask THEN Want(8 * Dest + k) ELSE Zero
    <3>1. /\ k \in mask => k \in 0 .. BitCount - 1
          /\ k \notin mask => k >= BitCount
          /\ k \in Positions
      BY <1>1 DEF Mask, Positions
    <3>2. k \in 0 .. BitCount - 1 => Reg[k] = Want(8 * Dest + k)
      BY <1>1, <1>2 DEF Holds
    <3> HIDE DEF mask
    <3> QED BY <1>1, <3>1, <3>2
  <2>3. /\ Dest \in Nat /\ p \in Nat /\ End \in Nat /\ p <= End /\ End <= 8 * Dest + 8
        /\ DestStart <= p /\ 8 * Dest < End
    BY <1>1, <1>3 DEF Numbers
  <2> HIDE DEF p, mask
  <2> QED BY <1>1, <1>2, <1>4, <2>1, <2>2, <2>3 DEF Puts, p, Numbers
<1>6. Touches({}, {Dest})
  BY <1>1, <1>3, <1>4 DEF Touches, Numbers
<1> HIDE DEF mask, p
<1>7. MemType' /\ Keeps /\ Reaches(End)
  BY <1>1, <1>5, PutBits
<1>8. AccessInBounds' /\ access' \in [src : SUBSET Nat, dest : SUBSET Nat]
  BY <1>1, <1>4, <1>6, NextAccess
<1>9. TypeOK'
  BY <1>1, <1>4, <1>7, <1>8 DEF TypeOK, MemType, PcType
<1>10. Frontier(End)'
  BY <1>4, <1>7, EndAfter
<1>11. Inv'
  BY <1>4, <1>9, <1>10 DEF Inv, EntryInv, AlignedInv, UnalignedInv, OriginalInv, DoneInv, Entries
<1> QED BY <1>7, <1>8, <1>11 DEF StepOK

-----------------------------------------------------------------------------
(* OriginalAppBitsCpyImpl.                                                 *)

(* More than one byte: the accumulator.                                    *)

(* `reg` holds, from bit 0 on, what belongs to the destination from bit    *)
(* `base` on, c bits of it; the bits of source byte `at` come next.        *)
Primed(reg, c, base, at) ==
  /\ reg \in [Positions -> Bit]
  /\ c \in Nat /\ base \in Int /\ at \in Nat
  /\ base + c - DestStart = 8 * at - SrcStart
  /\ \A k \in Positions :
       /\ k >= c => reg[k] = Zero
       /\ k < c /\ base + k >= DestStart => reg[k] = Want(base + k)

(* Bit k of source byte `at`.                                              *)
LEMMA SrcByteBit ==
  ASSUME NEW at, NEW k \in Positions
  PROVE  SrcByte(at)[k] = IF k < 8 THEN SrcMem[8 * at + k] ELSE Zero
  BY DEF SrcByte, Load, Byte

(* The first source byte, moved up by n bits.                              *)
LEMMA PrimeByte ==
  ASSUME TypeOK, NonEmpty, NEW at \in Nat, NEW n \in 0 .. 7, NEW base \in Int,
         8 * at < SrcEnd, 8 * at <= SrcStart,
         base + n - DestStart = 8 * at - SrcStart
  PROVE  Primed(ShiftLeft(SrcByte(at), n), n + 8, base, at + 1)
<1> DEFINE reg == ShiftLeft(SrcByte(at), n)
<1>1. Numbers
  BY NumbersOK
<1>2. reg \in [Positions -> Bit]
  <2>1. SrcByte(at) \in [Positions -> Bit]
    BY SourceByteType DEF SrcByte, Byte
  <2>2. n \in Nat
    OBVIOUS
  <2> QED BY <2>1, <2>2, WordTypes
<1>3. ASSUME NEW k \in Positions
      PROVE  /\ k >= n + 8 => reg[k] = Zero
             /\ k < n + 8 /\ base + k >= DestStart => reg[k] = Want(base + k)
  <2>1. CASE k >= n
    <3>1. reg[k] = SrcByte(at)[k - n] /\ k - n \in Positions
      BY <2>1 DEF ShiftLeft, Positions
    <3>2. SrcByte(at)[k - n] = IF k - n < 8 THEN SrcMem[8 * at + (k - n)] ELSE Zero
      BY <3>1, SrcByteBit
    <3>3. k - n < 8 <=> k < n + 8
      BY DEF Positions
    <3>4. 8 * at + (k - n) = SrcStart + ((base + k) - DestStart)
      BY <1>1 DEF Positions, Numbers
    <3>5. k >= n + 8 <=> ~(k < n + 8)
      BY DEF Positions
    <3> QED BY <3>1, <3>2, <3>3, <3>4, <3>5 DEF Want
  <2>2. CASE ~(k >= n)
    <3>1. ~(k >= n + 8) /\ ~(base + k >= DestStart)
      BY <1>1, <2>2 DEF Positions, Numbers
    <3> QED BY <3>1
  <2> QED BY <2>1, <2>2
<1>4. base + (n + 8) - DestStart = 8 * (at + 1) - SrcStart /\ n + 8 \in Nat /\ at + 1 \in Nat
  BY <1>1 DEF Numbers
<1> HIDE DEF reg
<1>5. Primed(reg, n + 8, base, at + 1)
  BY <1>2, <1>3, <1>4 DEF Primed
<1> QED BY <1>5 DEF reg

(* Feeding a source byte moves the accumulator on by a byte.               *)
LEMMA FeedByte ==
  ASSUME TypeOK, NonEmpty, NEW reg, NEW c \in 8 .. 15, NEW base, NEW at,
         Primed(reg, c, base, at), 8 * at < SrcEnd
  PROVE  Primed(Feed(reg, at, c), c, base + 8, at + 1)
<1> DEFINE sum == Or(ShiftLeft(SrcByte(at), c), reg)
           fed == Feed(reg, at, c)
<1>1. /\ Numbers /\ at \in Nat /\ base \in Int /\ reg \in [Positions -> Bit]
      /\ base + c - DestStart = 8 * at - SrcStart
      /\ \A k \in Positions :
           /\ k >= c => reg[k] = Zero
           /\ k < c /\ base + k >= DestStart => reg[k] = Want(base + k)
  BY NumbersOK DEF Primed
<1>2. SrcByte(at) \in [Positions -> Bit]
  BY <1>1, SourceByteType DEF SrcByte, Byte
<1>3. ASSUME NEW k \in Positions
      PROVE  sum[k] = IF k < c THEN reg[k]
                      ELSE IF k < c + 8 THEN SrcMem[8 * at + (k - c)] ELSE Zero
  <2>1. sum[k] = OrBit(ShiftLeft(SrcByte(at), c)[k], reg[k])
    BY DEF Or
  <2>2. CASE k < c
    <3>1. ~(k >= c)
      BY <2>2 DEF Positions
    <3> QED BY <2>1, <2>2, <3>1 DEF ShiftLeft, OrBit
  <2>3. CASE k >= c
    <3>1. /\ ~(k < c) /\ k - c \in Positions
          /\ k - c < 8 <=> k < c + 8
      BY <2>3 DEF Positions
    <3>2. ShiftLeft(SrcByte(at), c)[k] = SrcByte(at)[k - c]
      BY <2>3 DEF ShiftLeft
    <3>3. SrcByte(at)[k - c] = IF k - c < 8 THEN SrcMem[8 * at + (k - c)] ELSE Zero
      BY <3>1, SrcByteBit
    <3>4. reg[k] = Zero
      BY <1>1, <2>3
    <3> QED BY <2>1, <3>1, <3>2, <3>3, <3>4 DEF OrBit
  <2> QED BY <2>2, <2>3 DEF Positions
<1> HIDE DEF sum
<1>4. ASSUME NEW k \in Positions
      PROVE  fed[k] = IF k < c THEN sum[k + 8] ELSE Zero
  <2>1. fed[k] = IF k + 8 <= 63 THEN Narrow(sum, 32)[k + 8] ELSE Zero
    BY DEF Feed, ShiftRight, Byte, Accu, sum
  <2>2. CASE k < c
    <3>1. k + 8 <= 63 /\ k + 8 \in Positions /\ k + 8 \in 0 .. 32 - 1
      BY <2>2 DEF Positions
    <3>2. Narrow(sum, 32)[k + 8] = sum[k + 8]
      BY <3>1 DEF Narrow, Keep
    <3> QED BY <2>1, <2>2, <3>1, <3>2
  <2>3. CASE ~(k < c)
    <3>1. k + 8 <= 63 => k + 8 \in Positions /\ ~(k + 8 < c) /\ ~(k + 8 < c + 8)
      BY <2>3 DEF Positions
    <3>2. k + 8 <= 63 => sum[k + 8] = Zero
      BY <1>3, <3>1
    <3>3. k + 8 <= 63 => Narrow(sum, 32)[k + 8] = Zero
      BY <3>1, <3>2 DEF Narrow, Keep
    <3> QED BY <2>1, <2>3, <3>3
  <2> QED BY <2>2, <2>3
<1>5. fed \in [Positions -> Bit]
  <2>1. ASSUME NEW k \in Positions PROVE fed[k] \in Bit
    <3>1. CASE k < c
      <4>1. k + 8 \in Positions
        BY <3>1 DEF Positions
      <4>2. CASE k + 8 < c
        BY <1>1, <1>3, <1>4, <3>1, <4>1, <4>2
      <4>3. CASE ~(k + 8 < c)
        <5>1. (k + 8) - c \in Positions /\ (k + 8) - c < 8 /\ k + 8 < c + 8
          BY <3>1, <4>3 DEF Positions
        <5>2. SrcByte(at)[(k + 8) - c] = SrcMem[8 * at + ((k + 8) - c)]
          BY <5>1, SrcByteBit
        <5> QED BY <1>2, <1>3, <1>4, <3>1, <4>1, <4>3, <5>1, <5>2
      <4> QED BY <4>2, <4>3
    <3>2. CASE ~(k < c)
      BY <1>4, <3>2, BitAssumption DEF BitAssumption
    <3> QED BY <3>1, <3>2
  <2>2. fed = [k \in Positions |-> fed[k]]
    BY DEF Feed, ShiftRight
  <2> QED BY <2>1, <2>2
<1> HIDE DEF fed
<1>6. ASSUME NEW k \in Positions
      PROVE  /\ k >= c => fed[k] = Zero
             /\ k < c /\ (base + 8) + k >= DestStart => fed[k] = Want((base + 8) + k)
  <2>1. k >= c => ~(k < c)
    BY DEF Positions
  <2>2. ASSUME k < c, (base + 8) + k >= DestStart
        PROVE  fed[k] = Want((base + 8) + k)
    <3>1. k + 8 \in Positions /\ base + (k + 8) = (base + 8) + k
      BY <1>1, <2>2 DEF Positions
    <3>2. CASE k + 8 < c
      BY <1>1, <1>3, <1>4, <2>2, <3>1, <3>2
    <3>3. CASE ~(k + 8 < c)
      <4>1. k + 8 < c + 8
        BY <2>2 DEF Positions
      <4>2. 8 * at + ((k + 8) - c) = SrcStart + (((base + 8) + k) - DestStart)
        BY <1>1 DEF Positions, Numbers
      <4> QED BY <1>3, <1>4, <2>2, <3>1, <3>3, <4>1, <4>2 DEF Want
    <3> QED BY <3>2, <3>3
  <2> QED BY <1>4, <2>1, <2>2
<1>7. (base + 8) + c - DestStart = 8 * (at + 1) - SrcStart /\ base + 8 \in Int /\ at + 1 \in Nat
  BY <1>1 DEF Numbers
<1>8. Primed(fed, c, base + 8, at + 1)
  BY <1>5, <1>6, <1>7 DEF Primed
<1> QED BY <1>8 DEF fed

(* The accumulator of the invariant.                                       *)
LEMMA AccumulatedIs ==
  ASSUME TypeOK, NonEmpty
  PROVE  Accumulated <=> /\ Dest >= 1 /\ 8 * Dest > DestStart
                         /\ Primed(Reg, ShiftCount, 8 * Dest - 8, Src)
<1>1. Numbers /\ Reg \in [Positions -> Bit]
  BY NumbersOK DEF TypeOK
<1>2. 8 * (Dest - 1) = 8 * Dest - 8 /\ 8 * Dest - 8 \in Int
  BY <1>1 DEF Numbers
<1>3. ShiftCount \in Nat /\ Src \in Nat
  BY <1>1 DEF Numbers
<1> QED BY <1>1, <1>2, <1>3 DEF Accumulated, Primed, Byte

(* The accumulator after a step.                                           *)
LEMMA NextAccumulated ==
  ASSUME Numbers, UNCHANGED call, NEW base, Primed(Reg', ShiftCount', base, Src'),
         Dest' \in Nat, 8 * Dest' = base + 8, base + 8 > DestStart, Dest' >= 1
  PROVE  Accumulated'
<1>1. DestStart' = DestStart /\ SrcStart' = SrcStart
  BY SameCall
<1>2. /\ base \in Int /\ base + ShiftCount' - DestStart = 8 * Src' - SrcStart
      /\ \A k \in Positions :
           /\ k >= ShiftCount' => Reg'[k] = Zero
           /\ k < ShiftCount' /\ base + k >= DestStart => Reg'[k] = Want(base + k)
  BY DEF Primed
<1>3. 8 * (Dest' - 1) = base
  <2>1. PICK m \in Nat : Dest' = m
    OBVIOUS
  <2>2. 8 * m = base + 8 /\ base \in Int
    BY <1>2, <2>1
  <2>3. 8 * (m - 1) = base
    BY <2>2
  <2> QED BY <2>1, <2>3
<1>4. 8 * Dest' > DestStart'
  BY <1>1
<1>5. 8 * (Dest' - 1) + ShiftCount' - DestStart' = 8 * Src' - SrcStart'
  BY <1>1, <1>2, <1>3
<1>6. ASSUME NEW k \in Positions
      PROVE  /\ k >= ShiftCount' => Reg'[k] = Zero
             /\ k < ShiftCount' /\ 8 * (Dest' - 1) + k >= DestStart'
                  => Reg'[k] = SrcMem[SrcStart' + ((8 * (Dest' - 1) + k) - DestStart')]
  BY <1>1, <1>2, <1>3 DEF Want
<1> QED BY <1>4, <1>5, <1>6 DEF Accumulated, Want, Byte

(* The original's cursor counts bytes: what is final up to q is final up   *)
(* to its byte, when q is where that begins.                               *)
LEMMA FrontierAtDest ==
  ASSUME UNCHANGED call, NEW q, Reaches(q), 8 * Dest' = q
  PROVE  Frontier(Byte * Dest)'
  BY SameCall DEF Reaches, Frontier, Byte

(* On entry the destination is untouched.                                  *)
LEMMA UntouchedFrontier ==
  ASSUME TypeOK, NonEmpty, Untouched
  PROVE  Frontier(DestStart)
<1>1. \A j \in 0 .. DestBits - 1 : j < DestStart => Final[j] = DestMem[j]
  BY FinalBit
<1> QED BY <1>1 DEF Untouched, Frontier

(* Two ranges of n bits that start at bits d and s of bytes di and si and  *)
(* end before bits de and se.                                              *)
Ranges(di, d, de, si, s, se, n) ==
  /\ di \in Nat /\ si \in Nat /\ d \in 0 .. 7 /\ s \in 0 .. 7 /\ n \in Nat
  /\ de = 8 * di + d + n /\ se = 8 * si + s + n

(* The loop count the code computes is that of the whole bytes of the      *)
(* destination after the first.                                            *)
LEMMA FullLoopIs ==
  ASSUME NEW di, NEW d, NEW de, NEW si, NEW s, NEW se, NEW n,
         Ranges(di, d, de, si, s, se, n), n > 8
  PROVE  LET e == de \div 8
         IN /\ e \in Int /\ e - di \in Nat \ {0}
            /\ FullLoop(e - di, se \div 8 - si, d - s) = e - di
<1> DEFINE a == de \div 8
           b == se \div 8
<1>1. /\ di \in Nat /\ si \in Nat /\ d \in 0 .. 7 /\ s \in 0 .. 7 /\ n \in Nat
      /\ de \in Nat /\ se \in Nat /\ de = 8 * di + d + n /\ se = 8 * si + s + n
  BY DEF Ranges
<1>2. /\ a \in Int /\ 8 * a <= de /\ de < 8 * a + 8
      /\ b \in Int /\ 8 * b <= se /\ se < 8 * b + 8
  BY <1>1
<1> HIDE DEF a, b
<1>3. a - di >= 1 /\ a - di \in Nat \ {0}
  BY <1>1, <1>2
<1>4. /\ d - s >= 0 => b - si <= a - di
      /\ ~(d - s >= 0) => b - si - 1 <= a - di
  BY <1>1, <1>2
<1>5. FullLoop(a - di, b - si, d - s) = a - di
  <2>1. CASE d - s >= 0
    BY <1>1, <1>2, <1>4, <2>1 DEF FullLoop, Greatest
  <2>2. CASE ~(d - s >= 0)
    BY <1>1, <1>2, <1>4, <2>2 DEF FullLoop, Greatest
  <2> QED BY <2>1, <2>2
<1> QED BY <1>2, <1>3, <1>5 DEF a, b

(* The first store, and the accumulator for the following ones.            *)
LEMMA OriginalHeadOK ==
  ASSUME NonEmpty, Inv, OriginalHead
  PROVE  StepOK
<1> DEFINE di == DestBit \div 8
           si == SrcBit \div 8
           d == DestBit % 8
           s == SrcBit % 8
           up == d - s >= 0
           lastRead == IF up THEN si ELSE si + 1
           bitAccu == IF up THEN ShiftLeft(SrcByte(si), d - s)
                      ELSE Feed(ShiftLeft(SrcByte(si), (d - s) + 8), lastRead, (d - s) + 16)
           c == IF up THEN (d - s) + 8 ELSE (d - s) + 16
           q == 8 * di + 8
           mask == Ones(d)
           word == Keep(bitAccu, mask)
<1>1. TypeOK /\ Numbers /\ Untouched /\ BitCount > 8
  BY NumbersOK DEF OriginalHead, Inv, EntryInv, Byte
<1>2. /\ DestBit = DestStart /\ SrcBit = SrcStart /\ BitCount = call.bitCount
      /\ BitCount = End - DestStart /\ BitCount = SrcEnd - SrcStart /\ WordBits = 64
  <2>1. DestBit = DestStart /\ SrcBit = SrcStart /\ BitCount = call.bitCount /\ WordBits = 64
    BY <1>1 DEF Untouched
  <2>2. DestStart + BitCount = End /\ SrcStart + BitCount = SrcEnd
    BY <2>1 DEF End, SrcEnd, DestStart, SrcStart
  <2> QED BY <1>1, <2>1, <2>2 DEF Numbers
<1>3. /\ di \in Nat /\ si \in Nat /\ d \in 0 .. 7 /\ s \in 0 .. 7
      /\ DestStart = 8 * di + d /\ SrcStart = 8 * si + s
  <2>1. DestBit \in Nat /\ SrcBit \in Nat
    BY <1>1 DEF Numbers
  <2>2. /\ di \in Nat /\ si \in Nat /\ d \in 0 .. 7 /\ s \in 0 .. 7
        /\ DestBit = 8 * di + d /\ SrcBit = 8 * si + s
    BY <2>1
  <2> QED BY <1>2, <2>2
<1>4. /\ mem' = Store(mem, di, Merge(Load(mem, di, 8), mask, word), 8)
      /\ Reg' = bitAccu
      /\ LoopCount' = FullLoop((DestBit + BitCount) \div 8 - di, (SrcBit + BitCount) \div 8 - si, d - s)
      /\ ShiftCount' = c
      /\ Dest' = di + 1 /\ Src' = lastRead + 1
      /\ access' = [src |-> si .. lastRead, dest |-> {di}]
      /\ pc' = "OriginalLoop"
      /\ UNCHANGED call /\ UNCHANGED <<DestBit, SrcBit, BitCount, RemainingBits>> /\ WordBits' = WordBits
  BY DEF OriginalHead, PutByte, Touch, Byte
<1> HIDE DEF di, si, d, s
<1>5. /\ lastRead \in Nat /\ si <= lastRead /\ 8 * lastRead < SrcEnd /\ c \in 8 .. 15
      /\ lastRead <= si + 1
  BY <1>1, <1>2, <1>3 DEF Numbers
<1>6. Primed(bitAccu, c, 8 * di, lastRead + 1)
  <2>1. 8 * si < SrcEnd /\ 8 * si <= SrcStart
    BY <1>1, <1>2, <1>3 DEF Numbers
  <2>2. CASE up
    <3> DEFINE n == d - s
    <3>1. /\ n \in 0 .. 7 /\ 8 * di \in Int /\ 8 * di + n - DestStart = 8 * si - SrcStart
          /\ c = n + 8
      BY <1>1, <1>3, <2>2 DEF Numbers
    <3> HIDE DEF n
    <3>2. Primed(ShiftLeft(SrcByte(si), n), n + 8, 8 * di, si + 1)
      BY <1>1, <1>3, <2>1, <3>1, PrimeByte
    <3> QED BY <2>2, <3>1, <3>2 DEF n
  <2>3. CASE ~up
    <3> DEFINE n == (d - s) + 8
               base == 8 * di - 8
               first == ShiftLeft(SrcByte(si), n)
    <3>1. /\ n \in 0 .. 7 /\ base \in Int /\ base + n - DestStart = 8 * si - SrcStart
          /\ base + 8 = 8 * di /\ n + 8 \in 8 .. 15 /\ (d - s) + 16 = n + 8
      BY <1>1, <1>3, <2>3 DEF Numbers
    <3> HIDE DEF n, base
    <3>2. Primed(first, n + 8, base, si + 1)
      BY <1>1, <1>3, <2>1, <3>1, PrimeByte
    <3> HIDE DEF first
    <3>3. 8 * (si + 1) < SrcEnd
      BY <1>5, <2>3
    <3>4. Primed(Feed(first, si + 1, n + 8), n + 8, base + 8, (si + 1) + 1)
      BY <1>1, <3>1, <3>2, <3>3, FeedByte
    <3> QED BY <2>3, <3>1, <3>4 DEF n, first
  <2> QED BY <2>2, <2>3
<1> HIDE DEF bitAccu, c, lastRead
<1>7. LoopCount' \in Nat \ {0} /\ di + LoopCount' = End \div 8
  <2> DEFINE de == DestBit + BitCount
             se == SrcBit + BitCount
             e == de \div 8
  <2>1. Ranges(di, d, de, si, s, se, BitCount) /\ BitCount > 8 /\ de = End
    BY <1>1, <1>2, <1>3 DEF Ranges, Numbers
  <2>2. LoopCount' = FullLoop(e - di, se \div 8 - si, d - s)
    BY <1>4
  <2> HIDE DEF de, se
  <2>3. /\ e \in Int /\ e - di \in Nat \ {0}
        /\ FullLoop(e - di, se \div 8 - si, d - s) = e - di
    BY <2>1, FullLoopIs
  <2>4. e = End \div 8
    BY <2>1
  <2> HIDE DEF e
  <2>5. LoopCount' = e - di
    BY <2>2, <2>3
  <2> QED BY <1>3, <2>3, <2>4, <2>5
<1>8. Puts(di, DestStart, q, mask, word)
  <2>1. \A k \in 0 .. 7 : k \in mask <=> 8 * di + k \in DestStart .. q - 1
    BY <1>3 DEF Ones, Byte
  <2>2. ASSUME NEW k \in 0 .. 7
        PROVE  word[k] = IF k \in mask THEN Want(8 * di + k) ELSE Zero
    <3>1. k \in Positions
      BY DEF Positions
    <3>2. ASSUME k \in mask PROVE bitAccu[k] = Want(8 * di + k)
      <4>1. k < c /\ 8 * di + k >= DestStart
        BY <1>3, <1>5, <2>1, <3>2
      <4> QED BY <1>6, <3>1, <4>1 DEF Primed
    <3> HIDE DEF mask
    <3> QED BY <3>1, <3>2 DEF Keep
  <2>3. /\ di \in Nat /\ DestStart \in Nat /\ q \in Nat
        /\ 8 * di <= DestStart /\ DestStart <= q /\ q <= 8 * di + 8 /\ q <= End /\ 8 * di < End
    BY <1>1, <1>2, <1>3 DEF Numbers
  <2>4. Frontier(DestStart) /\ DestStart <= DestStart
    BY <1>1, <2>3, UntouchedFrontier
  <2> HIDE DEF q, mask, word
  <2> QED BY <1>4, <2>1, <2>2, <2>3, <2>4 DEF Puts
<1>9. Touches(si .. lastRead, {di})
  <2>1. ASSUME NEW a \in si .. lastRead
        PROVE  a \in Nat /\ 8 * a < SrcEnd /\ 8 * a + 8 > SrcStart
    <3>1. a \in Nat /\ a >= si /\ a <= lastRead
      BY <1>3, <1>5
    <3> QED BY <1>1, <1>3, <1>5, <3>1 DEF Numbers
  <2>2. di \in Nat /\ 8 * di < End /\ 8 * di + 8 > DestStart
    BY <1>1, <1>2, <1>3 DEF Numbers
  <2> QED BY <1>4, <2>1, <2>2 DEF Touches
<1>10. 8 * Dest' = q /\ Dest' \in Nat /\ Dest' >= 1 /\ q > DestStart /\ q = 8 * di + 8
  BY <1>3, <1>4
<1> HIDE DEF q, mask, word
<1>11. MemType' /\ Keeps /\ Reaches(q)
  BY <1>1, <1>8, PutBits
<1>12. AccessInBounds' /\ access' \in [src : SUBSET Nat, dest : SUBSET Nat]
  BY <1>1, <1>4, <1>9, NextAccess
<1>13. Accumulated'
  <2>1. Primed(Reg', ShiftCount', 8 * di, Src')
    BY <1>4, <1>6
  <2> QED BY <1>1, <1>4, <1>10, <2>1, NextAccumulated
<1>14. TypeOK'
  <2>1. Reg' \in [Positions -> Bit]
    BY <1>4, <1>6 DEF Primed
  <2>2. ShiftCount' \in Nat /\ Src' \in Nat /\ LoopCount' \in Int
    BY <1>4, <1>5, <1>7
  <2>3. pc' \in PcType /\ WordBits' \in {8, 64}
    BY <1>2, <1>4 DEF PcType
  <2>4. DestBit' \in Nat /\ SrcBit' \in Nat /\ BitCount' \in Nat /\ RemainingBits' \in Nat
    BY <1>1, <1>4 DEF TypeOK
  <2> QED BY <1>1, <1>4, <1>10, <1>11, <1>12, <2>1, <2>2, <2>3, <2>4, NextType
<1>15. Frontier(Byte * Dest)'
  BY <1>4, <1>10, <1>11, FrontierAtDest
<1>16. Dest' + LoopCount' - 1 = End' \div 8
  <2>1. End' = End
    BY <1>4, SameCall
  <2>2. Dest' + LoopCount' - 1 = di + LoopCount'
    BY <1>3, <1>4, <1>7
  <2> QED BY <1>7, <2>1, <2>2
<1>17. /\ DestBit' = DestStart' /\ SrcBit' = SrcStart' /\ BitCount' = call'.bitCount
       /\ BitCount' > 8 /\ ShiftCount' \in 8 .. 15 /\ LoopCount' >= 1
  <2>1. DestBit' = DestStart' /\ SrcBit' = SrcStart' /\ BitCount' = call'.bitCount
    BY <1>2, <1>4, SameCall
  <2>2. BitCount' > 8 /\ ShiftCount' \in 8 .. 15
    BY <1>1, <1>4, <1>5
  <2>3. LoopCount' >= 1
    BY <1>7
  <2> QED BY <2>1, <2>2, <2>3
<1>18. Inv'
  BY <1>4, <1>13, <1>14, <1>15, <1>16, <1>17
     DEF Inv, EntryInv, AlignedInv, UnalignedInv, OriginalInv, DoneInv, Entries, Byte
<1> QED BY <1>11, <1>12, <1>18 DEF StepOK

(* What the invariant says when the loop goes on or ends.                  *)
LEMMA LoopFacts ==
  ASSUME NonEmpty, Inv, pc = "OriginalLoop"
  PROVE  /\ TypeOK /\ Numbers
         /\ DestBit = DestStart /\ SrcBit = SrcStart /\ BitCount = call.bitCount
         /\ DestBit + BitCount = End /\ SrcBit + BitCount = SrcEnd
         /\ BitCount > 8 /\ ShiftCount \in 8 .. 15 /\ LoopCount >= 1
         /\ Dest + LoopCount - 1 = End \div 8
         /\ Frontier(8 * Dest)
         /\ Dest >= 1 /\ 8 * Dest > DestStart
         /\ Primed(Reg, ShiftCount, 8 * Dest - 8, Src)
         /\ 8 * Dest - 8 + ShiftCount - DestStart = 8 * Src - SrcStart
<1>1. TypeOK /\ Numbers
  BY NumbersOK DEF Inv
<1>2. /\ DestBit = DestStart /\ SrcBit = SrcStart /\ BitCount = call.bitCount
      /\ BitCount > 8 /\ ShiftCount \in 8 .. 15 /\ LoopCount >= 1
      /\ Dest + LoopCount - 1 = End \div 8
      /\ Frontier(8 * Dest) /\ Accumulated
  BY DEF Inv, OriginalInv, Byte
<1>3. DestBit + BitCount = End /\ SrcBit + BitCount = SrcEnd
  BY <1>2 DEF End, SrcEnd, DestStart, SrcStart
<1>4. Dest >= 1 /\ 8 * Dest > DestStart /\ Primed(Reg, ShiftCount, 8 * Dest - 8, Src)
  BY <1>1, <1>2, AccumulatedIs
<1>5. 8 * Dest - 8 + ShiftCount - DestStart = 8 * Src - SrcStart
  BY <1>4 DEF Primed
<1> QED BY <1>1, <1>2, <1>3, <1>4, <1>5

(* A whole byte of the destination.                                        *)
LEMMA OriginalLoopOK ==
  ASSUME NonEmpty, Inv, OriginalLoop
  PROVE  StepOK
<1> DEFINE p == 8 * Dest
           q == 8 * Dest + 8
           fed == Feed(Reg, Src, ShiftCount)
<1>1. /\ TypeOK /\ Numbers
      /\ DestBit = DestStart /\ SrcBit = SrcStart /\ BitCount = call.bitCount
      /\ DestBit + BitCount = End /\ SrcBit + BitCount = SrcEnd
      /\ BitCount > 8 /\ ShiftCount \in 8 .. 15
      /\ Dest + LoopCount - 1 = End \div 8
      /\ Frontier(p)
      /\ Dest >= 1 /\ p > DestStart
      /\ Primed(Reg, ShiftCount, 8 * Dest - 8, Src)
      /\ 8 * Dest - 8 + ShiftCount - DestStart = 8 * Src - SrcStart
  BY LoopFacts DEF OriginalLoop
<1>2. /\ Reg' = fed /\ mem' = Store(mem, Dest, fed, 8)
      /\ access' = [src |-> {Src}, dest |-> {Dest}]
      /\ Src' = Src + 1 /\ Dest' = Dest + 1 /\ LoopCount' = LoopCount - 1
      /\ pc' = "OriginalLoop" /\ LoopCount > 1
      /\ UNCHANGED call /\ UNCHANGED <<DestBit, SrcBit, BitCount, ShiftCount, RemainingBits>>
      /\ WordBits' = WordBits
  BY DEF OriginalLoop, Touch, Byte
<1>3. q <= End
  <2>1. Dest + 1 <= End \div 8
    <3> DEFINE e == End \div 8
    <3>1. e \in Int /\ Dest + LoopCount - 1 = e
      BY <1>1 DEF Numbers
    <3> HIDE DEF e
    <3>2. Dest + 1 <= e
      BY <1>1, <1>2, <3>1 DEF Numbers
    <3> QED BY <3>2 DEF e
  <2> QED BY <1>1, <2>1 DEF Numbers
<1>4. p \in Nat /\ q \in Nat /\ p <= q /\ q = p + 8
  BY <1>1 DEF Numbers
<1>5. 8 * Src < SrcEnd /\ 8 * Src + 8 > SrcStart
  BY <1>1, <1>3 DEF Numbers
<1>6. Primed(fed, ShiftCount, p, Src + 1)
  <2>1. 8 * Dest - 8 + 8 = p
    BY <1>1 DEF Numbers
  <2>2. Primed(fed, ShiftCount, 8 * Dest - 8 + 8, Src + 1)
    BY <1>1, <1>5, FeedByte
  <2> QED BY <2>1, <2>2
<1>7. Touches({Src}, {Dest})
  BY <1>1, <1>2, <1>3, <1>5 DEF Touches, Numbers
<1> HIDE DEF fed
<1>8. /\ mem' = [j \in 0 .. DestBits - 1 |-> mem'[j]]
      /\ \A j \in 0 .. DestBits - 1 :
           mem'[j] = IF j \in 8 * Dest .. 8 * Dest + 8 - 1 THEN fed[j - 8 * Dest] ELSE mem[j]
  <2> DEFINE w == 8
  <2>1. Dest \in Nat /\ w \in Nat /\ mem' = Store(mem, Dest, fed, w)
    BY <1>1, <1>2 DEF Numbers
  <2> HIDE DEF w
  <2>2. /\ mem' = [j \in 0 .. DestBits - 1 |-> mem'[j]]
        /\ \A j \in 0 .. DestBits - 1 :
             mem'[j] = IF j \in 8 * Dest .. 8 * Dest + w - 1 THEN fed[j - 8 * Dest] ELSE mem[j]
    BY <1>1, <2>1, StoreBits
  <2> QED BY <2>2 DEF w
<1>9. ASSUME NEW j \in 0 .. DestBits - 1
      PROVE  mem'[j] = IF j \in p .. q - 1 THEN Final[j] ELSE mem[j]
  <2>1. CASE j \in p .. q - 1
    <3> DEFINE k == j - 8 * Dest
    <3>1. /\ k \in Positions /\ k < ShiftCount /\ p + k = j
          /\ j \in 8 * Dest .. 8 * Dest + 8 - 1
          /\ j >= DestStart /\ j < End
      BY <1>1, <1>3, <1>4, <2>1 DEF Positions, Numbers
    <3>2. mem'[j] = fed[k]
      BY <1>8, <3>1
    <3> HIDE DEF k
    <3>3. fed[k] = Want(j)
      BY <1>6, <3>1 DEF Primed
    <3>4. Final[j] = Want(j)
      BY <1>1, <3>1, FinalBit
    <3> QED BY <2>1, <3>2, <3>3, <3>4
  <2>2. CASE j \notin p .. q - 1
    <3>1. j \notin 8 * Dest .. 8 * Dest + 8 - 1
      BY <1>4, <2>2
    <3> QED BY <1>8, <2>2, <3>1
  <2> QED BY <2>1, <2>2
<1>10. 8 * Dest' = q /\ Dest' \in Nat /\ Dest' >= 1 /\ q > DestStart /\ Src' \in Nat
  BY <1>1, <1>2, <1>4 DEF Numbers
<1> HIDE DEF p, q
<1>11. MemType' /\ Keeps /\ Reaches(q)
  BY <1>1, <1>4, <1>8, <1>9, Advance
<1>12. AccessInBounds' /\ access' \in [src : SUBSET Nat, dest : SUBSET Nat]
  BY <1>1, <1>2, <1>7, NextAccess
<1>13. Accumulated'
  <2>1. Primed(Reg', ShiftCount', p, Src')
    BY <1>2, <1>6
  <2> QED BY <1>1, <1>2, <1>4, <1>10, <2>1, NextAccumulated
<1>14. LoopCount' \in Int /\ LoopCount' >= 1
  BY <1>1, <1>2 DEF Numbers
<1>15. TypeOK'
  <2>1. Reg' \in [Positions -> Bit]
    BY <1>2, <1>6 DEF Primed
  <2>2. pc' \in PcType
    BY <1>2 DEF PcType
  <2>3. /\ DestBit' \in Nat /\ SrcBit' \in Nat /\ BitCount' \in Nat /\ RemainingBits' \in Nat
        /\ WordBits' \in {8, 64} /\ ShiftCount' \in Nat
    BY <1>1, <1>2 DEF TypeOK
  <2> QED BY <1>1, <1>2, <1>10, <1>11, <1>12, <1>14, <2>1, <2>2, <2>3, NextType
<1>16. Frontier(Byte * Dest)'
  BY <1>2, <1>10, <1>11, FrontierAtDest
<1>17. Dest' + LoopCount' - 1 = End' \div 8
  <2>1. End' = End
    BY <1>2, SameCall
  <2>2. Dest' + LoopCount' - 1 = Dest + LoopCount - 1
    BY <1>1, <1>2 DEF Numbers
  <2> QED BY <1>1, <2>1, <2>2
<1>18. /\ DestBit' = DestStart' /\ SrcBit' = SrcStart' /\ BitCount' = call'.bitCount
       /\ BitCount' > 8 /\ ShiftCount' \in 8 .. 15
  <2>1. DestBit' = DestStart' /\ SrcBit' = SrcStart' /\ BitCount' = call'.bitCount
    BY <1>1, <1>2, SameCall
  <2> QED BY <1>1, <1>2, <2>1
<1>19. Inv'
  BY <1>2, <1>13, <1>14, <1>15, <1>16, <1>17, <1>18
     DEF Inv, EntryInv, AlignedInv, UnalignedInv, OriginalInv, DoneInv, Entries, Byte
<1> QED BY <1>11, <1>12, <1>19 DEF StepOK

(* The last, partial byte.                                                 *)
LEMMA OriginalTailOK ==
  ASSUME NonEmpty, Inv, OriginalTail
  PROVE  StepOK
<1> DEFINE p == 8 * Dest
           n == (DestBit + BitCount) % 8
           more == (SrcBit + BitCount - 1) \div 8 = Src
           bitAccu == IF more THEN Feed(Reg, Src, ShiftCount) ELSE ShiftRight(Reg, 8)
           mask == (0 .. 32 - 1) \ Ones(n)
           word == Keep(bitAccu, mask)
<1>1. /\ TypeOK /\ Numbers
      /\ DestBit + BitCount = End /\ SrcBit + BitCount = SrcEnd
      /\ ShiftCount \in 8 .. 15 /\ LoopCount >= 1
      /\ Dest + LoopCount - 1 = End \div 8
      /\ Frontier(p)
      /\ Dest >= 1 /\ p > DestStart
      /\ Primed(Reg, ShiftCount, 8 * Dest - 8, Src)
      /\ 8 * Dest - 8 + ShiftCount - DestStart = 8 * Src - SrcStart
  BY LoopFacts DEF OriginalTail
<1>2. /\ IF n # 0
         THEN /\ mem' = Store(mem, Dest, Merge(Load(mem, Dest, 8), mask, word), 8)
              /\ Reg' = bitAccu
              /\ access' = [src |-> IF more THEN {Src} ELSE {}, dest |-> {Dest}]
         ELSE /\ access' = [src |-> {}, dest |-> {}]
              /\ mem' = mem /\ Reg' = Reg
      /\ LoopCount <= 1 /\ pc' = "Done"
      /\ UNCHANGED call /\ UNCHANGED <<Dest, DestBit, Src, SrcBit, BitCount>>
      /\ UNCHANGED <<LoopCount, ShiftCount, RemainingBits>> /\ WordBits' = WordBits
  BY DEF OriginalTail, PutByte, Touch, cursors, Byte, Accu
<1>3. n \in 0 .. 7 /\ End = p + n /\ p \in Nat
  <2>1. LoopCount = 1 /\ Dest \in Nat /\ End \in Nat
    BY <1>1, <1>2 DEF Numbers
  <2>2. Dest = End \div 8
    BY <1>1, <2>1
  <2>3. n = End % 8
    BY <1>1
  <2> QED BY <2>1, <2>2, <2>3
<1>4. more => 8 * Src < SrcEnd /\ 8 * Src + 8 > SrcStart
  BY <1>1, <1>3 DEF Numbers
<1>5. ~more => n + 8 <= ShiftCount
  <2>1. SrcBit + BitCount - 1 = SrcEnd - 1 /\ SrcEnd - 1 \in Nat
    BY <1>1 DEF Numbers
  <2>2. SUFFICES ASSUME (SrcEnd - 1) \div 8 # Src PROVE n + 8 <= ShiftCount
    BY <2>1
  <2> DEFINE a == (SrcEnd - 1) \div 8
  <2>3. a \in Int /\ 8 * a <= SrcEnd - 1 /\ SrcEnd - 1 < 8 * a + 8
    BY <2>1
  <2> HIDE DEF a
  <2>4. SrcEnd - 8 * Src = n + 8 - ShiftCount
    BY <1>1, <1>3 DEF Numbers
  <2>5. a # Src
    BY <2>2 DEF a
  <2> HIDE DEF n, p
  <2> QED BY <1>1, <1>3, <2>3, <2>4, <2>5 DEF Numbers
<1>6. /\ bitAccu \in [Positions -> Bit]
      /\ \A k \in 0 .. 7 : k < n => bitAccu[k] = Want(p + k)
  <2>1. CASE more
    <3>1. 8 * Dest - 8 + 8 = p
      BY <1>1 DEF Numbers
    <3>2. Primed(Feed(Reg, Src, ShiftCount), ShiftCount, 8 * Dest - 8 + 8, Src + 1)
      BY <1>1, <1>4, <2>1, FeedByte
    <3> HIDE DEF p, n, more
    <3>3. Primed(bitAccu, ShiftCount, p, Src + 1)
      BY <2>1, <3>1, <3>2
    <3>4. ASSUME NEW k \in 0 .. 7 PROVE k \in Positions /\ k < ShiftCount /\ p + k >= DestStart
      BY <1>1, <1>3 DEF Positions, Numbers
    <3> HIDE DEF bitAccu
    <3> QED BY <3>3, <3>4 DEF Primed
  <2>2. CASE ~more
    <3> DEFINE base == 8 * Dest - 8
    <3>1. bitAccu = ShiftRight(Reg, 8)
      BY <2>2
    <3>2. bitAccu \in [Positions -> Bit]
      <4>1. Reg \in [Positions -> Bit] /\ 8 \in Nat
        BY <1>1 DEF TypeOK
      <4>2. ShiftRight(Reg, 8) \in [Positions -> Bit]
        BY <4>1, WordTypes
      <4> QED BY <3>1, <4>2
    <3>3. n + 8 <= ShiftCount
      BY <1>5, <2>2
    <3>4. Primed(Reg, ShiftCount, base, Src) /\ base + 8 = p /\ base \in Int
      BY <1>1 DEF Numbers
    <3> HIDE DEF p, n, more, base, bitAccu
    <3>5. ASSUME NEW k \in 0 .. 7, k < n
          PROVE  bitAccu[k] = Want(p + k)
      <4>1. /\ k \in Positions /\ k + 8 \in Positions /\ k + 8 <= 63 /\ k + 8 < ShiftCount
            /\ base + (k + 8) = p + k /\ p + k >= DestStart
        BY <1>1, <1>3, <3>3, <3>4, <3>5 DEF Positions, Numbers
      <4>2. bitAccu[k] = Reg[k + 8]
        BY <3>1, <4>1 DEF ShiftRight
      <4>3. Reg[k + 8] = Want(base + (k + 8))
        BY <3>4, <4>1 DEF Primed
      <4> QED BY <4>1, <4>2, <4>3
    <3> QED BY <3>2, <3>5
  <2> QED BY <2>1, <2>2
<1>7. CASE n # 0
  <2>1. Puts(Dest, p, End, mask, word)
    <3>1. \A k \in 0 .. 7 : k \in mask <=> k < n
      BY <1>3, <1>7 DEF Ones, Byte
    <3>2. \A k \in 0 .. 7 : k < n <=> 8 * Dest + k \in p .. End - 1
      <4> HIDE DEF n
      <4> QED BY <1>1, <1>3 DEF Numbers
    <3>3. ASSUME NEW k \in 0 .. 7
          PROVE  word[k] = IF k \in mask THEN Want(8 * Dest + k) ELSE Zero
      <4>1. k \in Positions
        BY DEF Positions
      <4> HIDE DEF mask, bitAccu, n
      <4> QED BY <1>6, <3>1, <4>1 DEF Keep
    <3>4. /\ Dest \in Nat /\ p \in Nat /\ End \in Nat /\ 8 * Dest <= p /\ p <= End
          /\ End <= 8 * Dest + 8 /\ DestStart <= p /\ End <= End /\ 8 * Dest < End
      <4> HIDE DEF n
      <4> QED BY <1>1, <1>3, <1>7 DEF Numbers
    <3> HIDE DEF p, mask, word, n, bitAccu, more
    <3>5. \A k \in 0 .. 7 : k \in mask <=> 8 * Dest + k \in p .. End - 1
      BY <3>1, <3>2
    <3> QED BY <1>1, <1>2, <1>7, <3>3, <3>4, <3>5 DEF Puts
  <2>2. Touches(IF more THEN {Src} ELSE {}, {Dest})
    <3>1. Dest \in Nat /\ Src \in Nat /\ 8 * Dest < End /\ 8 * Dest + 8 > DestStart
      <4> HIDE DEF n
      <4> QED BY <1>1, <1>3, <1>7 DEF Numbers
    <3> HIDE DEF n, more
    <3> QED BY <1>2, <1>4, <1>7, <3>1 DEF Touches
  <2> HIDE DEF p, mask, word, n, bitAccu, more
  <2>3. MemType' /\ Keeps /\ Reaches(End)
    BY <1>1, <2>1, PutBits
  <2>4. AccessInBounds' /\ access' \in [src : SUBSET Nat, dest : SUBSET Nat]
    BY <1>1, <1>2, <2>2, NextAccess
  <2>5. TypeOK'
    BY <1>1, <1>2, <1>6, <1>7, <2>3, <2>4 DEF TypeOK, MemType, PcType
  <2>6. Frontier(End)'
    BY <1>2, <2>3, EndAfter
  <2>7. Inv'
    BY <1>2, <2>5, <2>6 DEF Inv, EntryInv, AlignedInv, UnalignedInv, OriginalInv, DoneInv, Entries
  <2> QED BY <2>3, <2>4, <2>7 DEF StepOK
<1>8. CASE n = 0
  <2>1. End = p
    BY <1>1, <1>3, <1>8 DEF Numbers
  <2>2. Touches({}, {})
    BY <1>2, <1>8 DEF Touches
  <2> HIDE DEF p, mask, word, n, bitAccu, more
  <2>3. MemType' /\ Keeps /\ Reaches(p)
    <3>1. mem' = mem
      BY <1>2, <1>8
    <3> QED BY <1>1, <3>1 DEF TypeOK, MemType, Keeps, Reaches, Frontier
  <2>4. AccessInBounds' /\ access' \in [src : SUBSET Nat, dest : SUBSET Nat]
    BY <1>1, <1>2, <2>2, NextAccess
  <2>5. TypeOK'
    BY <1>1, <1>2, <1>8, <2>3, <2>4 DEF TypeOK, MemType, PcType
  <2>6. Frontier(End)'
    BY <1>2, <2>1, <2>3, EndAfter
  <2>7. Inv'
    BY <1>2, <2>5, <2>6 DEF Inv, EntryInv, AlignedInv, UnalignedInv, OriginalInv, DoneInv, Entries
  <2> QED BY <2>3, <2>4, <2>7 DEF StepOK
<1> QED BY <1>7, <1>8

-----------------------------------------------------------------------------
(* One byte or less.                                                       *)

(* The numbers of the call, in bytes and bits.                             *)
LEMMA SmallNumbers ==
  ASSUME NonEmpty, TypeOK, Untouched, BitCount <= 8,
         NEW di, NEW d, NEW si, NEW s,
         di = DestBit \div 8, d = DestBit % 8, si = SrcBit \div 8, s = SrcBit % 8
  PROVE  /\ Numbers /\ DestBit = DestStart /\ SrcBit = SrcStart /\ BitCount = call.bitCount
         /\ BitCount \in 1 .. 8 /\ DestStart + BitCount = End /\ SrcStart + BitCount = SrcEnd
         /\ di \in Nat /\ d \in 0 .. 7 /\ si \in Nat /\ s \in 0 .. 7
         /\ DestStart = 8 * di + d /\ SrcStart = 8 * si + s
         /\ LastDest = IF d + BitCount <= 8 THEN di ELSE di + 1
         /\ LastSrc = IF s + BitCount <= 8 THEN si ELSE si + 1
         /\ (DestBit + BitCount - 1) % 8 = IF d + BitCount <= 8 THEN d + BitCount - 1
                                           ELSE d + BitCount - 9
<1>1. Numbers /\ DestBit = DestStart /\ SrcBit = SrcStart /\ BitCount = call.bitCount
  BY NumbersOK DEF Untouched
<1>2. DestStart + BitCount = End /\ SrcStart + BitCount = SrcEnd
  BY <1>1 DEF End, SrcEnd, DestStart, SrcStart
<1>3. BitCount \in 1 .. 8
  BY <1>1, <1>2 DEF Numbers
<1>4. /\ di \in Nat /\ d \in 0 .. 7 /\ si \in Nat /\ s \in 0 .. 7
      /\ DestBit = 8 * di + d /\ SrcBit = 8 * si + s
  BY <1>1 DEF Numbers
<1>5. ~(DestBit + BitCount - 1 < 0) /\ ~(SrcBit + BitCount - 1 < 0)
  BY <1>1, <1>3 DEF Numbers
<1>6. LastDest = (DestBit + BitCount - 1) \div 8 /\ LastSrc = (SrcBit + BitCount - 1) \div 8
  BY <1>5 DEF LastDest, LastSrc, ByteOf, Byte
<1>7. /\ LastDest = IF d + BitCount <= 8 THEN di ELSE di + 1
      /\ LastSrc = IF s + BitCount <= 8 THEN si ELSE si + 1
  BY <1>3, <1>4, <1>6
<1>8. (DestBit + BitCount - 1) % 8 = IF d + BitCount <= 8 THEN d + BitCount - 1
                                     ELSE d + BitCount - 9
  BY <1>3, <1>4
<1>9. DestStart = 8 * di + d /\ SrcStart = 8 * si + s
  BY <1>1, <1>4
<1> QED BY <1>1, <1>2, <1>3, <1>4, <1>7, <1>8, <1>9

(* The mask of the last byte keeps its bits up to the last requested one.  *)
LEMMA NotLastMaskBits ==
  ASSUME NEW last \in 0 .. 7, last = (DestBit + BitCount - 1) % 8, NEW k \in 0 .. 7
  PROVE  k \in NotLastMask <=> k <= last
<1>1. NotLastMask = (0 .. 31) \ (last + 1 .. last + 8 - 1)
  BY DEF NotLastMask, Byte, Accu
<1> QED BY <1>1

(* accu is made of the one or two source bytes that hold the n bits.       *)
Gathers(accu, n, si, s, last) ==
  /\ n \in 1 .. 8 /\ si \in Nat /\ s \in 0 .. 7
  /\ SrcStart = 8 * si + s /\ SrcStart + n = SrcEnd
  /\ last = IF s + n <= 8 THEN si ELSE si + 1
  /\ accu = IF si = last THEN ShiftRight(SrcByte(si), s)
            ELSE Or(ShiftRight(SrcByte(si), s), ShiftLeft(SrcByte(last), 8 - s))

(* The source bits, brought together.                                      *)
LEMMA SmallAccu ==
  ASSUME NonEmpty, TypeOK, NEW accu, NEW n, NEW si, NEW s, NEW last,
         Gathers(accu, n, si, s, last)
  PROVE  /\ accu \in [Positions -> Bit]
         /\ \A i \in 0 .. 7 : i < n => accu[i] = Want(DestStart + i)
<1> DEFINE first == ShiftRight(SrcByte(si), s)
           second == ShiftLeft(SrcByte(last), 8 - s)
<1>0. /\ n \in 1 .. 8 /\ si \in Nat /\ s \in 0 .. 7
      /\ SrcStart = 8 * si + s /\ SrcStart + n = SrcEnd
      /\ last = IF s + n <= 8 THEN si ELSE si + 1
      /\ accu = IF si = last THEN first ELSE Or(first, second)
  BY DEF Gathers
<1>1. /\ Numbers /\ si \in Nat /\ s \in Nat /\ 8 - s \in Nat
      /\ 8 * si < SrcEnd /\ 8 * last < SrcEnd /\ last \in Nat
  BY <1>0, NumbersOK DEF Numbers
<1>2. SrcByte(si) \in [Positions -> Bit] /\ SrcByte(last) \in [Positions -> Bit]
  BY <1>0, <1>1, SourceByteType DEF SrcByte, Byte
<1>3. first \in [Positions -> Bit] /\ second \in [Positions -> Bit]
  BY <1>0, <1>1, <1>2, WordTypes
<1>4. ASSUME NEW k \in Positions
      PROVE  /\ first[k] = IF k + s < 8 THEN SrcMem[8 * si + (k + s)] ELSE Zero
             /\ second[k] = IF k >= 8 - s
                            THEN (IF k - (8 - s) < 8 THEN SrcMem[8 * last + (k - (8 - s))] ELSE Zero)
                            ELSE Zero
  <2>1. k + s <= 63 => k + s \in Positions
    BY <1>0 DEF Positions
  <2>2. k + s < 8 => k + s <= 63
    BY <1>0 DEF Positions
  <2>3. first[k] = IF k + s < 8 THEN SrcMem[8 * si + (k + s)] ELSE Zero
    BY <2>1, <2>2, SrcByteBit DEF ShiftRight
  <2>4. k >= 8 - s => k - (8 - s) \in Positions
    BY <1>0 DEF Positions
  <2>5. second[k] = IF k >= 8 - s THEN SrcByte(last)[k - (8 - s)] ELSE Zero
    BY DEF ShiftLeft
  <2> QED BY <2>3, <2>4, <2>5, SrcByteBit
<1> HIDE DEF first, second
<1>5. CASE si = last
  <2>1. accu = first /\ s + n <= 8
    BY <1>0, <1>1, <1>5
  <2>2. ASSUME NEW i \in 0 .. 7, i < n
        PROVE  accu[i] = Want(DestStart + i)
    <3>1. i \in Positions /\ i + s < 8
      BY <1>0, <2>1, <2>2 DEF Positions
    <3>2. 8 * si + (i + s) = SrcStart + ((DestStart + i) - DestStart)
      BY <1>0, <1>1 DEF Numbers
    <3> QED BY <1>4, <2>1, <3>1, <3>2 DEF Want
  <2> QED BY <1>3, <2>1, <2>2
<1>6. CASE si # last
  <2>1. accu = Or(first, second) /\ last = si + 1
    BY <1>0, <1>6
  <2>2. ASSUME NEW k \in Positions
        PROVE  accu[k] = IF k + s < 8 THEN first[k] ELSE second[k]
    <3>1. accu[k] = OrBit(first[k], second[k])
      BY <2>1 DEF Or
    <3>2. k + s < 8 <=> ~(k >= 8 - s)
      BY <1>0 DEF Positions
    <3> QED BY <1>4, <3>1, <3>2 DEF OrBit
  <2>3. accu \in [Positions -> Bit]
    <3>1. accu = [k \in Positions |-> accu[k]]
      BY <2>1 DEF Or
    <3>2. \A k \in Positions : accu[k] \in Bit
      BY <1>3, <2>2
    <3> QED BY <3>1, <3>2
  <2>4. ASSUME NEW i \in 0 .. 7, i < n
        PROVE  accu[i] = Want(DestStart + i)
    <3>1. i \in Positions
      BY <1>0 DEF Positions
    <3>2. CASE i + s < 8
      <4>1. 8 * si + (i + s) = SrcStart + ((DestStart + i) - DestStart)
        BY <1>0, <1>1 DEF Numbers
      <4> QED BY <1>4, <2>2, <3>1, <3>2, <4>1 DEF Want
    <3>3. CASE ~(i + s < 8)
      <4>1. /\ 8 * last + (i - (8 - s)) = SrcStart + ((DestStart + i) - DestStart)
            /\ i >= 8 - s /\ i - (8 - s) < 8
        BY <1>0, <1>1, <2>1, <3>3 DEF Numbers
      <4> QED BY <1>4, <2>2, <3>1, <3>3, <4>1 DEF Want
    <3> QED BY <3>2, <3>3
  <2> QED BY <2>3, <2>4
<1> QED BY <1>5, <1>6

(* The first store, and for some calls the last.                           *)
LEMMA OriginalSmallOK ==
  ASSUME NonEmpty, Inv, OriginalSmall
  PROVE  StepOK
<1> DEFINE di == DestBit \div 8
           si == SrcBit \div 8
           d == DestBit % 8
           s == SrcBit % 8
           accu == IF si = LastSrc THEN ShiftRight(SrcByte(si), s)
                   ELSE Or(ShiftRight(SrcByte(si), s), ShiftLeft(SrcByte(LastSrc), 8 - s))
           one == di = LastDest
           mask == IF one THEN Ones(d) \cap NotLastMask ELSE Ones(d)
           shifted == ShiftLeft(accu, d)
           word == Keep(shifted, mask)
           q == IF one THEN End ELSE 8 * di + 8
<1>1. TypeOK /\ Untouched /\ BitCount <= 8 /\ WordBits = 64
  BY DEF OriginalSmall, Inv, EntryInv, Byte, Untouched
<1>2. /\ Numbers /\ DestBit = DestStart /\ SrcBit = SrcStart /\ BitCount = call.bitCount
      /\ BitCount \in 1 .. 8 /\ DestStart + BitCount = End /\ SrcStart + BitCount = SrcEnd
      /\ di \in Nat /\ d \in 0 .. 7 /\ si \in Nat /\ s \in 0 .. 7
      /\ DestStart = 8 * di + d /\ SrcStart = 8 * si + s
      /\ LastDest = IF d + BitCount <= 8 THEN di ELSE di + 1
      /\ LastSrc = IF s + BitCount <= 8 THEN si ELSE si + 1
      /\ (DestBit + BitCount - 1) % 8 = IF d + BitCount <= 8 THEN d + BitCount - 1
                                        ELSE d + BitCount - 9
  BY <1>1, SmallNumbers
<1>3. /\ mem' = Store(mem, di, Merge(Load(mem, di, 8), mask, word), 8)
      /\ Reg' = ShiftRight(accu, 8 - d)
      /\ pc' = IF one THEN "Done" ELSE "OriginalSmallLast"
      /\ access' = [src |-> {si, LastSrc}, dest |-> {di}]
      /\ UNCHANGED call /\ UNCHANGED <<Dest, DestBit, Src, SrcBit, BitCount>>
      /\ UNCHANGED <<LoopCount, ShiftCount, RemainingBits>> /\ WordBits' = WordBits
  BY DEF OriginalSmall, PutByte, Touch, cursors, Byte
<1>4. /\ accu \in [Positions -> Bit]
      /\ \A i \in 0 .. 7 : i < BitCount => accu[i] = Want(DestStart + i)
  <2> HIDE DEF di, si, d, s, accu
  <2>1. Gathers(accu, BitCount, si, s, LastSrc)
    BY <1>2 DEF accu, Gathers
  <2> QED BY <1>1, <2>1, SmallAccu
<1> HIDE DEF di, si, d, s, accu
<1>5. one <=> d + BitCount <= 8
  BY <1>2
<1> HIDE DEF one
<1>6. ASSUME NEW k \in 0 .. 7
      PROVE  /\ k \in mask <=> k >= d /\ k < d + BitCount
             /\ k \in mask <=> 8 * di + k \in DestStart .. q - 1
  <2>1. k \in Ones(d) <=> k >= d
    BY <1>2 DEF Ones, Byte
  <2>2. one => (k \in NotLastMask <=> k < d + BitCount)
    <3>1. SUFFICES ASSUME one PROVE k \in NotLastMask <=> k < d + BitCount
      OBVIOUS
    <3> DEFINE last == (DestBit + BitCount - 1) % 8
    <3>2. last = d + BitCount - 1 /\ last \in 0 .. 7
      BY <1>2, <1>5, <3>1
    <3>3. last = (DestBit + BitCount - 1) % 8
      OBVIOUS
    <3> HIDE DEF last
    <3>4. k \in NotLastMask <=> k <= last
      BY <3>2, <3>3, NotLastMaskBits
    <3> QED BY <1>2, <3>2, <3>4
  <2>3. k \in mask <=> k >= d /\ k < d + BitCount
    BY <1>2, <1>5, <2>1, <2>2
  <2>4. k >= d /\ k < d + BitCount <=> 8 * di + k \in DestStart .. q - 1
    BY <1>2, <1>5
  <2> QED BY <2>3, <2>4
<1> HIDE DEF mask
<1>7. ASSUME NEW k \in 0 .. 7
      PROVE  word[k] = IF k \in mask THEN Want(8 * di + k) ELSE Zero
  <2>1. k \in Positions
    BY DEF Positions
  <2>2. ASSUME k \in mask PROVE shifted[k] = Want(8 * di + k)
    <3>1. k >= d /\ k - d \in 0 .. 7 /\ k - d < BitCount /\ DestStart + (k - d) = 8 * di + k
      BY <1>2, <1>6, <2>2
    <3>2. shifted[k] = accu[k - d]
      BY <2>1, <3>1 DEF ShiftLeft
    <3> QED BY <1>4, <3>1, <3>2
  <2> HIDE DEF shifted
  <2> QED BY <2>1, <2>2 DEF Keep
<1>8. /\ q \in Nat /\ 8 * di <= DestStart /\ DestStart <= q /\ q <= 8 * di + 8 /\ q <= End
      /\ 8 * di < End
  BY <1>2, <1>5 DEF Numbers
<1> HIDE DEF word
<1>9. Puts(di, DestStart, q, mask, word)
  <2>1. Frontier(DestStart) /\ DestStart <= DestStart /\ DestStart \in Nat
    BY <1>1, <1>2, UntouchedFrontier DEF Numbers
  <2> HIDE DEF q
  <2> QED BY <1>2, <1>3, <1>6, <1>7, <1>8, <2>1 DEF Puts
<1>10. Touches({si, LastSrc}, {di})
  <2>1. /\ LastSrc \in Nat /\ 8 * LastSrc < SrcEnd /\ 8 * LastSrc + 8 > SrcStart
        /\ 8 * si < SrcEnd /\ 8 * si + 8 > SrcStart
    BY <1>2 DEF Numbers
  <2>2. di \in Nat /\ 8 * di < End /\ 8 * di + 8 > DestStart
    BY <1>2, <1>8
  <2> QED BY <1>2, <1>3, <2>1, <2>2 DEF Touches
<1>11. Reg' \in [Positions -> Bit]
  <2>1. 8 - d \in Nat
    BY <1>2
  <2> QED BY <1>3, <1>4, <2>1, WordTypes
<1>12. MemType' /\ Keeps /\ Reaches(q)
  BY <1>1, <1>9, PutBits
<1>13. AccessInBounds' /\ access' \in [src : SUBSET Nat, dest : SUBSET Nat]
  BY <1>1, <1>3, <1>10, NextAccess
<1>14. TypeOK'
  <2>1. pc' \in PcType
    BY <1>3 DEF PcType
  <2> QED BY <1>1, <1>3, <1>11, <1>12, <1>13, <2>1 DEF TypeOK, MemType
<1>15. CASE one
  <2>1. Frontier(End)'
    BY <1>3, <1>12, <1>15, EndAfter
  <2>2. pc' = "Done"
    BY <1>3, <1>15
  <2>3. Inv'
    BY <1>14, <2>1, <2>2 DEF Inv, EntryInv, AlignedInv, UnalignedInv, OriginalInv, DoneInv, Entries
  <2> QED BY <1>12, <1>13, <2>3 DEF StepOK
<1>16. CASE ~one
  <2>1. pc' = "OriginalSmallLast"
    BY <1>3, <1>16
  <2>2. DestBit \div 8 = di
    BY DEF di
  <2>3. LastDest = di + 1 /\ q = 8 * (di + 1)
    BY <1>2, <1>5, <1>16
  <2>4. LastDest' = LastDest
    BY <1>3 DEF LastDest
  <2>5. /\ DestBit' = DestStart' /\ BitCount' = call'.bitCount /\ BitCount' \in 1 .. 8
        /\ DestBit' \div 8 = di
    BY <1>2, <1>3, <2>2, SameCall
  <2>6. \A j \in 0 .. DestBits - 1 : mem'[j] = IF j < 8 * (di + 1) THEN Final'[j] ELSE DestMem[j]
    BY <1>3, <1>12, <2>3, SameCall DEF Reaches
  <2>7. ASSUME NEW k \in 0 .. 7, 8 * (di + 1) + k < End'
        PROVE  Reg'[k] = SrcMem[SrcStart' + ((8 * (di + 1) + k) - DestStart')]
    <3> DEFINE i == k + (8 - d)
    <3>0. 8 * (di + 1) + k < End
      BY <1>3, <2>7, SameCall
    <3>1. /\ k \in Positions /\ i \in 0 .. 7 /\ i < BitCount /\ i <= 63
          /\ DestStart + i = 8 * (di + 1) + k
      BY <1>2, <3>0 DEF Positions
    <3>2. Reg'[k] = accu[i]
      BY <1>3, <3>1 DEF ShiftRight
    <3> HIDE DEF i
    <3>3. Reg'[k] = Want(8 * (di + 1) + k)
      BY <1>4, <3>1, <3>2
    <3> QED BY <1>3, <3>3, SameCall DEF Want
  <2>8. OriginalInv'
    <3> DEFINE last == DestBit' \div 8 + 1
    <3>1. last = di + 1
      BY <2>5
    <3>2. LastDest' = last /\ (\A j \in 0 .. DestBits - 1 :
                                 mem'[j] = IF j < 8 * last THEN Final'[j] ELSE DestMem[j])
      BY <2>3, <2>4, <2>6, <3>1
    <3>3. \A k \in 0 .. 7 : 8 * last + k < End' =>
             Reg'[k] = SrcMem[SrcStart' + ((8 * last + k) - DestStart')]
      BY <2>7, <3>1
    <3> QED BY <2>1, <2>5, <3>2, <3>3 DEF OriginalInv, Frontier, Want, Byte
  <2>9. Inv'
    BY <1>14, <2>1, <2>8 DEF Inv, EntryInv, AlignedInv, UnalignedInv, DoneInv, Entries
  <2> QED BY <1>12, <1>13, <2>9 DEF StepOK
<1> QED BY <1>15, <1>16

(* The store to the second byte.                                           *)
LEMMA OriginalSmallLastOK ==
  ASSUME NonEmpty, Inv, OriginalSmallLast
  PROVE  StepOK
<1> DEFINE at == DestBit \div 8 + 1
           word == Keep(Reg, NotLastMask)
           p == 8 * at
           last == (DestBit + BitCount - 1) % 8
<1>1. /\ TypeOK /\ Numbers /\ WordBits \in {8, 64}
      /\ DestBit = DestStart /\ BitCount = call.bitCount /\ BitCount \in 1 .. 8
      /\ LastDest = at /\ Frontier(p)
      /\ \A k \in 0 .. 7 : p + k < End => Reg[k] = Want(p + k)
  BY NumbersOK DEF OriginalSmallLast, Inv, OriginalInv, Byte, TypeOK
<1>2. /\ mem' = Store(mem, at, Merge(Load(mem, at, 8), NotLastMask, word), 8)
      /\ access' = [src |-> {}, dest |-> {at}] /\ pc' = "Done"
      /\ UNCHANGED call /\ UNCHANGED <<Dest, DestBit, Src, SrcBit, BitCount>>
      /\ UNCHANGED <<WordBits, LoopCount, ShiftCount, RemainingBits, Reg>>
  BY <1>1 DEF OriginalSmallLast, PutByte, Touch, cursors, locals, Byte
<1>3. DestStart + BitCount = End
  BY <1>1 DEF End, DestStart
<1>4. /\ at \in Nat /\ p \in Nat /\ DestStart < p /\ last \in 0 .. 7
      /\ p + last = End - 1
  <2>1. ~(DestBit + BitCount - 1 < 0) /\ DestBit \in Nat
    BY <1>1 DEF Numbers
  <2> DEFINE b == DestBit + BitCount - 1
  <2>2. b \in Nat /\ at = b \div 8 /\ last = b % 8 /\ b = End - 1
    BY <1>1, <1>3, <2>1 DEF LastDest, ByteOf, Byte, Numbers
  <2>3. DestStart < p /\ at \in Nat /\ p \in Nat
    BY <1>1, <2>1
  <2> HIDE DEF at, last, b
  <2>4. 8 * at + last = b /\ last \in 0 .. 7
    <3>1. b \in Nat => 8 * (b \div 8) + (b % 8) = b /\ (b % 8) \in 0 .. 7
      OBVIOUS
    <3> QED BY <2>2, <3>1
  <2> QED BY <2>2, <2>3, <2>4
<1>5. last = (DestBit + BitCount - 1) % 8
  OBVIOUS
<1> HIDE DEF at, last
<1>6. Puts(at, p, End, NotLastMask, word)
  <2>1. ASSUME NEW k \in 0 .. 7
        PROVE  /\ k \in NotLastMask <=> k <= last
               /\ k <= last <=> p + k < End
               /\ k <= last <=> p + k \in p .. End - 1
    <3>1. k \in NotLastMask <=> k <= last
      BY <1>4, <1>5, NotLastMaskBits
    <3> HIDE DEF p
    <3> QED BY <1>1, <1>4, <3>1 DEF Numbers
  <2>2. ASSUME NEW k \in 0 .. 7
        PROVE  word[k] = IF k \in NotLastMask THEN Want(p + k) ELSE Zero
    <3>1. k \in Positions
      BY DEF Positions
    <3> QED BY <1>1, <2>1, <3>1 DEF Keep
  <2>3. p <= p /\ p <= End /\ End <= 8 * at + 8 /\ DestStart <= p /\ End <= End /\ 8 * at < End
    BY <1>1, <1>4 DEF Numbers
  <2>4. \A k \in 0 .. 7 : k \in NotLastMask <=> p + k \in p .. End - 1
    BY <2>1
  <2> HIDE DEF word
  <2> QED BY <1>1, <1>2, <1>4, <2>2, <2>3, <2>4 DEF Puts, Numbers
<1>7. Touches({}, {at})
  BY <1>1, <1>2, <1>4 DEF Touches, Numbers
<1> HIDE DEF p, word
<1>8. MemType' /\ Keeps /\ Reaches(End)
  BY <1>1, <1>6, PutBits
<1>9. AccessInBounds' /\ access' \in [src : SUBSET Nat, dest : SUBSET Nat]
  BY <1>1, <1>2, <1>7, NextAccess
<1>10. TypeOK'
  BY <1>1, <1>2, <1>8, <1>9 DEF TypeOK, MemType, PcType
<1>11. Frontier(End)'
  BY <1>2, <1>8, EndAfter
<1>12. Inv'
  BY <1>2, <1>10, <1>11 DEF Inv, EntryInv, AlignedInv, UnalignedInv, OriginalInv, DoneInv, Entries
<1> QED BY <1>8, <1>9, <1>12 DEF StepOK
=============================================================================
