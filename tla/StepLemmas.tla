----------------------------- MODULE StepLemmas -----------------------------
(***************************************************************************)
(* The lemmas the proofs of the copy routines share: what the assumptions  *)
(* say of the call, what is shown of a step, and what a store of a byte    *)
(* does to the destination.                                                *)
(***************************************************************************)
EXTENDS CopyInvariant, TLAPS

(* The types of the numbers, for the arithmetic below.                     *)
Numbers ==
  /\ DestStart \in Nat /\ SrcStart \in Nat /\ End \in Nat
  /\ DestStart < End
  /\ Dest \in Nat /\ DestBit \in Nat /\ Src \in Nat /\ SrcBit \in Nat
  /\ BitCount \in Nat /\ LoopCount \in Int /\ ShiftCount \in Nat /\ RemainingBits \in Nat
  /\ SrcBits \in Nat /\ SrcBits % 8 = 0 /\ SrcEnd \in Nat /\ SrcEnd <= SrcBits
  /\ SrcEnd - SrcStart = End - DestStart
  /\ DestBits \in Nat /\ DestBits % 8 = 0 /\ End <= DestBits

(* What the assumptions say of the call being executed.                    *)
LEMMA CallFacts ==
  ASSUME TypeOK, NonEmpty
  PROVE  /\ call.destBit \in Nat /\ call.srcBit \in Nat /\ call.bitCount \in Nat
         /\ call.bitCount > 0
         /\ call.srcBit + call.bitCount <= SrcBits /\ call.destBit + call.bitCount <= DestBits
         /\ SrcBits \in Nat /\ DestBits \in Nat /\ SrcBits % 8 = 0 /\ DestBits % 8 = 0
         /\ call.entry = "Internal_Unaligned" => call.srcBit < 8 /\ call.destBit < 8
         /\ call.entry = "Internal_Aligned" => call.srcBit < 8 /\ call.destBit = call.srcBit
  BY CallsAssumption DEF TypeOK, NonEmpty, CallsAssumption, CallType, Byte

(* The positions the proofs calculate with are integers, in the order one  *)
(* expects, and within the buffers.                                        *)
LEMMA NumbersOK ==
  ASSUME TypeOK, NonEmpty
  PROVE  Numbers
<1>1. /\ DestStart \in Nat /\ SrcStart \in Nat /\ End \in Nat
      /\ DestStart < End /\ SrcEnd \in Nat /\ SrcEnd <= SrcBits
      /\ SrcEnd - SrcStart = End - DestStart /\ End <= DestBits
  BY CallFacts DEF DestStart, SrcStart, End, SrcEnd
<1>2. SrcBits \in Nat /\ DestBits \in Nat /\ SrcBits % 8 = 0 /\ DestBits % 8 = 0
  BY CallFacts
<1> QED BY <1>1, <1>2 DEF Numbers, TypeOK

(* A byte that holds one of the requested bits lies in its buffer.         *)
LEMMA ByteInBuffer ==
  ASSUME NEW n \in Nat, n % 8 = 0, NEW a \in Nat, 8 * a < n
  PROVE  8 * a + 7 < n
  OBVIOUS

(* The destination the caller is to find, bit by bit.                      *)
LEMMA FinalBit ==
  ASSUME TypeOK, NonEmpty, NEW j \in 0 .. DestBits - 1
  PROVE  /\ j >= DestStart /\ j < End => Final[j] = Want(j)
         /\ j < DestStart \/ j >= End => Final[j] = DestMem[j]
         /\ Final[j] \in Bit
         /\ DestMem[j] \in Bit
<1>1. /\ call.destBit \in Nat /\ call.srcBit \in Nat /\ call.bitCount \in Nat
      /\ call.srcBit + call.bitCount <= SrcBits /\ DestBits \in Nat /\ SrcBits \in Nat
  BY CallFacts
<1>2. SrcMem \in [0 .. SrcBits - 1 -> Bit] /\ DestMem \in [0 .. DestBits - 1 -> Bit]
  BY CallsAssumption DEF CallsAssumption
<1>3. /\ j >= DestStart /\ j < End => Final[j] = Want(j)
      /\ j < DestStart \/ j >= End => Final[j] = DestMem[j]
  BY <1>1 DEF Final, Target, End, Want, DestStart, SrcStart
<1>4. ASSUME j >= DestStart, j < End PROVE Want(j) \in Bit
  <2>1. call.srcBit + (j - call.destBit) \in 0 .. SrcBits - 1
    BY <1>1, <1>4 DEF End, DestStart
  <2> QED BY <2>1, <1>2 DEF Want, DestStart, SrcStart
<1>5. DestMem[j] \in Bit
  BY <1>2
<1>6. DestStart \in Nat /\ End \in Nat
  BY NumbersOK DEF Numbers
<1> QED BY <1>3, <1>4, <1>5, <1>6

(* The call does not change while it is executed.                          *)
LEMMA SameCall ==
  ASSUME UNCHANGED call
  PROVE  DestStart' = DestStart /\ SrcStart' = SrcStart /\ End' = End /\ Final' = Final
  BY DEF DestStart, SrcStart, End, Final, Target

-----------------------------------------------------------------------------
(* What is shown of a step.                                                *)

(* A bit stays as it is or becomes final.                                  *)
Keeps == \A j \in 0 .. DestBits - 1 : mem'[j] \in {mem[j], Final[j]}

StepOK == Inv' /\ Keeps /\ AccessInBounds'

MemType == mem \in [0 .. DestBits - 1 -> Bit]

(* The destination is finished below q, and untouched from q on.           *)
Reaches(q) ==
  \A j \in 0 .. DestBits - 1 : mem'[j] = IF j < q THEN Final[j] ELSE DestMem[j]

(* The cursors end at q.                                                   *)
StepsTo(q) ==
  /\ q \in Nat /\ q = 8 * Dest' + DestBit' /\ q >= DestStart
  /\ BitCount' \in Nat /\ Src' \in Nat /\ SrcBit' \in Nat /\ q + BitCount' = End
  /\ BitCount' > 0 => q - DestStart = 8 * Src' + SrcBit' - SrcStart

(* The bytes touched hold requested bits.                                  *)
Touches(S, D) ==
  /\ access' = [src |-> S, dest |-> D]
  /\ \A a \in S : a \in Nat /\ 8 * a < SrcEnd /\ 8 * a + 8 > SrcStart
  /\ \A a \in D : a \in Nat /\ 8 * a < End /\ 8 * a + 8 > DestStart

(* Writing the next bits, and no other, moves the frontier behind them.    *)
LEMMA Advance ==
  ASSUME TypeOK, NonEmpty,
         NEW p \in Nat, NEW q \in Nat, p <= q, Frontier(p),
         mem' = [j \in 0 .. DestBits - 1 |-> mem'[j]],
         \A j \in 0 .. DestBits - 1 :
           mem'[j] = IF j \in p .. q - 1 THEN Final[j] ELSE mem[j]
  PROVE  MemType' /\ Keeps /\ Reaches(q)
<1>1. DestBits \in Nat
  BY CallFacts
<1>2. \A j \in 0 .. DestBits - 1 : Final[j] \in Bit
  BY FinalBit
<1>3. MemType'
  BY <1>2 DEF TypeOK, MemType
<1>4. Keeps
  BY DEF Keeps
<1>5. Reaches(q)
  BY <1>1 DEF Frontier, Reaches
<1> QED BY <1>3, <1>4, <1>5

(* A step that gets as far as its new cursor leaves the destination final  *)
(* up to the cursor.                                                       *)
LEMMA FrontierAfter ==
  ASSUME UNCHANGED call, Reaches(DestPos')
  PROVE  Frontier(DestPos)'
  BY SameCall DEF Reaches, Frontier

(* A step that gets to the end of the range leaves all of the destination  *)
(* final.                                                                  *)
LEMMA EndAfter ==
  ASSUME UNCHANGED call, Reaches(End)
  PROVE  Frontier(End)'
  BY SameCall DEF Reaches, Frontier

(* Cursors that advance by the same number of bits stay in step.           *)
LEMMA NextInStep ==
  ASSUME Numbers, UNCHANGED call, NEW q, StepsTo(q)
  PROVE  InStep(DestPos)'
<1>1. End' = End /\ DestStart' = DestStart /\ SrcStart' = SrcStart
  BY SameCall
<1>2. DestPos' = q
  BY DEF StepsTo, DestPos, Byte
<1>3. SrcPos' = 8 * Src' + SrcBit'
  BY DEF SrcPos, Byte
<1> QED BY <1>1, <1>2, <1>3 DEF InStep, StepsTo, Numbers

(* A step that gets to q and puts both cursors there is again at its       *)
(* cursor.                                                                 *)
LEMMA NextAtCursor ==
  ASSUME Numbers, UNCHANGED call, NEW q, StepsTo(q), Reaches(q)
  PROVE  AtCursor'
<1>1. DestPos' = q
  BY DEF StepsTo, DestPos, Byte
<1>2. Frontier(DestPos)'
  BY <1>1, FrontierAfter
<1> QED BY <1>2, NextInStep DEF AtCursor

(* Bytes each of which holds a requested bit are in bounds.                *)
LEMMA NextAccess ==
  ASSUME TypeOK, NonEmpty, UNCHANGED call, NEW S, NEW D, Touches(S, D)
  PROVE  AccessInBounds' /\ access' \in [src : SUBSET Nat, dest : SUBSET Nat]
<1>1. /\ call.destBit \in Nat /\ call.srcBit \in Nat /\ call.bitCount \in Nat
      /\ call' = call
  BY CallFacts
<1>2. ASSUME NEW a \in S
      PROVE  a \in BytesOf(call.srcBit, call.bitCount) /\ a \in Nat
  <2>1. a \in Nat /\ 8 * a < call.srcBit + call.bitCount /\ 8 * a + 8 > call.srcBit
    BY DEF Touches, SrcEnd, SrcStart
  <2> QED BY <1>1, <2>1 DEF BytesOf, Byte
<1>3. ASSUME NEW a \in D
      PROVE  a \in BytesOf(call.destBit, call.bitCount) /\ a \in Nat
  <2>1. a \in Nat /\ 8 * a < call.destBit + call.bitCount /\ 8 * a + 8 > call.destBit
    BY DEF Touches, End, DestStart
  <2> QED BY <1>1, <2>1 DEF BytesOf, Byte
<1>4. access'.src = S /\ access'.dest = D /\ access' = [src |-> S, dest |-> D]
  BY DEF Touches
<1>5. /\ S \subseteq BytesOf(call.srcBit, call.bitCount)
      /\ D \subseteq BytesOf(call.destBit, call.bitCount)
  BY <1>2, <1>3
<1>6. AccessInBounds'
  BY <1>1, <1>4, <1>5 DEF AccessInBounds
<1> QED BY <1>2, <1>3, <1>4, <1>6

(* The parts of the next state that no arithmetic is needed for.           *)
LEMMA NextType ==
  ASSUME TypeOK, UNCHANGED call, MemType', pc' \in PcType,
         Dest' \in Nat, DestBit' \in Nat, Src' \in Nat, SrcBit' \in Nat, BitCount' \in Nat,
         WordBits' \in {8, 64}, LoopCount' \in Int, ShiftCount' \in Nat,
         RemainingBits' \in Nat, Reg' \in [Positions -> Bit],
         access' \in [src : SUBSET Nat, dest : SUBSET Nat]
  PROVE  TypeOK'
  BY DEF TypeOK, MemType

-----------------------------------------------------------------------------
(* Stores of a byte.                                                       *)

(* A read-modify-write of a byte, bit by bit.                              *)
LEMMA MergeByte ==
  ASSUME TypeOK, NonEmpty, NEW at \in Nat, 8 * at + 7 < DestBits,
         NEW mask, NEW word,
         \A k \in 0 .. 7 : k \notin mask => word[k] = Zero,
         mem' = Store(mem, at, Merge(Load(mem, at, 8), mask, word), 8)
  PROVE  /\ mem' = [j \in 0 .. DestBits - 1 |-> mem'[j]]
         /\ \A j \in 0 .. DestBits - 1 :
              mem'[j] = IF j \in 8 * at .. 8 * at + 7 /\ j - 8 * at \in mask
                        THEN word[j - 8 * at] ELSE mem[j]
<1> DEFINE merged == Merge(Load(mem, at, 8), mask, word)
<1>1. DestBits \in Nat /\ DOMAIN mem = 0 .. DestBits - 1
  BY CallFacts DEF TypeOK
<1>2. ASSUME NEW k \in 0 .. 7
      PROVE  merged[k] = IF k \in mask THEN word[k] ELSE mem[8 * at + k]
  <2>1. k \in Positions
    BY DEF Positions
  <2>2. Load(mem, at, 8)[k] = mem[8 * at + k]
    BY <2>1 DEF Load, Byte
  <2>3. Drop(Load(mem, at, 8), mask)[k] = IF k \in mask THEN Zero ELSE mem[8 * at + k]
    BY <2>1, <2>2 DEF Drop
  <2>4. merged[k] = OrBit(Drop(Load(mem, at, 8), mask)[k], word[k])
    BY <2>1 DEF Merge, Or
  <2>5. k \notin mask => word[k] = Zero
    OBVIOUS
  <2> QED BY <2>3, <2>4, <2>5 DEF OrBit
<1>3. mem' = [j \in 0 .. DestBits - 1 |->
                IF j \in 8 * at .. 8 * at + 7 THEN merged[j - 8 * at] ELSE mem[j]]
  BY <1>1 DEF Store, Byte
<1> HIDE DEF merged
<1>4. ASSUME NEW j \in 0 .. DestBits - 1, j \in 8 * at .. 8 * at + 7
      PROVE  mem'[j] = IF j - 8 * at \in mask THEN word[j - 8 * at] ELSE mem[j]
  <2>1. j - 8 * at \in 0 .. 7 /\ 8 * at + (j - 8 * at) = j
    BY <1>1, <1>4
  <2>2. mem'[j] = merged[j - 8 * at]
    BY <1>3, <1>4
  <2> QED BY <1>2, <2>1, <2>2
<1>5. ASSUME NEW j \in 0 .. DestBits - 1, j \notin 8 * at .. 8 * at + 7
      PROVE  mem'[j] = mem[j]
  BY <1>3, <1>5
<1>6. mem' = [j \in 0 .. DestBits - 1 |-> mem'[j]]
  BY <1>3
<1> QED BY <1>4, <1>5, <1>6

(* A store of w bits, bit by bit.                                          *)
LEMMA StoreBits ==
  ASSUME TypeOK, NonEmpty, NEW at \in Nat, NEW w \in Nat, NEW word,
         mem' = Store(mem, at, word, w)
  PROVE  /\ mem' = [j \in 0 .. DestBits - 1 |-> mem'[j]]
         /\ \A j \in 0 .. DestBits - 1 :
              mem'[j] = IF j \in 8 * at .. 8 * at + w - 1 THEN word[j - 8 * at] ELSE mem[j]
<1>1. DestBits \in Nat /\ DOMAIN mem = 0 .. DestBits - 1
  BY CallFacts DEF TypeOK
<1>2. mem' = [j \in 0 .. DestBits - 1 |->
                IF j \in 8 * at .. 8 * at + w - 1 THEN word[j - 8 * at] ELSE mem[j]]
  BY <1>1 DEF Store, Byte
<1> QED BY <1>2

(* The step writes the bits of byte `at` from p to q-1: they are the next  *)
(* to be written, and `word` has them in place.                            *)
Puts(at, p, q, mask, word) ==
  /\ at \in Nat /\ p \in Nat /\ q \in Nat
  /\ 8 * at <= p /\ p <= q /\ q <= 8 * at + 8 /\ DestStart <= p /\ q <= End /\ 8 * at < End
  /\ Frontier(p)
  /\ \A k \in 0 .. 7 : k \in mask <=> 8 * at + k \in p .. q - 1
  /\ \A k \in 0 .. 7 : word[k] = IF k \in mask THEN Want(8 * at + k) ELSE Zero
  /\ mem' = Store(mem, at, Merge(Load(mem, at, 8), mask, word), 8)

(* The read-modify-write of the boundary bytes: it brings the range from p *)
(* to q to its final value, and changes nothing else.                      *)
LEMMA PutBits ==
  ASSUME TypeOK, NonEmpty, NEW at, NEW p, NEW q, NEW mask, NEW word,
         Puts(at, p, q, mask, word)
  PROVE  MemType' /\ Keeps /\ Reaches(q)
<1>1. /\ Numbers /\ at \in Nat /\ p \in Nat /\ q \in Nat
      /\ 8 * at <= p /\ p <= q /\ q <= 8 * at + 8 /\ DestStart <= p /\ q <= End /\ 8 * at < End
  BY NumbersOK DEF Puts
<1>2. 8 * at + 7 < DestBits
  BY <1>1, ByteInBuffer DEF Numbers
<1>3. /\ mem' = [j \in 0 .. DestBits - 1 |-> mem'[j]]
      /\ \A j \in 0 .. DestBits - 1 :
           mem'[j] = IF j \in 8 * at .. 8 * at + 7 /\ j - 8 * at \in mask
                     THEN word[j - 8 * at] ELSE mem[j]
  <2>1. \A k \in 0 .. 7 : k \notin mask => word[k] = Zero
    BY DEF Puts
  <2>2. mem' = Store(mem, at, Merge(Load(mem, at, 8), mask, word), 8)
    BY DEF Puts
  <2> QED BY <1>1, <1>2, <2>1, <2>2, MergeByte, SMTT(60)
<1>4. ASSUME NEW j \in 0 .. DestBits - 1
      PROVE  mem'[j] = IF j \in p .. q - 1 THEN Final[j] ELSE mem[j]
  <2>1. CASE j \in p .. q - 1
    <3>1. /\ j - 8 * at \in 0 .. 7
          /\ 8 * at + (j - 8 * at) = j /\ j \in 8 * at .. 8 * at + 7
      BY <1>1, <2>1 DEF Numbers
    <3>2. j - 8 * at \in mask /\ word[j - 8 * at] = Want(8 * at + (j - 8 * at))
      BY <2>1, <3>1 DEF Puts
    <3>3. mem'[j] = word[j - 8 * at]
      BY <1>3, <3>1, <3>2
    <3>4. Want(8 * at + (j - 8 * at)) = Want(j)
      BY <3>1
    <3>5. j >= DestStart /\ j < End
      BY <1>1, <2>1 DEF Numbers
    <3>6. Final[j] = Want(j)
      BY <3>5, FinalBit
    <3> QED BY <2>1, <3>2, <3>3, <3>4, <3>6
  <2>2. CASE j \notin p .. q - 1
    <3>1. ~(j \in 8 * at .. 8 * at + 7 /\ j - 8 * at \in mask)
      <4>1. SUFFICES ASSUME j \in 8 * at .. 8 * at + 7, j - 8 * at \in mask PROVE FALSE
        OBVIOUS
      <4>2. j - 8 * at \in 0 .. 7 /\ 8 * at + (j - 8 * at) = j
        BY <1>1, <4>1 DEF Numbers
      <4> QED BY <2>2, <4>1, <4>2 DEF Puts
    <3> QED BY <1>3, <2>2, <3>1
  <2> QED BY <2>1, <2>2
<1>5. mem' = [j \in 0 .. DestBits - 1 |-> mem'[j]] /\ Frontier(p)
  BY <1>3 DEF Puts
<1> QED BY <1>1, <1>4, <1>5, Advance

(* Bit k of the w bits at the source cursor is the one destination bit j   *)
(* is to get.                                                              *)
Matches(w, k, j) ==
  /\ k \in Positions /\ k < w /\ j \in Nat
  /\ j - DestStart = 8 * Src + k - SrcStart

(* A bit loaded at the source cursor is the one due at the matching place  *)
(* in the destination.                                                     *)
LEMMA SourceBit ==
  ASSUME Numbers, NEW w, NEW k, NEW j, Matches(w, k, j)
  PROVE  Load(SrcMem, Src, w)[k] = Want(j)
<1>1. k \in Int /\ j \in Int
  BY DEF Matches, Positions
<1>2. SrcStart + (j - DestStart) = 8 * Src + k
  BY <1>1 DEF Numbers, Matches
<1> QED BY <1>2 DEF Load, Want, Byte, Matches

(* A masked source byte whose bits belong in the same places of byte `at`. *)
LEMMA SourceByte ==
  ASSUME Numbers, NEW at \in Nat, NEW mask, NEW k \in 0 .. 7,
         8 * at - DestStart = 8 * Src - SrcStart
  PROVE  Keep(Load(SrcMem, Src, 8), mask)[k] = IF k \in mask THEN Want(8 * at + k) ELSE Zero
<1>1. k \in Positions
  BY DEF Positions
<1>2. Matches(8, k, 8 * at + k)
  BY <1>1 DEF Numbers, Matches
<1>3. Load(SrcMem, Src, 8)[k] = Want(8 * at + k)
  BY <1>2, SourceBit
<1> QED BY <1>1, <1>3 DEF Keep

-----------------------------------------------------------------------------
(* Words.                                                                  *)

(* The operations on words give words.                                     *)
LEMMA WordTypes ==
  ASSUME NEW word \in [Positions -> Bit], NEW n \in Nat, NEW mask
  PROVE  /\ Keep(word, mask) \in [Positions -> Bit] /\ Drop(word, mask) \in [Positions -> Bit]
         /\ ShiftLeft(word, n) \in [Positions -> Bit] /\ ShiftRight(word, n) \in [Positions -> Bit]
<1>1. Zero \in Bit
  BY BitAssumption DEF BitAssumption
<1>2. Keep(word, mask) \in [Positions -> Bit] /\ Drop(word, mask) \in [Positions -> Bit]
  BY <1>1 DEF Keep, Drop
<1>3. ShiftLeft(word, n) \in [Positions -> Bit]
  BY <1>1 DEF ShiftLeft, Positions
<1>4. ShiftRight(word, n) \in [Positions -> Bit]
  BY <1>1 DEF ShiftRight, Positions
<1> QED BY <1>2, <1>3, <1>4

(* A word loaded inside a memory is a word of bits.                        *)
LEMMA LoadTypes ==
  ASSUME NEW n \in Nat, NEW m \in [0 .. n - 1 -> Bit], NEW at \in Nat, NEW w \in Nat,
         8 * at + w <= n
  PROVE  Load(m, at, w) \in [Positions -> Bit]
<1>1. ASSUME NEW k \in Positions PROVE (IF k < w THEN m[8 * at + k] ELSE Zero) \in Bit
  <2>1. CASE k < w
    <3>1. 8 * at + k \in 0 .. n - 1
      BY <2>1 DEF Positions
    <3> QED BY <2>1, <3>1
  <2>2. CASE ~(k < w)
    BY <2>2, BitAssumption DEF BitAssumption
  <2> QED BY <2>1, <2>2
<1> QED BY <1>1 DEF Load, Byte

(* A source byte that holds a requested bit.                               *)
LEMMA SourceByteType ==
  ASSUME TypeOK, NonEmpty, NEW at \in Nat, 8 * at < SrcEnd
  PROVE  Load(SrcMem, at, 8) \in [Positions -> Bit]
<1>1. SrcBits \in Nat /\ 8 * at + 8 <= SrcBits
  <2>1. SrcBits \in Nat /\ SrcBits % 8 = 0 /\ 8 * at < SrcBits
    BY NumbersOK DEF Numbers
  <2>2. 8 * at + 7 < SrcBits
    BY <2>1, ByteInBuffer
  <2> QED BY <2>1, <2>2
<1>2. SrcMem \in [0 .. SrcBits - 1 -> Bit]
  BY CallsAssumption DEF CallsAssumption
<1> QED BY <1>1, <1>2, LoadTypes
=============================================================================
