--------------------------- MODULE DecoderProofs ----------------------------
(***************************************************************************)
(* What the run `decoder` tries on some instructions, for instructions put *)
(* together from any prefixes, fields and SIB bytes.                       *)
(***************************************************************************)
EXTENDS MCX64Decode, X64Proofs, SequenceTheorems

BytesInv == insn \in Seq(0 .. 255)

LEMMA PutKeeps ==
  ASSUME BytesInv, NEW b \in 0 .. 255, NEW s, Put(b, s)
  PROVE  BytesInv'
BY DEF BytesInv, Put

LEMMA BytesStay == Spec => []BytesInv
<1>1. Init => BytesInv
  BY DEF Init, BytesInv
<1>2. BytesInv /\ [Next]_vars => BytesInv'
  <2> SUFFICES ASSUME BytesInv, [Next]_vars PROVE BytesInv'
    OBVIOUS
  <2>1. CASE LegacyByte
    BY <2>1, PutKeeps, BytesAssumption DEF LegacyByte, LegacyPrefix
  <2>2. CASE RexByte
    BY <2>2, PutKeeps, BytesAssumption DEF RexByte
  <2>3. CASE OpcodeByte
    BY <2>3, PutKeeps DEF OpcodeByte
  <2>4. CASE SecondByte
    BY <2>4, PutKeeps DEF SecondByte
  <2>5. CASE ModRMByte
    <3>1. \A m \in 0 .. 3, d \in Digits, r \in RMs : 64 * m + 8 * d + r \in 0 .. 255
      BY BytesAssumption
    <3> QED BY <2>5, <3>1, PutKeeps DEF ModRMByte
  <2>6. CASE SIBByte
    BY <2>6, PutKeeps, BytesAssumption DEF SIBByte
  <2>7. CASE UNCHANGED vars
    BY <2>7 DEF vars, BytesInv
  <2> QED BY <2>1, <2>2, <2>3, <2>4, <2>5, <2>6, <2>7 DEF Next
<1> QED BY <1>1, <1>2, PTL DEF Spec

LEMMA InsnIsBytes == BytesInv => Bytes(p)
<1> SUFFICES ASSUME BytesInv PROVE Bytes(p)
  OBVIOUS
<1>1. \A k \in 1 .. Len(insn) : insn[k] \in 0 .. 255
  BY ElementOfSeq DEF BytesInv
<1>2. Len(insn) \in Nat
  BY DEF BytesInv
<1>3. \A k \in 0 .. Len(insn) - 1 : insn[k + 1] \in 0 .. 255
  BY <1>1, <1>2
<1> QED BY <1>3 DEF Bytes, p

(* InstrLen returns 0 or the length of the instruction, but for the three  *)
(* encodings it misreads.                                                  *)
THEOREM InstrLenIsRight == Spec => []Measured
<1>1. BytesInv => Measured
  BY InsnIsBytes, DecoderMeasures DEF Measured
<1> QED BY <1>1, BytesStay, PTL

(* It measures an instruction the same whatever follows it.                *)
THEOREM InstrLenIsLocal == Spec => []DecodedAlike
<1>1. BytesInv => DecodedAlike
  <2> SUFFICES ASSUME BytesInv, InstrLen(p, 0) # 0, NEW f \in {0, 4, 5, \h0F, \h66, \h48, 255}
               PROVE  InstrLen(Before(InstrLen(p, 0), f), 0) = InstrLen(p, 0)
    BY DEF DecodedAlike
  <2> DEFINE n == InstrLen(p, 0)
             q == Before(n, f)
  <2>1. Bytes(p) /\ n \in 0 .. 31
    BY InsnIsBytes, LenBound
  <2>2. DOMAIN q = 0 .. 31 /\ \A o \in 0 .. 31 : q[o] = IF o < n THEN ByteAt(p, o) ELSE f
    BY DEF Before
  <2>3. Bytes(q)
    BY <2>1, <2>2, ByteFacts DEF Bytes
  <2>4. Alike(p, q, 0, n)
    BY <2>1, <2>2 DEF Alike, ByteAt
  <2> QED BY <2>1, <2>3, <2>4, TrampolineDecodes
<1> QED BY <1>1, BytesStay, PTL

(* RelocateTrampoline takes for branches what are branches, and finds      *)
(* their offsets.                                                          *)
THEOREM BranchesAreFound == Spec => []BranchesFound
<1>1. BytesInv => Bytes(Full)
  BY InsnIsBytes DEF Bytes, Full
<1>2. Bytes(Full) => BranchesFound
  BY DecoderFindsBranches DEF BranchesFound
<1> QED BY <1>1, <1>2, BytesStay, PTL
=============================================================================
