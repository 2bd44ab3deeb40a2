---------------------------- MODULE X64Proofs ------------------------------
(***************************************************************************)
(* InstrLen and RelocateTrampoline against the manual, for every sequence  *)
(* of bytes.                                                               *)
(***************************************************************************)
EXTENDS X64Manual, TLAPS

Bytes(p) == \A k \in DOMAIN p : p[k] \in 0 .. 255

LEMMA ByteFacts ==
  ASSUME NEW p, Bytes(p), NEW k
  PROVE  ByteAt(p, k) \in 0 .. 255
BY DEF ByteAt, Bytes, Int3

LEMMA OffsetTypes ==
  ASSUME NEW p, Bytes(p), NEW k
  PROVE  Signed8(ByteAt(p, k)) \in Int /\ Disp32(p, k) \in Int
<1>1. \A i : Signed8(ByteAt(p, i)) \in Int /\ ByteAt(p, i) \in Int
  BY ByteFacts DEF Signed8
<1>2. /\ ByteAt(p, k) \in Int /\ ByteAt(p, k + 1) \in Int
      /\ ByteAt(p, k + 2) \in Int /\ Signed8(ByteAt(p, k + 3)) \in Int
  BY <1>1
<1> QED BY <1>1, <1>2 DEF Disp32

LEMMA SamePrefixes == PrefixBytes = LegacyPrefix
BY DEF PrefixBytes, LegacyPrefix

(* The prefixes at an address come to an end, within 15 bytes as far as    *)
(* both InstrLen and the manual are concerned, and there is one such end.  *)
EndOfPrefixes(p, at, n) ==
  /\ \A k \in 0 .. n - 1 : ByteAt(p, at + k) \in PrefixBytes
  /\ n = 15 \/ ByteAt(p, at + n) \notin PrefixBytes

LEMMA PrefixesEnd ==
  ASSUME NEW p, NEW at \in Nat
  PROVE  \E n \in 0 .. 15 : EndOfPrefixes(p, at, n)
<1> DEFINE All(n) == \A k \in 0 .. n - 1 : ByteAt(p, at + k) \in PrefixBytes
<1> SUFFICES ASSUME \A n \in 0 .. 15 : ~EndOfPrefixes(p, at, n) PROVE FALSE
  OBVIOUS
<1>1. ASSUME NEW n \in 0 .. 14, All(n) PROVE All(n + 1)
  BY <1>1 DEF EndOfPrefixes
<1>2. All(0)
  OBVIOUS
<1> HIDE DEF All
<1>3. All(5)
  BY <1>1, <1>2
<1>4. All(10)
  BY <1>1, <1>3
<1>5. All(15)
  BY <1>1, <1>4
<1> QED BY <1>5 DEF All, EndOfPrefixes

LEMMA PrefixesEndOnce ==
  ASSUME NEW p, NEW at \in Nat, NEW n \in 0 .. 15, NEW m \in 0 .. 15,
         EndOfPrefixes(p, at, n), EndOfPrefixes(p, at, m)
  PROVE  n = m
BY DEF EndOfPrefixes

LEMMA PrefixLenFacts ==
  ASSUME NEW p, NEW at \in Nat
  PROVE  PrefixLen(p, at) \in 0 .. 15 /\ EndOfPrefixes(p, at, PrefixLen(p, at))
<1>1. PrefixLen(p, at) = CHOOSE n \in 0 .. 15 : EndOfPrefixes(p, at, n)
  BY DEF PrefixLen, EndOfPrefixes, MaxPrefixes
<1> QED BY <1>1, PrefixesEnd

LEMMA ManualPrefixes ==
  ASSUME NEW p, NEW at \in Nat
  PROVE  AfterPrefixes(p, at) = at + PrefixLen(p, at)
<1> DEFINE Ends(e) == /\ \A k \in at .. e - 1 : ByteAt(p, k) \in LegacyPrefix
                      /\ e = at + 15 \/ ByteAt(p, e) \notin LegacyPrefix
<1>1. \A e \in at .. at + 15 : Ends(e) => EndOfPrefixes(p, at, e - at)
  BY SamePrefixes DEF EndOfPrefixes
<1>2. \A n \in 0 .. 15 : EndOfPrefixes(p, at, n) => Ends(at + n)
  <2> SUFFICES ASSUME NEW n \in 0 .. 15, EndOfPrefixes(p, at, n),
                      NEW k \in at .. at + n - 1
               PROVE  ByteAt(p, k) \in LegacyPrefix
    BY SamePrefixes DEF EndOfPrefixes
  <2>1. k - at \in 0 .. n - 1 /\ at + (k - at) = k
    OBVIOUS
  <2> QED BY <2>1, SamePrefixes DEF EndOfPrefixes
<1>3. AfterPrefixes(p, at) = CHOOSE e \in at .. at + 15 : Ends(e)
  BY DEF AfterPrefixes
<1> HIDE DEF Ends
<1>4. at + PrefixLen(p, at) \in at .. at + 15 /\ Ends(at + PrefixLen(p, at))
  BY <1>2, PrefixLenFacts
<1>5. AfterPrefixes(p, at) \in at .. at + 15 /\ Ends(AfterPrefixes(p, at))
  BY <1>3, <1>4
<1> QED BY <1>1, <1>5, PrefixLenFacts, PrefixesEndOnce

(* So both find the REX prefix and the opcode in the same place.           *)
LEMMA SameOpcode ==
  ASSUME NEW p, Bytes(p), NEW at \in Nat
  PROVE  /\ OpcodeAt(p, at) = at + OpOff(p, at) /\ OpOff(p, at) \in 0 .. 16
         /\ ByteAt(p, OpcodeAt(p, at)) = Op(p, at)
         /\ HasRex(p, at) <=> ByteAt(p, AfterPrefixes(p, at)) \div 16 = 4
         /\ HasOperandSize(p, at) <=>
              \E k \in at .. AfterPrefixes(p, at) - 1 : ByteAt(p, k) = \h66
<1> DEFINE b == ByteAt(p, AfterPrefixes(p, at))
<1>1. PrefixLen(p, at) \in 0 .. 15 /\ AfterPrefixes(p, at) = at + PrefixLen(p, at)
  BY PrefixLenFacts, ManualPrefixes
<1>2. b \in 0 .. 255
  BY ByteFacts
<1>3. b \in \h40 .. \h4F <=> b \div 16 = 4
  BY <1>2
<1>4. HasRex(p, at) <=> b \div 16 = 4
  BY <1>1, <1>3 DEF HasRex
<1>5. OpcodeAt(p, at) = at + OpOff(p, at) /\ OpOff(p, at) \in 0 .. 16
  BY <1>1, <1>4 DEF OpcodeAt, OpOff
<1> DEFINE n == PrefixLen(p, at)
<1>6. n \in Nat /\ AfterPrefixes(p, at) = at + n
  BY <1>1
<1>7. HasOperandSize(p, at) <=> \E k \in 0 .. n - 1 : ByteAt(p, at + k) = \h66
  BY DEF HasOperandSize, HasPrefix
<1> HIDE DEF n
<1>8. (\E k \in 0 .. n - 1 : ByteAt(p, at + k) = \h66)
        <=> \E k \in at .. at + n - 1 : ByteAt(p, k) = \h66
  <2>1. ASSUME NEW k \in at .. at + n - 1
        PROVE  k - at \in 0 .. n - 1 /\ at + (k - at) = k
    BY <1>6
  <2>2. ASSUME NEW k \in 0 .. n - 1
        PROVE  at + k \in at .. at + n - 1
    BY <1>6
  <2> QED BY <2>1, <2>2
<1>9. HasOperandSize(p, at) <=> \E k \in at .. AfterPrefixes(p, at) - 1 : ByteAt(p, k) = \h66
  BY <1>6, <1>7, <1>8
<1> QED BY <1>4, <1>5, <1>9 DEF Op

(* The opcode where the manual looks for it.                               *)
LEMMA OneByte ==
  ASSUME NEW p, Bytes(p), NEW at \in Nat, Op(p, at) \notin {\h0F, \hC5}
  PROVE  /\ ~Escaped(p, at) /\ LastOpcode(p, at) = Op(p, at)
         /\ LastOpcodeAt(p, at) = at + OpOff(p, at)
BY SameOpcode DEF Escaped, LastOpcodeAt, LastOpcode, Op

LEMMA TwoBytes ==
  ASSUME NEW p, Bytes(p), NEW at \in Nat, Op(p, at) = \h0F
  PROVE  /\ Escaped(p, at) /\ LastOpcode(p, at) = Op2(p, at)
         /\ LastOpcodeAt(p, at) = at + OpOff(p, at) + 1
BY SameOpcode DEF Escaped, LastOpcodeAt, LastOpcode, Op2

(* What follows a ModRM byte is measured right, unless its SIB byte says   *)
(* that there is no base.                                                  *)
LEMMA OperandAgrees ==
  ASSUME NEW p, Bytes(p), NEW at \in Nat, LastOpcodeAt(p, at) \in Nat
  PROVE  /\ ModRMSize(p, LastOpcodeAt(p, at) + 1) \in 1 .. 6 /\ OperandSize(p, at) \in 1 .. 6
         /\ ModRMSize(p, LastOpcodeAt(p, at) + 1)
              = OperandSize(p, at) - (IF HasSIB(p, at) /\ NoBase(p, at) THEN 4 ELSE 0)
<1> DEFINE mr == ModRM(p, at)
<1>1. mr \in 0 .. 255 /\ mr = ByteAt(p, LastOpcodeAt(p, at) + 1)
  BY ByteFacts DEF ModRM
<1>2. Mod(mr) \in 0 .. 3 /\ RM(mr) \in 0 .. 7
  BY <1>1 DEF Mod, RM
<1> HIDE DEF mr
<1>3. ModRMSize(p, LastOpcodeAt(p, at) + 1) =
        IF Mod(mr) = 3 THEN 1
        ELSE 1 + (IF RM(mr) = 4 THEN 1 ELSE 0)
               + CASE Mod(mr) = 1 -> 1
                   [] Mod(mr) = 2 -> 4
                   [] OTHER -> IF RM(mr) = 5 THEN 4 ELSE 0
  BY <1>1 DEF ModRMSize
<1>4. HasSIB(p, at) <=> Mod(mr) # 3 /\ RM(mr) = 4
  BY DEF HasSIB, mr
<1>5. /\ NoBase(p, at) => Mod(mr) = 0 /\ RM(mr) \in {4, 5}
      /\ Mod(mr) = 0 /\ RM(mr) = 5 => NoBase(p, at)
  BY <1>2 DEF NoBase, mr
<1>6. OperandSize(p, at) =
        1 + (IF HasSIB(p, at) THEN 1 ELSE 0)
          + CASE Mod(mr) = 1 -> 1
              [] Mod(mr) = 2 \/ NoBase(p, at) -> 4
              [] OTHER -> 0
  BY DEF OperandSize, mr
<1>7. CASE Mod(mr) = 0
  BY <1>2, <1>3, <1>4, <1>5, <1>6, <1>7
<1>8. CASE Mod(mr) = 1
  BY <1>2, <1>3, <1>4, <1>5, <1>6, <1>8
<1>9. CASE Mod(mr) = 2
  BY <1>2, <1>3, <1>4, <1>5, <1>6, <1>9
<1>10. CASE Mod(mr) = 3
  BY <1>2, <1>3, <1>4, <1>5, <1>6, <1>10
<1> QED BY <1>2, <1>7, <1>8, <1>9, <1>10

(* What InstrLen returns is the length of the instruction, unless it is    *)
(* one of the three encodings.                                             *)
Right(p, at) == InstrLen(p, at) = TrueLen(p, at) <=> ~Misread(p, at)

(* No ModRM byte, and n bytes after the opcode.                            *)
LEMMA WithoutModRM ==
  ASSUME NEW p, Bytes(p), NEW at \in Nat, Op(p, at) \notin {\h0F, \hC5},
         ~HasModRM(p, at), Op(p, at) \notin MovImm \cup WithModRMImm,
         InstrLen(p, at) = OpOff(p, at) + 1 + ImmSize(p, at)
  PROVE  Right(p, at)
<1>1. ~Misread(p, at)
  BY OneByte DEF Misread, NoBaseByte, RexNotW, Overridden
<1>2. TrueLen(p, at) = at + OpOff(p, at) + 1 - at + 0 + ImmSize(p, at)
  BY OneByte DEF TrueLen
<1>3. InstrLen(p, at) = TrueLen(p, at)
  <2>1. OpOff(p, at) \in Nat
    BY SameOpcode
  <2>2. ImmSize(p, at) \in Nat
    BY DEF ImmSize, Iz
  <2> QED BY <1>2, <2>1, <2>2
<1> QED BY <1>1, <1>3 DEF Right

(* A ModRM byte, and an immediate that InstrLen takes to be imm bytes.     *)
LEMMA OneByteWithModRM ==
  ASSUME NEW p, Bytes(p), NEW at \in Nat, Op(p, at) \notin {\h0F, \hC5}, Op(p, at) \notin MovImm,
         HasModRM(p, at), NEW imm \in Nat,
         InstrLen(p, at) = OpOff(p, at) + 1 + ModRMSize(p, at + OpOff(p, at) + 1) + imm,
         imm <= ImmSize(p, at), imm = ImmSize(p, at) <=> ~Overridden(p, at)
  PROVE  Right(p, at)
<1>1. Misread(p, at) <=> (HasSIB(p, at) /\ NoBase(p, at)) \/ Overridden(p, at)
  BY OneByte DEF Misread, NoBaseByte, RexNotW
<1>2. OpOff(p, at) \in Nat /\ LastOpcodeAt(p, at) = at + OpOff(p, at)
  BY SameOpcode, OneByte
<1>3. TrueLen(p, at) = OpOff(p, at) + 1 + OperandSize(p, at) + ImmSize(p, at)
  BY <1>2, OperandAgrees DEF TrueLen
<1>4. ImmSize(p, at) \in Nat
  BY DEF ImmSize, Iz
<1> DEFINE m == ModRMSize(p, at + OpOff(p, at) + 1)
           s == OperandSize(p, at)
           none == HasSIB(p, at) /\ NoBase(p, at)
<1>5. m \in 1 .. 6 /\ s \in 1 .. 6 /\ m = s - (IF none THEN 4 ELSE 0)
  BY <1>2, OperandAgrees
<1>6. InstrLen(p, at) = OpOff(p, at) + 1 + m + imm
  OBVIOUS
<1> HIDE DEF m, s, none
<1>7. InstrLen(p, at) = TrueLen(p, at) <=> ~none /\ ~Overridden(p, at)
  BY <1>2, <1>3, <1>4, <1>5, <1>6 DEF s
<1> QED BY <1>1, <1>7 DEF Right, none

(* The classes of opcodes that InstrLen tells apart have none in common.   *)
LEMMA Classes ==
  ASSUME NEW op
  PROVE  /\ op \in Plain => op \notin WithModRM \cup WithModRMImm8 \cup WithModRMImm \cup MovImm
         /\ op \in WithModRM => op \notin WithModRMImm8 \cup WithModRMImm \cup MovImm
         /\ op \in WithModRMImm8 => op \notin WithModRMImm \cup MovImm
         /\ op \in WithModRMImm => op \notin MovImm
         /\ op \in Plain \cup WithModRM \cup WithModRMImm8 \cup WithModRMImm \cup MovImm =>
              op \notin ShortJump \cup NearJump
         /\ op \in ShortJump => op \notin NearJump
         /\ op \in Plain \cup WithModRM \cup WithModRMImm8 \cup WithModRMImm \cup MovImm
                     \cup ShortJump \cup NearJump =>
              op \notin {\h0F, \hC5, \hFF}
         /\ op \in TwoByteModRM => op \notin TwoByteJump
BY DEF Plain, WithModRM, WithModRMImm8, WithModRMImm, MovImm, ShortJump, NearJump, TwoByteModRM,
   TwoByteJump

(* What it returns for each of them.                                       *)
LEMMA InstrLenIs ==
  ASSUME NEW p, NEW at
  PROVE  LET op == Op(p, at)
             len == OpOff(p, at) + 1
             imm == IF HasOperandSize(p, at) THEN 2 ELSE 4
             FFDigit == Reg3(ByteAt(p, at + len)) \in FFDigits
         IN /\ op \in Plain => InstrLen(p, at) = len
            /\ op \in WithModRM => InstrLen(p, at) = len + ModRMSize(p, at + len)
            /\ op \in WithModRMImm8 => InstrLen(p, at) = len + ModRMSize(p, at + len) + 1
            /\ op \in WithModRMImm => InstrLen(p, at) = len + ModRMSize(p, at + len) + imm
            /\ op \in MovImm => InstrLen(p, at) = len + (IF HasRex(p, at) THEN 8 ELSE imm)
            /\ op \in ShortJump => InstrLen(p, at) = len + 1
            /\ op \in NearJump => InstrLen(p, at) = len + 4
            /\ op = \hFF =>
                 InstrLen(p, at) = IF FFDigit THEN len + ModRMSize(p, at + len) ELSE 0
            /\ op = \h0F =>
                 /\ Op2(p, at) \in TwoByteModRM =>
                      InstrLen(p, at) = len + 1 + ModRMSize(p, at + len + 1)
                 /\ Op2(p, at) \in TwoByteJump => InstrLen(p, at) = len + 5
                 /\ Op2(p, at) \notin TwoByteModRM \cup TwoByteJump => InstrLen(p, at) = 0
            /\ op \notin Plain \cup WithModRM \cup WithModRMImm8 \cup WithModRMImm \cup MovImm
                           \cup ShortJump \cup NearJump \cup {\hFF, \h0F} =>
                 InstrLen(p, at) = 0
<1>1. CASE Op(p, at) \in Plain
  BY Classes, <1>1 DEF InstrLen
<1>2. CASE Op(p, at) \in WithModRM
  BY Classes, <1>2 DEF InstrLen
<1>3. CASE Op(p, at) \in WithModRMImm8
  BY Classes, <1>3 DEF InstrLen
<1>4. CASE Op(p, at) \in WithModRMImm
  BY Classes, <1>4 DEF InstrLen
<1>5. CASE Op(p, at) \in MovImm
  BY Classes, <1>5 DEF InstrLen
<1>6. CASE Op(p, at) \in ShortJump
  BY Classes, <1>6 DEF InstrLen
<1>7. CASE Op(p, at) \in NearJump
  BY Classes, <1>7 DEF InstrLen
<1>8. CASE Op(p, at) = \hFF
  BY Classes, <1>8 DEF InstrLen
<1>9. CASE Op(p, at) = \h0F /\ Op2(p, at) \in TwoByteModRM
  BY Classes, <1>9 DEF InstrLen
<1>10. CASE Op(p, at) = \h0F /\ Op2(p, at) \notin TwoByteModRM
  BY Classes, <1>10 DEF InstrLen
<1>11. CASE Op(p, at) \notin Plain \cup WithModRM \cup WithModRMImm8 \cup WithModRMImm \cup MovImm
                             \cup ShortJump \cup NearJump \cup {\hFF, \h0F}
  BY Classes, <1>11 DEF InstrLen
<1> QED BY <1>1, <1>2, <1>3, <1>4, <1>5, <1>6, <1>7, <1>8, <1>9, <1>10, <1>11

(* What the manual says of the opcodes of the one-byte map that it knows.  *)
OneByteKnown ==
  Plain \cup WithModRM \cup WithModRMImm8 \cup WithModRMImm \cup MovImm \cup ShortJump \cup NearJump
    \cup {\hFF}

LEMMA OneByteManual ==
  ASSUME NEW p, Bytes(p), NEW at \in Nat, Op(p, at) \in OneByteKnown
  PROVE  LET op == Op(p, at)
         IN /\ HasModRM(p, at) <=> op \in WithModRM \cup WithModRMImm8 \cup WithModRMImm \cup {\hFF}
            /\ Jb(p, at) <=> op \in ShortJump
            /\ Jz(p, at) <=> op \in NearJump
            /\ ImmSize(p, at) = CASE op \in ShortJump -> 1
                                  [] op \in NearJump -> 4
                                  [] op \in WithModRMImm8 -> 1
                                  [] op \in WithModRMImm -> Iz(p, at)
                                  [] op \in MovImm -> IF W(p, at) THEN 8 ELSE Iz(p, at)
                                  [] OTHER -> 0
<1> DEFINE op == Op(p, at)
<1>1. op \notin {\h0F, \hC5} /\ ~Escaped(p, at) /\ LastOpcode(p, at) = op
  BY OneByte, Classes DEF OneByteKnown
<1> HIDE DEF op
<1> USE DEF Plain, WithModRM, WithModRMImm8, WithModRMImm, MovImm, ShortJump, NearJump
<1>2. op \in OneByteKnown
  BY DEF op
<1>3. HasModRM(p, at) <=> op \in WithModRM \cup WithModRMImm8 \cup WithModRMImm \cup {\hFF}
  BY <1>1, <1>2 DEF HasModRM, OneByteModRM, OneByteKnown
<1>4. (Jb(p, at) <=> op \in ShortJump) /\ (Jz(p, at) <=> op \in NearJump)
  BY <1>1, <1>2 DEF Jb, Jz, OneByteKnown
<1>5. (op \in OneByteIb <=> op \in WithModRMImm8) /\ (op \in OneByteIz <=> op \in WithModRMImm)
  BY <1>2 DEF OneByteIb, OneByteIz, OneByteKnown
<1>6. op \notin {\hF6, \hF7} \cup \hA0 .. \hA3 \cup {\hC2, \hCA, \hC8}
  BY <1>2 DEF OneByteKnown
<1> QED
  <2> HIDE DEF Plain, WithModRM, WithModRMImm8, WithModRMImm, ShortJump, NearJump
  <2>1. ImmSize(p, at) = CASE op \in ShortJump -> 1
                         [] op \in NearJump -> 4
                         [] op \in WithModRMImm8 -> 1
                         [] op \in WithModRMImm -> Iz(p, at)
                         [] op \in MovImm -> IF W(p, at) THEN 8 ELSE Iz(p, at)
                         [] OTHER -> 0
    BY <1>1, <1>4, <1>5, <1>6, Classes DEF ImmSize
  <2> QED BY <1>3, <1>4, <2>1 DEF op

LEMMA TwoByteManual ==
  ASSUME NEW p, Bytes(p), NEW at \in Nat, Op(p, at) = \h0F,
         Op2(p, at) \in TwoByteModRM \cup TwoByteJump
  PROVE  /\ HasModRM(p, at) <=> Op2(p, at) \in TwoByteModRM
         /\ ~Jb(p, at)
         /\ Jz(p, at) <=> Op2(p, at) \in TwoByteJump
         /\ ImmSize(p, at) = IF Op2(p, at) \in TwoByteJump THEN 4 ELSE 0
<1> DEFINE op == Op2(p, at)
<1>1. Escaped(p, at) /\ LastOpcode(p, at) = op
  BY TwoBytes
<1> HIDE DEF op
<1>2. op \in TwoByteModRM \cup TwoByteJump
  BY DEF op
<1>3. HasModRM(p, at) <=> op \in TwoByteModRM
  BY <1>1, <1>2 DEF HasModRM, TwoByteAlone, TwoByteModRM, TwoByteJump
<1>4. ~Jb(p, at) /\ (Jz(p, at) <=> op \in TwoByteJump)
  BY <1>1, <1>2 DEF Jb, Jz, TwoByteModRM, TwoByteJump
<1>5. op \notin TwoByteIb
  BY <1>2 DEF TwoByteIb, TwoByteModRM, TwoByteJump
<1>6. ImmSize(p, at) = IF op \in TwoByteJump THEN 4 ELSE 0
  BY <1>1, <1>4, <1>5 DEF ImmSize
<1> QED BY <1>3, <1>4, <1>6 DEF op

-----------------------------------------------------------------------------
(* InstrLen returns 0 or the length of the instruction, whatever the       *)
(* bytes, but for the three encodings, and for those it is never right.    *)
THEOREM DecoderMeasures ==
  ASSUME NEW p, Bytes(p), NEW at \in Nat, InstrLen(p, at) # 0
  PROVE  InstrLen(p, at) = TrueLen(p, at) <=> ~Misread(p, at)
<1> DEFINE op == Op(p, at)
           len == OpOff(p, at) + 1
           imm == IF HasOperandSize(p, at) THEN 2 ELSE 4
<1>1. OpOff(p, at) \in Nat
  BY SameOpcode
<1>2. Iz(p, at) = IF HasOperandSize(p, at) /\ ~W(p, at) THEN 2 ELSE 4
  BY SameOpcode DEF Iz
<1>3. W(p, at) => HasRex(p, at)
  BY SameOpcode DEF W, Rex
<1>4. ASSUME op \in OneByteKnown
      PROVE  op \notin {\h0F, \hC5} /\ ~Escaped(p, at) /\ LastOpcode(p, at) = op
  BY <1>4, OneByte, Classes DEF OneByteKnown
<1>5. ASSUME op \in OneByteKnown
      PROVE  Overridden(p, at) <=>
               op \in WithModRMImm /\ HasOperandSize(p, at) /\ W(p, at)
  BY <1>4, <1>5 DEF Overridden
<1>6. CASE op \in Plain \cup ShortJump \cup NearJump
  <2>1. op \in OneByteKnown /\ op \notin MovImm \cup WithModRMImm
    BY <1>6, Classes DEF OneByteKnown
  <2>2. ~HasModRM(p, at)
    BY <1>6, <2>1, OneByteManual, Classes
  <2>3. InstrLen(p, at) = len + ImmSize(p, at)
    BY <1>1, <1>6, <2>1, OneByteManual, InstrLenIs, Classes
  <2> QED BY <1>4, <2>1, <2>2, <2>3, WithoutModRM DEF Right
<1>7. CASE op \in MovImm
  <2>1. op \in OneByteKnown /\ op \notin WithModRMImm
    BY <1>7, Classes DEF OneByteKnown
  <2>2. ~HasModRM(p, at) /\ ImmSize(p, at) = IF W(p, at) THEN 8 ELSE Iz(p, at)
    BY <1>7, <2>1, OneByteManual, Classes
  <2>3. InstrLen(p, at) = len + (IF HasRex(p, at) THEN 8 ELSE imm)
    BY <1>7, InstrLenIs
  <2>4. TrueLen(p, at) = len + ImmSize(p, at)
    BY <1>1, <1>2, <1>4, <2>1, <2>2, OneByte DEF TrueLen
  <2>5. Misread(p, at) <=> HasRex(p, at) /\ ~W(p, at)
    BY <1>4, <1>7, <2>1, <2>2 DEF Misread, NoBaseByte, RexNotW, Overridden
  <2> QED BY <1>1, <1>2, <1>3, <2>2, <2>3, <2>4, <2>5
<1>8. CASE op \in WithModRM \cup WithModRMImm8 \cup WithModRMImm \cup {\hFF}
  <2>1. op \in OneByteKnown /\ op \notin MovImm /\ HasModRM(p, at)
    BY <1>8, OneByteManual, Classes DEF OneByteKnown
  <2> DEFINE n == IF op \in WithModRMImm8 THEN 1 ELSE IF op \in WithModRMImm THEN imm ELSE 0
  <2>2. n \in Nat /\ ModRMSize(p, at + len) \in Nat
    BY <1>1, <1>4, <2>1, OneByte, OperandAgrees
  <2>3. InstrLen(p, at) = len + ModRMSize(p, at + len) + n
    BY <1>1, <1>8, <2>2, InstrLenIs, Classes
  <2>4. ImmSize(p, at) =
          IF op \in WithModRMImm8 THEN 1 ELSE IF op \in WithModRMImm THEN Iz(p, at) ELSE 0
    BY <1>8, <2>1, OneByteManual, Classes
  <2>5. n <= ImmSize(p, at) /\ (n = ImmSize(p, at) <=> ~Overridden(p, at))
    BY <1>2, <1>5, <2>1, <2>4, Classes
  <2> HIDE DEF n
  <2> QED BY <1>1, <1>4, <2>1, <2>2, <2>3, <2>5, OneByteWithModRM DEF Right
<1>9. CASE op = \h0F
  <2>1. /\ Escaped(p, at) /\ LastOpcodeAt(p, at) = at + len
        /\ Op2(p, at) \in TwoByteModRM \cup TwoByteJump
    BY <1>1, <1>9, TwoBytes, InstrLenIs
  <2>2. Misread(p, at) <=> HasModRM(p, at) /\ HasSIB(p, at) /\ NoBase(p, at)
    BY <2>1 DEF Misread, NoBaseByte, RexNotW, Overridden
  <2>3. CASE Op2(p, at) \in TwoByteJump
    <3>1. ~HasModRM(p, at) /\ ImmSize(p, at) = 4 /\ InstrLen(p, at) = len + 5
      BY <1>9, <2>3, TwoByteManual, InstrLenIs, Classes
    <3> QED BY <1>1, <2>1, <2>2, <3>1 DEF TrueLen
  <2>4. CASE Op2(p, at) \in TwoByteModRM
    <3>1. /\ HasModRM(p, at) /\ ImmSize(p, at) = 0
          /\ InstrLen(p, at) = len + 1 + ModRMSize(p, at + len + 1)
      BY <1>9, <2>4, TwoByteManual, InstrLenIs, Classes
    <3>2. /\ ModRMSize(p, at + len + 1) \in 1 .. 6 /\ OperandSize(p, at) \in 1 .. 6
          /\ ModRMSize(p, at + len + 1)
               = OperandSize(p, at) - (IF HasSIB(p, at) /\ NoBase(p, at) THEN 4 ELSE 0)
      BY <1>1, <2>1, OperandAgrees
    <3>3. TrueLen(p, at) = len + 1 + OperandSize(p, at)
      BY <1>1, <2>1, <3>1, <3>2 DEF TrueLen
    <3> QED BY <1>1, <2>2, <3>1, <3>2, <3>3
  <2> QED BY <2>1, <2>3, <2>4
<1> QED BY <1>6, <1>7, <1>8, <1>9, InstrLenIs

-----------------------------------------------------------------------------
(* No byte beyond those it counts matters to InstrLen: it measures the     *)
(* same in the trampoline, whatever follows there.                         *)
Alike(p, q, at, n) == \A k \in 0 .. n - 1 : ByteAt(q, at + k) = ByteAt(p, at + k)

LEMMA CountedBytes ==
  ASSUME NEW p, Bytes(p), NEW at \in Nat, InstrLen(p, at) # 0
  PROVE  /\ OpOff(p, at) + 1 \in 1 .. InstrLen(p, at) /\ InstrLen(p, at) \in Nat
         /\ Op(p, at) = \h0F => OpOff(p, at) + 2 <= InstrLen(p, at)
         /\ Op(p, at) \in WithModRM \cup WithModRMImm8 \cup WithModRMImm \cup {\hFF} =>
              OpOff(p, at) + 2 <= InstrLen(p, at)
         /\ Op(p, at) = \h0F /\ Op2(p, at) \in TwoByteModRM =>
              OpOff(p, at) + 3 <= InstrLen(p, at)
<1>1. OpOff(p, at) \in Nat
  BY SameOpcode
<1>2. ASSUME NEW m PROVE ModRMSize(p, m) \in 1 .. 6
  BY DEF ModRMSize
<1> QED BY <1>1, <1>2, InstrLenIs DEF OneByteKnown

LEMMA AlikeFields ==
  ASSUME NEW p, Bytes(p), NEW q, Bytes(q), NEW at \in Nat, Alike(p, q, at, OpOff(p, at) + 1)
  PROVE  /\ OpOff(q, at) = OpOff(p, at) /\ Op(q, at) = Op(p, at)
         /\ HasRex(q, at) <=> HasRex(p, at)
         /\ HasOperandSize(q, at) <=> HasOperandSize(p, at)
<1> DEFINE n == PrefixLen(p, at)
<1>1. n \in 0 .. 15 /\ EndOfPrefixes(p, at, n) /\ n <= OpOff(p, at) /\ OpOff(p, at) \in Nat
  BY PrefixLenFacts DEF OpOff
<1> HIDE DEF n
<1>2. ASSUME NEW k \in 0 .. n PROVE ByteAt(q, at + k) = ByteAt(p, at + k)
  BY <1>1 DEF Alike
<1>3. EndOfPrefixes(q, at, n)
  BY <1>1, <1>2 DEF EndOfPrefixes
<1>4. PrefixLen(q, at) = n
  BY <1>1, <1>3, PrefixLenFacts, PrefixesEndOnce
<1>5. HasRex(q, at) <=> HasRex(p, at)
  BY <1>1, <1>2, <1>4 DEF HasRex, n
<1>6. OpOff(q, at) = OpOff(p, at)
  BY <1>4, <1>5 DEF OpOff, n
<1>7. HasOperandSize(q, at) <=> HasOperandSize(p, at)
  <2>1. /\ HasOperandSize(p, at) <=> \E k \in 0 .. n - 1 : ByteAt(p, at + k) = \h66
        /\ HasOperandSize(q, at) <=> \E k \in 0 .. n - 1 : ByteAt(q, at + k) = \h66
    BY <1>4 DEF HasOperandSize, HasPrefix, n
  <2>2. \A k \in 0 .. n - 1 : ByteAt(q, at + k) = ByteAt(p, at + k)
    BY <1>1, <1>2
  <2> QED BY <2>1, <2>2
<1>8. ByteAt(q, at + OpOff(p, at)) = ByteAt(p, at + OpOff(p, at))
  BY <1>1 DEF Alike
<1> QED BY <1>5, <1>6, <1>7, <1>8 DEF Op

LEMMA LenBound ==
  ASSUME NEW p, Bytes(p), NEW at \in Nat
  PROVE  InstrLen(p, at) \in 0 .. 31
<1>1. OpOff(p, at) \in 0 .. 16
  BY SameOpcode
<1>2. ASSUME NEW m PROVE ModRMSize(p, m) \in 1 .. 6
  BY DEF ModRMSize
<1> QED BY <1>1, <1>2, InstrLenIs

(* RelocateTrampoline finds in the trampoline the instruction that         *)
(* InstallHook_X64 found in the function: InstrLen looks at no byte beyond *)
(* those it counts.                                                        *)
THEOREM TrampolineDecodes ==
  ASSUME NEW p, Bytes(p), NEW q, Bytes(q), NEW at \in Nat, InstrLen(p, at) # 0,
         Alike(p, q, at, InstrLen(p, at))
  PROVE  InstrLen(q, at) = InstrLen(p, at)
<1> DEFINE op == Op(p, at)
           len == OpOff(p, at) + 1
<1>1. OpOff(p, at) \in Nat /\ len <= InstrLen(p, at) /\ InstrLen(p, at) \in Nat
  BY SameOpcode, CountedBytes
<1>2. /\ OpOff(q, at) = OpOff(p, at) /\ Op(q, at) = op
      /\ HasRex(q, at) <=> HasRex(p, at)
      /\ HasOperandSize(q, at) <=> HasOperandSize(p, at)
  <2>1. Alike(p, q, at, len)
    BY <1>1 DEF Alike
  <2> QED BY <2>1, AlikeFields
<1>3. ASSUME NEW k \in Nat, k + 1 <= InstrLen(p, at)
      PROVE  /\ ByteAt(q, at + k) = ByteAt(p, at + k)
             /\ ModRMSize(q, at + k) = ModRMSize(p, at + k)
  BY <1>1, <1>3 DEF Alike, ModRMSize
<1>4. CASE op \in Plain \cup MovImm \cup ShortJump \cup NearJump
  BY <1>2, <1>4, InstrLenIs
<1>5. CASE op \in WithModRM \cup WithModRMImm8 \cup WithModRMImm \cup {\hFF}
  <2>1. /\ ByteAt(q, at + len) = ByteAt(p, at + len)
        /\ ModRMSize(q, at + len) = ModRMSize(p, at + len)
    BY <1>1, <1>3, <1>5, CountedBytes
  <2> QED BY <1>2, <1>5, <2>1, InstrLenIs
<1>6. CASE op = \h0F
  <2>1. Op2(q, at) = Op2(p, at)
    BY <1>1, <1>2, <1>3, <1>6, CountedBytes DEF Op2
  <2>2. Op2(p, at) \in TwoByteModRM => ModRMSize(q, at + len + 1) = ModRMSize(p, at + len + 1)
    BY <1>1, <1>3, <1>6, CountedBytes
  <2> QED BY <1>2, <1>6, <2>1, <2>2, InstrLenIs
<1> QED BY <1>4, <1>5, <1>6, InstrLenIs

-----------------------------------------------------------------------------
(* RelocateTrampoline takes for branches what are branches, and finds      *)
(* their offsets.                                                          *)
LEMMA BranchLens ==
  ASSUME NEW p, Bytes(p), NEW at \in Nat, InstrLen(p, at) # 0
  PROVE  /\ IsRel8(p, at) <=> Jb(p, at)
         /\ IsRel32(p, at) <=> Jz(p, at)
         /\ IsRel8(p, at) => TrueLen(p, at) = OpOff(p, at) + 2
         /\ IsRel32(p, at) => TrueLen(p, at) = OpOff(p, at) + (IF Op(p, at) = \h0F THEN 6 ELSE 5)
<1> DEFINE op == Op(p, at)
<1>1. OpOff(p, at) \in Nat
  BY SameOpcode
<1>2. CASE op \in OneByteKnown
  <2>1. op \notin {\h0F, \hC5} /\ LastOpcodeAt(p, at) = at + OpOff(p, at)
    BY <1>2, OneByte, Classes DEF OneByteKnown
  <2>2. /\ IsRel8(p, at) <=> Jb(p, at) 
        /\ IsRel32(p, at) <=> Jz(p, at)
        /\ IsRel8(p, at) => ~HasModRM(p, at) /\ ImmSize(p, at) = 1
        /\ IsRel32(p, at) => ~HasModRM(p, at) /\ ImmSize(p, at) = 4
    BY <1>2, <2>1, OneByteManual, Classes DEF IsRel8, IsRel32
  <2> QED BY <1>1, <2>1, <2>2 DEF TrueLen
<1>3. CASE op = \h0F
  <2>1. /\ Op2(p, at) \in TwoByteModRM \cup TwoByteJump
        /\ LastOpcodeAt(p, at) = at + OpOff(p, at) + 1
    BY <1>3, InstrLenIs, TwoBytes
  <2>2. /\ ~IsRel8(p, at) /\ ~Jb(p, at)
        /\ IsRel32(p, at) <=> Jz(p, at)
        /\ IsRel32(p, at) => ~HasModRM(p, at) /\ ImmSize(p, at) = 4
    BY <1>3, <2>1, TwoByteManual, Classes DEF IsRel8, IsRel32
  <2> QED BY <1>1, <1>3, <2>1, <2>2 DEF TrueLen
<1> QED BY <1>2, <1>3, InstrLenIs DEF OneByteKnown

(* Of the instructions that InstrLen understands, RelocateTrampoline takes *)
(* for short and near branches those that are, and reads their offsets.    *)
THEOREM DecoderFindsBranches ==
  ASSUME NEW p, Bytes(p), NEW at \in Nat, InstrLen(p, at) # 0
  PROVE  /\ IsRel8(p, at) <=> Jb(p, at)
         /\ IsRel32(p, at) <=> Jz(p, at)
         /\ IsRel8(p, at) => Rel8(p, at) = Displacement(p, at)
         /\ IsRel32(p, at) => Rel32(p, at) = Displacement(p, at)
<1>1. OpOff(p, at) \in Nat
  BY SameOpcode
<1>2. ASSUME IsRel8(p, at) PROVE Rel8(p, at) = Displacement(p, at)
  <2>1. at + TrueLen(p, at) - 1 = at + OpOff(p, at) + 1
    BY <1>1, <1>2, BranchLens
  <2>2. Jb(p, at) /\ ~Jz(p, at)
    BY <1>2, BranchLens, Classes DEF IsRel8, IsRel32
  <2>3. Displacement(p, at) = Signed8(ByteAt(p, at + TrueLen(p, at) - 1))
    BY <2>2 DEF Displacement
  <2> QED BY <2>1, <2>3 DEF Rel8
<1>3. ASSUME IsRel32(p, at) PROVE Rel32(p, at) = Displacement(p, at)
  <2>1. at + TrueLen(p, at) - 4 = at + OpOff(p, at) + (IF Op(p, at) = \h0F THEN 2 ELSE 1)
    BY <1>1, <1>3, BranchLens
  <2>2. Jz(p, at) /\ ~Jb(p, at)
    BY <1>3, BranchLens, Classes DEF IsRel8, IsRel32
  <2>3. Displacement(p, at) = Disp32(p, at + TrueLen(p, at) - 4)
    BY <2>2 DEF Displacement
  <2> QED BY <2>1, <2>3 DEF Rel32
<1> QED BY <1>2, <1>3, BranchLens
=============================================================================
