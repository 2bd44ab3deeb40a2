----------------------------- MODULE X64Manual -----------------------------
(***************************************************************************)
(* What the processor's manual (the opcode maps of its instruction set     *)
(* reference, 64-bit mode) says of an instruction, independently of what   *)
(* InstrLen knows: its length, and its operand relative to the instruction *)
(* pointer.  Left out are the three-byte maps, the VEX encodings other     *)
(* than C5, 3DNow! and, for a branch, xbegin.                              *)
(***************************************************************************)
EXTENDS X64Decode

(* Prefixes of the four groups, in any number and order; then REX.         *)
LegacyPrefix ==
  {\hF0, \hF2, \hF3} \cup {\h26, \h2E, \h36, \h3E, \h64, \h65} \cup {\h66} \cup {\h67}
AfterPrefixes(p, o) ==
  CHOOSE e \in o .. o + 15 :
    /\ \A k \in o .. e - 1 : ByteAt(p, k) \in LegacyPrefix
    /\ e = o + 15 \/ ByteAt(p, e) \notin LegacyPrefix
Rex(p, o) == LET b == ByteAt(p, AfterPrefixes(p, o)) IN IF b \div 16 = 4 THEN b % 16 ELSE 0
OpcodeAt(p, o) ==
  LET e == AfterPrefixes(p, o) IN IF ByteAt(p, e) \div 16 = 4 THEN e + 1 ELSE e

(* The map an opcode is in, and where it is.                               *)
Escaped(p, o) == ByteAt(p, OpcodeAt(p, o)) \in {\h0F, \hC5}
LastOpcodeAt(p, o) ==
  OpcodeAt(p, o)
    + CASE ByteAt(p, OpcodeAt(p, o)) = \h0F -> 1
        [] ByteAt(p, OpcodeAt(p, o)) = \hC5 -> 2
        [] OTHER -> 0
LastOpcode(p, o) == ByteAt(p, LastOpcodeAt(p, o))

(* Opcodes followed by a ModRM byte; those of the two-byte map that are    *)
(* not.                                                                    *)
OneByteModRM ==
  {op \in 0 .. \h3F : op % 8 < 4} \cup {\h63, \h69, \h6B, \h80, \h81} \cup \h83 .. \h8F
    \cup {\hC0, \hC1, \hC6, \hC7} \cup \hD0 .. \hD3 \cup \hD8 .. \hDF
    \cup {\hF6, \hF7, \hFE, \hFF}
TwoByteAlone ==
  \h05 .. \h09 \cup {\h0B, \h0E} \cup \h30 .. \h37 \cup {\h77} \cup \h80 .. \h8F
    \cup \hA0 .. \hA2 \cup \hA8 .. \hAA \cup \hC8 .. \hCF
HasModRM(p, o) ==
  IF Escaped(p, o) THEN LastOpcode(p, o) \notin TwoByteAlone
  ELSE LastOpcode(p, o) \in OneByteModRM
ModRM(p, o) == ByteAt(p, LastOpcodeAt(p, o) + 1)

(* The SIB byte follows the ModRM byte, the displacement follows it.       *)
HasSIB(p, o) == Mod(ModRM(p, o)) # 3 /\ RM(ModRM(p, o)) = 4
NoBase(p, o) ==
  Mod(ModRM(p, o)) = 0
    /\ \/ RM(ModRM(p, o)) = 5
       \/ RM(ModRM(p, o)) = 4 /\ RM(ByteAt(p, LastOpcodeAt(p, o) + 2)) = 5
OperandSize(p, o) ==
  1 + (IF HasSIB(p, o) THEN 1 ELSE 0)
    + CASE Mod(ModRM(p, o)) = 1 -> 1
        [] Mod(ModRM(p, o)) = 2 \/ NoBase(p, o) -> 4
        [] OTHER -> 0

(* Immediates: Ib, Iw, Iz, Iv; offsets Jb and Jz.  REX.W overrides the     *)
(* operand-size prefix, and only it makes an immediate 64 bits wide.       *)
W(p, o) == Rex(p, o) >= 8
Iz(p, o) == IF (\E k \in o .. AfterPrefixes(p, o) - 1 : ByteAt(p, k) = \h66) /\ ~W(p, o) THEN 2 ELSE 4
Jb(p, o) == ~Escaped(p, o) /\ LastOpcode(p, o) \in \h70 .. \h7F \cup \hE0 .. \hE3 \cup {\hEB}
Jz(p, o) ==
  IF Escaped(p, o) THEN LastOpcode(p, o) \in \h80 .. \h8F ELSE LastOpcode(p, o) \in {\hE8, \hE9}
OneByteIb ==
  {op \in 0 .. \h3F : op % 8 = 4}
    \cup {\h6A, \h6B, \h80, \h83, \hA8, \hC0, \hC1, \hC6, \hCD} \cup \hB0 .. \hB7 \cup \hE4 .. \hE7
OneByteIz == {op \in 0 .. \h3F : op % 8 = 5} \cup {\h68, \h69, \h81, \hA9, \hC7}
TwoByteIb == \h70 .. \h73 \cup {\hA4, \hAC, \hBA, \hC2} \cup \hC4 .. \hC6
ImmSize(p, o) ==
  LET op == LastOpcode(p, o)
      test == op \in {\hF6, \hF7} /\ Reg3(ModRM(p, o)) < 2
  IN CASE Jb(p, o) -> 1
       [] Jz(p, o) -> 4
       [] Escaped(p, o) /\ ~Jz(p, o) -> IF op \in TwoByteIb THEN 1 ELSE 0
       [] ~Escaped(p, o) /\ (op \in OneByteIb \/ (test /\ op = \hF6)) -> 1
       [] ~Escaped(p, o) /\ (op \in OneByteIz \/ (test /\ op = \hF7)) -> Iz(p, o)
       [] ~Escaped(p, o) /\ op \in \hB8 .. \hBF -> IF W(p, o) THEN 8 ELSE Iz(p, o)
       [] ~Escaped(p, o) /\ op \in \hA0 .. \hA3 -> 8
       [] ~Escaped(p, o) /\ op \in {\hC2, \hCA} -> 2
       [] ~Escaped(p, o) /\ op = \hC8 -> 3
       [] OTHER -> 0

TrueLen(p, o) ==
  LastOpcodeAt(p, o) + 1 - o + (IF HasModRM(p, o) THEN OperandSize(p, o) ELSE 0) + ImmSize(p, o)

-----------------------------------------------------------------------------
(* Operands relative to the end of the instruction: the offset of a        *)
(* branch, which ends it, or mod 0 and rm 5.                               *)

RipRelative(p, o) == HasModRM(p, o) /\ Mod(ModRM(p, o)) = 0 /\ RM(ModRM(p, o)) = 5
Displacement(p, o) ==
  CASE Jb(p, o) -> Signed8(ByteAt(p, o + TrueLen(p, o) - 1))
    [] Jz(p, o) -> Disp32(p, o + TrueLen(p, o) - 4)
    [] OTHER -> Disp32(p, LastOpcodeAt(p, o) + 2)

-----------------------------------------------------------------------------
(* The encodings InstrLen gets wrong: a SIB byte without a base, a REX     *)
(* prefix other than REX.W on a move of an immediate, REX.W with the       *)
(* operand-size prefix it overrides.                                       *)
NoBaseByte(p, o) == HasModRM(p, o) /\ HasSIB(p, o) /\ NoBase(p, o)
RexNotW(p, o) == ~Escaped(p, o) /\ LastOpcode(p, o) \in MovImm /\ HasRex(p, o) /\ ~W(p, o)
Overridden(p, o) ==
  ~Escaped(p, o) /\ LastOpcode(p, o) \in WithModRMImm /\ HasOperandSize(p, o) /\ W(p, o)
Misread(p, o) == NoBaseByte(p, o) \/ RexNotW(p, o) \/ Overridden(p, o)
=============================================================================
