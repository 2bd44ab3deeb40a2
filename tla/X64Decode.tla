----------------------------- MODULE X64Decode -----------------------------
(***************************************************************************)
(* The x86_64 decoding of FunctionHook.cpp: InstrLen, which measures the   *)
(* first instructions of the function to be hooked, and what               *)
(* RelocateTrampoline takes for a branch.  Code is a function from offsets *)
(* to bytes; what follows the function is int3 padding.                    *)
(***************************************************************************)
EXTENDS Integers

Int3 == \hCC
ByteAt(p, at) == IF at \in DOMAIN p THEN p[at] ELSE Int3

(* The prefixes, a REX prefix, and the opcode after them.                  *)
PrefixBytes == {\h66, \h67, \hF0, \hF2, \hF3, \h2E, \h36, \h3E, \h26, \h64, \h65}
MaxPrefixes == 14
PrefixLen(p, at) ==
  CHOOSE n \in 0 .. MaxPrefixes + 1 :
    /\ \A k \in 0 .. n - 1 : ByteAt(p, at + k) \in PrefixBytes
    /\ n = MaxPrefixes + 1 \/ ByteAt(p, at + n) \notin PrefixBytes
HasPrefix(p, at, b) == \E k \in 0 .. PrefixLen(p, at) - 1 : ByteAt(p, at + k) = b
HasOperandSize(p, at) == HasPrefix(p, at, \h66)
HasRex(p, at) == ByteAt(p, at + PrefixLen(p, at)) \in \h40 .. \h4F
OpOff(p, at) == PrefixLen(p, at) + (IF HasRex(p, at) THEN 1 ELSE 0)
Op(p, at) == ByteAt(p, at + OpOff(p, at))
Op2(p, at) == ByteAt(p, at + OpOff(p, at) + 1)

(* The fields of a ModRM or SIB byte.                                      *)
Mod(b) == b \div 64
Reg3(b) == (b \div 8) % 8
RM(b) == b % 8

(* A mutant: a SIB byte is looked at whether or not there is one.          *)
ModRMSizeAnySIB(p, m) ==
  LET mr == ByteAt(p, m)
      hasSIB == RM(mr) = 4
      base == RM(ByteAt(p, m + 1))
  IN IF Mod(mr) = 3 THEN 1
     ELSE 1 + (IF hasSIB THEN 1 ELSE 0)
            + CASE Mod(mr) = 1 -> 1
                [] Mod(mr) = 2 -> 4
                [] OTHER -> IF RM(mr) = 5 \/ base = 5 THEN 4 ELSE 0

(* ModRMSize: the size of the ModRM byte at `m` and of what it announces.  *)
(* The SIB byte is looked for where the ModRM byte is.                     *)
ModRMSize(p, m) ==
  LET mr == ByteAt(p, m)
      hasSIB == RM(mr) = 4
      base == RM(ByteAt(p, m))
  IN IF Mod(mr) = 3 THEN 1
     ELSE 1 + (IF hasSIB THEN 1 ELSE 0)
            + CASE Mod(mr) = 1 -> 1
                [] Mod(mr) = 2 -> 4
                [] OTHER -> IF RM(mr) = 5 \/ (hasSIB /\ base = 5) THEN 4 ELSE 0

(* The opcodes it knows, by what follows them.                             *)
Plain == \h50 .. \h5F \cup {\h90, \h98, \h99, \hC3, \hFC, \hFD}
WithModRM == {\h88, \h89, \h8A, \h8B, \h8D, \h85, \h31, \h01, \h29, \h39, \h84, \h30,
              \h00, \h28, \h38, \h3A, \h3B, \h09, \h0B, \h21, \h23}
WithModRMImm8 == {\h83, \hC6, \h80}
WithModRMImm == {\h81, \hC7}
MovImm == \hB8 .. \hBF
ShortJump == \h70 .. \h7F \cup {\hEB}
NearJump == {\hE9, \hE8}
TwoByteModRMAndBt ==   (* a mutant: bt r/m, imm8 without its immediate *)
  {\h1F, \h1E, \hB6, \hB7, \hBA, \hBE, \hBF} \cup \h40 .. \h4F \cup \h90 .. \h9F
TwoByteModRM == {\h1F, \h1E, \hB6, \hB7, \hBE, \hBF} \cup \h40 .. \h4F \cup \h90 .. \h9F
TwoByteJump == \h80 .. \h8F
FFDigits == {0, 1, 2, 4, 6}

(* The bytes of the instruction at `at`, or 0 if it is not understood.     *)
InstrLen(p, at) ==
  LET op == Op(p, at)
      len == OpOff(p, at) + 1
      modRM == ModRMSize(p, at + len)
      imm == IF HasOperandSize(p, at) THEN 2 ELSE 4
  IN CASE op \in Plain -> len
       [] op \in WithModRM -> len + modRM
       [] op \in WithModRMImm8 -> len + modRM + 1
       [] op \in WithModRMImm -> len + modRM + imm
       [] op \in MovImm -> len + (IF HasRex(p, at) THEN 8 ELSE imm)
       [] op \in ShortJump -> len + 1
       [] op \in NearJump -> len + 4
       [] op = \hFF /\ Reg3(ByteAt(p, at + len)) \in FFDigits -> len + modRM
       [] op = \h0F /\ Op2(p, at) \in TwoByteModRM -> len + 1 + ModRMSize(p, at + len + 1)
       [] op = \h0F /\ Op2(p, at) \in TwoByteJump -> len + 5
       [] OTHER -> 0

-----------------------------------------------------------------------------
(* What RelocateTrampoline adjusts.                                        *)

IsRel8(p, at) == Op(p, at) \in ShortJump
IsRel32Unconditional(p, at) == Op(p, at) \in NearJump   (* a mutant *)
IsRel32(p, at) ==
  Op(p, at) \in NearJump \/ (Op(p, at) = \h0F /\ Op2(p, at) \in TwoByteJump)

(* Two's complement, and the displacements of the two kinds of branch.     *)
Signed8(b) == IF b > 127 THEN b - 256 ELSE b
Rel8(p, at) == Signed8(ByteAt(p, at + OpOff(p, at) + 1))
Disp32(p, d) ==
  ByteAt(p, d) + 256 * ByteAt(p, d + 1) + 65536 * ByteAt(p, d + 2)
    + 16777216 * Signed8(ByteAt(p, d + 3))
Rel32(p, at) == Disp32(p, at + OpOff(p, at) + (IF Op(p, at) = \h0F THEN 2 ELSE 1))

=============================================================================
