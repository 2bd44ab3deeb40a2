---------------------------- MODULE MCX64Decode ----------------------------
(***************************************************************************)
(* Instructions of x86_64 put together byte by byte, up to the last byte   *)
(* that says how long they are, for InstrLen and RelocateTrampoline to     *)
(* agree with the manual on.                                               *)
(***************************************************************************)
EXTENDS X64Manual, Sequences

CONSTANTS
  Prefixes, MaxPrefixesTried,   (* Legacy prefixes, and how many of them.  *)
  RexBytes,
  Digits, RMs, SIBs   (* What the fields of a ModRM byte, and the SIB byte *)
                      (* after it, may be.                                 *)

ASSUME BytesAssumption ==
  /\ Prefixes \subseteq LegacyPrefix /\ RexBytes \subseteq \h40 .. \h4F
  /\ Digits \subseteq 0 .. 7 /\ RMs \subseteq 0 .. 7 /\ SIBs \subseteq 0 .. 255

VARIABLES
  insn,    (* The bytes so far.                                            *)
  stage    (* Which byte it is that the last one of them is.               *)

vars == <<insn, stage>>

p == [o \in 0 .. Len(insn) - 1 |-> insn[o + 1]]

Init == insn = <<>> /\ stage = "prefix"

Put(b, s) == insn' = Append(insn, b) /\ stage' = s

LegacyByte ==
  /\ stage = "prefix" /\ Len(insn) < MaxPrefixesTried
  /\ \E b \in Prefixes : Put(b, "prefix")
RexByte ==
  /\ stage = "prefix"
  /\ \E b \in RexBytes : Put(b, "rex")
OpcodeByte ==
  /\ stage \in {"prefix", "rex"}
  /\ \E b \in 0 .. 255 \ (LegacyPrefix \cup \h40 .. \h4F) :
       Put(b, IF b = \h0F THEN "escape" ELSE "opcode")
SecondByte ==
  /\ stage = "escape"
  /\ \E b \in 0 .. 255 \ {\h0F, \h38, \h3A} : Put(b, "opcode")

(* What InstrLen gives up on by the opcode is not continued.               *)
ModRMByte ==
  /\ stage = "opcode" /\ HasModRM(p, 0) /\ InstrLen(p, 0) # 0
  /\ \E mod \in 0 .. 3, digit \in Digits, rm \in RMs : Put(64 * mod + 8 * digit + rm, "modrm")
SIBByte ==
  /\ stage = "modrm" /\ HasSIB(p, 0)
  /\ \E b \in SIBs : Put(b, "sib")

Next == LegacyByte \/ RexByte \/ OpcodeByte \/ SecondByte \/ ModRMByte \/ SIBByte
Spec == Init /\ [][Next]_vars

-----------------------------------------------------------------------------
(* "If it sees something it doesn't understand it returns 0"               *)
(* (FunctionHook.cpp, above InstrLen): any other result is the length of   *)
(* the instruction, but for the three encodings of Misread, for which it   *)
(* never is.  (The bytes not there yet are int3.)                          *)
Measured == InstrLen(p, 0) # 0 => (InstrLen(p, 0) = TrueLen(p, 0) <=> ~Misread(p, 0))

(* The bytes after an instruction.                                         *)
Before(n, f) == [o \in 0 .. 31 |-> IF o < n THEN ByteAt(p, o) ELSE f]

(* RelocateTrampoline measures the instructions again in the trampoline,   *)
(* where other bytes follow ("should not happen -- already validated"): it *)
(* finds the same ones there, because InstrLen looks at no byte beyond     *)
(* those it counts.                                                        *)
DecodedAlike ==
  InstrLen(p, 0) # 0 =>
    LET n == InstrLen(p, 0)
    IN \A f \in {0, 4, 5, \h0F, \h66, \h48, 255} : InstrLen(Before(n, f), 0) = n

(* The instruction with its other bytes all different.                     *)
Full == [o \in 0 .. 31 |-> IF o \in DOMAIN p THEN p[o] ELSE 200 - o]

(* "Any PC-relative instruction (Jcc rel8/rel32, JMP rel8/rel32, CALL      *)
(* rel32, ...) must have its offset adjusted" (FunctionHook.cpp, above     *)
(* RelocateTrampoline): of all instructions InstrLen lets through, those   *)
(* are the ones it takes for branches, and it finds the offset of each     *)
(* where it is.                                                            *)
BranchesFound ==
  InstrLen(Full, 0) # 0 =>
    /\ IsRel8(Full, 0) <=> Jb(Full, 0)
    /\ IsRel32(Full, 0) <=> Jz(Full, 0)
    /\ IsRel8(Full, 0) => Rel8(Full, 0) = Displacement(Full, 0)
    /\ IsRel32(Full, 0) => Rel32(Full, 0) = Displacement(Full, 0)
=============================================================================
