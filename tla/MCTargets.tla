----------------------------- MODULE MCTargets ------------------------------
(***************************************************************************)
(* Functions for the hook to be tried on, made of the instructions that    *)
(* compilers start functions with.                                         *)
(***************************************************************************)
EXTENDS Integers, SequencesExt

(* x86_64 instructions.                                                    *)
Endbr64 == <<\hF3, \h0F, \h1E, \hFA>>
PushRbp == <<\h55>>
PushR15 == <<\h41, \h57>>
MovRbpRsp == <<\h48, \h89, \hE5>>
SubRsp == <<\h48, \h83, \hEC, \h20>>
SubRspLong == <<\h48, \h81, \hEC, \h00, \h01, \h00, \h00>>
MovSpill == <<\h48, \h89, \h5C, \h24, \h08>>            (* [rsp + 8]           *)
CmpEsi8 == <<\h83, \hFE, \h08>>
JgNear == <<\h0F, \h8F, \h40, \h00, \h00, \h00>>        (* 64 bytes on         *)
JmpBack == <<\hE9, \hC0, \hFF, \hFF, \hFF>>             (* 64 bytes back       *)
JgShort == <<\h7F, \h10>>
LeaRip == <<\h48, \h8D, \h05, \h10, \h00, \h00, \h00>>  (* [rip + 16]          *)
LeaIndex == <<\h48, \h8D, \h04, \hFD, \h00, \h00, \h00, \h00>>  (* [8 * rdi]   *)
MovR8d == <<\h41, \hB8, \h01, \h00, \h00, \h00>>        (* mov r8d, 1          *)
Vzeroupper4 == <<\hC5, \hF8, \h28, \hC1>>               (* vmovaps, not known  *)
Ret == <<\hC3>>

Body == <<SubRspLong, SubRspLong, SubRspLong, SubRspLong, Ret>>

(* Its instructions are decoded as in Instructions: by the manual.         *)
Manual == INSTANCE Instructions
LenOf(insns, k) == Len(FlattenSeq(SubSeq(insns, 1, k)))
X64(insns, isNear, firstPage) ==
  LET flat == FlattenSeq(insns)
      bytes == [o \in 0 .. Len(flat) - 1 |-> flat[o + 1]]
      starts == {LenOf(insns, k) : k \in 0 .. Len(insns) - 1}
  IN [arch |-> "x64", bytes |-> bytes, words |-> <<>>, size |-> Len(flat),
      insns |-> [o \in starts |-> Manual!X64Insn(bytes, o)],
      near |-> isNear, room |-> firstPage]

(* arm64 instructions: STP, ADRP, B, SUB; B.NE; CBZ.                       *)
Plain64 == [top |-> \hA9, bit4 |-> 1]
Sub64 == [top |-> \hD1, bit4 |-> 0]
Adrp64 == [top |-> \h90, bit4 |-> 0]
Bne64 == [top |-> \h54, bit4 |-> 0]
Arm64(insns) ==
  [arch |-> "arm64", bytes |-> [o \in {} |-> 0], words |-> insns, size |-> 4 * Len(insns),
   insns |-> [o \in {4 * k : k \in 0 .. Len(insns) - 1} |-> Manual!OtherArm64Insn],
   near |-> FALSE, room |-> 4096]

MoreArm64 == <<Sub64, Plain64, Sub64, Sub64>>
=============================================================================
