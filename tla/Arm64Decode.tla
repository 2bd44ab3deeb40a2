---------------------------- MODULE Arm64Decode ----------------------------
(***************************************************************************)
(* IsRelocatableInsn of FunctionHook.cpp.  Its masks look at the top byte  *)
(* of the instruction and at bit 4, so an instruction is the two of them.  *)
(***************************************************************************)
EXTENDS Integers

Arm64Insn == [top : 0 .. 255, bit4 : 0 .. 1]

(* The top bytes t with t & mask = value, for the masks of the function.   *)
Branch == {\h14, \h15, \h16, \h17, \h94, \h95, \h96, \h97}
CondBranch == {\h54}
CompareBranch == {\h34, \h35, \hB4, \hB5}
TestBranch == {\h36, \h37, \hB6, \hB7}
Adr == {\h10, \h30, \h50, \h70, \h90, \hB0, \hD0, \hF0}
LdrLiteral == {\h18, \h1C, \h58, \h5C, \h98, \h9C, \hD8, \hDC}

IsRelocatableInsn(insn) ==
  /\ insn.top \notin Branch \cup CompareBranch \cup TestBranch \cup Adr \cup LdrLiteral
  /\ ~(insn.top \in CondBranch /\ insn.bit4 = 0)
=============================================================================
