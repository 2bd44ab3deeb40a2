---------------------------- MODULE Instructions ----------------------------
(***************************************************************************)
(* Functions as their instructions, and what an instruction does as far as *)
(* moving it somewhere else is concerned: where the thread goes next, and  *)
(* the address it names relative to its own.                               *)
(***************************************************************************)
EXTENDS X64Manual, Arm64Decode, Sequences

(* An instruction: its length, whether the next one may follow, whether it *)
(* branches (taken or not), whether it leaves the function, whether it     *)
(* names an address relative to its end, and how far from there.  (A call  *)
(* returns to the next instruction; the thread is at the call until then.) *)
OneByteOp(p, o) == IF Escaped(p, o) THEN \h0F ELSE LastOpcode(p, o)
IndirectJump(p, o) == OneByteOp(p, o) = \hFF /\ Reg3(ModRM(p, o)) = 4
Leaves(p, o) == OneByteOp(p, o) = \hC3 \/ IndirectJump(p, o)
IsRelative(p, o) == Jb(p, o) \/ Jz(p, o) \/ RipRelative(p, o)
X64Insn(p, o) ==
  [len |-> TrueLen(p, o),
   falls |-> OneByteOp(p, o) \notin {\hEB, \hE9} /\ ~Leaves(p, o),
   branches |-> (Jb(p, o) \/ Jz(p, o)) /\ OneByteOp(p, o) # \hE8,
   leaves |-> Leaves(p, o),
   relative |-> IsRelative(p, o),
   rel |-> IF IsRelative(p, o) THEN Displacement(p, o) ELSE 0]

(* The first 16 bytes of an arm64 function that is hooked have no relative *)
(* operands; the branches of the rest are taken as not taken.              *)
OtherArm64Insn ==
  [len |-> 4, falls |-> TRUE, branches |-> FALSE, leaves |-> FALSE, relative |-> FALSE, rel |-> 0]

(* A function: its bytes (x64) or words (arm64), its instructions by where *)
(* they start, its size, whether the detour is within reach of a rel32     *)
(* jump, and how much of it lies on its first page.                        *)
IsTarget(t) ==
  /\ t.arch \in {"x64", "arm64"} /\ t.near \in BOOLEAN
  /\ t.size \in Nat /\ t.room \in Nat \ {0}
  /\ IF t.arch = "x64"
     THEN /\ DOMAIN t.bytes = 0 .. t.size - 1 /\ \A o \in DOMAIN t.bytes : t.bytes[o] \in 0 .. 255
          /\ t.insns = [o \in DOMAIN t.insns |-> X64Insn(t.bytes, o)]
     ELSE /\ Len(t.words) * 4 = t.size /\ \A i \in DOMAIN t.words : t.words[i] \in Arm64Insn
          /\ t.insns = [o \in DOMAIN t.insns |-> OtherArm64Insn]
  /\ 0 \in DOMAIN t.insns /\ DOMAIN t.insns \subseteq 0 .. t.size - 1
  /\ \A o \in DOMAIN t.insns :
       /\ t.insns[o].len \in 1 .. 15
       /\ o + t.insns[o].len \in DOMAIN t.insns \cup {t.size}
       /\ \A q \in DOMAIN t.insns : o < q => o + t.insns[o].len <= q

(* Where an instruction, with displacement rel, goes from address a, and   *)
(* what it names there.                                                    *)
Outside == -1
GoesTo(insn, a, rel) ==
  (IF insn.falls THEN {a + insn.len} ELSE {})
    \cup (IF insn.branches THEN {a + insn.len + rel} ELSE {})
    \cup (IF insn.leaves THEN {Outside} ELSE {})
Names(insn, a, rel) == IF insn.relative THEN {a + insn.len + rel} ELSE {}
=============================================================================
