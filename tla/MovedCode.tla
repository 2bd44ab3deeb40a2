----------------------------- MODULE MovedCode ------------------------------
(***************************************************************************)
(* The bytes that are moved to the trampoline: a number of whole           *)
(* instructions if InstrLen measures those it is asked for as they are,    *)
(* and instructions that do there what they did in place if none of them   *)
(* is of a kind that RelocateTrampoline leaves as it is.                   *)
(***************************************************************************)
EXTENDS HookInvariant

(* The first n bytes are the first instructions that InstrLen understands, *)
(* the last of which begins before `need`.                                 *)
Decoded(t, n, need) ==
  /\ n \in DOMAIN t.insns
  /\ \A o \in DOMAIN t.insns :
       o < n => o < need /\ (t.arch = "x64" => InstrLen(t.bytes, o) # 0)

(* What may be moved.                                                      *)
Sizes(t) ==
  LET needs == IF t.arch = "x64" THEN {Rel32Jump, MaxNeeded} ELSE {kPatch}
  IN {n \in DOMAIN t.insns : \E need \in needs : need <= n /\ Decoded(t, n, need)}

(* Decoding goes from one instruction to the next, and what has been       *)
(* decoded, no more and no less, is what is moved and overwritten.         *)
MovedInv ==
  /\ pc \in {"Decode", "Unprotect"} => Decoded(target, Copied, Needed)
  /\ pc = "Extend" => Decoded(target, Copied, MaxNeeded)
  /\ pc \in {"UnprotectArm64", "Patch"} => RPatchSize \in Sizes(target)
  /\ bInstalled => PatchSize \in Sizes(target)

-----------------------------------------------------------------------------
(* The functions for which the hook keeps what its comments promise.       *)

(* None of the instructions that may be decoded is one that InstrLen gets  *)
(* wrong.                                                                  *)
WellMeasured(t) ==
  t.arch = "x64" => \A o \in DOMAIN t.insns : o < MaxNeeded => ~Misread(t.bytes, o)

(* The address an instruction names relative to its own, in place; how far *)
(* it is from a copy of the instruction in a trampoline at distance d.     *)
DestOf(t, o) == o + t.insns[o].len + t.insns[o].rel
InReach(n) == n >= -Rel32Reach /\ n < Rel32Reach

(* A copy of the instruction at o, one of n bytes moved to distance d,     *)
(* names what the instruction does: a short branch among the bytes moved,  *)
(* left as it is, or a near branch out of them.                            *)
Follows(t, o, n, d) ==
  \/ /\ IsRel8(t.bytes, o) /\ DestOf(t, o) \in 0 .. n
     /\ NewRel(t.bytes, o, d) = t.insns[o].rel
  \/ /\ IsRel32(t.bytes, o) /\ DestOf(t, o) \notin 0 .. n - 1
     /\ InReach(t.insns[o].rel - d)

(* No instruction of the rest of the function branches into the n bytes.   *)
NotEntered(t, n) ==
  \A o \in DOMAIN t.insns : o >= n /\ t.insns[o].branches => DestOf(t, o) \notin 0 .. n - 1

(* Function t can be hooked: the branches within it go to instructions,    *)
(* none of them from the rest of the function to what is moved.            *)
Hookable(t) ==
  /\ WellMeasured(t)
  /\ \A o \in DOMAIN t.insns :
       t.insns[o].branches /\ DestOf(t, o) \in 0 .. t.size - 1 => DestOf(t, o) \in DOMAIN t.insns
  /\ \A n \in Sizes(t) : NotEntered(t, n)

(* Its start can be moved to distance d: the trampoline does not touch the *)
(* function, none of whose instructions names an address of it, and the    *)
(* copies name what the instructions do.                                   *)
Movable(t, d) ==
  /\ \A k \in 0 .. 28 : d + k \notin -1 .. t.size
  /\ \A o \in DOMAIN t.insns : t.insns[o].relative => DestOf(t, o) - d \notin 0 .. 28
  /\ \A n \in Sizes(t), o \in DOMAIN t.insns :
       o < n /\ t.insns[o].relative => Follows(t, o, n, d)

Suitable == \A t \in Targets : Hookable(t) /\ \A d \in Distances : Movable(t, d)
=============================================================================
