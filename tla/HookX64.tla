------------------------------ MODULE HookX64 ------------------------------
(***************************************************************************)
(* InstallHook_X64: decode at least 5 bytes, make the trampoline, and      *)
(* write a near jump over the target; or, when the detour is out of its    *)
(* reach, an absolute one, for which 14 bytes are decoded.                 *)
(***************************************************************************)
EXTENDS HookState

Rel32Jump == 5
MaxNeededWide == 32   (* a mutant *)
MaxNeeded == 14

InstallX64 ==
  /\ pc = "Install" /\ target.arch = "x64"
  /\ NewResult
  /\ Needed' = Rel32Jump /\ Copied' = 0
  /\ pc' = "Decode"
  /\ UNCHANGED <<target, code, icache, writable, allocated, hook, jump, written, span>>

(* A mutant: a decoding that fails is always tried again.                  *)
DecodeAgain ==
  /\ pc = "Decode" /\ Copied < Needed
  /\ LET n == InstrLen(target.bytes, Copied)
     IN \/ n > 0 /\ Copied' = Copied + n /\ UNCHANGED Needed
        \/ n = 0 /\ Needed' = MaxNeeded /\ UNCHANGED Copied
  /\ UNCHANGED <<target, code, icache, writable, allocated, hook, pc, result, jump, written, span>>

(* The code does not change while it is decoded, so it is the original's.  *)
Decode ==
  /\ pc = "Decode" /\ Copied < Needed
  /\ LET n == InstrLen(target.bytes, Copied)
     IN \/ n > 0 /\ Copied' = Copied + n /\ UNCHANGED <<pc, Needed>>
        \/ n = 0 /\ Needed = Rel32Jump /\ Needed' = MaxNeeded /\ UNCHANGED <<pc, Copied>>
        \/ n = 0 /\ Needed # Rel32Jump /\ Fail /\ UNCHANGED <<Needed, Copied>>
  /\ UNCHANGED <<target, code, icache, writable, allocated, hook, result, jump, written, span>>

(* A mutant: R.PatchSize is what was asked for, not what was decoded.      *)
MakeTrampolineNeeded(kept) ==
  /\ RPatchSize' = Needed
  /\ ROriginal' = Memcpy(ROriginal, code, Needed)
  /\ AllocExecutable(kept)

(* R.PatchSize, R.OriginalBytes and the trampoline, in `kept` memory.      *)
MakeTrampoline(kept) ==
  /\ RPatchSize' = Copied
  /\ ROriginal' = Memcpy(ROriginal, code, Copied)
  /\ AllocExecutable(kept)

(* The first trampoline.                                                   *)
Allocate ==
  /\ pc = "Decode" /\ Copied >= Needed
  /\ MakeTrampoline(allocated)
  /\ IF Tramp' = 0 THEN Fail ELSE pc' = "Unprotect"
  /\ UNCHANGED <<target, code, icache, writable, hook, Needed, Copied, jump, written, span>>

(* FScopedUnprotect Unprot(Target, R.PatchSize), and the choice of jump.   *)
UnprotectX64 ==
  /\ pc = "Unprotect"
  /\ Unprotect(RPatchSize)
  /\ written' = 0
  /\ IF Needed = Rel32Jump /\ target.near
     THEN jump' = "rel32" /\ pc' = "Patch"
     ELSE jump' = "abs14" /\ pc' = IF RPatchSize < MaxNeeded THEN "Extend" ELSE "Patch"
  /\ UNCHANGED <<target, code, icache, allocated, hook, Needed, Copied, result>>

(* A mutant: MaxNeeded bytes are decoded after those there are.            *)
ExtendMore ==
  /\ pc = "Extend" /\ Copied < RPatchSize + MaxNeeded
  /\ LET n == InstrLen(target.bytes, Copied)
     IN IF n > 0
        THEN Copied' = Copied + n /\ UNCHANGED <<pc, writable, allocated>>
        ELSE Fail /\ Reprotect /\ allocated' = allocated \ {Tramp} /\ UNCHANGED Copied
  /\ UNCHANGED <<target, code, icache, hook, Needed, result, jump, written, span>>

(* "We need 14 bytes but only decoded fewer; extend by decoding more."     *)
Extend ==
  /\ pc = "Extend" /\ Copied < MaxNeeded
  /\ LET n == InstrLen(target.bytes, Copied)
     IN IF n > 0
        THEN Copied' = Copied + n /\ UNCHANGED <<pc, writable, allocated>>
        ELSE Fail /\ Reprotect /\ allocated' = allocated \ {Tramp} /\ UNCHANGED Copied
  /\ UNCHANGED <<target, code, icache, hook, Needed, result, jump, written, span>>

(* A mutant: the bytes decoded since are not saved.                        *)
ReallocateUnsaved ==
  /\ pc = "Extend" /\ Copied >= MaxNeeded
  /\ RPatchSize' = Copied /\ UNCHANGED ROriginal
  /\ AllocExecutable(allocated \ {Tramp})
  /\ IF Tramp' = 0 THEN Fail /\ Reprotect ELSE pc' = "Patch" /\ UNCHANGED writable
  /\ UNCHANGED <<target, code, icache, hook, Needed, Copied, jump, written, span>>

(* "Reallocate trampoline with new PatchSize": the old one is freed first. *)
Reallocate ==
  /\ pc = "Extend" /\ Copied >= MaxNeeded
  /\ MakeTrampoline(allocated \ {Tramp})
  /\ IF Tramp' = 0 THEN Fail /\ Reprotect ELSE pc' = "Patch" /\ UNCHANGED writable
  /\ UNCHANGED <<target, code, icache, hook, Needed, Copied, jump, written, span>>

NextX64 == InstallX64 \/ Decode \/ Allocate \/ UnprotectX64 \/ Extend \/ Reallocate

-----------------------------------------------------------------------------
(* RelocateTrampoline: the branch at offset o of the trampoline at         *)
(* distance d.                                                             *)

(* (int32)Delta.                                                           *)
Wrap32(n) == ((n + Rel32Reach) % (2 * Rel32Reach)) - Rel32Reach

(* A mutant: the displacement is adjusted the wrong way.                   *)
NewRelPlus(p, o, d) == IF IsRel8(p, o) THEN Rel8(p, o) ELSE Rel32(p, o) + d

(* The displacement after the adjustment, which is not made when the new   *)
(* one does not fit.                                                       *)
NewRel(p, o, d) ==
  LET new8 == Rel8(p, o) - Wrap32(d)
      new32 == Rel32(p, o) - d
  IN IF IsRel8(p, o)
     THEN IF new8 \in -128 .. 127 THEN new8 ELSE Rel8(p, o)
     ELSE IF new32 >= -Rel32Reach /\ new32 < Rel32Reach THEN new32 ELSE Rel32(p, o)

(* Where the branch goes in the trampoline, and where it went in place.    *)
TrampolineDest(p, o, d) == d + o + InstrLen(p, o) + NewRel(p, o, d)
OriginalDest(o) == o + target.insns[o].len + target.insns[o].rel
=============================================================================
