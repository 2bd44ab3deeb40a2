----------------------------- MODULE HookArm64 -----------------------------
(***************************************************************************)
(* InstallHook_Arm64: four instructions, none of which may be relative to  *)
(* its own address, are moved to the trampoline, and 16 bytes of jump and  *)
(* address are written over them.                                          *)
(***************************************************************************)
EXTENDS HookState

kPatch == 16

InstallArm64 ==
  /\ pc = "Install" /\ target.arch = "arm64"
  /\ IF \A i \in 1 .. kPatch \div 4 : IsRelocatableInsn(target.words[i])
     THEN /\ RPatchSize' = kPatch
          /\ ROriginal' = Memcpy(NoBytes, code, kPatch)
          /\ AllocExecutable(allocated)
          /\ IF Tramp' = 0 THEN Fail ELSE pc' = "UnprotectArm64"
     ELSE Fail /\ NewResult /\ UNCHANGED allocated
  /\ UNCHANGED <<target, code, icache, writable, hook, Needed, Copied, jump, written, span>>

(* The trampoline is filled; FScopedUnprotect Unprot(Target, kPatch).      *)
UnprotectArm64 ==
  /\ pc = "UnprotectArm64"
  /\ Unprotect(kPatch)
  /\ jump' = "abs16" /\ written' = 0
  /\ pc' = "Patch"
  /\ UNCHANGED <<target, code, icache, allocated, hook, Needed, Copied, result>>

NextArm64 == InstallArm64 \/ UnprotectArm64
=============================================================================
