---------------------------- MODULE FunctionHook ----------------------------
(***************************************************************************)
(* FFunctionHook: Install, which dispatches to the installer of the        *)
(* platform, and Uninstall.  Install leaves pc at "Installed" or "Failed", *)
(* Uninstall at "Uninstalled".                                             *)
(***************************************************************************)
EXTENDS HookX64, HookArm64

(* A mutant: Install does not look at bInstalled.                          *)
InstallAgain == pc' = "Install"

(* Install: refuses a hook that is installed already.                      *)
Install == pc' = IF bInstalled THEN "Failed" ELSE "Install"

(* A mutant: the original bytes are not written back.                      *)
UninstallUnrestored ==
  /\ pc = "Uninstall"
  /\ IF bInstalled
     THEN Unprotect(PatchSize) /\ written' = PatchSize /\ pc' = "Restore"
     ELSE pc' = "Uninstalled" /\ UNCHANGED <<writable, span, written>>
  /\ UNCHANGED <<target, code, icache, allocated, hook, Needed, Copied, result, jump>>

Uninstall ==
  /\ pc = "Uninstall"
  /\ IF bInstalled
     THEN Unprotect(PatchSize) /\ written' = 0 /\ pc' = "Restore"
     ELSE pc' = "Uninstalled" /\ UNCHANGED <<writable, span, written>>
  /\ UNCHANGED <<target, code, icache, allocated, hook, Needed, Copied, result, jump>>

(* A mutant: only as many bytes are written back as a near jump has.       *)
RestoreNearJump ==
  /\ pc = "Restore" /\ written < PatchSize
  /\ \E to \in written + 1 .. PatchSize :
       StoreBytes(written, to, [o \in Saved |-> IF o < 5 THEN OriginalBytes[o] ELSE code[o]])
  /\ UNCHANGED <<target, writable, allocated, hook, Needed, Copied, result, jump, span>>

(* FMemory::Memcpy(TargetAddr, OriginalBytes, PatchSize), in stores of     *)
(* sizes we do not know.                                                   *)
Restore ==
  /\ pc = "Restore" /\ written < PatchSize
  /\ \E to \in written + 1 .. PatchSize : StoreBytes(written, to, OriginalBytes)
  /\ UNCHANGED <<target, writable, allocated, hook, Needed, Copied, result, jump, span>>

(* A mutant: the trampoline is not freed.                                  *)
ReleaseKeeping ==
  /\ pc = "Restore" /\ written = PatchSize
  /\ Reprotect /\ Flush(PatchSize)
  /\ bInstalled' = FALSE /\ PatchSize' = 0 /\ TrampolineMem' = 0
  /\ pc' = "Uninstalled"
  /\ UNCHANGED <<target, code, allocated, OriginalBytes, locals>>

(* The pages are protected again, the instruction cache is flushed, the    *)
(* trampoline is freed, and the fields are cleared.                        *)
Release ==
  /\ pc = "Restore" /\ written = PatchSize
  /\ Reprotect /\ Flush(PatchSize)
  /\ allocated' = allocated \ {TrampolineMem}
  /\ bInstalled' = FALSE /\ PatchSize' = 0 /\ TrampolineMem' = 0
  /\ pc' = "Uninstalled"
  /\ UNCHANGED <<target, code, OriginalBytes, locals>>
=============================================================================
