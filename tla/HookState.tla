----------------------------- MODULE HookState -----------------------------
(***************************************************************************)
(* What the two installers and the uninstaller of FunctionHook.cpp share:  *)
(* the function to be hooked, its code bytes, the pages they lie on, the   *)
(* executable memory, and the fields of FFunctionHook.                     *)
(*                                                                         *)
(* Addresses are relative to the target, which is at 0; a trampoline is    *)
(* known by its distance from it.  A code byte is "orig", the byte the     *)
(* compiler put there, or the byte of a jump to the detour or of the NOPs  *)
(* after it; what OriginalBytes does not hold is "zero".                   *)
(***************************************************************************)
EXTENDS Instructions, FiniteSets

CONSTANTS
  Targets,     (* The functions that may be there to be hooked.            *)
  Distances,   (* Where the OS may put executable memory.                  *)
  Rel32Reach   (* What an int32 displacement reaches: 2^31, scaled down.   *)

(* Functions are made of whole instructions, and those to be hooked are    *)
(* longer than what is overwritten.  No instruction is longer than 15      *)
(* bytes, nor does InstrLen take one of the first to be: what check() says *)
(* of PatchSize.                                                           *)
ASSUME TargetsAssumption ==
  /\ Distances \subseteq Int \ {0}
  /\ \A t \in Targets :
       /\ IsTarget(t) /\ t.size >= 32
       /\ t.arch = "x64" => \A o \in 0 .. 13 : InstrLen(t.bytes, o) \in 0 .. 15

(* Some bytes are in reach of a near jump.                                 *)
ASSUME ReachAssumption == Rel32Reach \in Nat \ {0}

Jumps == {"rel32", "abs14", "abs16"}
CodeByte == {"orig", "nop", "zero"} \cup Jumps
JumpSize(jump) == CASE jump = "rel32" -> 5 [] jump = "abs14" -> 14 [] jump = "abs16" -> 16

VARIABLES
  target,        (* The function.                                          *)
  code,          (* Its bytes, as they are now.                            *)
  icache,        (* Its bytes, as an instruction fetch may still see them. *)
  writable,      (* The pages of it (0 and 1) that may be written to.      *)
  allocated,     (* The executable memory taken from the OS.               *)
  bInstalled, PatchSize, OriginalBytes, TrampolineMem,  (* FFunctionHook.  *)
  pc,            (* The next step of the thread that installs the hook.    *)
  Needed, Copied,        (* Bytes to be decoded, bytes decoded.            *)
  RPatchSize, ROriginal, (* FInstallResult: PatchSize and OriginalBytes.   *)
  Tramp,         (* The trampoline being made, 0 for none.                 *)
  jump,          (* The form of jump to be written over the target.        *)
  written,       (* Bytes of the target overwritten by now.                *)
  span           (* What FScopedUnprotect was given as Size.               *)

hook == <<bInstalled, PatchSize, OriginalBytes, TrampolineMem>>
result == <<RPatchSize, ROriginal, Tramp>>
locals == <<Needed, Copied, result, jump, written, span>>
hookVars == <<target, code, icache, writable, allocated, hook, pc, locals>>

Pristine == [o \in 0 .. target.size - 1 |-> "orig"]
Saved == 0 .. 31   (* uint8 OriginalBytes[32] *)
NoBytes == [o \in Saved |-> "zero"]

HookInit ==
  /\ target \in Targets
  /\ code = Pristine /\ icache = Pristine
  /\ writable = {} /\ allocated = {}
  /\ bInstalled = FALSE /\ PatchSize = 0 /\ OriginalBytes = NoBytes /\ TrampolineMem = 0
  /\ Needed = 0 /\ Copied = 0 /\ RPatchSize = 0 /\ ROriginal = NoBytes /\ Tramp = 0
  /\ jump = "rel32" /\ written = 0 /\ span = 0

(* FMemory::Memcpy(to, from, n).                                           *)
Memcpy(to, from, n) == [o \in Saved |-> IF o < n THEN from[o] ELSE to[o]]

(* The pages of [0, n), and FScopedUnprotect on them.                      *)
Page(o) == IF o < target.room THEN 0 ELSE 1
PagesOf(n) == {Page(o) : o \in 0 .. n - 1}
Unprotect(n) == writable' = writable \cup PagesOf(n) /\ span' = n

(* ~FScopedUnprotect, without and with the bytes it gave access to being   *)
(* written: the pages are protected again, the instruction cache is        *)
(* flushed.                                                                *)
Reprotect == writable' = writable \ PagesOf(span)
Flush(n) == icache' = [o \in DOMAIN icache |-> IF o < n THEN code[o] ELSE icache[o]]

(* AllocExecutable: memory somewhere, or none.                             *)
AllocExecutable(kept) ==
  \/ Tramp' = 0 /\ allocated' = kept
  \/ \E d \in Distances \ kept : Tramp' = d /\ allocated' = kept \cup {d}

(* The stores of the bytes [from, to) of the target; on a page that is not *)
(* writable they end the process.  An x86 processor sees to it that they   *)
(* are fetched from then on, an ARM one does when the cache is flushed.    *)
StoreBytes(from, to, bytes) ==
  IF PagesOf(to) \ PagesOf(from) \subseteq writable /\ Page(to - 1) \in writable
  THEN /\ code' = [o \in DOMAIN code |-> IF o \in from .. to - 1 THEN bytes[o] ELSE code[o]]
       /\ icache' = IF target.arch = "x64" THEN code' ELSE icache
       /\ written' = to
       /\ UNCHANGED pc
  ELSE pc' = "Crashed" /\ UNCHANGED <<code, icache, written>>

(* FInstallResult R.                                                       *)
NewResult == RPatchSize' = 0 /\ ROriginal' = NoBytes /\ Tramp' = 0

(* The installer gives up: Install returns false.                          *)
Fail == pc' = "Failed"

(* The stores of WriteJmpRel32, WriteJmpAbs14 and WriteJmpAbs16, in order, *)
(* and of the NOPs after the jump: where the next one ends.                *)
NextStore ==
  CASE jump = "rel32" -> IF written = 1 THEN 5 ELSE written + 1
    [] jump = "abs14" -> IF written = 6 THEN 14 ELSE written + 1
    [] jump = "abs16" -> IF written < 8 THEN written + 4 ELSE 16

(* The patched code.                                                       *)
Patched == [o \in Saved |-> IF o < JumpSize(jump) THEN jump ELSE "nop"]

Patch ==
  /\ pc = "Patch" /\ written < RPatchSize
  /\ StoreBytes(written, NextStore, Patched)
  /\ UNCHANGED <<target, writable, allocated, hook, Needed, Copied, result, jump, span>>

(* A mutant: the instruction cache is not flushed.                         *)
PublishUnflushed ==
  /\ pc = "Patch" /\ written >= RPatchSize
  /\ Reprotect /\ UNCHANGED icache
  /\ bInstalled' = TRUE /\ PatchSize' = RPatchSize
  /\ OriginalBytes' = Memcpy(OriginalBytes, ROriginal, RPatchSize)
  /\ TrampolineMem' = Tramp
  /\ pc' = "Installed"
  /\ UNCHANGED <<target, code, allocated, locals>>

(* The end of FScopedUnprotect's scope, FlushIcache of all that has been   *)
(* overwritten, and Install's copy of the result.                          *)
Publish ==
  /\ pc = "Patch" /\ written >= RPatchSize
  /\ Reprotect /\ Flush(RPatchSize)
  /\ bInstalled' = TRUE /\ PatchSize' = RPatchSize
  /\ OriginalBytes' = Memcpy(OriginalBytes, ROriginal, RPatchSize)
  /\ TrampolineMem' = Tramp
  /\ pc' = "Installed"
  /\ UNCHANGED <<target, code, allocated, locals>>

-----------------------------------------------------------------------------
(* The variables but for pc have their types.  PatchSize is less than 14   *)
(* bytes and one more instruction, so the bytes fit in OriginalBytes, as   *)
(* the check() of InstallHook_X64 wants them to.                           *)
HookTypeOK ==
  /\ code \in [0 .. target.size - 1 -> CodeByte] /\ icache \in [0 .. target.size - 1 -> CodeByte]
  /\ writable \subseteq {0, 1} /\ allocated \subseteq Distances
  /\ bInstalled \in BOOLEAN
  /\ PatchSize \in 0 .. 28 /\ RPatchSize \in 0 .. 28
  /\ OriginalBytes \in [Saved -> CodeByte] /\ ROriginal \in [Saved -> CodeByte]
  /\ TrampolineMem \in Distances \cup {0} /\ Tramp \in Distances \cup {0}
  /\ Needed \in {0, 5, 14} /\ Copied \in Nat /\ jump \in Jumps
  /\ written \in 0 .. 32 /\ span \in 0 .. 32
=============================================================================
