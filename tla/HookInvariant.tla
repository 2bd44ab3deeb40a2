--------------------------- MODULE HookInvariant ---------------------------
(***************************************************************************)
(* What holds at every step of the installation and of its reversal,       *)
(* whoever asks for them.                                                  *)
(***************************************************************************)
EXTENDS HookedCode

Size == target.size

(* Nothing has been done.                                                  *)
Untouched == code = Pristine /\ icache = Pristine /\ ~bInstalled
Clean == Untouched /\ writable = {} /\ allocated = {}

(* The first n bytes of the target are kept.                               *)
Keeps(bytes, n) == n \in 5 .. 28 /\ \A o \in 0 .. n - 1 : bytes[o] = "orig"

(* There is a trampoline, and the target is as it was.                     *)
Made == ~bInstalled /\ Tramp # 0 /\ allocated = {Tramp} /\ Keeps(ROriginal, RPatchSize)

(* The ends of the stores of a jump, and of the NOPs.                      *)
Ends(form) ==
  CASE form = "rel32" -> {0, 1} \cup 5 .. 32
    [] form = "abs14" -> 0 .. 6 \cup 14 .. 32
    [] form = "abs16" -> {0, 4, 8, 16}

(* The bytes from n on are the original ones, in memory and in the cache.  *)
OriginalFrom(n) ==
  /\ code \in [0 .. Size - 1 -> CodeByte] /\ icache \in [0 .. Size - 1 -> CodeByte]
  /\ \A o \in n .. Size - 1 : code[o] = "orig" /\ icache[o] = "orig"

(* The jump is being written.                                              *)
Patching ==
  /\ Made /\ writable = PagesOf(span)
  /\ jump \in Jumps /\ JumpSize(jump) <= RPatchSize /\ (jump = "abs16" => RPatchSize = 16)
  /\ written \in Ends(jump) /\ written <= RPatchSize
  /\ written = 0 => icache = code
  /\ OriginalFrom(RPatchSize)
  /\ \A o \in 0 .. Size - 1 : code[o] = IF o < written THEN Patched[o] ELSE "orig"

(* The hook is there.                                                      *)
Held ==
  /\ bInstalled /\ TrampolineMem # 0 /\ allocated = {TrampolineMem}
  /\ Keeps(OriginalBytes, PatchSize)
  /\ OriginalFrom(PatchSize)
Hooked ==
  /\ Held /\ writable = {} /\ icache = code
  /\ \E form \in Jumps : JumpSize(form) <= PatchSize /\ JumpAt0(form)

(* The original bytes are being written back.                              *)
Restoring ==
  /\ Held /\ writable = PagesOf(span) /\ span = PatchSize
  /\ written \in 0 .. PatchSize
  /\ \A o \in 0 .. written - 1 : code[o] = "orig"
  /\ written = 0 => icache = code /\ \E form \in Jumps : JumpAt0(form)

(* The steps with work half done; at any other the hook is whole or gone.  *)
Busy ==
  {"Install", "Decode", "Unprotect", "Extend", "UnprotectArm64", "Patch", "Installed", "Restore",
   "Uninstalled", "Crashed"}

(* At each step of Install and Uninstall, all of what has been done so far *)
(* and nothing else: the target, the trampoline and the pages are in the   *)
(* state that the rest of the steps, and an early return, rely on.         *)
HookInv ==
  /\ OriginalBytes \in [Saved -> CodeByte] /\ ROriginal \in [Saved -> CodeByte]
  /\ pc \notin Busy => Clean \/ Hooked
  /\ pc \in {"Install", "Decode", "Uninstalled"} => Clean
  /\ pc \in {"Decode", "Unprotect"} => Needed \in {5, 14} /\ Copied \in 0 .. 28
  /\ pc \in {"Decode", "Unprotect", "Extend"} => target.arch = "x64"
  /\ pc \in {"Unprotect", "UnprotectArm64"} => Made /\ Untouched /\ writable = {}
  /\ pc = "Unprotect" => RPatchSize = Copied /\ Needed <= Copied
  /\ pc = "UnprotectArm64" => RPatchSize = 16
  /\ pc = "Extend" =>
       /\ Made /\ Untouched /\ writable = PagesOf(span)
       /\ Copied \in 5 .. 28 /\ jump = "abs14" /\ written = 0
  /\ pc = "Patch" => Patching
  /\ pc = "Installed" => Hooked
  /\ pc = "Restore" => Restoring

(* Where a thread that is in the function may be.                          *)
SafeAt(o) ==
  /\ pc = "Patch" /\ written > 0 => o >= RPatchSize
  /\ pc = "Restore" /\ written > 0 => o >= PatchSize
  /\ bInstalled => o = 0 \/ o >= PatchSize

(* The steps of Install, after the refusal, and of Uninstall.              *)
HookStep == NextX64 \/ NextArm64 \/ Patch \/ Publish \/ Uninstall \/ Restore \/ Release
=============================================================================
