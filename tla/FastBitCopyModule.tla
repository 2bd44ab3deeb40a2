-------------------------- MODULE FastBitCopyModule --------------------------
(***************************************************************************)
(* FFastBitCopyModule, which hooks appBitsCpy when it is loaded and takes  *)
(* the hook off when it is unloaded, together with the threads of the      *)
(* engine that call appBitsCpy and FastBitCopy.                            *)
(***************************************************************************)
EXTENDS HookedCode

CONSTANTS
  Threads,
  Builds,  (* How the module was built, see Gate.                          *)
  Quiet    (* Whether the threads keep out of the code while it is being   *)
           (* overwritten.  Nothing in the code sees to that: it relies on *)
           (* the engine, which loads the module before they start.        *)

VARIABLES
  build,
  GBitsCpyHookInstalled,
  exiting,  (* The process is at its end, destroying static objects.       *)
  pos   (* Where each thread is: out of the two functions, at an offset of *)
        (* the target, in FastBitCopy, or lost.                            *)

vars == <<hookVars, build, GBitsCpyHookInstalled, exiting, pos>>

Out == [at |-> "out", off |-> 0]
At(o) == [at |-> "target", off |-> o]
InFastBitCopy == [at |-> "fast", off |-> 0]
Lost == [at |-> "lost", off |-> 0]

-----------------------------------------------------------------------------
(* StartupModule and ShutdownModule, called by the engine's main thread.   *)

(* A mutant: the probe is not asked.                                       *)
GateUnprobed == build \notin {"nohook", "folded"}

(* What lets StartupModule go on to install the hook: not a "nohook"       *)
(* platform, nor the "fallback" build, in which FastBitCopy itself calls   *)
(* appBitsCpy, nor "folded" code, in which appBitsCpy and the detour are   *)
(* one function and the jump would go to itself.                           *)
Gate == build = "optimized"

StartupModule ==
  /\ pc = "Unloaded"
  /\ IF Gate THEN Install ELSE pc' = "Loaded"
  /\ UNCHANGED <<target, code, icache, writable, allocated, hook, locals, build,
                 GBitsCpyHookInstalled, exiting, pos>>

(* A mutant: what Install returns is not looked at.                        *)
StartupDoneUnasked ==
  /\ pc \in {"Installed", "Failed"}
  /\ GBitsCpyHookInstalled' = TRUE
  /\ pc' = "Loaded"
  /\ UNCHANGED <<target, code, icache, writable, allocated, hook, locals, build, exiting, pos>>

StartupDone ==
  /\ pc \in {"Installed", "Failed"}
  /\ GBitsCpyHookInstalled' = (pc = "Installed")
  /\ pc' = "Loaded"
  /\ UNCHANGED <<target, code, icache, writable, allocated, hook, locals, build, exiting, pos>>

ShutdownModule ==
  /\ pc = "Loaded"
  /\ pc' = IF GBitsCpyHookInstalled THEN "Uninstall" ELSE "Unloaded"
  /\ UNCHANGED <<target, code, icache, writable, allocated, hook, locals, build,
                 GBitsCpyHookInstalled, exiting, pos>>

ShutdownDone ==
  /\ pc = "Uninstalled" /\ ~exiting
  /\ GBitsCpyHookInstalled' = FALSE
  /\ pc' = "Unloaded"
  /\ UNCHANGED <<target, code, icache, writable, allocated, hook, locals, build, exiting, pos>>

(* A mutant: the destructor does nothing.                                  *)
DestroyNothing ==
  /\ pc \in {"Loaded", "Unloaded"} /\ ~exiting
  /\ exiting' = TRUE
  /\ pc' = "Uninstalled"
  /\ UNCHANGED <<target, code, icache, writable, allocated, hook, locals, build,
                 GBitsCpyHookInstalled, pos>>

(* ~FFunctionHook of GBitsCpyHook, when the process ends with or without a *)
(* ShutdownModule: it uninstalls what is installed.                        *)
DestroyHook ==
  /\ pc \in {"Loaded", "Unloaded"} /\ ~exiting
  /\ exiting' = TRUE
  /\ pc' = IF bInstalled THEN "Uninstall" ELSE "Uninstalled"
  /\ UNCHANGED <<target, code, icache, writable, allocated, hook, locals, build,
                 GBitsCpyHookInstalled, pos>>

-----------------------------------------------------------------------------
(* The threads.                                                            *)

(* No thread is about to execute an instruction that is being overwritten. *)
NobodyThere ==
  Quiet => \A t \in Threads : ~(pos[t].at = "target" /\ pos[t].off < Overwritten)

CallAppBitsCpy(t) ==
  /\ pos[t].at = "out"
  /\ Quiet => ~Overwriting
  /\ pos' = [pos EXCEPT ![t] = At(0)]

CallFastBitCopy(t) ==
  /\ pos[t].at = "out"
  /\ pos' = [pos EXCEPT ![t] = InFastBitCopy]

(* FastBitCopy, called directly or by HookedAppBitsCpy, copies and returns *)
(* to the caller; in a fallback build it calls appBitsCpy, and that        *)
(* returns.                                                                *)
RunFastBitCopy(t) ==
  /\ pos[t].at = "fast"
  /\ pos' = [pos EXCEPT ![t] = IF build = "fallback" THEN At(0) ELSE Out]

(* HookedAppBitsCpy, the detour: it calls FastBitCopy.                     *)
HookedAppBitsCpy == IF build = "folded" THEN At(0) ELSE InFastBitCopy

(* Where the instruction at o takes a thread that sees `view`: it is as it *)
(* was compiled, or the jump to the detour, or something that is neither.  *)
(* (A branch is taken as not taken.)                                       *)
AfterInsn(o, view) ==
  LET next == o + target.insns[o].len
  IN CASE \A k \in o .. next - 1 : view[k] = "orig" -> IF next = target.size THEN Out ELSE At(next)
       [] o = 0 /\ (\E form \in Jumps : WholeJump(view, form)) -> HookedAppBitsCpy
       [] OTHER -> Lost

RunAppBitsCpy(t) ==
  /\ pos[t].at = "target"
  /\ \E view \in Views : pos' = [pos EXCEPT ![t] = AfterInsn(pos[t].off, view)]

-----------------------------------------------------------------------------
Init ==
  /\ HookInit
  /\ pc = "Unloaded"
  /\ build \in Builds
  /\ GBitsCpyHookInstalled = FALSE /\ exiting = FALSE
  /\ pos = [t \in Threads |-> Out]

HookNext ==
  /\ \/ NextX64 \/ NextArm64 \/ Publish
     \/ Uninstall \/ Release
     \/ NobodyThere /\ (Patch \/ Restore)
  /\ UNCHANGED <<build, GBitsCpyHookInstalled, exiting, pos>>

ModuleNext == StartupModule \/ StartupDone \/ ShutdownModule \/ ShutdownDone \/ DestroyHook

(* A write to a protected page takes the whole process down.               *)
ThreadRun(t) ==
  /\ pc # "Crashed"
  /\ RunFastBitCopy(t) \/ RunAppBitsCpy(t)
  /\ UNCHANGED <<hookVars, build, GBitsCpyHookInstalled, exiting>>
ThreadCall(t) ==
  /\ pc # "Crashed"
  /\ CallAppBitsCpy(t) \/ CallFastBitCopy(t)
  /\ UNCHANGED <<hookVars, build, GBitsCpyHookInstalled, exiting>>

Next == HookNext \/ ModuleNext \/ \E t \in Threads : ThreadRun(t) \/ ThreadCall(t)

(* A thread in one of the two functions goes on, and so does the one that  *)
(* installs the hook or takes it off.                                      *)
Spec ==
  /\ Init /\ [][Next]_vars
  /\ WF_vars(HookNext) /\ \A t \in Threads : WF_vars(ThreadRun(t))

-----------------------------------------------------------------------------
(* Properties.                                                             *)

PcType ==
  {"Unloaded", "Install", "Decode", "Unprotect", "Extend", "UnprotectArm64", "Patch",
   "Installed", "Failed", "Loaded", "Uninstall", "Restore", "Uninstalled", "Crashed"}

(* Every variable has its type.                                            *)
TypeOK ==
  /\ HookTypeOK
  /\ build \in Builds /\ pc \in PcType
  /\ GBitsCpyHookInstalled \in BOOLEAN /\ exiting \in BOOLEAN
  /\ pos \in [Threads -> {Out, InFastBitCopy, Lost} \cup {At(o) : o \in DOMAIN target.insns}]

(* "On shutdown, the hook is reverted so Core is left in a clean state"    *)
(* (FastBitCopyModule.h), and "installation bails out and the stock        *)
(* implementation is used" (README.md): after an uninstallation, and after *)
(* an installation that failed at any point, every byte of the function is *)
(* the original, its pages are protected, and no memory is left behind.    *)
(* The same once the process has destroyed the hook, if the module was not *)
(* shut down before.                                                       *)
LeftClean ==
  (pc \in {"Unloaded", "Loaded"} /\ ~GBitsCpyHookInstalled) \/ (pc = "Uninstalled" /\ exiting)
    => /\ code = Pristine /\ icache = Pristine /\ writable = {} /\ allocated = {}
       /\ ~bInstalled

(* An installed hook is whole: the target starts with a whole jump, is     *)
(* untouched after the PatchSize bytes whose originals are kept, and the   *)
(* only memory held is the trampoline that Uninstall will free.            *)
HookedWhole ==
  pc = "Loaded" /\ GBitsCpyHookInstalled
    => /\ bInstalled /\ writable = {} /\ allocated = {TrampolineMem} /\ icache = code
       /\ \E form \in Jumps : JumpAt0(form) /\ JumpSize(form) <= PatchSize
       /\ \A o \in 0 .. PatchSize - 1 : OriginalBytes[o] = "orig"
       /\ \A o \in PatchSize .. target.size - 1 : code[o] = "orig"

(* "All existing callers transparently get the speed-up"                   *)
(* (FastBitCopyModule.h): no thread that keeps out of the bytes being      *)
(* overwritten (Quiet) ever executes a half-written jump, the rest of an   *)
(* instruction that has been overwritten, or the NOPs; those that were in  *)
(* the function when it was hooked finish it.                              *)
NoneLost == \A t \in Threads : pos[t].at # "lost"

(* A thread about to execute the instruction at o, by whatever its         *)
(* processor has cached, may find it to be neither the original nor a jump.*)
Torn(o) == \E view \in Views : AfterInsn(o, view) = Lost

(* How far the threads have to keep out (WriteJmpRel32 and WriteJmpAbs14   *)
(* in InstallHook_X64, Memcpy in Uninstall), whether they do or not: at    *)
(* any moment the whole function can be executed, but for the bytes that   *)
(* are being overwritten, from the first store to the flush, and the moved *)
(* ones after the first of an installed hook.  In particular, no failure,  *)
(* extension, reload or stale cache leaves half a jump behind.             *)
TornOnlyWhileWritten ==
  pc # "Crashed" =>
    \A o \in DOMAIN target.insns :
      Torn(o) => \/ Overwriting /\ written > 0 /\ o < Overwritten
                 \/ bInstalled /\ o \in 1 .. PatchSize - 1

(* Every call returns: in particular the hook is never installed in a      *)
(* build in which FastBitCopy calls appBitsCpy ("an infinite recursion, so *)
(* we gate on this probe", FastBitCopyModule.cpp).                         *)
CallsReturn == \A t \in Threads : pos[t].at # "out" ~> pos[t].at = "out"

(* Install and Uninstall return: the decoding that is tried again and the  *)
(* one that is extended come to an end, and the threads in the function    *)
(* leave the bytes to be overwritten.                                      *)
HookCallsReturn ==
  /\ pc = "Install" ~> pc \in {"Installed", "Failed"}
  /\ pc = "Uninstall" ~> pc = "Uninstalled"

(* The redirection promised to the callers: on while FFunctionHook says it *)
(* is installed, changing while bytes of the function are overwritten.     *)
(* What a thread that has called the function is in for depends on those   *)
(* bytes, not on what FFunctionHook says.                                  *)
Mode == CASE Overwriting -> "changing"
          [] ~Overwriting /\ bInstalled -> "redirected"
          [] OTHER -> "original"
Phase(t) ==
  CASE pos[t].at = "fast" -> "new"
    [] pos[t].at = "target" -> IF pos[t].off = 0 /\ Redirected THEN "redirected" ELSE "old"
    [] OTHER -> pos[t].at
Promise == INSTANCE RedirectSpec WITH mode <- Mode, phase <- [t \in Threads |-> Phase(t)]

(* The module redirects the calls of appBitsCpy: all of them while it is   *)
(* loaded, none before and after; a call made before is finished by the    *)
(* original, and every call returns.                                       *)
IsRedirection == Promise!Spec

(* The branches of the bytes moved to the trampoline, as they were.        *)
MovedInsns == {o \in DOMAIN target.insns : bInstalled /\ target.arch = "x64" /\ o < PatchSize}
Moved(kind(_, _)) == {o \in MovedInsns : kind(target.bytes, o)}

(* "Patch each relative offset so it still points to the same absolute     *)
(* target": a near branch out of the moved bytes, if its destination is    *)
(* within reach of the trampoline, still goes there.                       *)
NearBranchesFollow ==
  \A o \in Moved(IsRel32) :
    LET dest == OriginalDest(o)
        reach == dest - (TrampolineMem + o + target.insns[o].len)
    IN dest \notin 0 .. PatchSize - 1 /\ reach >= -Rel32Reach /\ reach < Rel32Reach
         => TrampolineDest(target.bytes, o, TrampolineMem) = dest

-----------------------------------------------------------------------------
(* What comments say and the code does not do.                             *)

(* "Just enough to figure out how many bytes the first "at least N"        *)
(* instructions of a function occupy" (FunctionHook.cpp, above InstrLen):  *)
(* what is overwritten and moved is a number of whole instructions.        *)
WholeInstructions == bInstalled => PatchSize \in DOMAIN target.insns \cup {target.size}

(* "Any PC-relative instruction (..., RIP-relative ModRM) must have its    *)
(* offset adjusted" (FunctionHook.cpp, above RelocateTrampoline): nothing  *)
(* in RelocateTrampoline adjusts such an operand, so none may be moved.    *)
NoRipOperandMoved == Moved(RipRelative) = {}

(* "Patch each relative offset so it still points to the same absolute     *)
(* target" (the same comment): a short branch out of the moved bytes still *)
(* goes where it went.                                                     *)
ShortBranchesFollow ==
  \A o \in Moved(IsRel8) :
    LET dest == OriginalDest(o)
    IN dest \notin 0 .. PatchSize - 1 => TrampolineDest(target.bytes, o, TrampolineMem) = dest

(* FScopedUnprotect is there to "make the code pages at [Addr, Addr+Size)  *)
(* writable": no store goes to a page that is not.                         *)
StoresAllowed == pc # "Crashed"
=============================================================================
