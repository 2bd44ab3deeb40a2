---------------------------- MODULE ModuleProofs ----------------------------
(***************************************************************************)
(* FFastBitCopyModule hooks the function and takes the hook off as it      *)
(* says, and redirects its calls, for every function, every place the OS   *)
(* may put memory at, every build and any number of threads.               *)
(***************************************************************************)
EXTENDS ModuleInvariant, HookProofs

-----------------------------------------------------------------------------
(* The calls of FFunctionHook, and what the module knows of them.          *)

LEMMA ModuleOK ==
  ASSUME HookInv, ModuleNext
  PROVE  HookInv'
<1>1. ButPc
  BY DEF ModuleNext, StartupModule, StartupDone, ShutdownModule, ShutdownDone, DestroyHook, ButPc
<1>2. CASE StartupModule
  <2>1. pc = "Unloaded" /\ ((pc' = "Install" /\ ~bInstalled) \/ pc' \in {"Loaded", "Failed"})
    BY <1>2 DEF StartupModule, Install, Fail
  <2>2. Clean \/ Hooked
    BY <2>1 DEF HookInv, Busy
  <2>3. pc' = "Install" => Clean
    BY <2>1, <2>2 DEF Hooked, Held
  <2> QED BY <1>1, <2>1, <2>3, BetweenOK DEF Busy
<1>3. CASE StartupDone \/ ShutdownModule \/ ShutdownDone
  <2>1. pc \notin Busy \ {"Installed", "Uninstalled"} /\ pc' \notin Busy
    BY <1>3 DEF StartupDone, ShutdownModule, ShutdownDone, Busy
  <2> QED BY <1>1, <2>1, BetweenOK
<1>4. CASE DestroyHook
  <2>1. pc \in {"Loaded", "Unloaded"} /\ pc' = IF bInstalled THEN "Uninstall" ELSE "Uninstalled"
    BY <1>4 DEF DestroyHook
  <2>2. Clean \/ Hooked
    BY <2>1 DEF HookInv, Busy
  <2>3. pc' = "Uninstalled" => Clean
    BY <2>1, <2>2 DEF Hooked, Held
  <2> QED BY <1>1, <2>1, <2>3, BetweenOK DEF Busy
<1> QED BY <1>2, <1>3, <1>4 DEF ModuleNext

LEMMA HookFlagsOK ==
  ASSUME HookInv, FlagsInv, HookNext
  PROVE  FlagsInv'
<1>1. GBitsCpyHookInstalled' = GBitsCpyHookInstalled
  BY DEF HookNext
<1>2. CASE NextX64 \/ NextArm64 \/ Patch \/ Publish
  <2>1. /\ pc \notin {"Loaded", "Uninstall", "Restore", "Uninstalled", "Crashed"}
        /\ pc' \notin {"Loaded", "Unloaded"}
    BY <1>2 DEF NextX64, InstallX64, Decode, Allocate, UnprotectX64, Extend, Reallocate,
       NextArm64, InstallArm64, UnprotectArm64, Patch, StoreBytes, Publish, Fail
  <2>2. pc' = "Failed" => ~bInstalled /\ bInstalled' = bInstalled
    BY <1>2 DEF HookInv, Clean, Untouched, Made, NextX64, InstallX64, Decode, Allocate,
       UnprotectX64, Extend, Reallocate, NextArm64, InstallArm64, UnprotectArm64, Patch,
       StoreBytes, Publish, hook
  <2> QED BY <1>1, <2>1, <2>2 DEF FlagsInv
<1>3. CASE Uninstall \/ Restore \/ Release
  <2>1. pc' \in {"Restore", "Uninstalled", "Crashed"}
    BY <1>3 DEF Uninstall, Restore, StoreBytes, Release
  <2> QED BY <2>1 DEF FlagsInv
<1> QED BY <1>2, <1>3 DEF HookNext

LEMMA ModuleFlagsOK ==
  ASSUME HookInv, FlagsInv, ModuleNext
  PROVE  FlagsInv'
<1>1. bInstalled' = bInstalled
  BY DEF ModuleNext, StartupModule, StartupDone, ShutdownModule, ShutdownDone, DestroyHook, hook
<1>2. CASE StartupModule
  <2>1. /\ pc' \in {"Install", "Failed", "Loaded"} /\ ~bInstalled /\ ~GBitsCpyHookInstalled
        /\ GBitsCpyHookInstalled' = GBitsCpyHookInstalled
    BY <1>2 DEF FlagsInv, StartupModule, Install, Fail
  <2> QED BY <1>1, <2>1 DEF FlagsInv
<1>3. CASE StartupDone
  <2>1. pc = "Installed" => bInstalled
    BY DEF HookInv, Hooked, Held
  <2>2. pc' = "Loaded" /\ (GBitsCpyHookInstalled' <=> bInstalled)
    BY <1>3, <2>1 DEF FlagsInv, StartupDone
  <2> QED BY <1>1, <2>2 DEF FlagsInv
<1>4. CASE ShutdownModule
  <2>1. /\ GBitsCpyHookInstalled' = GBitsCpyHookInstalled
        /\ pc' = IF GBitsCpyHookInstalled THEN "Uninstall" ELSE "Unloaded"
        /\ GBitsCpyHookInstalled <=> bInstalled
    BY <1>4 DEF FlagsInv, ShutdownModule
  <2> QED BY <1>1, <2>1 DEF FlagsInv
<1>5. CASE ShutdownDone
  <2>1. pc' = "Unloaded" /\ ~GBitsCpyHookInstalled' /\ ~bInstalled
    BY <1>5 DEF HookInv, Clean, Untouched, ShutdownDone
  <2> QED BY <1>1, <2>1 DEF FlagsInv
<1>6. CASE DestroyHook
  BY <1>6 DEF FlagsInv, DestroyHook
<1> QED BY <1>2, <1>3, <1>4, <1>5, <1>6 DEF ModuleNext

(* Whatever step is taken.                                                 *)
LEMMA NextOK ==
  ASSUME TargetInv, HookInv, FlagsInv, [Next]_vars
  PROVE  TargetInv' /\ HookInv' /\ FlagsInv'
<1>1. CASE HookNext
  BY <1>1, HookStepOK, HookFlagsOK DEF HookNext, HookStep
<1>2. CASE ModuleNext
  <2>1. target' = target
    BY <1>2 DEF ModuleNext, StartupModule, StartupDone, ShutdownModule, ShutdownDone, DestroyHook
  <2> QED BY <1>2, <2>1, ModuleOK, ModuleFlagsOK DEF TargetInv
<1>3. CASE UNCHANGED <<hookVars, GBitsCpyHookInstalled>>
  <2>1. target' = target /\ pc' = pc /\ bInstalled' = bInstalled
    BY <1>3 DEF hookVars, hook
  <2> QED BY <1>3, <2>1, SameOK DEF TargetInv, FlagsInv
<1> QED BY <1>1, <1>2, <1>3 DEF Next, ThreadRun, ThreadCall, vars

(* Every behaviour of the module keeps the invariants, whatever the        *)
(* function, the build, the threads and the memory the OS gives.           *)
THEOREM HookInvariance == Spec => [](TargetInv /\ HookInv /\ FlagsInv)
<1>1. Init => TargetInv /\ HookInv /\ FlagsInv
  <2>1. Init => HookInit /\ pc \notin Busy
    BY DEF Init, Busy
  <2>2. Init => FlagsInv
    BY DEF Init, HookInit, FlagsInv
  <2> QED BY <2>1, <2>2, HookInitOK
<1>2. (TargetInv /\ HookInv /\ FlagsInv) /\ [Next]_vars => (TargetInv /\ HookInv /\ FlagsInv)'
  BY NextOK
<1> QED BY <1>1, <1>2, PTL DEF Spec

-----------------------------------------------------------------------------
(* What the invariant gives.                                               *)

(* The flag of the module tells what the hook is, whenever it is asked.    *)
THEOREM FlagsAgree == Spec => []FlagsInv
BY HookInvariance, PTL

(* When the module is not loaded, when it could not install the hook, and  *)
(* when the process has destroyed it, the target is as it was compiled and *)
(* no memory and no access is left over.                                   *)
THEOREM CleanUp == Spec => []LeftClean
<1>1. HookInv /\ FlagsInv => LeftClean
  <2> SUFFICES ASSUME HookInv, FlagsInv,
                      \/ pc \in {"Unloaded", "Loaded"} /\ ~GBitsCpyHookInstalled
                      \/ pc = "Uninstalled"
               PROVE  Clean
    BY DEF LeftClean, Clean, Untouched
  <2>1. Clean \/ Hooked
    BY DEF HookInv, Busy
  <2>2. ~bInstalled \/ Clean
    BY DEF FlagsInv, HookInv
  <2> QED BY <2>1, <2>2 DEF Hooked, Held
<1> QED BY <1>1, HookInvariance, PTL

(* The hook of a loaded module is whole, and what it overwrote is kept.    *)
THEOREM WholeHook == Spec => []HookedWhole
<1>1. HookInv /\ FlagsInv => HookedWhole
  <2> SUFFICES ASSUME HookInv, FlagsInv, pc = "Loaded", GBitsCpyHookInstalled PROVE Hooked
    BY DEF HookedWhole, Hooked, Held, Keeps, OriginalFrom, Size
  <2>1. (Clean \/ Hooked) /\ bInstalled
    BY DEF HookInv, FlagsInv, Busy
  <2> QED BY <2>1 DEF Clean, Untouched
<1> QED BY <1>1, HookInvariance, PTL

-----------------------------------------------------------------------------
(* The threads.                                                            *)

(* A step after which no more of the function is unsafe leaves the threads *)
(* where they may be.                                                      *)
LEMMA StaysPlaced ==
  ASSUME pos' = pos, target' = target, NEW t \in Threads, Placed(t),
         \A o \in DOMAIN target.insns : pos[t] = At(o) /\ SafeAt(o) => SafeAt(o)'
  PROVE  Placed(t)'
BY DEF Placed

(* The steps of the hook.                                                  *)
LEMMA HookThreadsOK ==
  ASSUME TargetInv, HookInv, ThreadInv, Quiet, HookNext
  PROVE  ThreadInv'
<1>1. pos' = pos /\ build' = build
  BY DEF HookNext
<1>2. target' = target /\ pc \notin {"Unloaded", "Loaded", "Uninstalled"}
  BY DEF HookNext, NextX64, InstallX64, Decode, Allocate, UnprotectX64, Extend, Reallocate,
     NextArm64, InstallArm64, UnprotectArm64, Patch, Publish, Uninstall, Restore, Release
<1>3. OnlyOptimized'
  BY <1>1, <1>2 DEF ThreadInv, OnlyOptimized
<1>4. ASSUME NEW t \in Threads, NEW o \in DOMAIN target.insns, pos[t] = At(o), SafeAt(o)
      PROVE  SafeAt(o)'
  <2>1. pos[t].at = "target" /\ pos[t].off = o
    BY <1>4 DEF At
  <2>2. NobodyThere => ~(o < Overwritten)
    BY <2>1 DEF NobodyThere
  <2> QED BY <1>4, <2>2, SafeStays DEF HookNext
<1>5. \A t \in Threads : Placed(t)'
  BY <1>1, <1>2, <1>4, StaysPlaced DEF ThreadInv
<1> QED BY <1>1, <1>3, <1>5 DEF ThreadInv

(* The steps of the module.                                                *)
LEMMA ModuleThreadsOK ==
  ASSUME TargetInv, FlagsInv, ThreadInv, ModuleNext
  PROVE  ThreadInv'
<1>1. /\ pos' = pos /\ build' = build /\ target' = target
      /\ bInstalled' = bInstalled /\ PatchSize' = PatchSize
  BY DEF ModuleNext, StartupModule, StartupDone, ShutdownModule, ShutdownDone, DestroyHook, hook
<1>2. pc' \notin {"Patch", "Restore"}
  BY DEF ModuleNext, StartupModule, Install, StartupDone, ShutdownModule, ShutdownDone, DestroyHook
<1>3. OnlyOptimized'
  <2>1. CASE StartupModule
    BY <1>1, <2>1 DEF ThreadInv, OnlyOptimized, StartupModule, Gate
  <2>2. CASE StartupDone
    BY <1>1, <2>2 DEF ThreadInv, OnlyOptimized, StartupDone
  <2>3. CASE ShutdownModule
    BY <1>1, <2>3 DEF ThreadInv, OnlyOptimized, ShutdownModule, FlagsInv
  <2>4. CASE ShutdownDone
    BY <1>1, <2>4 DEF ThreadInv, OnlyOptimized, ShutdownDone
  <2>5. CASE DestroyHook
    BY <1>1, <2>5 DEF ThreadInv, OnlyOptimized, DestroyHook
  <2> QED BY <2>1, <2>2, <2>3, <2>4, <2>5 DEF ModuleNext
<1>4. \A t \in Threads : Placed(t)'
  <2> TAKE t \in Threads
  <2>1. \A o \in DOMAIN target.insns : SafeAt(o) => SafeAt(o)'
    BY <1>1, <1>2 DEF SafeAt
  <2> QED BY <1>1, <2>1, StaysPlaced DEF ThreadInv
<1> QED BY <1>1, <1>3, <1>4 DEF ThreadInv

(* The steps of the threads: one of them goes to a place where it may be.  *)
LEMMA ThreadGoes ==
  ASSUME ThreadInv, UNCHANGED <<hookVars, build>>, NEW t \in Threads, NEW place,
         pos' = [pos EXCEPT ![t] = place],
         \/ place \in {Out, InFastBitCopy}
         \/ \E o \in DOMAIN target.insns : place = At(o) /\ SafeAt(o)
  PROVE  ThreadInv'
<1>1. /\ target' = target /\ bInstalled' = bInstalled /\ PatchSize' = PatchSize
      /\ pc' = pc /\ written' = written /\ RPatchSize' = RPatchSize /\ build' = build
  BY DEF hookVars, hook, locals, result
<1>2. DOMAIN pos' = Threads
  BY DEF ThreadInv
<1>3. \A o : SafeAt(o) => SafeAt(o)'
  BY <1>1 DEF SafeAt
<1>4. ASSUME NEW u \in Threads PROVE Placed(u)'
  <2>1. CASE u = t
    BY <1>1, <1>3, <2>1 DEF ThreadInv, Placed
  <2>2. CASE u # t
    <3>1. pos'[u] = pos[u] /\ Placed(u)
      BY <2>2 DEF ThreadInv
    <3> QED BY <1>1, <1>3, <3>1 DEF Placed
  <2> QED BY <2>1, <2>2
<1> QED BY <1>1, <1>2, <1>4 DEF ThreadInv, OnlyOptimized

(* In a build that is not hooked a thread may be at the start of the       *)
(* function at any time.                                                   *)
LEMMA StartIsSafe ==
  ASSUME TargetInv, ThreadInv, build # "optimized" \/ ~Overwriting
  PROVE  0 \in DOMAIN target.insns /\ SafeAt(0)
BY InsnFacts DEF ThreadInv, OnlyOptimized, SafeAt, Overwriting

(* An instruction that is as it was is executed; it is not a jump.         *)
LEMMA Onward ==
  ASSUME TargetInv, NEW o \in DOMAIN target.insns, NEW view,
         \A k \in o .. (o + target.insns[o].len) - 1 : view[k] = "orig"
  PROVE  AfterInsn(o, view) =
           IF o + target.insns[o].len = Size THEN Out ELSE At(o + target.insns[o].len)
<1>1. ASSUME o = 0, NEW form \in Jumps, WholeJump(view, form) PROVE FALSE
  <2>1. 0 \in 0 .. JumpSize(form) - 1 /\ ~IsData(form, 0)
    BY DEF Jumps, JumpSize, IsData
  <2>2. view[0] = form
    BY <1>1, <2>1 DEF WholeJump
  <2>3. 0 \in o .. (o + target.insns[o].len) - 1
    BY <1>1, InsnFacts
  <2> QED BY <2>2, <2>3 DEF Jumps
<1>2. ~(o = 0 /\ \E form \in Jumps : WholeJump(view, form))
  BY <1>1
<1> QED BY <1>2 DEF AfterInsn, Size

(* An instruction of the function takes a thread to the next one, out of   *)
(* the function or to the detour.                                          *)
LEMMA RunIsPlaced ==
  ASSUME TargetInv, HookInv, ThreadInv, pc # "Crashed", UNCHANGED <<hookVars, build>>,
         NEW t \in Threads, RunAppBitsCpy(t)
  PROVE  ThreadInv'
<1>1. PICK o \in DOMAIN target.insns : pos[t] = At(o) /\ SafeAt(o)
  BY DEF ThreadInv, Placed, RunAppBitsCpy, Out, InFastBitCopy
<1> DEFINE next == o + target.insns[o].len
<1>2. pos[t].off = o
  BY <1>1 DEF At
<1>3. \E view \in Views : pos' = [pos EXCEPT ![t] = AfterInsn(pos[t].off, view)]
  BY DEF RunAppBitsCpy
<1>4. PICK view \in Views : pos' = [pos EXCEPT ![t] = AfterInsn(o, view)]
  BY <1>2, <1>3
<1>5. /\ o \in 0 .. Size - 1 /\ target.insns[o].len \in 1 .. 15
      /\ next # Size => next \in DOMAIN target.insns
  BY InsnFacts
<1>6. Size \in Nat
  BY TargetFacts
<1>7. CASE /\ \A k \in o .. Size - 1 : view[k] = "orig"
           /\ bInstalled => o >= PatchSize
  <2>1. CASE next = Size
    <3>1. \A k \in o .. next - 1 : view[k] = "orig"
      BY <1>5, <1>6, <1>7, <2>1
    <3>2. AfterInsn(o, view) = Out
      BY <2>1, <3>1, Onward
    <3> QED BY <1>4, <3>2, ThreadGoes
  <2>2. CASE next # Size
    <3>1. next \in 0 .. Size - 1 /\ next \in DOMAIN target.insns
      BY <1>5, <2>2, InsnFacts
    <3>2. \A k \in o .. next - 1 : view[k] = "orig"
      BY <1>5, <1>6, <1>7, <3>1
    <3>3. AfterInsn(o, view) = At(next)
      BY <2>2, <3>2, Onward
    <3>4. SafeAt(next)
      <4>1. pc = "Patch" => RPatchSize \in Int
        BY DEF HookInv, Patching, Made, Keeps
      <4>2. pc = "Restore" \/ bInstalled => PatchSize \in Int
        BY Stages DEF Hooked, Restoring, Held, Keeps
      <4> QED BY <1>1, <1>5, <1>7, <4>1, <4>2 DEF SafeAt
    <3> QED BY <1>4, <3>1, <3>3, <3>4, ThreadGoes
  <2> QED BY <2>1, <2>2
<1>8. CASE /\ o = 0 /\ view[0] # "orig"
           /\ \E form \in Jumps : WholeJump(view, form)
  <2>1. 0 \in o .. next - 1
    BY <1>5, <1>8
  <2>2. AfterInsn(o, view) = HookedAppBitsCpy
    BY <1>8, <2>1 DEF AfterInsn
  <2>3. CASE build = "folded"
    BY <1>4, <2>2, <2>3, StartIsSafe, ThreadGoes DEF HookedAppBitsCpy
  <2>4. CASE build # "folded"
    BY <1>4, <2>2, <2>4, ThreadGoes DEF HookedAppBitsCpy
  <2> QED BY <2>3, <2>4
<1> QED BY <1>1, <1>4, <1>7, <1>8, Sees

LEMMA ThreadThreadsOK ==
  ASSUME TargetInv, HookInv, ThreadInv, Quiet, NEW t \in Threads, ThreadRun(t) \/ ThreadCall(t)
  PROVE  ThreadInv'
<1>1. UNCHANGED <<hookVars, build>> /\ pc # "Crashed"
  BY DEF ThreadRun, ThreadCall
<1>2. CASE CallAppBitsCpy(t)
  <2>1. pos' = [pos EXCEPT ![t] = At(0)] /\ ~Overwriting
    BY <1>2 DEF CallAppBitsCpy
  <2> QED BY <1>1, <2>1, StartIsSafe, ThreadGoes
<1>3. CASE CallFastBitCopy(t)
  BY <1>1, <1>3, ThreadGoes DEF CallFastBitCopy
<1>4. CASE RunFastBitCopy(t)
  <2>1. CASE build = "fallback"
    <3>1. pos' = [pos EXCEPT ![t] = At(0)]
      BY <1>4, <2>1 DEF RunFastBitCopy
    <3> QED BY <1>1, <2>1, <3>1, StartIsSafe, ThreadGoes
  <2>2. CASE build # "fallback"
    <3>1. pos' = [pos EXCEPT ![t] = Out]
      BY <1>4, <2>2 DEF RunFastBitCopy
    <3> QED BY <1>1, <3>1, ThreadGoes
  <2> QED BY <2>1, <2>2
<1>5. CASE RunAppBitsCpy(t)
  BY <1>1, <1>5, RunIsPlaced
<1> QED BY <1>2, <1>3, <1>4, <1>5 DEF ThreadRun, ThreadCall

(* As long as the threads keep out of the code while it is overwritten, a  *)
(* thread in the function is at an instruction that is still the original, *)
(* or at the jump.                                                         *)
THEOREM ThreadsStayPlaced == ASSUME Quiet PROVE Spec => []ThreadInv
<1>1. Init => ThreadInv
  <2> SUFFICES ASSUME Init PROVE ThreadInv
    OBVIOUS
  <2>1. ~bInstalled /\ pc = "Unloaded"
    BY DEF Init, HookInit
  <2>2. DOMAIN pos = Threads /\ \A t \in Threads : pos[t] = Out
    BY DEF Init
  <2> QED BY <2>1, <2>2 DEF ThreadInv, OnlyOptimized, Placed
<1>2. TargetInv /\ HookInv /\ FlagsInv /\ ThreadInv /\ [Next]_vars => ThreadInv'
  <2> SUFFICES ASSUME TargetInv, HookInv, FlagsInv, ThreadInv, [Next]_vars PROVE ThreadInv'
    OBVIOUS
  <2>1. CASE UNCHANGED vars
    BY <2>1 DEF vars, hookVars, hook, locals, result, ThreadInv, OnlyOptimized, Placed, SafeAt
  <2>2. CASE HookNext
    BY <2>2, HookThreadsOK
  <2>3. CASE ModuleNext
    BY <2>3, ModuleThreadsOK
  <2>4. CASE \E t \in Threads : ThreadRun(t) \/ ThreadCall(t)
    BY <2>4, ThreadThreadsOK
  <2> QED BY <2>1, <2>2, <2>3, <2>4 DEF Next
<1> QED BY <1>1, <1>2, HookInvariance, PTL DEF Spec

(* No thread ever executes a part of a jump, or of an instruction that has *)
(* been overwritten.                                                       *)
THEOREM NoneIsLost == ASSUME Quiet PROVE Spec => []NoneLost
<1>1. ThreadInv => NoneLost
  BY DEF ThreadInv, Placed, NoneLost, Out, InFastBitCopy, At
<1> QED BY <1>1, ThreadsStayPlaced, PTL

-----------------------------------------------------------------------------
(* What the threads have to keep out of.                                   *)

LEMMA NotLost ==
  ASSUME TargetInv, HookInv, pc # "Crashed", NEW o \in DOMAIN target.insns, SafeAt(o),
         NEW view \in Views
  PROVE  AfterInsn(o, view) # Lost
<1> DEFINE next == o + target.insns[o].len
<1>1. o \in 0 .. Size - 1 /\ target.insns[o].len \in 1 .. 15 /\ Size \in Nat
  BY InsnFacts, TargetFacts
<1>2. Out # Lost /\ InFastBitCopy # Lost /\ \A k : At(k) # Lost
  BY DEF Out, InFastBitCopy, At, Lost
<1>3. CASE \A k \in o .. Size - 1 : view[k] = "orig"
  <2>1. next - 1 <= Size - 1
    <3>1. next # Size => next \in 0 .. Size - 1
      BY InsnFacts
    <3> QED BY <1>1, <3>1
  <2>2. \A k \in o .. next - 1 : view[k] = "orig"
    BY <1>1, <1>3, <2>1
  <2> QED BY <1>2, <2>2, Onward
<1>4. CASE o = 0 /\ view[0] # "orig" /\ \E form \in Jumps : WholeJump(view, form)
  <2>1. 0 \in o .. next - 1
    BY <1>1, <1>4
  <2>2. AfterInsn(o, view) = HookedAppBitsCpy
    BY <1>4, <2>1 DEF AfterInsn
  <2> QED BY <1>2, <2>2 DEF HookedAppBitsCpy
<1> QED BY <1>3, <1>4, Sees

(* Whatever the threads do: outside the bytes being overwritten, and the   *)
(* moved ones after the first, an instruction is the original or a whole   *)
(* jump, in memory and in every cache.                                     *)
THEOREM TornBriefly == Spec => []TornOnlyWhileWritten
<1>1. TargetInv /\ HookInv => TornOnlyWhileWritten
  <2> SUFFICES ASSUME TargetInv, HookInv, pc # "Crashed", NEW o \in DOMAIN target.insns, Torn(o),
                      ~(Overwriting /\ written > 0 /\ o < Overwritten),
                      ~(bInstalled /\ o \in 1 .. PatchSize - 1)
               PROVE  FALSE
    BY DEF TornOnlyWhileWritten
  <2>1. o \in Nat
    BY InsnFacts, TargetFacts
  <2>2. pc = "Patch" /\ written > 0 => o >= RPatchSize
    <3>1. pc = "Patch" => RPatchSize \in Int
      BY DEF HookInv, Patching, Made, Keeps
    <3> QED BY <2>1, <3>1 DEF Overwriting, Overwritten
  <2>3. (pc = "Restore" => bInstalled) /\ (bInstalled => PatchSize \in Int)
    BY Stages DEF HookInv, Hooked, Restoring, Held, Keeps
  <2>4. pc = "Restore" /\ written > 0 => o >= PatchSize
    BY <2>1, <2>3 DEF Overwriting, Overwritten
  <2>5. SafeAt(o)
    BY <2>1, <2>2, <2>3, <2>4 DEF SafeAt
  <2> QED BY <2>5, NotLost DEF Torn
<1> QED BY <1>1, HookInvariance, PTL

-----------------------------------------------------------------------------
(* The types.                                                              *)

Places == {Out, InFastBitCopy, Lost} \cup {At(o) : o \in DOMAIN target.insns}

LEMMA AfterInsnTypes ==
  ASSUME TargetInv, NEW o \in DOMAIN target.insns, NEW view
  PROVE  AfterInsn(o, view) \in Places
<1> DEFINE next == o + target.insns[o].len
           asCompiled == \A k \in o .. next - 1 : view[k] = "orig"
           isJump == o = 0 /\ \E form \in Jumps : WholeJump(view, form)
<1>1. 0 \in DOMAIN target.insns /\ (next # Size => next \in DOMAIN target.insns)
  BY InsnFacts
<1>2. CASE asCompiled
  <2>1. AfterInsn(o, view) = IF next = Size THEN Out ELSE At(next)
    BY <1>2, Onward
  <2> QED BY <1>1, <2>1 DEF Places
<1>3. CASE ~asCompiled /\ isJump
  <2>1. AfterInsn(o, view) = HookedAppBitsCpy
    BY <1>3 DEF AfterInsn
  <2> QED BY <1>1, <2>1 DEF HookedAppBitsCpy, Places
<1>4. CASE ~asCompiled /\ ~isJump
  <2>1. AfterInsn(o, view) = Lost
    BY <1>4 DEF AfterInsn
  <2> QED BY <2>1 DEF Places
<1> QED BY <1>2, <1>3, <1>4

LEMMA ThreadTypes ==
  ASSUME TargetInv, pos \in [Threads -> Places], NEW t \in Threads, ThreadRun(t) \/ ThreadCall(t)
  PROVE  pos' \in [Threads -> Places]
<1>1. 0 \in DOMAIN target.insns
  BY InsnFacts
<1>2. CASE CallAppBitsCpy(t) \/ CallFastBitCopy(t) \/ RunFastBitCopy(t)
  BY <1>1, <1>2 DEF CallAppBitsCpy, CallFastBitCopy, RunFastBitCopy, Places
<1>3. CASE RunAppBitsCpy(t)
  <2>1. PICK view \in Views : pos' = [pos EXCEPT ![t] = AfterInsn(pos[t].off, view)]
    BY <1>3 DEF RunAppBitsCpy
  <2>2. PICK o \in DOMAIN target.insns : pos[t] = At(o)
    BY <1>3 DEF RunAppBitsCpy, Places, Out, InFastBitCopy, Lost
  <2>3. pos[t].off = o
    BY <2>2 DEF At
  <2>4. AfterInsn(pos[t].off, view) \in Places
    BY <2>3, AfterInsnTypes
  <2> QED BY <2>1, <2>4
<1> QED BY <1>2, <1>3 DEF ThreadRun, ThreadCall

LEMMA ControlTypes ==
  ASSUME pc \in PcType, GBitsCpyHookInstalled \in BOOLEAN, exiting \in BOOLEAN,
         HookNext \/ ModuleNext
  PROVE  pc' \in PcType /\ GBitsCpyHookInstalled' \in BOOLEAN /\ exiting' \in BOOLEAN
<1>1. CASE HookNext
  <2>1. GBitsCpyHookInstalled' = GBitsCpyHookInstalled /\ exiting' = exiting
    BY <1>1 DEF HookNext
  <2>2. pc' \in PcType
    BY <1>1 DEF PcType, HookNext, NextX64, InstallX64, Decode, Allocate, UnprotectX64, Extend,
       Reallocate, NextArm64, InstallArm64, UnprotectArm64, Patch, StoreBytes, Publish,
       Uninstall, Restore, Release, Fail
  <2> QED BY <2>1, <2>2
<1>2. CASE ModuleNext
  <2>1. pc' \in PcType
    BY <1>2 DEF PcType, ModuleNext, StartupModule, Install, StartupDone, ShutdownModule,
       ShutdownDone, DestroyHook
  <2>2. GBitsCpyHookInstalled' \in BOOLEAN
    BY <1>2 DEF ModuleNext, StartupModule, StartupDone, ShutdownModule, ShutdownDone, DestroyHook
  <2>3. exiting' \in BOOLEAN
    BY <1>2 DEF ModuleNext, StartupModule, StartupDone, ShutdownModule, ShutdownDone, DestroyHook
  <2> QED BY <2>1, <2>2, <2>3
<1> QED BY <1>1, <1>2

LEMMA TypesOK ==
  ASSUME TargetInv, HookInv, TypeOK, [Next]_vars
  PROVE  TypeOK'
<1>1. target' = target /\ (build' = build)
  <2>1. HookNext => target' = target /\ build' = build
    BY DEF HookNext, NextX64, InstallX64, Decode, Allocate, UnprotectX64, Extend,
       Reallocate, NextArm64, InstallArm64, UnprotectArm64, Patch, Publish, Uninstall, Restore,
       Release
  <2> QED BY <2>1 DEF Next, ModuleNext, StartupModule, StartupDone, ShutdownModule, ShutdownDone,
             DestroyHook, ThreadRun, ThreadCall, vars, hookVars
<1>2. pos \in [Threads -> Places]
  BY DEF TypeOK, Places
<1>3. /\ pc \in PcType /\ GBitsCpyHookInstalled \in BOOLEAN /\ exiting \in BOOLEAN
      /\ HookTypeOK /\ build \in Builds
  BY DEF TypeOK
<1>4. HookTypeOK' /\ pos' \in [Threads -> Places]
      /\ pc' \in PcType /\ GBitsCpyHookInstalled' \in BOOLEAN /\ exiting' \in BOOLEAN
  <2>1. CASE HookNext
    <3>1. HookTypeOK' /\ pos' = pos
      BY <1>3, <2>1, HookTypesOK DEF HookNext, HookStep
    <3> QED BY <1>2, <1>3, <2>1, <3>1, ControlTypes
  <2>2. CASE ModuleNext
    <3>1. ButPc /\ pos' = pos
      BY <2>2 DEF ModuleNext, StartupModule, StartupDone, ShutdownModule, ShutdownDone,
         DestroyHook, ButPc
    <3> QED BY <1>2, <1>3, <2>2, <3>1, ControlTypes, SameTypes
  <2>3. CASE \E t \in Threads : ThreadRun(t) \/ ThreadCall(t)
    <3>1. UNCHANGED <<hookVars, GBitsCpyHookInstalled, exiting>>
      BY <2>3 DEF ThreadRun, ThreadCall
    <3>2. ButPc /\ pc' = pc
      BY <3>1 DEF hookVars, ButPc
    <3> QED BY <1>2, <1>3, <2>3, <3>1, <3>2, ThreadTypes, SameTypes
  <2>4. CASE UNCHANGED vars
    <3>1. ButPc /\ pc' = pc /\ pos' = pos /\ UNCHANGED <<GBitsCpyHookInstalled, exiting>>
      BY <2>4 DEF vars, hookVars, ButPc
    <3> QED BY <1>2, <1>3, <3>1, SameTypes
  <2> QED BY <2>1, <2>2, <2>3, <2>4 DEF Next
<1> QED BY <1>1, <1>3, <1>4 DEF TypeOK, Places

(* Every variable keeps its type: what is overwritten fits in the 32 bytes *)
(* of OriginalBytes, though the check() that says so is compiled out in    *)
(* Shipping builds, and a thread is never anywhere else than at one of the *)
(* instructions, in FastBitCopy, out of both, or lost.                     *)
THEOREM TypeCorrectness == Spec => []TypeOK
<1>1. Init => TypeOK
  <2> SUFFICES ASSUME Init PROVE TypeOK
    OBVIOUS
  <2>1. HookTypeOK
    BY HookInitOK, InitTypesOK DEF Init, Busy
  <2>2. pos \in [Threads -> {Out}]
    BY DEF Init
  <2>3. GBitsCpyHookInstalled \in BOOLEAN /\ exiting \in BOOLEAN
    BY DEF Init
  <2> QED BY <2>1, <2>2, <2>3 DEF Init, TypeOK, PcType
<1>2. TargetInv /\ HookInv /\ TypeOK /\ [Next]_vars => TypeOK'
  BY TypesOK
<1> QED BY <1>1, <1>2, HookInvariance, PTL DEF Spec

-----------------------------------------------------------------------------
(* The redirection.                                                        *)

Phases == [t \in Threads |-> Phase(t)]

(* A thread's phase changes when it moves, or when it is at the start of   *)
(* the function and the bytes there change.                                *)
LEMMA PhaseFacts ==
  ASSUME NEW t \in Threads, pos'[t] = pos[t],
         Redirected' = Redirected \/ ~(pos[t].at = "target" /\ pos[t].off = 0)
  PROVE  Phase(t)' = Phase(t)
BY DEF Phase

LEMMA ModeIs == Mode \in {"original", "changing", "redirected"}
BY DEF Mode

-----------------------------------------------------------------------------
(* The steps of the hook and of the module.                                *)

(* No thread is at the bytes that a step of the hook changes.              *)
LEMMA PhasesKept ==
  ASSUME TargetInv, HookInv, Quiet, HookNext
  PROVE  Phases' = Phases
<1>1. pos' = pos
  BY DEF HookNext
<1>2. ASSUME NobodyThere, pc \in {"Patch", "Restore"}, NEW t \in Threads
      PROVE  ~(pos[t].at = "target" /\ pos[t].off = 0)
  <2>1. Overwritten \in 5 .. 32
    BY <1>2 DEF HookInv, Patching, Made, Restoring, Held, Keeps, Overwritten
  <2> QED BY <1>2, <2>1 DEF NobodyThere
<1>3. CASE NobodyThere /\ (Patch \/ Restore)
  <2>1. pc \in {"Patch", "Restore"}
    BY <1>3 DEF Patch, Restore
  <2>2. \A t \in Threads : Phase(t)' = Phase(t)
    BY <1>1, <1>2, <1>3, <2>1, PhaseFacts
  <2> QED BY <2>2 DEF Phases
<1>4. CASE NextX64 \/ NextArm64 \/ Publish \/ Uninstall \/ Release
  <2>1. code' = code
    BY <1>4 DEF NextX64, InstallX64, Decode, Allocate, UnprotectX64, Extend, Reallocate,
       NextArm64, InstallArm64, UnprotectArm64, Publish, Uninstall, Release
  <2>2. \A t \in Threads : Phase(t)' = Phase(t)
    BY <1>1, <2>1, SameCode, PhaseFacts
  <2> QED BY <2>2 DEF Phases
<1> QED BY <1>3, <1>4 DEF HookNext

LEMMA HookRedirects ==
  ASSUME TargetInv, HookInv, Quiet, HookNext
  PROVE  [Promise!Next]_(Promise!vars)
<1>1. Phases' = Phases
  BY PhasesKept
<1>2. ASSUME "changing" \in {Mode, Mode'} PROVE Promise!Change
  <2>1. Mode' \in {"original", "changing", "redirected"}
    BY DEF Mode
  <2> QED BY <1>1, <1>2, <2>1 DEF Promise!Change, Phases
<1>3. CASE Patch \/ Restore \/ Publish \/ Release
  <2>1. Mode = "changing"
    BY <1>3 DEF Patch, Restore, Publish, Release, Mode, Overwriting
  <2> QED BY <1>2, <2>1 DEF Promise!Next
<1>4. CASE Uninstall
  <2>1. CASE bInstalled
    <3>1. Overwriting'
      BY <1>4, <2>1 DEF Uninstall, Overwriting
    <3>2. Mode' = "changing"
      BY <3>1 DEF Mode
    <3> QED BY <1>2, <3>2 DEF Promise!Next
  <2>2. CASE ~bInstalled
    <3>1. ~Overwriting /\ ~Overwriting' /\ bInstalled' = bInstalled
      BY <1>4, <2>2 DEF Uninstall, hook, Overwriting
    <3>2. Mode' = Mode
      BY <3>1 DEF Mode
    <3> QED BY <1>1, <3>2 DEF Promise!Next, Promise!vars, Phases
  <2> QED BY <2>1, <2>2
<1>5. CASE NextX64 \/ NextArm64
  <2>1. ~Overwriting /\ bInstalled' = bInstalled
    BY <1>5 DEF NextX64, InstallX64, Decode, Allocate, UnprotectX64, Extend, Reallocate,
       NextArm64, InstallArm64, UnprotectArm64, hook, Overwriting
  <2>2. Mode' = "changing" \/ Mode' = Mode
    BY <2>1 DEF Mode
  <2> QED BY <1>1, <1>2, <2>2 DEF Promise!Next, Promise!vars, Phases
<1> QED BY <1>3, <1>4, <1>5 DEF HookNext

LEMMA ModuleRedirects ==
  ASSUME ModuleNext
  PROVE  UNCHANGED Promise!vars
<1>1. /\ pos' = pos /\ code' = code /\ bInstalled' = bInstalled
      /\ ~Overwriting /\ ~Overwriting'
  BY DEF ModuleNext, StartupModule, Install, StartupDone, ShutdownModule, ShutdownDone, DestroyHook,
     hook, Overwriting
<1>2. \A t \in Threads : Phase(t)' = Phase(t)
  BY <1>1, SameCode, PhaseFacts
<1>3. Mode' = Mode
  BY <1>1 DEF Mode
<1> QED BY <1>2, <1>3 DEF Promise!vars

-----------------------------------------------------------------------------
(* The steps of the threads.                                               *)

(* A step of a thread to a place is a step of its phase.                   *)
LEMMA PhaseGoes ==
  ASSUME ThreadInv, UNCHANGED hookVars, NEW t \in Threads, NEW place,
         pos' = [pos EXCEPT ![t] = place]
  PROVE  /\ Mode' = Mode /\ Redirected' = Redirected
         /\ Phases' = [Phases EXCEPT ![t] = Phase(t)']
         /\ pos'[t] = place
<1>1. code' = code /\ pc' = pc /\ bInstalled' = bInstalled
  BY DEF hookVars, hook
<1>2. Redirected' = Redirected
  BY <1>1, SameCode
<1>3. Mode' = Mode
  BY <1>1 DEF Mode, Overwriting
<1>4. pos'[t] = place /\ \A u \in Threads : u # t => pos'[u] = pos[u]
  BY DEF ThreadInv
<1>5. \A u \in Threads : u # t => Phase(u)' = Phase(u)
  BY <1>2, <1>4, PhaseFacts
<1>6. Phases' = [Phases EXCEPT ![t] = Phase(t)']
  BY <1>5 DEF Phases
<1> QED BY <1>2, <1>3, <1>4, <1>6

(* The phase of a thread at each of the places it may be.                  *)
LEMMA PhaseAt ==
  ASSUME NEW t \in Threads
  PROVE  /\ pos[t] = Out => Phase(t) = "out"
         /\ pos[t] = InFastBitCopy => Phase(t) = "new"
         /\ \A o : pos[t] = At(o) =>
              Phase(t) = IF o = 0 /\ Redirected THEN "redirected" ELSE "old"
<1>1. pos[t] = Out => Phase(t) = "out"
  BY DEF Out, Phase
<1>2. pos[t] = InFastBitCopy => Phase(t) = "new"
  BY DEF InFastBitCopy, Phase
<1>3. ASSUME NEW o, pos[t] = At(o)
      PROVE  Phase(t) = IF o = 0 /\ Redirected THEN "redirected" ELSE "old"
  <2>1. pos[t].at = "target" /\ pos[t].off = o
    BY <1>3 DEF At
  <2> QED BY <2>1 DEF Phase
<1> QED BY <1>1, <1>2, <1>3

LEMMA ThreadSteps ==
  ASSUME NEW t \in Threads, NEW from, NEW to,
         Phase(t) = from, Mode' = Mode, Phases' = [Phases EXCEPT ![t] = to]
  PROVE  Promise!Goes(t, from, to)
BY DEF Promise!Goes, Phases

(* An instruction of the function: the thread stays in the old one or      *)
(* returns from it; the jump takes it to the new one.                      *)
LEMMA RunRedirects ==
  ASSUME TargetInv, HookInv, ThreadInv, pc # "Crashed", UNCHANGED hookVars,
         NEW t \in Threads, RunAppBitsCpy(t)
  PROVE  [Promise!Next]_(Promise!vars)
<1>1. PICK o \in DOMAIN target.insns : pos[t] = At(o) /\ SafeAt(o)
  BY DEF ThreadInv, Placed, RunAppBitsCpy, Out, InFastBitCopy
<1> DEFINE next == o + target.insns[o].len
<1>2. pos[t].off = o
  BY <1>1 DEF At
<1>3. \E view \in Views : pos' = [pos EXCEPT ![t] = AfterInsn(pos[t].off, view)]
  BY DEF RunAppBitsCpy
<1>4. PICK view \in Views : pos' = [pos EXCEPT ![t] = AfterInsn(o, view)]
  BY <1>2, <1>3
<1>5. /\ o \in 0 .. Size - 1 /\ target.insns[o].len \in 1 .. 15 /\ Size \in Nat
      /\ next # Size => next \in 0 .. Size - 1
  BY InsnFacts, TargetFacts
<1>6. /\ Mode' = Mode /\ Redirected' = Redirected
      /\ Phases' = [Phases EXCEPT ![t] = Phase(t)'] /\ pos'[t] = AfterInsn(o, view)
  BY <1>4, PhaseGoes
<1>7. CASE code[o] = "orig" /\ \A k \in o .. Size - 1 : view[k] = "orig"
  <2>1. \A k \in o .. next - 1 : view[k] = "orig"
    BY <1>5, <1>7
  <2>2. AfterInsn(o, view) = IF next = Size THEN Out ELSE At(next)
    BY <2>1, Onward
  <2>3. Phase(t) = "old"
    BY <1>1, <1>7, PhaseAt, JumpIsNotOriginal
  <2>4. CASE next = Size
    <3>1. pos'[t] = Out
      BY <1>6, <2>2, <2>4
    <3>2. Phase(t)' = "out"
      BY <3>1 DEF Out, Phase
    <3>3. Promise!Goes(t, "old", "out")
      BY <1>6, <2>3, <3>2, ThreadSteps
    <3> QED BY <3>3 DEF Promise!Next, Promise!Return
  <2>5. CASE next # Size
    <3>1. pos'[t] = At(next) /\ next # 0
      BY <1>5, <1>6, <2>2, <2>5
    <3>2. Phase(t)' = "old"
      <4> HIDE DEF next
      <4>1. pos'[t].at = "target" /\ pos'[t].off = next
        BY <3>1 DEF At
      <4> QED BY <3>1, <4>1 DEF Phase
    <3>3. Phases' = Phases
      BY <1>6, <2>3, <3>2 DEF Phases
    <3> QED BY <1>6, <3>3 DEF Promise!vars, Phases
  <2> QED BY <2>4, <2>5
<1>8. CASE /\ o = 0 /\ view[0] # "orig" /\ bInstalled /\ Redirected
           /\ \E form \in Jumps : WholeJump(view, form)
  <2>1. 0 \in o .. next - 1
    BY <1>5, <1>8
  <2>2. AfterInsn(o, view) = HookedAppBitsCpy
    BY <1>8, <2>1 DEF AfterInsn
  <2>3. pos'[t] = InFastBitCopy
    BY <1>6, <1>8, <2>2 DEF HookedAppBitsCpy, ThreadInv, OnlyOptimized
  <2>4. Phase(t)' = "new"
    BY <2>3 DEF InFastBitCopy, Phase
  <2>5. Phase(t) = "redirected"
    BY <1>1, <1>8, PhaseAt
  <2>6. Promise!Goes(t, "redirected", "new")
    BY <1>6, <2>4, <2>5, ThreadSteps
  <2> QED BY <2>6 DEF Promise!Next, Promise!Arrive
<1> QED BY <1>1, <1>4, <1>7, <1>8, Sees

LEMMA ThreadRedirects ==
  ASSUME TargetInv, HookInv, ThreadInv, Quiet, NEW t \in Threads, ThreadRun(t) \/ ThreadCall(t)
  PROVE  [Promise!Next]_(Promise!vars)
<1>1. UNCHANGED hookVars /\ pc # "Crashed"
  BY DEF ThreadRun, ThreadCall
<1>2. CASE CallAppBitsCpy(t)
  <2>1. pos' = [pos EXCEPT ![t] = At(0)] /\ ~Overwriting /\ pos[t].at = "out"
    BY <1>2 DEF CallAppBitsCpy
  <2>2. /\ Mode' = Mode /\ Redirected' = Redirected
        /\ Phases' = [Phases EXCEPT ![t] = Phase(t)'] /\ pos'[t] = At(0)
    BY <1>1, <2>1, PhaseGoes
  <2>3. Mode # "changing" /\ (Mode = "redirected" <=> Redirected)
    BY <1>1, <2>1, SaysWhatItDoes DEF Mode
  <2>4. Phase(t) = "out"
    BY <2>1 DEF Phase
  <2>5. Phase(t)' = IF Mode = "redirected" THEN "redirected" ELSE "old"
    <3>1. pos'[t].at = "target" /\ pos'[t].off = 0
      BY <2>2 DEF At
    <3> QED BY <2>2, <2>3, <3>1 DEF Phase
  <2>6. Promise!Goes(t, "out", IF Mode = "redirected" THEN "redirected" ELSE "old")
    BY <2>2, <2>4, <2>5, ThreadSteps
  <2> QED BY <2>3, <2>6 DEF Promise!Next, Promise!Call
<1>3. CASE CallFastBitCopy(t)
  <2>1. pos' = [pos EXCEPT ![t] = InFastBitCopy] /\ pos[t].at = "out"
    BY <1>3 DEF CallFastBitCopy
  <2>2. /\ Mode' = Mode
        /\ Phases' = [Phases EXCEPT ![t] = Phase(t)'] /\ pos'[t] = InFastBitCopy
    BY <1>1, <2>1, PhaseGoes
  <2>3. Phase(t) = "out" /\ Phase(t)' = "new"
    BY <2>1, <2>2 DEF Phase, InFastBitCopy
  <2>4. Promise!Goes(t, "out", "new")
    BY <2>2, <2>3, ThreadSteps
  <2> QED BY <2>4 DEF Promise!Next, Promise!CallNew
<1>4. CASE RunFastBitCopy(t)
  <2>1. Phase(t) = "new"
    BY <1>4 DEF RunFastBitCopy, Phase
  <2>2. CASE build = "fallback"
    <3>1. pos' = [pos EXCEPT ![t] = At(0)]
      BY <1>4, <2>2 DEF RunFastBitCopy
    <3>2. /\ Mode' = Mode /\ Redirected' = Redirected
          /\ Phases' = [Phases EXCEPT ![t] = Phase(t)'] /\ pos'[t] = At(0)
      BY <1>1, <3>1, PhaseGoes
    <3>3. ~Overwriting /\ ~bInstalled
      BY <2>2 DEF ThreadInv, OnlyOptimized, Overwriting
    <3>4. Mode = "original" /\ ~Redirected
      BY <1>1, <3>3, SaysWhatItDoes DEF Mode
    <3>5. Phase(t)' = "old"
      <4>1. pos'[t].at = "target" /\ pos'[t].off = 0
        BY <3>2 DEF At
      <4> QED BY <3>2, <3>4, <4>1 DEF Phase
    <3>6. Promise!Goes(t, "new", "old")
      BY <2>1, <3>2, <3>5, ThreadSteps
    <3> QED BY <3>4, <3>6 DEF Promise!Next, Promise!Delegate
  <2>3. CASE build # "fallback"
    <3>1. pos' = [pos EXCEPT ![t] = Out]
      BY <1>4, <2>3 DEF RunFastBitCopy
    <3>2. Mode' = Mode /\ Phases' = [Phases EXCEPT ![t] = Phase(t)'] /\ pos'[t] = Out
      BY <1>1, <3>1, PhaseGoes
    <3>3. Phase(t)' = "out"
      BY <3>2 DEF Phase, Out
    <3>4. Promise!Goes(t, "new", "out")
      BY <2>1, <3>2, <3>3, ThreadSteps
    <3> QED BY <3>4 DEF Promise!Next, Promise!Return
  <2> QED BY <2>2, <2>3
<1>5. CASE RunAppBitsCpy(t)
  BY <1>1, <1>5, RunRedirects
<1> QED BY <1>2, <1>3, <1>4, <1>5 DEF ThreadRun, ThreadCall

-----------------------------------------------------------------------------
(* As long as the threads keep out of the code while it is overwritten,    *)
(* the module does what RedirectSpec promises, all but that every call     *)
(* returns: no call is answered by a mixture of the two functions.         *)
THEOREM Redirection ==
  ASSUME Quiet
  PROVE  Spec => Promise!Init /\ [][Promise!Next]_(Promise!vars)
<1>1. Init => Promise!Init
  <2> SUFFICES ASSUME Init PROVE Promise!Init
    OBVIOUS
  <2>1. ~bInstalled /\ pc = "Unloaded" /\ pos = [t \in Threads |-> Out]
    BY DEF Init, HookInit
  <2>2. Mode = "original"
    BY <2>1 DEF Mode, Overwriting
  <2>3. \A t \in Threads : Phase(t) = "out"
    BY <2>1, PhaseAt
  <2> QED BY <2>2, <2>3 DEF Promise!Init
<1>2. TargetInv /\ HookInv /\ ThreadInv /\ [Next]_vars => [Promise!Next]_(Promise!vars)
  <2> SUFFICES ASSUME TargetInv, HookInv, ThreadInv, [Next]_vars
               PROVE  [Promise!Next]_(Promise!vars)
    OBVIOUS
  <2>1. CASE UNCHANGED vars
    <3>1. pos' = pos /\ code' = code /\ bInstalled' = bInstalled /\ pc' = pc
      BY <2>1 DEF vars, hookVars, hook
    <3>2. \A t \in Threads : Phase(t)' = Phase(t)
      BY <3>1, SameCode, PhaseFacts
    <3>3. Mode' = Mode
      BY <3>1 DEF Mode, Overwriting
    <3> QED BY <3>2, <3>3 DEF Promise!vars
  <2>2. CASE HookNext
    BY <2>2, HookRedirects
  <2>3. CASE ModuleNext
    BY <2>3, ModuleRedirects
  <2>4. CASE \E t \in Threads : ThreadRun(t) \/ ThreadCall(t)
    BY <2>4, ThreadRedirects
  <2> QED BY <2>1, <2>2, <2>3, <2>4 DEF Next
<1> QED BY <1>1, <1>2, HookInvariance, ThreadsStayPlaced, PTL DEF Spec

-----------------------------------------------------------------------------
(* The bytes that are moved.                                               *)

(* If InstrLen measures the first instructions as the processor does,      *)
(* decoding goes from one of them to the next, through the retry and the   *)
(* extension, and nothing but what has been decoded is moved and           *)
(* overwritten.                                                            *)
THEOREM MovedInvariance ==
  ASSUME \A t \in Targets : WellMeasured(t)
  PROVE  Spec => []MovedInv
<1>1. Init => MovedInv
  BY MovedInitOK DEF Init
<1>2. TargetInv /\ HookInv /\ MovedInv /\ [Next]_vars => MovedInv'
  <2> SUFFICES ASSUME TargetInv, HookInv, MovedInv, [Next]_vars PROVE MovedInv'
    OBVIOUS
  <2>1. CASE HookNext
    <3>1. HookStep /\ WellMeasured(target)
      BY <2>1 DEF HookNext, HookStep, TargetInv
    <3> QED BY <3>1, MovedOK
  <2>2. CASE ModuleNext
    <3>1. ButPc /\ pc' \notin {"Decode", "Unprotect", "Extend", "UnprotectArm64", "Patch"}
      BY <2>2 DEF ModuleNext, StartupModule, Install, StartupDone, ShutdownModule, ShutdownDone,
         DestroyHook, ButPc
    <3> QED BY <3>1, MovedBetweenOK
  <2>3. CASE UNCHANGED hookVars
    BY <2>3, MovedBetweenOK DEF hookVars, ButPc
  <2> QED BY <2>1, <2>2, <2>3 DEF Next, ThreadRun, ThreadCall, vars
<1> QED BY <1>1, <1>2, HookInvariance, PTL DEF Spec

(* If InstrLen measures the instructions it is asked for as the processor  *)
(* does, what is overwritten and moved is a number of whole instructions:  *)
(* decoding never stops in one, however often it is tried again or         *)
(* extended.                                                               *)
THEOREM WholeInstructionsMoved ==
  ASSUME \A t \in Targets : WellMeasured(t)
  PROVE  Spec => []WholeInstructions
<1>1. MovedInv => WholeInstructions
  BY DEF MovedInv, Sizes, WholeInstructions
<1> QED BY <1>1, MovedInvariance, PTL

(* Under the same condition, the near branches among them go on going      *)
(* where they went, wherever the trampoline is within their reach.         *)
THEOREM NearBranchesAdjusted ==
  ASSUME \A t \in Targets : WellMeasured(t)
  PROVE  Spec => []NearBranchesFollow
<1>1. TargetInv /\ MovedInv /\ TypeOK => NearBranchesFollow
  <2> SUFFICES ASSUME TargetInv, MovedInv, TypeOK, NEW o \in Moved(IsRel32),
                      LET dest == OriginalDest(o)
                          reach == dest - (TrampolineMem + o + target.insns[o].len)
                      IN reach >= -Rel32Reach /\ reach < Rel32Reach
               PROVE  TrampolineDest(target.bytes, o, TrampolineMem) = OriginalDest(o)
    BY DEF NearBranchesFollow
  <2> DEFINE len == target.insns[o].len
             rel == target.insns[o].rel
  <2>1. /\ o \in DOMAIN target.insns /\ bInstalled /\ target.arch = "x64" /\ o < PatchSize
        /\ IsRel32(target.bytes, o)
    BY DEF Moved, MovedInsns
  <2>2. o < 14 /\ InstrLen(target.bytes, o) # 0
    BY <2>1, MovedFacts DEF MovedInv
  <2>3. InstrLen(target.bytes, o) = len
    BY <2>1, <2>2, Measures DEF TargetInv
  <2>4. o \in Int /\ len \in Int /\ rel \in Int /\ TrampolineMem \in Int
    <3>1. TrampolineMem \in Int
      BY TargetsAssumption DEF TypeOK, HookTypeOK, TargetsAssumption
    <3> QED BY <2>1, <3>1, InsnFacts, TargetFacts, RelTypes
  <2>5. OriginalDest(o) = o + len + rel
    BY DEF OriginalDest
  <2>6. InReach(rel - TrampolineMem)
    BY <2>4, <2>5 DEF InReach
  <2>7. NewRel(target.bytes, o, TrampolineMem) = rel - TrampolineMem
    BY <2>1, <2>2, <2>4, <2>6, NearIsAdjusted
  <2> QED BY <2>3, <2>4, <2>5, <2>7 DEF TrampolineDest
<1> QED BY <1>1, HookInvariance, MovedInvariance, TypeCorrectness, PTL
=============================================================================
