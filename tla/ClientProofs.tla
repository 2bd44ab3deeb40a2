---------------------------- MODULE ClientProofs ----------------------------
(***************************************************************************)
(* Whatever a client does with FFunctionHook, the pointer it holds is a    *)
(* trampoline in use, and between two calls nothing is left half done, for *)
(* every function and every place the OS may put memory at.                *)
(***************************************************************************)
EXTENDS ClientInvariant, HookProofs

(* The calls of FFunctionHook and what the client does with the pointer.   *)
Between ==
  ClientInstall \/ InstallReturns \/ Forget \/ ClientUninstall \/ UninstallReturns

LEMMA BetweenKeeps ==
  ASSUME TargetInv, HookInv, Between
  PROVE  TargetInv' /\ HookInv'
<1>1. ButPc
  BY DEF Between, ClientInstall, InstallReturns, Forget, ClientUninstall, UninstallReturns, hookVars,
     ButPc
<1>2. target' = target
  BY <1>1 DEF ButPc
<1>3. CASE ClientInstall
  <2>1. pc = "Idle" /\ ((pc' = "Install" /\ ~bInstalled) \/ pc' = "Failed")
    BY <1>3 DEF ClientInstall, Install
  <2>2. Clean \/ Hooked
    BY <2>1 DEF HookInv, Busy
  <2>3. pc' = "Install" => Clean
    BY <2>1, <2>2 DEF Hooked, Held
  <2> QED BY <1>1, <1>2, <2>1, <2>3, BetweenOK DEF Busy, TargetInv
<1>4. CASE InstallReturns \/ ClientUninstall \/ UninstallReturns
  <2>1. pc \notin Busy \ {"Installed", "Uninstalled"} /\ pc' \notin Busy
    BY <1>4 DEF InstallReturns, ClientUninstall, UninstallReturns, Busy
  <2> QED BY <1>1, <1>2, <2>1, BetweenOK DEF TargetInv
<1>5. CASE Forget
  BY <1>2, <1>5, SameOK DEF Forget, TargetInv
<1> QED BY <1>3, <1>4, <1>5 DEF Between

(* A hook that is there takes no step but to be taken off.                 *)
LEMMA HeldStaysPut ==
  ASSUME HookInv, HookStep, bInstalled
  PROVE  pc \in {"Uninstall", "Restore"}
<1> SUFFICES ASSUME pc \notin {"Uninstall", "Restore"} PROVE FALSE
  OBVIOUS
<1>1. pc # "Patch"
  BY DEF HookInv, Patching, Made
<1>2. pc \notin {"Install", "Decode", "Unprotect", "Extend", "UnprotectArm64"}
  BY DEF HookInv, Clean, Untouched, Made
<1> QED BY <1>1, <1>2 DEF HookStep, NextX64, InstallX64, Decode, Allocate, UnprotectX64, Extend,
           Reallocate, NextArm64, InstallArm64, UnprotectArm64, Patch, Publish, Uninstall, Restore,
           Release

LEMMA HookKeepsHolder ==
  ASSUME HookInv, Holding, HookStep, OutTrampoline' = OutTrampoline
  PROVE  Holding'
BY HeldStaysPut DEF Holding

LEMMA BetweenKeepsHolder ==
  ASSUME HookInv, Holding, Between
  PROVE  Holding'
<1>1. bInstalled' = bInstalled /\ TrampolineMem' = TrampolineMem
  BY DEF Between, ClientInstall, InstallReturns, Forget, ClientUninstall, UninstallReturns, hookVars,
     hook
<1>2. CASE ClientInstall
  BY <1>1, <1>2 DEF Holding, ClientInstall, Install
<1>3. CASE InstallReturns
  <2>1. pc = "Installed" => bInstalled
    BY DEF HookInv, Hooked, Held
  <2> QED BY <1>1, <1>3, <2>1 DEF Holding, InstallReturns
<1>4. CASE Forget \/ ClientUninstall
  BY <1>4 DEF Holding, Forget, ClientUninstall
<1>5. CASE UninstallReturns
  BY <1>1, <1>5 DEF Holding, UninstallReturns
<1> QED BY <1>2, <1>3, <1>4, <1>5 DEF Between

LEMMA ClientStepOK ==
  ASSUME TargetInv, HookInv, Holding, [Next]_vars
  PROVE  TargetInv' /\ HookInv' /\ Holding'
<1>1. CASE HookNext
  <2>1. HookStep /\ OutTrampoline' = OutTrampoline
    BY <1>1 DEF HookNext, HookStep
  <2> QED BY <2>1, HookStepOK, HookKeepsHolder
<1>2. CASE Between
  BY <1>2, BetweenKeeps, BetweenKeepsHolder
<1>3. CASE UNCHANGED <<hookVars, OutTrampoline>>
  <2>1. target' = target /\ pc' = pc /\ bInstalled' = bInstalled /\ TrampolineMem' = TrampolineMem
    BY <1>3 DEF hookVars, hook
  <2> QED BY <1>3, <2>1, SameOK DEF TargetInv, Holding
<1> QED BY <1>1, <1>2, <1>3 DEF Next, ClientNext, Between, ThreadRun, ThreadCall, vars

(* Whatever the client does, the hook goes through the states its          *)
(* invariant allows, and the pointer belongs to it.                        *)
THEOREM ClientInvariance == Spec => [](TargetInv /\ HookInv /\ Holding)
<1>1. Init => TargetInv /\ HookInv /\ Holding
  <2>1. Init => HookInit /\ pc \notin Busy /\ Holding
    BY DEF Init, Busy, Holding
  <2> QED BY <2>1, HookInitOK
<1>2. (TargetInv /\ HookInv /\ Holding) /\ [Next]_vars
        => (TargetInv /\ HookInv /\ Holding)'
  BY ClientStepOK
<1> QED BY <1>1, <1>2, PTL DEF Spec

(* The trampoline that a client may still call has not been freed, nor     *)
(* replaced by that of another installation.                               *)
THEOREM PointerStaysLive == Spec => []PointerLives
<1>1. HookInv /\ Holding => PointerLives
  BY Stages DEF Holding, PointerLives, Hooked, Held
<1> QED BY <1>1, ClientInvariance, PTL

(* Between two calls the hook is whole or gone: an Install that failed,    *)
(* however far it had got, and an Uninstall leave no memory, no access and *)
(* no byte behind.                                                         *)
THEOREM SettledBetweenCalls == Spec => []Settled
<1>1. TargetInv /\ HookInv => Settled
  <2> SUFFICES ASSUME TargetInv, HookInv, pc = "Idle"
               PROVE  /\ writable = {} /\ icache = code
                      /\ allocated = IF bInstalled THEN {TrampolineMem} ELSE {}
                      /\ \A o \in 0 .. Size - 1 :
                           code[o] # "orig" => bInstalled /\ o < PatchSize /\ OriginalBytes[o] = "orig"
    BY DEF Settled, Size
  <2>1. CASE Clean
    BY <2>1, PristineFacts DEF Clean, Untouched
  <2>2. CASE Hooked
    <3>1. /\ bInstalled /\ writable = {} /\ icache = code /\ allocated = {TrampolineMem}
          /\ PatchSize \in 5 .. 32 /\ Size \in Nat
      BY <2>2, TargetFacts DEF Hooked, Held, Keeps
    <3>2. \A o \in PatchSize .. Size - 1 : code[o] = "orig"
      BY <2>2 DEF Hooked, Held, OriginalFrom
    <3>3. \A o \in 0 .. PatchSize - 1 : OriginalBytes[o] = "orig"
      BY <2>2 DEF Hooked, Held, Keeps
    <3> QED BY <3>1, <3>2, <3>3
  <2> QED BY <2>1, <2>2 DEF HookInv, Busy
<1> QED BY <1>1, ClientInvariance, PTL

-----------------------------------------------------------------------------
(* The types.                                                              *)

Places ==
  {Out, InDetour, Lost} \cup {At(o) : o \in 0 .. Size - 1}
    \cup {In(d, o) : d \in Distances, o \in 0 .. 28}
ThreadTypes == pos \in [Threads -> Places] /\ named \in [Threads -> SUBSET Int]

LEMMA PlaceTypes ==
  ASSUME HookTypeOK, NEW a \in Int
  PROVE  Place(a) \in Places /\ Home(a) \in Int
<1>1. TrampolineMem \in Distances \cup {0} /\ TrampolineMem \in Int /\ PatchSize \in 0 .. 28
  BY TargetsAssumption DEF HookTypeOK, TargetsAssumption
<1>2. CASE a \in 0 .. Size - 1
  <2>1. Place(a) = At(a)
    BY <1>2 DEF Place, Size
  <2> QED BY <1>1, <1>2, <2>1 DEF Places, Home, IsCopy
<1>3. CASE a \notin 0 .. Size - 1 /\ IsCopy(a)
  <2>1. Place(a) = In(TrampolineMem, a - TrampolineMem)
    BY <1>3 DEF Place, Size
  <2>2. TrampolineMem \in Distances /\ a - TrampolineMem \in 0 .. 28
    BY <1>1, <1>3 DEF IsCopy
  <2> QED BY <1>1, <2>1, <2>2 DEF Places, Home
<1>4. CASE a \notin 0 .. Size - 1 /\ ~IsCopy(a)
  <2>1. Place(a) = Out
    BY <1>4 DEF Place, Size
  <2> QED BY <1>4, <2>1 DEF Places, Home
<1> QED BY <1>2, <1>3, <1>4

LEMMA ExecuteTypes ==
  ASSUME TargetInv, HookTypeOK, ThreadTypes, NEW t \in Threads, NEW o \in DOMAIN target.insns,
         NEW a \in Int, NEW rel \in Int, Execute(t, o, a, rel), target' = target
  PROVE  ThreadTypes'
<1> DEFINE insn == target.insns[o]
<1>1. insn.len \in 1 .. 15
  BY InsnFacts
<1>2. GoesTo(insn, a, rel) \subseteq Int /\ Names(insn, a, rel) \subseteq Int
  BY <1>1 DEF GoesTo, Names, Outside
<1> HIDE DEF insn
<1>3. PICK to \in GoesTo(insn, a, rel) : pos' = [pos EXCEPT ![t] = Place(to)]
  BY DEF Execute, Goes, insn
<1>4. pos' \in [Threads -> Places]
  BY <1>2, <1>3, PlaceTypes DEF ThreadTypes
<1>5. {Home(n) : n \in Names(insn, a, rel)} \subseteq Int
  BY <1>2, PlaceTypes
<1>6. named' = [named EXCEPT ![t] = {Home(n) : n \in Names(insn, a, rel)}]
  BY DEF Execute, insn
<1>7. Places' = Places
  BY DEF Places, Size, Out, InDetour, Lost, At, In
<1> QED BY <1>4, <1>5, <1>6, <1>7 DEF ThreadTypes

(* What a thread in the function does.                                     *)
LEMMA RunTargetIs ==
  ASSUME TargetInv, NEW t \in Threads, RunTarget(t), NEW o, o = pos[t].off
  PROVE  \E view \in Views :
           \/ Intact(view, o) /\ Execute(t, o, o, target.insns[o].rel)
           \/ /\ ~Intact(view, o) /\ o = 0 /\ \E form \in Jumps : WholeJump(view, form)
              /\ Goes(t, InDetour) /\ UNCHANGED named
           \/ /\ ~Intact(view, o) /\ ~(o = 0 /\ \E form \in Jumps : WholeJump(view, form))
              /\ Adrift(t)
<1> DEFINE jumps(view) == o = 0 /\ \E form \in Jumps : WholeJump(view, form)
<1>1. PICK view \in Views :
        CASE Intact(view, o) -> Execute(t, o, o, target.insns[o].rel)
          [] jumps(view) -> Goes(t, InDetour) /\ UNCHANGED named
          [] OTHER -> Adrift(t)
  BY DEF RunTarget
<1>2. ASSUME Intact(view, o), jumps(view) PROVE FALSE
  <2>1. PICK form \in Jumps : WholeJump(view, form)
    BY <1>2
  <2>2. 0 \in 0 .. JumpSize(form) - 1 /\ ~IsData(form, 0)
    BY DEF Jumps, JumpSize, IsData
  <2>3. view[0] = form
    BY <2>1, <2>2 DEF WholeJump
  <2>4. o = 0 /\ 0 \in o .. o + target.insns[o].len - 1
    BY <1>2, InsnFacts
  <2>5. view[0] = "orig"
    BY <1>2, <2>4 DEF Intact
  <2> QED BY <2>3, <2>5 DEF Jumps
<1>3. CASE Intact(view, o)
  BY <1>1, <1>2, <1>3
<1>4. CASE ~Intact(view, o) /\ jumps(view)
  BY <1>1, <1>4
<1>5. CASE ~Intact(view, o) /\ ~jumps(view)
  BY <1>1, <1>5
<1> QED BY <1>3, <1>4, <1>5

(* What a thread in a trampoline does.                                     *)
LEMMA RunTrampolineIs ==
  ASSUME TargetInv, NEW t \in Threads, RunTrampoline(t), NEW o, o = pos[t].off,
         NEW live, live <=> pos[t].base = TrampolineMem /\ TrampolineMem \in allocated
  PROVE  \/ live /\ WholeCopy(o) /\ Execute(t, o, TrampolineMem + o, CopiedRel(o))
         \/ live /\ o = PatchSize /\ Goes(t, At(PatchSize)) /\ UNCHANGED named
         \/ ~(live /\ (WholeCopy(o) \/ o = PatchSize)) /\ Adrift(t)
<1>1. ASSUME WholeCopy(o), o = PatchSize PROVE FALSE
  <2>1. o \in DOMAIN target.insns /\ o + target.insns[o].len <= o
    BY <1>1 DEF WholeCopy
  <2>2. o \in Int /\ target.insns[o].len \in 1 .. 15
    BY <2>1, InsnFacts, TargetFacts
  <2> QED BY <2>1, <2>2
<1>2. CASE live /\ WholeCopy(o)
  BY <1>1, <1>2 DEF RunTrampoline
<1>3. CASE live /\ o = PatchSize
  BY <1>1, <1>3 DEF RunTrampoline
<1>4. CASE ~(live /\ (WholeCopy(o) \/ o = PatchSize))
  BY <1>4 DEF RunTrampoline
<1> QED BY <1>2, <1>3, <1>4

LEMMA CopiedRelTypes ==
  ASSUME TargetInv, HookTypeOK, NEW o \in DOMAIN target.insns
  PROVE  CopiedRel(o) \in Int
<1> DEFINE p == target.bytes
<1>1. TrampolineMem \in Int /\ Rel32Reach \in Nat \ {0}
  BY TargetsAssumption, ReachAssumption DEF HookTypeOK, TargetsAssumption, ReachAssumption
<1>2. ASSUME target.arch = "x64" PROVE Rel8(p, o) \in Int /\ Rel32(p, o) \in Int
  BY <1>2, X64Facts, OffsetTypes DEF Rel8, Rel32
<1>3. Wrap32(TrampolineMem) \in Int
  <2>1. 2 * Rel32Reach \in Nat \ {0} /\ TrampolineMem + Rel32Reach \in Int
    BY <1>1
  <2>2. (TrampolineMem + Rel32Reach) % (2 * Rel32Reach) \in Int
    BY <2>1
  <2> QED BY <1>1, <2>2 DEF Wrap32
<1>4. target.arch = "x64" => NewRel(p, o, TrampolineMem) \in Int
  BY <1>1, <1>2, <1>3 DEF NewRel
<1> QED BY <1>4, RelTypes DEF CopiedRel

LEMMA RunTypes ==
  ASSUME TargetInv, HookTypeOK, ThreadTypes, UNCHANGED hookVars, NEW t \in Threads,
         RunDetour(t) \/ RunTarget(t) \/ RunTrampoline(t)
  PROVE  ThreadTypes'
<1> DEFINE o == pos[t].off
<1>1. Places' = Places /\ target' = target
  BY DEF hookVars, Places, Size, Out, InDetour, Lost, At, In
<1>2. ASSUME NEW place \in Places, Goes(t, place), UNCHANGED named PROVE ThreadTypes'
  BY <1>1, <1>2 DEF ThreadTypes, Goes
<1>3. Out \in Places /\ InDetour \in Places /\ Lost \in Places
  BY DEF Places
<1>4. CASE RunDetour(t)
  BY <1>2, <1>3, <1>4 DEF RunDetour
<1>5. CASE RunTarget(t)
  <2>1. ASSUME o \in DOMAIN target.insns, Execute(t, o, o, target.insns[o].rel) PROVE ThreadTypes'
    <3>1. o \in Int /\ target.insns[o].rel \in Int
      BY <2>1, InsnFacts, RelTypes
    <3> QED BY <1>1, <2>1, <3>1, ExecuteTypes
  <2> QED BY <1>2, <1>3, <1>5, <2>1, RunTargetIs DEF Adrift, Intact
<1>6. CASE RunTrampoline(t)
  <2>1. TrampolineMem \in Int /\ PatchSize \in 0 .. 28
    BY TargetsAssumption DEF HookTypeOK, TargetsAssumption
  <2>2. ASSUME WholeCopy(o), Execute(t, o, TrampolineMem + o, CopiedRel(o)) PROVE ThreadTypes'
    <3>1. o \in DOMAIN target.insns
      BY <2>2 DEF WholeCopy
    <3>2. TrampolineMem + o \in Int /\ CopiedRel(o) \in Int
      BY <2>1, <3>1, InsnFacts, CopiedRelTypes
    <3> QED BY <1>1, <2>2, <3>1, <3>2, ExecuteTypes
  <2>3. At(PatchSize) \in Places
    BY <2>1, TargetFacts DEF Places
  <2> QED BY <1>2, <1>3, <1>6, <2>2, <2>3, RunTrampolineIs DEF Adrift
<1> QED BY <1>4, <1>5, <1>6

LEMMA CallTypes ==
  ASSUME TargetInv, ThreadTypes, OutTrampoline \in Distances \cup {0}, UNCHANGED hookVars,
         NEW t \in Threads, CallTarget(t) \/ CallTrampoline(t)
  PROVE  ThreadTypes'
<1>1. Places' = Places
  BY DEF hookVars, Places, Size, Out, InDetour, Lost, At, In
<1>2. ASSUME NEW place \in Places, Goes(t, place), UNCHANGED named PROVE ThreadTypes'
  BY <1>1, <1>2 DEF ThreadTypes, Goes
<1>3. At(0) \in Places
  BY TargetFacts DEF Places
<1>4. OutTrampoline # 0 => In(OutTrampoline, 0) \in Places
  BY DEF Places
<1> QED BY <1>2, <1>3, <1>4 DEF CallTarget, CallTrampoline

LEMMA ControlTypes ==
  ASSUME HookTypeOK, pc \in PcType, OutTrampoline \in Distances \cup {0}, HookNext \/ Between
  PROVE  pc' \in PcType /\ OutTrampoline' \in Distances \cup {0}
<1>1. CASE HookNext
  <2>1. OutTrampoline' = OutTrampoline
    BY <1>1 DEF HookNext
  <2>2. pc' \in PcType
    BY <1>1 DEF PcType, HookNext, NextX64, InstallX64, Decode, Allocate, UnprotectX64, Extend,
       Reallocate, NextArm64, InstallArm64, UnprotectArm64, Patch, StoreBytes, Publish,
       Uninstall, Restore, Release, Fail
  <2> QED BY <2>1, <2>2
<1>2. CASE Between
  <2>1. TrampolineMem \in Distances \cup {0}
    BY DEF HookTypeOK
  <2>2. OutTrampoline' \in Distances \cup {0}
    BY <1>2, <2>1 DEF Between, ClientInstall, InstallReturns, Forget, ClientUninstall, UninstallReturns
  <2>3. pc' \in PcType
    BY <1>2 DEF PcType, Between, ClientInstall, Install, InstallReturns, Forget, ClientUninstall,
       UninstallReturns, hookVars
  <2> QED BY <2>2, <2>3
<1> QED BY <1>1, <1>2

LEMMA TypesOK ==
  ASSUME TargetInv, HookInv, ClientTypeOK, [Next]_vars
  PROVE  ClientTypeOK'
<1>1. /\ HookTypeOK /\ pc \in PcType /\ OutTrampoline \in Distances \cup {0} /\ ThreadTypes
  BY DEF ClientTypeOK, ThreadTypes, Places, Size
<1>2. /\ HookTypeOK' /\ pc' \in PcType /\ OutTrampoline' \in Distances \cup {0} /\ ThreadTypes'
  <2>1. CASE HookNext /\ UNCHANGED <<pos, named>>
    <3>1. HookTypeOK'
      BY <1>1, <2>1, HookTypesOK DEF HookNext, HookStep
    <3>2. target' = target
      BY <2>1 DEF HookNext, NextX64, InstallX64, Decode, Allocate, UnprotectX64, Extend,
         Reallocate, NextArm64, InstallArm64, UnprotectArm64, Patch, Publish, Uninstall, Restore,
         Release
    <3>3. Places' = Places
      BY <3>2 DEF Places, Size, Out, InDetour, Lost, At, In
    <3> QED BY <1>1, <2>1, <3>1, <3>3, ControlTypes DEF ThreadTypes
  <2>2. CASE Between /\ UNCHANGED <<pos, named>>
    <3>1. ButPc
      BY <2>2 DEF Between, ClientInstall, InstallReturns, Forget, ClientUninstall, UninstallReturns,
         hookVars, ButPc
    <3>2. Places' = Places
      BY <3>1 DEF ButPc, Places, Size, Out, InDetour, Lost, At, In
    <3> QED BY <1>1, <2>2, <3>1, <3>2, ControlTypes, SameTypes DEF ThreadTypes
  <2>3. CASE UNCHANGED <<hookVars, OutTrampoline>> /\ ThreadTypes'
    BY <1>1, <2>3, SameTypes DEF hookVars, ButPc
  <2>4. CASE \E t \in Threads : ThreadRun(t) \/ ThreadCall(t)
    <3>1. UNCHANGED <<hookVars, OutTrampoline>>
      BY <2>4 DEF ThreadRun, ThreadCall
    <3>2. ThreadTypes'
      BY <1>1, <2>4, <3>1, RunTypes, CallTypes DEF ThreadRun, ThreadCall
    <3> QED BY <2>3, <3>1, <3>2
  <2>5. CASE UNCHANGED vars
    <3>1. Places' = Places
      BY <2>5 DEF vars, hookVars, Places, Size, Out, InDetour, Lost, At, In
    <3> QED BY <1>1, <2>3, <2>5, <3>1 DEF vars, ThreadTypes
  <2> QED BY <2>1, <2>2, <2>4, <2>5 DEF Next, ClientNext, Between
<1> QED BY <1>2 DEF ClientTypeOK, ThreadTypes, Places, Size

(* Every variable keeps its type, whatever the displacements in the bytes: *)
(* a thread that is in a trampoline is in one that the OS has given, no    *)
(* further from its start than what can be moved.                          *)
THEOREM ClientTypes == Spec => []ClientTypeOK
<1>1. Init => ClientTypeOK
  <2> SUFFICES ASSUME Init PROVE ClientTypeOK
    OBVIOUS
  <2>1. HookTypeOK
    BY HookInitOK, InitTypesOK DEF Init, Busy
  <2>2. ThreadTypes
    BY DEF Init, ThreadTypes, Places
  <2> QED BY <2>1, <2>2 DEF Init, ClientTypeOK, PcType, ThreadTypes, Places, Size
<1>2. TargetInv /\ HookInv /\ ClientTypeOK /\ [Next]_vars => ClientTypeOK'
  BY TypesOK
<1> QED BY <1>1, <1>2, ClientInvariance, PTL DEF Spec

-----------------------------------------------------------------------------
(* Where instructions go, in the function and in the trampoline.           *)

LEMMA BranchesAreRelative ==
  ASSUME TargetInv, NEW o \in DOMAIN target.insns
  PROVE  /\ target.insns[o].branches => target.insns[o].relative
         /\ target.insns[o].relative => target.arch = "x64"
<1>1. CASE target.arch = "x64"
  <2>1. X64Insn(target.bytes, o).branches => X64Insn(target.bytes, o).relative
    BY DEF X64Insn, IsRelative
  <2> QED BY <1>1, <2>1, X64Facts
<1>2. CASE target.arch # "x64"
  <2>1. IsTarget(target)
    BY TargetsAssumption DEF TargetInv, TargetsAssumption
  <2> QED BY <1>2, <2>1 DEF IsTarget, OtherArm64Insn
<1> QED BY <1>1, <1>2

(* The trampoline and the function keep out of each other's way.           *)
LEMMA Apart ==
  ASSUME TargetInv, HookTypeOK, Suitable
  PROVE  /\ \A a \in -1 .. Size : ~IsCopy(a)
         /\ \A o \in DOMAIN target.insns :
              target.insns[o].relative => ~IsCopy(DestOf(target, o))
         /\ TrampolineMem # 0 =>
              \A k \in 0 .. PatchSize : /\ Place(TrampolineMem + k) = In(TrampolineMem, k)
                                       /\ Home(TrampolineMem + k) = k
<1>1. TrampolineMem \in Int /\ PatchSize \in 0 .. 28 /\ Size \in Nat
  BY TargetsAssumption, TargetFacts DEF HookTypeOK, TargetsAssumption
<1>2. TrampolineMem # 0 => Movable(target, TrampolineMem)
  BY DEF Suitable, HookTypeOK, TargetInv
<1>3. ASSUME TrampolineMem # 0, NEW k \in 0 .. 28 PROVE TrampolineMem + k \notin -1 .. Size
  BY <1>2, <1>3 DEF Movable, Size
<1>4. ASSUME NEW a \in -1 .. Size, IsCopy(a) PROVE FALSE
  <2>1. TrampolineMem # 0 /\ a - TrampolineMem \in 0 .. 28
    BY <1>1, <1>4 DEF IsCopy
  <2>2. TrampolineMem + (a - TrampolineMem) \notin -1 .. Size
    BY <1>3, <2>1
  <2> QED BY <1>1, <2>2
<1>5. ASSUME NEW o \in DOMAIN target.insns, target.insns[o].relative, IsCopy(DestOf(target, o))
      PROVE  FALSE
  BY <1>1, <1>2, <1>5 DEF IsCopy, Movable
<1>6. ASSUME TrampolineMem # 0, NEW k \in 0 .. PatchSize
      PROVE  /\ Place(TrampolineMem + k) = In(TrampolineMem, k)
             /\ Home(TrampolineMem + k) = k
  <2>1. TrampolineMem + k \notin 0 .. Size - 1
    BY <1>1, <1>3, <1>6
  <2>2. (TrampolineMem + k) - TrampolineMem = k
    BY <1>1
  <2>3. IsCopy(TrampolineMem + k)
    BY <1>6, <2>2 DEF IsCopy
  <2> QED BY <2>1, <2>2, <2>3 DEF Place, Home, Size
<1> QED BY <1>4, <1>5, <1>6

LEMMA PlaceOf ==
  ASSUME NEW a, ~IsCopy(a)
  PROVE  /\ Place(a) = IF a \in 0 .. Size - 1 THEN At(a) ELSE Out
         /\ Home(a) = a
<1>1. CASE a \in 0 .. Size - 1
  BY <1>1 DEF Place, Home, Size
<1>2. CASE a \notin 0 .. Size - 1
  BY <1>2 DEF Place, Home, Size
<1> QED BY <1>1, <1>2

(* In the function, a thread goes to the next instruction, to another that *)
(* is branched to, or out of it, and names what is there.                  *)
LEMMA InPlace ==
  ASSUME TargetInv, HookTypeOK, Suitable, NEW o \in DOMAIN target.insns,
         NEW rel, rel = target.insns[o].rel
  PROVE  /\ \A to \in GoesTo(target.insns[o], o, rel) :
              \/ /\ to \in DOMAIN target.insns /\ Place(to) = At(to)
                 /\ \/ to = o + target.insns[o].len
                    \/ target.insns[o].branches /\ to = DestOf(target, o)
              \/ to \notin 0 .. Size - 1 /\ Place(to) = Out
         /\ {Home(n) : n \in Names(target.insns[o], o, rel)} = Names(target.insns[o], o, rel)
<1> DEFINE insn == target.insns[o]
<1>1. /\ o \in 0 .. Size - 1 /\ insn.len \in 1 .. 15 /\ Size \in Nat /\ rel \in Int
      /\ o + insn.len # Size => o + insn.len \in DOMAIN target.insns
  BY InsnFacts, TargetFacts, RelTypes
<1>2. \A q \in DOMAIN target.insns : q \in 0 .. Size - 1
  BY InsnFacts
<1>3. insn.branches => insn.relative
  BY BranchesAreRelative
<1>4. DestOf(target, o) = o + insn.len + rel
  BY DEF DestOf
<1>5. ASSUME insn.falls
      PROVE  \/ o + insn.len \in DOMAIN target.insns /\ Place(o + insn.len) = At(o + insn.len)
             \/ o + insn.len \notin 0 .. Size - 1 /\ Place(o + insn.len) = Out
  <2>1. o + insn.len \in -1 .. Size
    BY <1>1, <1>2
  <2> HIDE DEF insn
  <2>2. ~IsCopy(o + insn.len)
    BY <2>1, Apart
  <2> QED BY <1>1, <1>2, <2>2, PlaceOf
<1>6. ASSUME insn.branches
      PROVE  \/ DestOf(target, o) \in DOMAIN target.insns /\ Place(DestOf(target, o)) = At(DestOf(target, o))
             \/ DestOf(target, o) \notin 0 .. Size - 1 /\ Place(DestOf(target, o)) = Out
  <2>1. ~IsCopy(DestOf(target, o))
    BY <1>3, <1>6, Apart
  <2>2. DestOf(target, o) \in 0 .. Size - 1 => DestOf(target, o) \in DOMAIN target.insns
    BY <1>6 DEF Suitable, Hookable, TargetInv, Size
  <2> QED BY <1>2, <2>1, <2>2, PlaceOf
<1>7. Outside \notin 0 .. Size - 1 /\ Place(Outside) = Out
  BY <1>1, Apart, PlaceOf DEF Outside
<1>8. {Home(n) : n \in Names(insn, o, rel)} = Names(insn, o, rel)
  <2>1. insn.relative => Home(DestOf(target, o)) = DestOf(target, o)
    BY Apart, PlaceOf
  <2> QED BY <1>4, <2>1 DEF Names
<1> HIDE DEF insn
<1>9. ASSUME NEW to \in GoesTo(insn, o, rel)
      PROVE  \/ insn.falls /\ to = o + insn.len
             \/ insn.branches /\ to = DestOf(target, o)
             \/ to = Outside
  BY <1>4 DEF GoesTo
<1> QED BY <1>5, <1>6, <1>7, <1>8, <1>9 DEF insn

(* A thread that is beyond the bytes that are overwritten stays there, and *)
(* one that may go to the start finds the original.                        *)
LEMMA OnwardIsSafe ==
  ASSUME TargetInv, HookInv, MovedInv, Hookable(target), pc # "Crashed",
         NEW o \in DOMAIN target.insns, SafeAt(o), bInstalled => o >= PatchSize,
         NEW to \in DOMAIN target.insns,
         \/ to = o + target.insns[o].len
         \/ target.insns[o].branches /\ to = DestOf(target, o)
  PROVE  SafeAt(to) /\ (bInstalled => to >= PatchSize) /\ (to = 0 => ~Redirected)
<1>1. /\ o \in 0 .. Size - 1 /\ to \in 0 .. Size - 1 /\ target.insns[o].len \in 1 .. 15
      /\ Size \in Nat
  BY InsnFacts, TargetFacts
<1>2. ASSUME NEW n \in Sizes(target), o >= n PROVE to >= n /\ to # 0
  <2>1. n \in Int /\ n >= 5
    BY MovedFacts, InsnFacts, TargetFacts
  <2>2. CASE to = o + target.insns[o].len
    BY <1>1, <1>2, <2>1, <2>2
  <2>3. CASE target.insns[o].branches /\ to = DestOf(target, o)
    <3>1. to \notin 0 .. n - 1
      BY <1>2, <2>3 DEF Hookable, NotEntered
    <3> QED BY <1>1, <2>1, <3>1
  <2> QED BY <2>2, <2>3
<1>3. CASE pc = "Patch" /\ written > 0
  <2>1. RPatchSize \in Sizes(target) /\ ~bInstalled
    BY <1>3 DEF MovedInv, HookInv, Patching, Made
  <2>2. o >= RPatchSize
    BY <1>3 DEF SafeAt
  <2> QED BY <1>2, <1>3, <2>1, <2>2 DEF SafeAt
<1>4. CASE bInstalled
  <2>1. PatchSize \in Sizes(target)
    BY <1>4 DEF MovedInv
  <2>2. pc # "Patch"
    BY <1>4 DEF HookInv, Patching, Made
  <2> QED BY <1>2, <1>4, <2>1, <2>2 DEF SafeAt
<1>5. CASE ~bInstalled /\ ~(pc = "Patch" /\ written > 0)
  <2>1. pc # "Restore"
    BY <1>5 DEF HookInv, Restoring, Held
  <2>2. ~Redirected
    <3>1. CASE pc # "Patch"
      BY <1>5, <2>1, <3>1, SaysWhatItDoes DEF Overwriting
    <3>2. CASE pc = "Patch"
      <4>1. Patching /\ written = 0
        BY <1>5, <3>2 DEF HookInv, Patching, Ends, Jumps
      <4>2. code[0] = "orig"
        BY <1>1, <4>1 DEF Patching
      <4> QED BY <4>2, JumpIsNotOriginal
    <3> QED BY <3>1, <3>2
  <2> QED BY <1>5, <2>1, <2>2 DEF SafeAt
<1> QED BY <1>3, <1>4, <1>5

(* In the trampoline, a thread goes where it would go in the function: to  *)
(* the copy if there is one.                                               *)
LEMMA InTheTrampoline ==
  ASSUME TargetInv, HookTypeOK, MovedInv, Suitable, bInstalled, TrampolineMem # 0,
         NEW o \in DOMAIN target.insns, o < PatchSize,
         NEW insn, insn = target.insns[o], NEW a, a = TrampolineMem + o
  PROVE  /\ \A to \in GoesTo(insn, a, CopiedRel(o)) :
              \E from \in GoesTo(insn, o, insn.rel) :
                \/ /\ from \in DOMAIN target.insns /\ from <= PatchSize
                   /\ Place(to) = In(TrampolineMem, from)
                \/ from \in DOMAIN target.insns /\ from >= PatchSize /\ Place(to) = At(from)
                \/ from \notin 0 .. Size - 1 /\ Place(to) = Out
         /\ {Home(n) : n \in Names(insn, a, CopiedRel(o))} = Names(insn, o, insn.rel)
<1> DEFINE d == TrampolineMem
           dest == DestOf(target, o)
<1>1. /\ d \in Int /\ PatchSize \in 0 .. 28 /\ Size \in Nat /\ o \in 0 .. Size - 1
      /\ insn.len \in 1 .. 15 /\ insn.rel \in Int /\ d \in Distances
  BY TargetsAssumption, TargetFacts, InsnFacts, RelTypes DEF HookTypeOK, TargetsAssumption
<1>2. PatchSize \in Sizes(target) /\ PatchSize \in DOMAIN target.insns
  BY MovedFacts DEF MovedInv
<1>3. o + insn.len \in DOMAIN target.insns /\ o + insn.len <= PatchSize
  <2>1. o + insn.len <= PatchSize
    BY <1>2, NoOverlap
  <2>2. PatchSize < Size
    BY <1>1, <1>2, InsnFacts
  <2> QED BY <1>1, <2>1, <2>2, InsnFacts
<1>4. dest = o + insn.len + insn.rel /\ dest \in Int
  BY <1>1 DEF DestOf
<1>5. \A k \in 0 .. PatchSize : Place(d + k) = In(d, k) /\ Home(d + k) = k
  BY Apart
<1>6. Place(a + insn.len) = In(d, o + insn.len)
  <2>1. a + insn.len = d + (o + insn.len) /\ o + insn.len \in 0 .. PatchSize
    BY <1>1, <1>3
  <2> HIDE DEF d
  <2> QED BY <1>5, <2>1
<1>7. Place(Outside) = Out /\ Outside \notin 0 .. Size - 1
  BY <1>1, Apart, PlaceOf DEF Outside
<1>8. ASSUME insn.relative
      PROVE  \/ /\ a + insn.len + CopiedRel(o) = d + dest /\ dest \in 0 .. PatchSize
             \/ /\ a + insn.len + CopiedRel(o) = dest /\ dest \notin 0 .. PatchSize - 1
  <2>1. target.arch = "x64" /\ Follows(target, o, PatchSize, d)
    BY <1>1, <1>2, <1>8, BranchesAreRelative DEF Suitable, Movable, TargetInv
  <2>2. InstrLen(target.bytes, o) # 0
    BY <1>2, <2>1, MovedFacts
  <2>3. CASE /\ IsRel8(target.bytes, o) /\ dest \in 0 .. PatchSize
             /\ NewRel(target.bytes, o, d) = insn.rel
    <3>1. CopiedRel(o) = insn.rel
      BY <2>1, <2>3 DEF CopiedRel
    <3> QED BY <1>1, <1>4, <2>3, <3>1
  <2>4. CASE /\ IsRel32(target.bytes, o) /\ dest \notin 0 .. PatchSize - 1
             /\ InReach(insn.rel - d)
    <3>1. CopiedRel(o) = insn.rel - d
      BY <1>1, <2>1, <2>2, <2>4, NearIsAdjusted DEF CopiedRel
    <3> QED BY <1>1, <1>4, <2>4, <3>1
  <2> QED BY <2>1, <2>3, <2>4 DEF Follows
<1>9. insn.branches => insn.relative
  BY BranchesAreRelative
<1>10. insn.branches /\ dest \in 0 .. Size - 1 => dest \in DOMAIN target.insns
  BY DEF Suitable, Hookable, TargetInv, Size
<1>11. insn.relative => ~IsCopy(dest)
  BY Apart
<1>12. \A q \in DOMAIN target.insns : q \in 0 .. Size - 1
  BY InsnFacts
<1> HIDE DEF dest, d
<1>13. ASSUME insn.branches
       PROVE  LET to == a + insn.len + CopiedRel(o)
              IN \/ dest \in DOMAIN target.insns /\ dest <= PatchSize /\ Place(to) = In(d, dest)
                 \/ dest \in DOMAIN target.insns /\ dest >= PatchSize /\ Place(to) = At(dest)
                 \/ dest \notin 0 .. Size - 1 /\ Place(to) = Out
  <2> DEFINE to == a + insn.len + CopiedRel(o)
  <2>1. CASE to = d + dest /\ dest \in 0 .. PatchSize
    <3>1. dest \in 0 .. Size - 1
      BY <1>1, <1>2, <1>12, <2>1
    <3> QED BY <1>5, <1>10, <1>13, <2>1, <3>1
  <2>2. CASE to = dest /\ dest \notin 0 .. PatchSize - 1
    <3>1. Place(to) = IF dest \in 0 .. Size - 1 THEN At(dest) ELSE Out
      BY <1>9, <1>11, <1>13, <2>2, PlaceOf
    <3>2. dest \in 0 .. Size - 1 => dest >= PatchSize
      BY <1>1, <2>2
    <3> QED BY <1>10, <1>13, <3>1, <3>2
  <2> QED BY <1>8, <1>9, <1>13, <2>1, <2>2
<1>14. ASSUME NEW to \in GoesTo(insn, a, CopiedRel(o))
       PROVE  \E from \in GoesTo(insn, o, insn.rel) :
                \/ from \in DOMAIN target.insns /\ from <= PatchSize /\ Place(to) = In(d, from)
                \/ from \in DOMAIN target.insns /\ from >= PatchSize /\ Place(to) = At(from)
                \/ from \notin 0 .. Size - 1 /\ Place(to) = Out
  <2>1. CASE insn.falls /\ to = a + insn.len
    <3>1. o + insn.len \in GoesTo(insn, o, insn.rel)
      BY <2>1 DEF GoesTo
    <3> QED BY <1>3, <1>6, <2>1, <3>1
  <2>2. CASE insn.branches /\ to = a + insn.len + CopiedRel(o)
    <3>1. dest \in GoesTo(insn, o, insn.rel)
      BY <1>4, <2>2 DEF GoesTo
    <3> QED BY <1>13, <2>2, <3>1
  <2>3. CASE insn.leaves /\ to = Outside
    <3>1. Outside \in GoesTo(insn, o, insn.rel)
      BY <2>3 DEF GoesTo
    <3> QED BY <1>7, <2>3, <3>1
  <2> QED BY <2>1, <2>2, <2>3 DEF GoesTo
<1>15. {Home(n) : n \in Names(insn, a, CopiedRel(o))} = Names(insn, o, insn.rel)
  <2>1. CASE insn.relative
    <3>1. Home(a + insn.len + CopiedRel(o)) = dest
      BY <1>5, <1>8, <1>11, <2>1, PlaceOf
    <3> QED BY <1>4, <2>1, <3>1 DEF Names
  <2>2. CASE ~insn.relative
    BY <2>2 DEF Names
  <2> QED BY <2>1, <2>2
<1> QED BY <1>14, <1>15 DEF d

-----------------------------------------------------------------------------
(* The steps of the threads.                                               *)

(* The instruction of the function that a thread is at.                    *)
LEMMA InsnFactsOf ==
  /\ InsnAt(Out) = Outside /\ InsnAt(InDetour) = Outside
  /\ \A d, o : InsnAt(In(d, o)) = o
  /\ \A o : InsnAt(At(o)) = IF o = 0 /\ Redirected THEN Outside ELSE o
<1>1. InsnAt(Out) = Outside /\ InsnAt(InDetour) = Outside
  BY DEF InsnAt, Out, InDetour
<1>2. ASSUME NEW d, NEW o PROVE InsnAt(In(d, o)) = o
  BY DEF InsnAt, In
<1>3. ASSUME NEW o PROVE InsnAt(At(o)) = IF o = 0 /\ Redirected THEN Outside ELSE o
  <2>1. At(o).at = "target" /\ At(o).off = o
    BY DEF At
  <2> QED BY <2>1 DEF InsnAt
<1> QED BY <1>1, <1>2, <1>3

(* What is said of a thread's place, by where it is.                       *)
LEMMA PlacedAt ==
  ASSUME NEW p, Placed(p)
  PROVE  /\ p.at = "target" => \E o \in DOMAIN target.insns : p = At(o) /\ SafeAt(o)
         /\ p.at = "trampoline" => InCopy(p)
         /\ p.at = "detour" => p = InDetour
         /\ p.at = "out" => p = Out
<1>1. Out.at = "out" /\ InDetour.at = "detour"
  BY DEF Out, InDetour
<1>2. \A o : At(o).at = "target"
  BY DEF At
<1>3. \A d, o : In(d, o).at = "trampoline"
  BY DEF In
<1>4. CASE p \in {Out, InDetour}
  BY <1>1, <1>4
<1>5. CASE \E o \in DOMAIN target.insns : p = At(o) /\ SafeAt(o)
  <2>1. p.at = "target"
    BY <1>2, <1>5
  <2> QED BY <1>5, <2>1
<1>6. CASE InCopy(p)
  <2>1. p.at = "trampoline"
    BY <1>3, <1>6 DEF InCopy
  <2> QED BY <1>6, <2>1
<1> QED BY <1>4, <1>5, <1>6 DEF Placed

(* The thread stays where it is in the function, or executes one of its    *)
(* instructions.                                                           *)
Executes(t, place) ==
  \/ InsnAt(place) = InsnAt(pos[t]) /\ UNCHANGED named
  \/ \E o \in DOMAIN target.insns :
       /\ InsnAt(pos[t]) = o
       /\ \E to \in GoesTo(target.insns[o], o, target.insns[o].rel) :
            InsnAt(place) = Original!Within(to)
       /\ named' = [named EXCEPT ![t] = Names(target.insns[o], o, target.insns[o].rel)]

LEMMA RunTargetGoes ==
  ASSUME TargetInv, HookInv, MovedInv, HookTypeOK, Suitable, pc # "Crashed",
         NEW t \in Threads, Placed(pos[t]), RunTarget(t)
  PROVE  \E place : Goes(t, place) /\ Placed(place) /\ Executes(t, place)
<1>1. PICK o \in DOMAIN target.insns : pos[t] = At(o) /\ SafeAt(o)
  BY PlacedAt DEF RunTarget
<1> DEFINE insn == target.insns[o]
<1>2. o = pos[t].off
  BY <1>1 DEF At
<1>3. /\ o \in 0 .. Size - 1 /\ insn.len \in 1 .. 15 /\ Size \in Nat
      /\ o + insn.len # Size => o + insn.len \in DOMAIN target.insns
      /\ \A q \in DOMAIN target.insns : q \in 0 .. Size - 1
  BY InsnFacts, TargetFacts
<1>4. PICK view \in Views :
           \/ Intact(view, o) /\ Execute(t, o, o, insn.rel)
           \/ /\ ~Intact(view, o) /\ o = 0 /\ \E form \in Jumps : WholeJump(view, form)
              /\ Goes(t, InDetour) /\ UNCHANGED named
           \/ /\ ~Intact(view, o) /\ ~(o = 0 /\ \E form \in Jumps : WholeJump(view, form))
              /\ Adrift(t)
  BY <1>2, RunTargetIs
<1>5. CASE /\ code[o] = "orig" /\ \A k \in o .. Size - 1 : view[k] = "orig"
           /\ bInstalled => o >= PatchSize
  <2>1. Intact(view, o)
    <3>1. o + insn.len <= Size
      BY <1>3
    <3> QED BY <1>3, <1>5, <3>1 DEF Intact
  <2>2. PICK to \in GoesTo(insn, o, insn.rel) : Goes(t, Place(to))
    BY <1>4, <2>1 DEF Execute
  <2>3. named' = [named EXCEPT ![t] = Names(insn, o, insn.rel)]
    BY <1>4, <2>1, InPlace DEF Execute
  <2>4. InsnAt(pos[t]) = o
    BY <1>1, <1>5, InsnFactsOf, JumpIsNotOriginal
  <2>5. CASE /\ to \in DOMAIN target.insns /\ Place(to) = At(to)
             /\ to = o + insn.len \/ (insn.branches /\ to = DestOf(target, o))
    <3>1. SafeAt(to) /\ (to = 0 => ~Redirected)
      BY <1>1, <1>5, <2>5, OnwardIsSafe DEF Suitable, TargetInv
    <3>2. Placed(Place(to))
      BY <2>5, <3>1 DEF Placed
    <3>3. InsnAt(Place(to)) = to
      BY <2>5, <3>1, InsnFactsOf
    <3>4. Original!Within(to) = to
      BY <1>3, <2>5 DEF Original!Within, Size
    <3> QED BY <2>2, <2>3, <2>4, <3>2, <3>3, <3>4 DEF Executes
  <2>6. CASE to \notin 0 .. Size - 1 /\ Place(to) = Out
    <3>1. InsnAt(Place(to)) = Original!Within(to)
      BY <2>6, InsnFactsOf DEF Original!Within, Original!Outside, Outside, Size
    <3> QED BY <2>2, <2>3, <2>4, <2>6, <3>1 DEF Executes, Placed
  <2> QED BY <2>5, <2>6, InPlace
<1>6. CASE o = 0 /\ view[0] # "orig" /\ Redirected /\ \E form \in Jumps : WholeJump(view, form)
  <2>1. ~Intact(view, o)
    BY <1>3, <1>6 DEF Intact
  <2>2. Goes(t, InDetour) /\ UNCHANGED named
    BY <1>4, <1>6, <2>1
  <2>3. InsnAt(InDetour) = InsnAt(pos[t])
    BY <1>1, <1>6, InsnFactsOf
  <2> QED BY <2>2, <2>3 DEF Executes, Placed
<1> QED BY <1>1, <1>5, <1>6, Sees

LEMMA RunTrampolineGoes ==
  ASSUME TargetInv, HookInv, MovedInv, HookTypeOK, Suitable, pc # "Crashed",
         NEW t \in Threads, Placed(pos[t]), RunTrampoline(t)
  PROVE  \E place : Goes(t, place) /\ Placed(place) /\ Executes(t, place)
<1>1. InCopy(pos[t])
  BY PlacedAt DEF RunTrampoline
<1>2. PICK o \in DOMAIN target.insns : o <= PatchSize /\ pos[t] = In(TrampolineMem, o)
  BY <1>1 DEF InCopy
<1> DEFINE insn == target.insns[o]
           live == pos[t].base = TrampolineMem /\ TrampolineMem \in allocated
<1>3. o = pos[t].off /\ pos[t].base = TrampolineMem
  BY <1>2 DEF In
<1>4. bInstalled /\ Held /\ pc \notin {"Patch", "Restore"}
  BY <1>1, Stages DEF InCopy, Hooked
<1>5. live /\ TrampolineMem # 0 /\ PatchSize \in Int /\ PatchSize >= 5
  BY <1>3, <1>4 DEF Held, Keeps
<1>6. PatchSize \in DOMAIN target.insns /\ \A q \in DOMAIN target.insns : q \in 0 .. Size - 1
  BY <1>4, InsnFacts, MovedFacts DEF MovedInv
<1>7. InsnAt(pos[t]) = o
  BY <1>2, InsnFactsOf
<1>8. \A q \in DOMAIN target.insns : q >= PatchSize => Placed(At(q)) /\ InsnAt(At(q)) = q
  <2> SUFFICES ASSUME NEW q \in DOMAIN target.insns, q >= PatchSize
               PROVE  Placed(At(q)) /\ InsnAt(At(q)) = q
    OBVIOUS
  <2>1. SafeAt(q)
    BY <1>4 DEF SafeAt
  <2>2. q # 0
    BY <1>5
  <2> QED BY <2>1, <2>2, InsnFactsOf DEF Placed
<1>9. CASE o = PatchSize
  <2>1. ~WholeCopy(o)
    <3>1. insn.len \in 1 .. 15
      BY InsnFacts
    <3> QED BY <1>5, <1>9, <3>1 DEF WholeCopy
  <2>2. Goes(t, At(PatchSize)) /\ UNCHANGED named
    BY <1>3, <1>5, <1>9, <2>1, RunTrampolineIs
  <2> QED BY <1>6, <1>7, <1>8, <1>9, <2>2 DEF Executes
<1>10. CASE o < PatchSize
  <2>1. WholeCopy(o)
    BY <1>6, <1>10, NoOverlap DEF WholeCopy
  <2>2. Execute(t, o, TrampolineMem + o, CopiedRel(o))
    BY <1>3, <1>5, <1>10, <2>1, RunTrampolineIs
  <2>3. PICK to \in GoesTo(insn, TrampolineMem + o, CopiedRel(o)) : Goes(t, Place(to))
    BY <2>2 DEF Execute
  <2>4. named' = [named EXCEPT ![t] = Names(insn, o, insn.rel)]
    BY <1>4, <1>5, <1>10, <2>2, InTheTrampoline DEF Execute
  <2>5. PICK from \in GoesTo(insn, o, insn.rel) :
          \/ from \in DOMAIN target.insns /\ from <= PatchSize /\ Place(to) = In(TrampolineMem, from)
          \/ from \in DOMAIN target.insns /\ from >= PatchSize /\ Place(to) = At(from)
          \/ from \notin 0 .. Size - 1 /\ Place(to) = Out
    BY <1>4, <1>5, <1>10, InTheTrampoline
  <2>6. from \in DOMAIN target.insns => Original!Within(from) = from
    BY <1>6 DEF Original!Within, Size
  <2>7. CASE from \in DOMAIN target.insns /\ from <= PatchSize /\ Place(to) = In(TrampolineMem, from)
    <3>1. InCopy(Place(to))
      BY <1>1, <2>7 DEF InCopy
    <3>2. InsnAt(Place(to)) = from
      BY <2>7, InsnFactsOf
    <3> QED BY <1>7, <2>3, <2>4, <2>5, <2>6, <2>7, <3>1, <3>2 DEF Executes, Placed
  <2>8. CASE from \in DOMAIN target.insns /\ from >= PatchSize /\ Place(to) = At(from)
    BY <1>7, <1>8, <2>3, <2>4, <2>5, <2>6, <2>8 DEF Executes
  <2>9. CASE from \notin 0 .. Size - 1 /\ Place(to) = Out
    <3>1. InsnAt(Place(to)) = Original!Within(from)
      BY <2>9, InsnFactsOf DEF Original!Within, Original!Outside, Outside, Size
    <3> QED BY <1>7, <2>3, <2>4, <2>5, <2>9, <3>1 DEF Executes, Placed
  <2> QED BY <2>5, <2>7, <2>8, <2>9
<1> QED BY <1>2, <1>5, <1>6, <1>9, <1>10

(* A thread that is called, or goes on.                                    *)
LEMMA RunGoes ==
  ASSUME TargetInv, HookInv, MovedInv, HookTypeOK, Suitable, pc # "Crashed",
         NEW t \in Threads, Placed(pos[t]), RunDetour(t) \/ RunTarget(t) \/ RunTrampoline(t)
  PROVE  \E place : Goes(t, place) /\ Placed(place) /\ Executes(t, place)
<1>1. CASE RunDetour(t)
  <2>1. pos[t] = InDetour
    BY <1>1, PlacedAt DEF RunDetour
  <2>2. InsnAt(Out) = InsnAt(pos[t])
    BY <2>1, InsnFactsOf
  <2> QED BY <1>1, <2>2 DEF RunDetour, Executes, Placed
<1> QED BY <1>1, RunTargetGoes, RunTrampolineGoes

LEMMA CallGoes ==
  ASSUME TargetInv, HookInv, Holding, pc # "Crashed",
         NEW t \in Threads, Placed(pos[t]), CallTarget(t) \/ CallTrampoline(t)
  PROVE  /\ UNCHANGED named
         /\ \E place : /\ Goes(t, place) /\ Placed(place)
                       /\ \/ InsnAt(place) = InsnAt(pos[t])
                          \/ InsnAt(pos[t]) = Outside /\ InsnAt(place) = 0
<1>1. UNCHANGED named
  BY DEF CallTarget, CallTrampoline
<1>2. pos[t] \in {Out, InDetour} /\ InsnAt(pos[t]) = Outside
  BY InsnFactsOf, PlacedAt DEF CallTarget, CallTrampoline
<1>3. CASE CallTarget(t)
  <2>1. Goes(t, At(0)) /\ ~Overwriting
    BY <1>3 DEF CallTarget
  <2>2. Placed(At(0))
    BY <2>1, InsnFacts DEF Placed, SafeAt, Overwriting
  <2> QED BY <1>1, <1>2, <2>1, <2>2, InsnFactsOf
<1>4. CASE CallTrampoline(t)
  <2>1. Goes(t, In(OutTrampoline, 0)) /\ OutTrampoline # 0
    BY <1>4 DEF CallTrampoline
  <2>2. /\ bInstalled /\ OutTrampoline = TrampolineMem
        /\ pc \notin {"Uninstall", "Restore", "Uninstalled", "Crashed"}
    BY <2>1 DEF Holding
  <2>3. PatchSize \in Int /\ 0 <= PatchSize
    BY <2>2, Stages DEF Hooked, Held, Keeps
  <2>4. Placed(In(OutTrampoline, 0))
    BY <2>2, <2>3, InsnFacts DEF Placed, InCopy
  <2> QED BY <1>1, <1>2, <2>1, <2>4, InsnFactsOf
<1> QED BY <1>3, <1>4

-----------------------------------------------------------------------------
(* The invariant of the threads.                                           *)

(* A copy nobody is about to free stays one while the hook is as it is.    *)
LEMMA CopyStays ==
  ASSUME NEW p, InCopy(p), target' = target, UNCHANGED hook,
         pc' \notin {"Uninstall", "Restore", "Uninstalled", "Crashed"}
  PROVE  InCopy(p)'
<1>1. PatchSize' = PatchSize /\ TrampolineMem' = TrampolineMem /\ bInstalled' = bInstalled
  BY DEF hook
<1>2. PICK o \in DOMAIN target.insns : o <= PatchSize /\ p = In(TrampolineMem, o)
  BY DEF InCopy
<1>3. o \in DOMAIN target'.insns /\ o <= PatchSize' /\ p = In(TrampolineMem', o)
  BY <1>1, <1>2
<1>4. In(TrampolineMem', o) = In(TrampolineMem, o)'
  BY DEF In
<1> QED BY <1>1, <1>3, <1>4 DEF InCopy

(* A thread that no step moves stays placed if what is said of its place   *)
(* stays true.                                                             *)
LEMMA StaysPlaced ==
  ASSUME NEW p, Placed(p), target' = target,
         \A o \in DOMAIN target.insns : p = At(o) /\ SafeAt(o) => SafeAt(o)',
         InCopy(p) => InCopy(p)'
  PROVE  Placed(p)'
<1>1. CASE p \in {Out, InDetour}
  BY <1>1 DEF Placed, Out, InDetour
<1>2. CASE \E o \in DOMAIN target.insns : p = At(o) /\ SafeAt(o)
  <2>1. PICK o \in DOMAIN target.insns : p = At(o) /\ SafeAt(o)
    BY <1>2
  <2>2. o \in DOMAIN target'.insns /\ SafeAt(o)'
    BY <2>1
  <2>3. At(o)' = At(o)
    BY DEF At
  <2> QED BY <2>1, <2>2, <2>3 DEF Placed
<1>3. CASE InCopy(p)
  BY <1>3 DEF Placed
<1> QED BY <1>1, <1>2, <1>3 DEF Placed

LEMMA HookKeepsThreads ==
  ASSUME TargetInv, HookInv, ThreadsInv, HookNext, pos' = pos
  PROVE  ThreadsInv'
<1>1. HookStep /\ target' = target
  BY DEF HookNext, HookStep, NextX64, InstallX64, Decode, Allocate, UnprotectX64, Extend,
     Reallocate, NextArm64, InstallArm64, UnprotectArm64, Patch, Publish, Uninstall, Restore,
     Release
<1>2. ASSUME NEW t \in Threads, InCopy(pos[t]) PROVE FALSE
  BY <1>1, <1>2, HeldStaysPut DEF InCopy
<1>3. ASSUME NEW t \in Threads, NEW o \in DOMAIN target.insns, pos[t] = At(o), SafeAt(o)
      PROVE  SafeAt(o)'
  <2>1. At(o).at = "target" /\ At(o).off = o
    BY DEF At
  <2>2. NobodyThere => ~(o < Overwritten)
    BY <1>3, <2>1 DEF NobodyThere
  <2> QED BY <1>3, <2>2, SafeStays DEF HookNext
<1>4. \A t \in Threads : Placed(pos[t])'
  <2> SUFFICES ASSUME NEW t \in Threads PROVE Placed(pos[t])'
    OBVIOUS
  <2>1. Placed(pos[t])
    BY DEF ThreadsInv
  <2> QED BY <1>1, <1>2, <1>3, <2>1, StaysPlaced
<1> QED BY <1>4 DEF ThreadsInv

LEMMA BetweenKeepsThreads ==
  ASSUME HookInv, ThreadsInv, Between, pos' = pos
  PROVE  ThreadsInv'
<1>1. ButPc /\ target' = target /\ UNCHANGED hook /\ bInstalled' = bInstalled
      /\ PatchSize' = PatchSize
  BY DEF Between, ClientInstall, InstallReturns, Forget, ClientUninstall, UninstallReturns, hookVars,
     ButPc, hook
<1>2. /\ pc' \in {"Install", "Failed", "Idle", "Uninstall"}
      /\ pc' = "Uninstall" => Drained
  BY DEF Between, ClientInstall, Install, InstallReturns, Forget, ClientUninstall,
     UninstallReturns, hookVars
<1>3. ASSUME NEW o \in DOMAIN target.insns, SafeAt(o) PROVE SafeAt(o)'
  BY <1>1, <1>2, <1>3 DEF SafeAt
<1>4. ASSUME NEW t \in Threads, InCopy(pos[t]) PROVE InCopy(pos[t])'
  <2>1. pos[t].at = "trampoline"
    BY <1>4 DEF InCopy, In
  <2>2. pc' # "Uninstall"
    BY <1>2, <2>1 DEF Drained
  <2> QED BY <1>1, <1>2, <1>4, <2>2, CopyStays
<1>5. \A t \in Threads : Placed(pos[t])'
  <2> SUFFICES ASSUME NEW t \in Threads PROVE Placed(pos[t])'
    OBVIOUS
  <2>1. Placed(pos[t])
    BY DEF ThreadsInv
  <2> QED BY <1>1, <1>3, <1>4, <2>1, StaysPlaced
<1> QED BY <1>5 DEF ThreadsInv

(* What is said of a place, while nothing but threads moves.               *)
LEMMA SamePlaces ==
  ASSUME UNCHANGED hookVars, NEW p, Placed(p)
  PROVE  Placed(p)'
<1>1. /\ target' = target /\ pc' = pc /\ written' = written /\ UNCHANGED hook
      /\ RPatchSize' = RPatchSize /\ PatchSize' = PatchSize /\ bInstalled' = bInstalled
  BY DEF hookVars, hook, locals, result
<1>2. \A o \in DOMAIN target.insns : SafeAt(o) => SafeAt(o)'
  BY <1>1 DEF SafeAt
<1>3. InCopy(p) => InCopy(p)'
  <2>1. InCopy(p) => pc' \notin {"Uninstall", "Restore", "Uninstalled", "Crashed"}
    BY <1>1 DEF InCopy
  <2> QED BY <1>1, <2>1, CopyStays
<1> QED BY <1>1, <1>2, <1>3, StaysPlaced

LEMMA ThreadKeepsThreads ==
  ASSUME ThreadsInv, UNCHANGED hookVars, NEW t \in Threads, NEW place, Placed(place),
         Goes(t, place)
  PROVE  ThreadsInv'
<1>1. DOMAIN pos' = Threads /\ \A u \in Threads : pos'[u] = IF u = t THEN place ELSE pos[u]
  BY DEF Goes, ThreadsInv
<1>2. \A u \in Threads : Placed(pos'[u])
  BY <1>1 DEF ThreadsInv
<1>3. \A u \in Threads : Placed(pos[u])'
  BY <1>2, SamePlaces
<1> QED BY <1>1, <1>3 DEF ThreadsInv

(* What the invariants of a step are.                                      *)
ClientInv == TargetInv /\ HookInv /\ Holding /\ HookTypeOK

LEMMA ThreadsOK ==
  ASSUME Suitable, ClientInv, MovedInv, ThreadsInv, [Next]_vars
  PROVE  MovedInv' /\ ThreadsInv'
<1>1. CASE HookNext /\ UNCHANGED <<pos, named>>
  <2>1. HookStep /\ WellMeasured(target)
    BY <1>1 DEF HookNext, HookStep, ClientInv, TargetInv, Suitable, Hookable
  <2> QED BY <1>1, <2>1, MovedOK, HookKeepsThreads DEF ClientInv
<1>2. CASE Between /\ UNCHANGED <<pos, named>>
  <2>1. /\ ButPc
        /\ pc' = pc \/ pc' \notin {"Decode", "Unprotect", "Extend", "UnprotectArm64", "Patch"}
    BY <1>2 DEF Between, ClientInstall, Install, InstallReturns, Forget, ClientUninstall,
       UninstallReturns, hookVars, ButPc
  <2> QED BY <1>2, <2>1, MovedBetweenOK, BetweenKeepsThreads DEF ClientInv
<1>3. ASSUME NEW t \in Threads, ThreadRun(t) \/ ThreadCall(t) PROVE MovedInv' /\ ThreadsInv'
  <2>1. UNCHANGED hookVars /\ pc # "Crashed" /\ Placed(pos[t])
    BY <1>3 DEF ThreadRun, ThreadCall, ThreadsInv
  <2>2. MovedInv'
    BY <2>1, MovedBetweenOK DEF hookVars, ButPc
  <2>3. \E place : Goes(t, place) /\ Placed(place)
    BY <1>3, <2>1, RunGoes, CallGoes DEF ThreadRun, ThreadCall, ClientInv
  <2> QED BY <2>1, <2>2, <2>3, ThreadKeepsThreads
<1>4. CASE UNCHANGED vars
  <2>1. UNCHANGED hookVars /\ pos' = pos
    BY <1>4 DEF vars
  <2>2. MovedInv'
    BY <2>1, MovedBetweenOK DEF hookVars, ButPc
  <2>3. ThreadsInv'
    BY <2>1, SamePlaces DEF ThreadsInv
  <2> QED BY <2>2, <2>3
<1> QED BY <1>1, <1>2, <1>3, <1>4 DEF Next, ClientNext, Between


(* If the function can be hooked and its start be moved to wherever the OS *)
(* may put a trampoline, what is moved is a number of whole instructions,  *)
(* and no thread is ever in the middle of one, among bytes that are being  *)
(* overwritten, or in a trampoline that is about to be freed, whenever the *)
(* client installs, calls, and takes the hook off.                         *)
THEOREM ThreadsStayPlaced ==
  ASSUME Suitable
  PROVE  Spec => [](MovedInv /\ ThreadsInv)
<1>1. Init => MovedInv /\ ThreadsInv
  <2> SUFFICES ASSUME Init PROVE MovedInv /\ ThreadsInv
    OBVIOUS
  <2>1. MovedInv
    BY MovedInitOK DEF Init
  <2> QED BY <2>1 DEF Init, ThreadsInv, Placed
<1>2. (TargetInv /\ HookInv /\ Holding) /\ ClientTypeOK => ClientInv
  BY DEF ClientTypeOK, ClientInv
<1>3. ClientInv /\ MovedInv /\ ThreadsInv /\ [Next]_vars => MovedInv' /\ ThreadsInv'
  BY ThreadsOK
<1> QED BY <1>1, <1>2, <1>3, ClientInvariance, ClientTypes, PTL DEF Spec

-----------------------------------------------------------------------------
(* The function that a thread is in, whether it is hooked or not.          *)

Insns == [t \in Threads |-> InsnAt(pos[t])]

LEMMA SameTerms ==
  /\ Original!Outside = Outside
  /\ \A insn, a, rel : /\ Original!GoesTo(insn, a, rel) = GoesTo(insn, a, rel)
                       /\ Original!Names(insn, a, rel) = Names(insn, a, rel)
BY DEF Original!Outside, Outside, Original!GoesTo, GoesTo, Original!Names, Names

(* A step that moves no thread and writes no jump moves none in the        *)
(* function.                                                               *)
LEMMA CodeKept ==
  ASSUME code' = code, pos' = pos
  PROVE  Insns' = Insns
<1>1. Redirected' = Redirected
  BY SameCode
<1>2. \A t \in Threads : InsnAt(pos[t])' = InsnAt(pos[t])
  BY <1>1 DEF InsnAt, Outside
<1> QED BY <1>2 DEF Insns

(* No thread is at the first instruction while the jump is written.        *)
LEMMA JumpWrittenAlone ==
  ASSUME TargetInv, HookInv, ThreadsInv, NobodyThere, Patch \/ Restore, pos' = pos
  PROVE  Insns' = Insns
<1>1. Overwritten \in Int /\ 0 < Overwritten
  <2>1. CASE Patch
    BY <2>1 DEF Patch, HookInv, Patching, Made, Keeps, Overwritten
  <2>2. CASE Restore
    BY <2>2 DEF Restore, HookInv, Restoring, Held, Keeps, Overwritten
  <2> QED BY <2>1, <2>2
<1>2. ASSUME NEW t \in Threads PROVE InsnAt(pos[t])' = InsnAt(pos[t])
  <2>1. ~(pos[t].at = "target" /\ pos[t].off = 0)
    BY <1>1 DEF NobodyThere
  <2> QED BY <2>1 DEF InsnAt, Outside
<1> QED BY <1>2 DEF Insns

LEMMA HookLooksOriginal ==
  ASSUME TargetInv, HookInv, ThreadsInv, HookNext, UNCHANGED <<pos, named>>
  PROVE  UNCHANGED Original!vars
<1>1. target' = target
  BY DEF HookNext, NextX64, InstallX64, Decode, Allocate, UnprotectX64, Extend, Reallocate,
     NextArm64, InstallArm64, UnprotectArm64, Patch, Publish, Uninstall, Restore, Release
<1>2. CASE NextX64 \/ NextArm64 \/ Publish \/ Uninstall \/ Release
  <2>1. code' = code
    BY <1>2 DEF NextX64, InstallX64, Decode, Allocate, UnprotectX64, Extend, Reallocate,
       NextArm64, InstallArm64, UnprotectArm64, Publish, Uninstall, Release
  <2> QED BY <1>1, <2>1, CodeKept DEF Original!vars, Insns
<1>3. CASE NobodyThere /\ (Patch \/ Restore)
  BY <1>1, <1>3, JumpWrittenAlone DEF Original!vars, Insns
<1> QED BY <1>2, <1>3 DEF HookNext

(* A thread that goes to a place goes to the instruction that is there.    *)
LEMMA InsnsGo ==
  ASSUME ThreadsInv, code' = code, NEW t \in Threads, NEW place, Goes(t, place)
  PROVE  Insns' = [Insns EXCEPT ![t] = InsnAt(place)]
<1>1. \A u \in Threads : pos'[u] = IF u = t THEN place ELSE pos[u]
  BY DEF Goes, ThreadsInv
<1>2. Redirected' = Redirected
  BY SameCode
<1>3. \A u \in Threads : InsnAt(pos[u])' = IF u = t THEN InsnAt(place) ELSE InsnAt(pos[u])
  BY <1>1, <1>2 DEF InsnAt, Outside
<1> QED BY <1>3 DEF Insns

LEMMA ThreadLooksOriginal ==
  ASSUME Suitable, ClientInv, MovedInv, ThreadsInv, NEW t \in Threads,
         ThreadRun(t) \/ ThreadCall(t)
  PROVE  [Original!Next]_(Original!vars)
<1>1. /\ UNCHANGED hookVars /\ target' = target /\ code' = code /\ pc # "Crashed"
      /\ Placed(pos[t])
  BY DEF ThreadRun, ThreadCall, ThreadsInv, hookVars
<1>2. Insns[t] = InsnAt(pos[t]) /\ [Insns EXCEPT ![t] = InsnAt(pos[t])] = Insns
  BY DEF Insns
<1>3. ASSUME NEW place, Goes(t, place), InsnAt(place) = InsnAt(pos[t]), UNCHANGED named
      PROVE  UNCHANGED Original!vars
  <2>1. Insns' = Insns
    BY <1>1, <1>2, <1>3, InsnsGo
  <2> QED BY <1>1, <1>3, <2>1 DEF Original!vars, Insns
<1>4. CASE ThreadRun(t)
  <2>1. PICK place : Goes(t, place) /\ Executes(t, place)
    BY <1>1, <1>4, RunGoes DEF ThreadRun, ClientInv
  <2>2. CASE InsnAt(place) = InsnAt(pos[t]) /\ UNCHANGED named
    BY <1>3, <2>1, <2>2
  <2>3. CASE \E o \in DOMAIN target.insns :
               /\ InsnAt(pos[t]) = o
               /\ \E to \in GoesTo(target.insns[o], o, target.insns[o].rel) :
                    InsnAt(place) = Original!Within(to)
               /\ named' = [named EXCEPT ![t] = Names(target.insns[o], o, target.insns[o].rel)]
    <3>1. PICK o \in DOMAIN target.insns :
             /\ InsnAt(pos[t]) = o
             /\ \E to \in GoesTo(target.insns[o], o, target.insns[o].rel) :
                  InsnAt(place) = Original!Within(to)
             /\ named' = [named EXCEPT ![t] = Names(target.insns[o], o, target.insns[o].rel)]
      BY <2>3
    <3>2. o # Outside
      BY InsnFacts, TargetFacts DEF Outside, ClientInv
    <3>3. Insns[t] = o
      BY <1>2, <3>1
    <3>4. \E to \in GoesTo(target.insns[o], o, target.insns[o].rel) :
            Insns' = [Insns EXCEPT ![t] = Original!Within(to)]
      BY <1>1, <2>1, <3>1, InsnsGo
    <3>5. Original!Step(t)
      BY <1>1, <3>1, <3>2, <3>3, <3>4, SameTerms DEF Original!Step, Insns
    <3> QED BY <3>5 DEF Original!Next
  <2> QED BY <2>1, <2>2, <2>3 DEF Executes
<1>5. CASE ThreadCall(t)
  <2>1. /\ UNCHANGED named
        /\ \E place : /\ Goes(t, place)
                      /\ \/ InsnAt(place) = InsnAt(pos[t])
                         \/ InsnAt(pos[t]) = Outside /\ InsnAt(place) = 0
    BY <1>1, <1>5, CallGoes DEF ThreadCall, ClientInv
  <2>2. ASSUME NEW place, Goes(t, place), InsnAt(pos[t]) = Outside, InsnAt(place) = 0
        PROVE  Original!Call(t)
    <3>1. Insns[t] = Outside /\ Insns' = [Insns EXCEPT ![t] = 0]
      BY <1>1, <1>2, <2>2, InsnsGo
    <3> QED BY <1>1, <2>1, <3>1, SameTerms DEF Original!Call, Insns
  <2> QED BY <1>3, <2>1, <2>2 DEF Original!Next
<1> QED BY <1>4, <1>5

(* If the function can be hooked and its start be moved, a thread that     *)
(* calls it, or the pointer that Install hands out, executes instructions  *)
(* of the function in an order in which the original would, each naming    *)
(* the address it would, whatever the client and other threads do: every   *)
(* step is one of the original function, or none.                          *)
THEOREM BehavesAsOriginal ==
  ASSUME Suitable
  PROVE  Spec => Original!Init /\ [][Original!Next]_(Original!vars)
<1>1. Init => Original!Init
  <2> SUFFICES ASSUME Init PROVE Original!Init
    OBVIOUS
  <2>1. \A t \in Threads : InsnAt(pos[t]) = Outside
    BY InsnFactsOf DEF Init
  <2> QED BY <2>1, SameTerms DEF Init, HookInit, Original!Init
<1>2. ClientInv /\ MovedInv /\ ThreadsInv /\ [Next]_vars => [Original!Next]_(Original!vars)
  <2> SUFFICES ASSUME ClientInv, MovedInv, ThreadsInv, [Next]_vars
               PROVE  [Original!Next]_(Original!vars)
    OBVIOUS
  <2>1. CASE HookNext /\ UNCHANGED <<pos, named>>
    BY <2>1, HookLooksOriginal DEF ClientInv
  <2>2. CASE Between /\ UNCHANGED <<pos, named>>
    <3>1. code' = code /\ target' = target
      BY <2>2 DEF Between, ClientInstall, InstallReturns, Forget, ClientUninstall,
         UninstallReturns, hookVars
    <3> QED BY <2>2, <3>1, CodeKept DEF Original!vars, Insns
  <2>3. CASE UNCHANGED vars
    <3>1. code' = code /\ target' = target /\ pos' = pos /\ named' = named
      BY <2>3 DEF vars, hookVars
    <3> QED BY <3>1, CodeKept DEF Original!vars, Insns
  <2>4. CASE \E t \in Threads : ThreadRun(t) \/ ThreadCall(t)
    BY <2>4, ThreadLooksOriginal
  <2> QED BY <2>1, <2>2, <2>3, <2>4 DEF Next, ClientNext, Between
<1>3. (TargetInv /\ HookInv /\ Holding) /\ ClientTypeOK => ClientInv
  BY DEF ClientTypeOK, ClientInv
<1> QED BY <1>1, <1>2, <1>3, ClientInvariance, ClientTypes, ThreadsStayPlaced, PTL DEF Spec

=============================================================================
