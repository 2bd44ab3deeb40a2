----------------------------- MODULE HookClient -----------------------------
(***************************************************************************)
(* FFunctionHook as its header offers it to any client: Install hands out  *)
(* "a callable pointer that behaves like the original", which the detour,  *)
(* or anybody, may call until the hook is reverted.  (The plugin itself    *)
(* passes nullptr and never calls the original.)                           *)
(***************************************************************************)
EXTENDS HookedCode

CONSTANTS Threads

VARIABLES
  OutTrampoline,  (* The pointer, 0 for none.                              *)
  pos,            (* Where each thread is.                                 *)
  named           (* The address its last instruction named.               *)

vars == <<hookVars, OutTrampoline, pos, named>>

Out == [at |-> "out", base |-> 0, off |-> 0]
InDetour == [at |-> "detour", base |-> 0, off |-> 0]
Lost == [at |-> "lost", base |-> 0, off |-> 0]
At(o) == [at |-> "target", base |-> 0, off |-> o]
In(d, o) == [at |-> "trampoline", base |-> d, off |-> o]

-----------------------------------------------------------------------------
(* The client's thread: it may call Install and Uninstall in any state.    *)

ClientInstall ==
  /\ pc = "Idle"
  /\ Install
  /\ UNCHANGED <<target, code, icache, writable, allocated, hook, locals, OutTrampoline>>

(* Only an Install that succeeds sets *OutTrampoline.                      *)
InstallReturns ==
  /\ pc \in {"Installed", "Failed"}
  /\ OutTrampoline' = IF pc = "Installed" THEN TrampolineMem ELSE OutTrampoline
  /\ pc' = "Idle"
  /\ UNCHANGED <<target, code, icache, writable, allocated, hook, locals>>

(* The pages of the trampoline are about to be given back: the client has  *)
(* to forget the pointer, and to see to it that nobody is in there.        *)
Drained == \A t \in Threads : pos[t].at # "trampoline"
Forget ==
  /\ pc = "Idle" /\ OutTrampoline # 0
  /\ OutTrampoline' = 0
  /\ UNCHANGED hookVars
ClientUninstall ==
  /\ pc = "Idle" /\ OutTrampoline = 0 /\ Drained
  /\ pc' = "Uninstall"
  /\ UNCHANGED <<target, code, icache, writable, allocated, hook, locals, OutTrampoline>>

UninstallReturns ==
  /\ pc = "Uninstalled"
  /\ pc' = "Idle"
  /\ UNCHANGED <<target, code, icache, writable, allocated, hook, locals, OutTrampoline>>

-----------------------------------------------------------------------------
(* The threads.                                                            *)

Goes(t, where) == pos' = [pos EXCEPT ![t] = where]

(* As in FastBitCopyModule, nobody may be about to execute an instruction  *)
(* that is being overwritten.                                              *)
NobodyThere == \A t \in Threads : ~(pos[t].at = "target" /\ pos[t].off < Overwritten)

CallTarget(t) ==
  /\ pos[t].at = "out" /\ ~Overwriting
  /\ Goes(t, At(0))
  /\ UNCHANGED named

(* By a caller, or by the detour.                                          *)
CallTrampoline(t) ==
  /\ pos[t].at \in {"out", "detour"} /\ OutTrampoline # 0
  /\ Goes(t, In(OutTrampoline, 0))
  /\ UNCHANGED named

RunDetour(t) == pos[t].at = "detour" /\ Goes(t, Out) /\ UNCHANGED named

(* What there is at an address: the function; its trampoline, with the     *)
(* jump back after the copies; or something else, from which the thread    *)
(* returns to its caller.                                                  *)
IsCopy(a) == TrampolineMem # 0 /\ a - TrampolineMem \in 0 .. PatchSize
Place(a) ==
  CASE a \in 0 .. target.size - 1 -> At(a)
    [] a \notin 0 .. target.size - 1 /\ IsCopy(a) -> In(TrampolineMem, a - TrampolineMem)
    [] OTHER -> Out

(* An address in the trampoline stands for the one it is a copy of.        *)
Home(a) == IF IsCopy(a) THEN a - TrampolineMem ELSE a

(* The instruction that is at o in the function, executed at address a.    *)
Execute(t, o, a, rel) ==
  /\ \E to \in GoesTo(target.insns[o], a, rel) : Goes(t, Place(to))
  /\ named' = [named EXCEPT ![t] = {Home(n) : n \in Names(target.insns[o], a, rel)}]
Adrift(t) == Goes(t, Lost) /\ UNCHANGED named

(* In the function: an instruction as it was compiled, the jump to the     *)
(* detour, or something that is neither.                                   *)
Intact(view, o) ==
  o \in DOMAIN target.insns /\ \A k \in o .. o + target.insns[o].len - 1 : view[k] = "orig"
RunTarget(t) ==
  /\ pos[t].at = "target"
  /\ LET o == pos[t].off
     IN \E view \in Views :
          CASE Intact(view, o) -> Execute(t, o, o, target.insns[o].rel)
            [] o = 0 /\ (\E form \in Jumps : WholeJump(view, form)) ->
                 Goes(t, InDetour) /\ UNCHANGED named
            [] OTHER -> Adrift(t)

(* In the trampoline: a copy, its displacement adjusted if it is a         *)
(* branch's, or the jump back.  Memory that has been given back cannot be  *)
(* executed, nor can an instruction of which only the beginning was moved. *)
CopiedRel(o) ==
  IF target.arch = "x64" /\ (IsRel8(target.bytes, o) \/ IsRel32(target.bytes, o))
  THEN NewRel(target.bytes, o, TrampolineMem) ELSE target.insns[o].rel
WholeCopy(o) == o \in DOMAIN target.insns /\ o + target.insns[o].len <= PatchSize
RunTrampoline(t) ==
  /\ pos[t].at = "trampoline"
  /\ LET o == pos[t].off
         live == pos[t].base = TrampolineMem /\ TrampolineMem \in allocated
     IN CASE live /\ WholeCopy(o) -> Execute(t, o, TrampolineMem + o, CopiedRel(o))
          [] live /\ o = PatchSize -> Goes(t, At(PatchSize)) /\ UNCHANGED named
          [] OTHER -> Adrift(t)

-----------------------------------------------------------------------------
Init ==
  /\ HookInit
  /\ pc = "Idle"
  /\ OutTrampoline = 0
  /\ pos = [t \in Threads |-> Out]
  /\ named = [t \in Threads |-> {}]

HookNext ==
  /\ \/ NextX64 \/ NextArm64 \/ Publish
     \/ Uninstall \/ Release
     \/ NobodyThere /\ (Patch \/ Restore)
  /\ UNCHANGED OutTrampoline
ClientNext ==
  /\ \/ HookNext
     \/ ClientInstall \/ InstallReturns
     \/ Forget \/ ClientUninstall \/ UninstallReturns
  /\ UNCHANGED <<pos, named>>

ThreadRun(t) ==
  /\ pc # "Crashed"
  /\ RunDetour(t) \/ RunTarget(t) \/ RunTrampoline(t)
  /\ UNCHANGED <<hookVars, OutTrampoline>>
ThreadCall(t) ==
  /\ pc # "Crashed"
  /\ CallTarget(t) \/ CallTrampoline(t)
  /\ UNCHANGED <<hookVars, OutTrampoline>>

Next == ClientNext \/ \E t \in Threads : ThreadRun(t) \/ ThreadCall(t)

(* A thread goes on in whatever function it is in.                         *)
Spec == Init /\ [][Next]_vars /\ \A t \in Threads : WF_vars(ThreadRun(t))

-----------------------------------------------------------------------------
(* Properties.                                                             *)

PcType ==
  {"Idle", "Install", "Decode", "Unprotect", "Extend", "UnprotectArm64", "Patch",
   "Installed", "Failed", "Uninstall", "Restore", "Uninstalled", "Crashed"}

(* Every variable has its type; threads are at offsets of the function and *)
(* of trampolines that the OS has given.                                   *)
ClientTypeOK ==
  /\ HookTypeOK
  /\ pc \in PcType /\ OutTrampoline \in Distances \cup {0}
  /\ pos \in [Threads -> {Out, InDetour, Lost} \cup {At(o) : o \in 0 .. target.size - 1}
                           \cup {In(d, o) : d \in Distances, o \in 0 .. 28}]
  /\ named \in [Threads -> SUBSET Int]

(* The pointer a client holds is the trampoline of the hook that is        *)
(* installed, and its memory has not been given back, whatever the order   *)
(* in which it installs, installs again and reverts.                       *)
PointerLives ==
  OutTrampoline # 0 => bInstalled /\ OutTrampoline = TrampolineMem /\ OutTrampoline \in allocated

(* Between two calls of FFunctionHook, the only executable memory held is  *)
(* the trampoline of the hook that is installed, the code differs from the *)
(* original in the bytes that are saved only, and nothing is writable.     *)
Settled ==
  pc = "Idle" =>
    /\ writable = {} /\ icache = code
    /\ allocated = IF bInstalled THEN {TrampolineMem} ELSE {}
    /\ \A o \in 0 .. target.size - 1 :
         code[o] # "orig" => bInstalled /\ o < PatchSize /\ OriginalBytes[o] = "orig"

(* The function as it was compiled; a thread is in it wherever it executes *)
(* one of its instructions, or the copy of one.                            *)
InsnAt(place) ==
  CASE place.at = "trampoline" -> place.off
    [] place.at = "target" /\ ~(place.off = 0 /\ Redirected) -> place.off
    [] OTHER -> Outside
Original == INSTANCE OriginalFunction WITH at <- [t \in Threads |-> InsnAt(pos[t])]

(* "Receives a callable pointer that behaves like the original, unhooked   *)
(* Target" (FunctionHook.h): whoever calls it, or calls the function       *)
(* before or after the hook, executes the instructions of the function in  *)
(* an order in which it would, each naming the address it would, in the    *)
(* trampoline or out of it, and goes on.                                   *)
BehavesLikeOriginal == Original!Spec
=============================================================================
