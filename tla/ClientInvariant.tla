-------------------------- MODULE ClientInvariant --------------------------
(***************************************************************************)
(* What the proofs about a client use beside HookInv: where its pointer is *)
(* from, and where its threads are while the hook is installed and taken   *)
(* off, if the function's first instructions can be moved.                 *)
(***************************************************************************)
EXTENDS HookClient, MovedCode

(* PointerLives, made inductive: a client that holds the pointer has not   *)
(* called Uninstall (Forget comes first).                                  *)
Holding ==
  OutTrampoline # 0 =>
    /\ bInstalled /\ OutTrampoline = TrampolineMem
    /\ pc \notin {"Uninstall", "Restore", "Uninstalled", "Crashed"}

(* A thread is at an instruction of the function that is neither being nor *)
(* has been overwritten, or at the copy of one in the trampoline of the    *)
(* hook, which nobody is about to free.                                    *)
InCopy(p) ==
  /\ \E o \in DOMAIN target.insns : o <= PatchSize /\ p = In(TrampolineMem, o)
  /\ bInstalled /\ pc \notin {"Uninstall", "Restore", "Uninstalled", "Crashed"}
Placed(p) ==
  \/ p \in {Out, InDetour}
  \/ \E o \in DOMAIN target.insns : p = At(o) /\ SafeAt(o)
  \/ InCopy(p)
ThreadsInv == DOMAIN pos = Threads /\ \A t \in Threads : Placed(pos[t])
=============================================================================
