-------------------------- MODULE ModuleInvariant --------------------------
(***************************************************************************)
(* What the module knows of its hook, and where the threads are while it   *)
(* is installed and taken off.                                             *)
(***************************************************************************)
EXTENDS FastBitCopyModule, MovedCode

(* The flag of the module and that of the hook agree whenever the module   *)
(* is between two calls, and no installation starts over a hook.           *)
FlagsInv ==
  /\ pc \in {"Unloaded", "Failed"} => ~bInstalled
  /\ pc = "Loaded" => (GBitsCpyHookInstalled <=> bInstalled)
  /\ pc \notin {"Loaded", "Uninstall", "Restore", "Uninstalled", "Crashed"} =>
       ~GBitsCpyHookInstalled

-----------------------------------------------------------------------------
(* Only the optimized build is hooked; and a thread in the function is at  *)
(* one of its instructions, never one of those that are being, or have     *)
(* been, overwritten, but for the first byte, where the jump is.           *)
OnlyOptimized ==
  build # "optimized" => ~bInstalled /\ pc \in {"Unloaded", "Loaded", "Uninstalled"}
Placed(t) ==
  \/ pos[t] \in {Out, InFastBitCopy}
  \/ \E o \in DOMAIN target.insns : pos[t] = At(o) /\ SafeAt(o)
ThreadInv == OnlyOptimized /\ DOMAIN pos = Threads /\ \A t \in Threads : Placed(t)
=============================================================================
