-------------------------- MODULE OriginalFunction --------------------------
(***************************************************************************)
(* The function as it was compiled, called by threads: what the pointer    *)
(* that Install hands out "behaves like" (FunctionHook.h).                 *)
(***************************************************************************)
EXTENDS Instructions

CONSTANTS Targets, Threads

VARIABLES
  target,  (* The function.                                                *)
  at,      (* The instruction each thread is at, or Outside.               *)
  named    (* The address its last instruction named relative to its own:  *)
           (* a set of at most one.                                        *)

vars == <<target, at, named>>

Init ==
  /\ target \in Targets
  /\ at = [t \in Threads |-> Outside]
  /\ named = [t \in Threads |-> {}]

Call(t) ==
  /\ at[t] = Outside
  /\ at' = [at EXCEPT ![t] = 0]
  /\ UNCHANGED <<target, named>>

(* An address of the function is an offset; from any other the thread does *)
(* what it does there, and returns to its caller.                          *)
Within(a) == IF a \in 0 .. target.size - 1 THEN a ELSE Outside

Step(t) ==
  /\ at[t] # Outside
  /\ LET o == at[t]
         insn == target.insns[o]
     IN /\ \E a \in GoesTo(insn, o, insn.rel) : at' = [at EXCEPT ![t] = Within(a)]
        /\ named' = [named EXCEPT ![t] = Names(insn, o, insn.rel)]
  /\ UNCHANGED target

Next == \E t \in Threads : Call(t) \/ Step(t)

(* A thread in the function goes on.                                       *)
Spec == Init /\ [][Next]_vars /\ \A t \in Threads : WF_vars(Step(t))
=============================================================================
