----------------------------- MODULE HookedCode -----------------------------
(***************************************************************************)
(* What a thread that executes the hooked function meets: the bytes being  *)
(* overwritten, the jump, and what its processor has cached of them.       *)
(***************************************************************************)
EXTENDS FunctionHook

(* The bytes being overwritten, if any.                                    *)
Overwriting == pc \in {"Patch", "Restore"}
Overwritten == IF pc = "Patch" THEN RPatchSize ELSE PatchSize

(* The code bytes at the start of the target are a whole jump.  The arm64  *)
(* one loads the address after its two instructions as data.               *)
IsData(form, o) == form = "abs16" /\ o >= 8
WholeJump(view, form) ==
  \A o \in 0 .. JumpSize(form) - 1 : (IF IsData(form, o) THEN code[o] ELSE view[o]) = form
JumpAt0(form) == WholeJump(code, form)

(* What a thread sees of the code: each instruction word of the four that  *)
(* are overwritten either as it is or as the instruction cache has it.     *)
Views ==
  {[o \in DOMAIN code |-> IF o \div 4 \in stale THEN icache[o] ELSE code[o]] :
     stale \in IF icache = code THEN {{}} ELSE SUBSET (0 .. 3)}

(* A call of the function is a call of the detour.                         *)
Redirected == \E form \in Jumps : JumpAt0(form)
=============================================================================
