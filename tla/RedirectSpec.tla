---------------------------- MODULE RedirectSpec ----------------------------
(***************************************************************************)
(* What FFastBitCopyModule promises to the callers of a function: while    *)
(* their calls are redirected, a new implementation answers them in its    *)
(* place.  "All existing callers transparently get the speed-up ... On     *)
(* shutdown, the hook is reverted" (FastBitCopyModule.h).                  *)
(***************************************************************************)
CONSTANTS Threads

VARIABLES
  mode,   (* Who answers calls; "changing" while it is being changed.      *)
  phase   (* Where each thread is: out, in the old function, redirected,   *)
          (* or in the new function.                                       *)

vars == <<mode, phase>>

Init == mode = "original" /\ phase = [t \in Threads |-> "out"]

(* Between the two modes there is one in which nobody may call.            *)
Change ==
  /\ mode' \in {"original", "changing", "redirected"}
  /\ "changing" \in {mode, mode'}
  /\ UNCHANGED phase

Goes(t, from, to) ==
  /\ phase[t] = from
  /\ phase' = [phase EXCEPT ![t] = to]
  /\ UNCHANGED mode

(* A call of the function, which is redirected or not; who is redirected   *)
(* gets to the new one.                                                    *)
Call(t) ==
  /\ mode # "changing"
  /\ Goes(t, "out", IF mode = "redirected" THEN "redirected" ELSE "old")
Arrive(t) == Goes(t, "redirected", "new")

(* The new function can be called by its own name, at any moment.          *)
CallNew(t) == Goes(t, "out", "new")

(* It may leave the work to the old one, if that will not hand it back.    *)
Delegate(t) == mode = "original" /\ Goes(t, "new", "old")

Return(t) == Goes(t, "old", "out") \/ Goes(t, "new", "out")

Next ==
  \/ Change
  \/ \E t \in Threads : Call(t) \/ Arrive(t) \/ CallNew(t) \/ Delegate(t) \/ Return(t)

(* Every call returns.                                                     *)
Spec == Init /\ [][Next]_vars /\ \A t \in Threads : WF_vars(Arrive(t) \/ Return(t))
=============================================================================
