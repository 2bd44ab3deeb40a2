---------------------------- MODULE MCHookClient ----------------------------
(***************************************************************************)
(* Functions for HookClient whose first instructions can be moved.         *)
(***************************************************************************)
EXTENDS ClientInvariant, MCTargets

CallNear == <<\hE8, \h00, \h10, \h00, \h00>>                (* 4096 bytes on *)
JgOver == <<\h7F, \h01>>                                    (* over 1 byte   *)
JmpOn == <<\hE9, \h07, \h00, \h00, \h00>>                   (* over 7 bytes  *)
JgLoop == <<\h7F, \hF7>>                                    (* 9 bytes back  *)

(* The rest of the function: a loop, an operand relative to the            *)
(* instruction pointer, a short branch to the end.                         *)
LoopBody == <<SubRspLong, JgLoop, LeaRip, JgOver, PushRbp, SubRspLong, Ret>>

ClientTargets ==
  {X64(p \o LoopBody, n, 4096) :
     n \in BOOLEAN,
     p \in {<<PushRbp, JgOver, PushRbp, MovRbpRsp, SubRspLong>>,
            <<PushRbp, CallNear, MovRbpRsp, SubRspLong>>,
            <<PushRbp, CmpEsi8, JgNear, SubRsp>>,
            <<JmpBack, PushRbp, SubRspLong, JgNear>>,
            <<SubRsp, SubRsp, JmpOn, SubRspLong>>}}
    \cup {Arm64(<<Plain64, Sub64, Plain64, Sub64>> \o MoreArm64)}

ClientDistances == {-4096, 30000}
ASSUME SuitableAssumption == Suitable
=============================================================================
