------------------------ MODULE MCFastBitCopyModule ------------------------
(***************************************************************************)
(* The functions that the plugin is tried on: whether there is a hook to   *)
(* install, whether it can be installed, and what the bytes moved are.     *)
(***************************************************************************)
EXTENDS ModuleInvariant, MCTargets

Arm64Targets ==
  {Arm64(<<Plain64, Sub64, Plain64, Sub64>> \o MoreArm64),
   Arm64(<<Plain64, Sub64, Plain64, Adrp64>> \o MoreArm64),
   Arm64(<<Bne64, Sub64, Plain64, Sub64>> \o MoreArm64),
   Arm64(<<Plain64, Sub64, Sub64, Sub64, Adrp64, Plain64>> \o <<Sub64, Plain64>>)}

(* Prologues whose instructions the decoder measures right, and some with  *)
(* one it does not know: at the start, after 5 bytes, after 14.            *)
Prologues ==
  {<<Endbr64, PushRbp, MovRbpRsp, SubRsp, CmpEsi8>>,
   <<MovSpill, PushR15, SubRsp, CmpEsi8>>,
   <<SubRspLong, SubRspLong>>,
   <<PushRbp, MovRbpRsp, SubRspLong, Vzeroupper4>>,
   <<PushRbp, MovRbpRsp, CmpEsi8, Vzeroupper4, PushRbp>>,
   <<PushRbp, Vzeroupper4, PushRbp>>,
   <<PushRbp, CmpEsi8, JgNear, SubRsp>>,
   <<JmpBack, PushRbp, SubRspLong, JgNear>>}

(* The detour in reach and out of reach, and the end of the page after the *)
(* function or in it, where the 14-byte jump is not extended over it.      *)
SoundTargets ==
  {X64(p \o Body, n, 4096) : p \in Prologues, n \in BOOLEAN}
    \cup {X64(p \o Body, TRUE, r) : p \in Prologues, r \in {1, 3, 5, 6}}
    \cup {X64(<<SubRspLong, SubRspLong>> \o Body, FALSE, r) : r \in {14, 16}}
    \cup Arm64Targets
ASSUME SoundAssumption == \A t \in SoundTargets : WellMeasured(t)

(* Far detours, the end of the page between the bytes first decoded and    *)
(* the last byte of the jump.                                              *)
PageEndTargets ==
  {X64(<<Endbr64, PushRbp, MovRbpRsp, SubRsp, CmpEsi8>> \o Body, FALSE, r) : r \in {5, 8, 12}}

RipTargets == {X64(<<PushRbp, LeaRip, SubRsp>> \o Body, TRUE, 4096)}

ShortTargets == {X64(<<PushRbp, CmpEsi8, JgShort, SubRsp>> \o Body, TRUE, 4096)}

(* mov r8d, 1 has a REX prefix that is not REX.W; lea with an index and no *)
(* base has a SIB byte that announces four bytes more.                     *)
MisreadTargets ==
  {X64(<<PushRbp, MovR8d, SubRsp>> \o Body, TRUE, 4096),
   X64(<<LeaIndex, SubRsp>> \o Body, TRUE, 4096)}

AllBuilds == {"optimized", "fallback", "nohook", "folded"}
MCDistances == {-4096, 50000}
=============================================================================
