--------------------------- MODULE MCFastBitCopy ---------------------------
(***************************************************************************)
(* FastBitCopy on buffers in which every bit has a name of its own: source *)
(* bit i is i + 1, destination bit j is -(j + 1).  A bit that ends up in   *)
(* the wrong place, or is lost, or comes back, is then seen whatever the   *)
(* contents of the buffers, so one behaviour per call is enough.           *)
(***************************************************************************)
EXTENDS CopyInvariant

MCSrcMem == [i \in 0 .. SrcBits - 1 |-> i + 1]
MCDestMem == [j \in 0 .. DestBits - 1 |-> -(j + 1)]
MCBit == -DestBits .. SrcBits

CallsOf(entries, destBits, srcBits, counts) ==
  {c \in [entry : entries, destBit : destBits, srcBit : srcBits, bitCount : counts] :
     /\ c.entry = "Internal_Unaligned" => c.srcBit < Byte /\ c.destBit < Byte
     /\ c.entry = "Internal_Aligned" => c.srcBit < Byte /\ c.destBit = c.srcBit}

(* Counts around the sizes at which the code takes another branch: a byte, *)
(* two, a 64-bit word, two of them (one iteration of the middle loop) and  *)
(* three (two iterations).                                                 *)
BranchCounts == 1 .. 17 \cup 62 .. 66 \cup 126 .. 137 \cup {145, 191, 192, 193, 199, 200}

(* The fast paths and the original, every pair of phases, and offsets      *)
(* beyond the first byte.                                                  *)
PathCalls ==
  CallsOf({"FastBitCopy"}, 0 .. 7 \cup {8, 13}, 0 .. 7 \cup {10, 16}, BranchCounts)

(* The Internal wrappers, equal phases included.                           *)
InternalCalls ==
  CallsOf({"Internal_Aligned", "Internal_Unaligned"}, 0 .. 7, 0 .. 7,
          {1, 8, 9, 64, 128, 136, 200})

(* The original routine, as FastBitCopy falls back to it.                  *)
OriginalCalls == CallsOf({"OriginalAppBitsCpy"}, 0 .. 8, 0 .. 8, 1 .. 34)

(* Counts on either side of the shipped thresholds.                        *)
ThresholdCalls ==
  CallsOf({"FastBitCopy"}, {0, 1, 4, 7, 9}, {0, 1, 3, 7, 8}, {31, 32, 33, 255, 256, 257, 385})

(* Ranges that end on either side of bit 200, the largest an int can name  *)
(* in the run.                                                             *)
EndCalls == CallsOf({"FastBitCopy"}, {186, 192, 199}, {185, 192}, {7, 8, 9, 14, 16})

AllCalls == PathCalls \cup InternalCalls \cup OriginalCalls \cup EndCalls

(* Copies of no bits.                                                      *)
EmptyCalls == CallsOf({"FastBitCopy"}, 0 .. 17, 0 .. 9, {0})

(* The edge cases of CI/test_main.cpp that are to end the head pass on a   *)
(* byte boundary.                                                          *)
EdgeCalls == CallsOf({"FastBitCopy"}, {5}, {3}, {64, 256, 1024})
=============================================================================
