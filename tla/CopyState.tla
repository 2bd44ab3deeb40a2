----------------------------- MODULE CopyState -----------------------------
(***************************************************************************)
(* What the copy routines of FastBitCopy.cpp share: the call being         *)
(* executed, the two buffers, the cursors the code keeps in its            *)
(* parameters, and what a copy has to do to the destination.               *)
(*                                                                         *)
(* A behaviour is one call.  Every store to the destination is a step of   *)
(* its own, because the bits around the destination range belong to        *)
(* somebody else and must be right at every moment, not only at the end.   *)
(***************************************************************************)
EXTENDS BitMemory

CONSTANTS
  Calls,     (* The calls to consider: records as in CallType.             *)
  SrcMem,    (* The source buffer, a memory of SrcBits bits.               *)
  SrcBits,
  DestMem,   (* The destination buffer before the call, of DestBits bits.  *)
  DestBits

(* The functions with external linkage.  The two Internal wrappers exist   *)
(* in builds that define FASTBITCOPY_EXPOSE_INTERNALS.                     *)
Entries == {"FastBitCopy", "OriginalAppBitsCpy", "Internal_Aligned", "Internal_Unaligned"}

CallType == [entry : Entries, destBit : Nat, srcBit : Nat, bitCount : Nat]

(* Callers own the bits they name, the buffers are made of whole bytes,    *)
(* and the Internal wrappers take offsets within the first byte (equal     *)
(* ones for the aligned path).                                             *)
CallsAssumption ==
  /\ Calls \subseteq CallType
  /\ SrcBits \in Nat /\ SrcBits % Byte = 0 /\ SrcMem \in [0 .. SrcBits - 1 -> Bit]
  /\ DestBits \in Nat /\ DestBits % Byte = 0 /\ DestMem \in [0 .. DestBits - 1 -> Bit]
  /\ \A c \in Calls :
       /\ c.srcBit + c.bitCount <= SrcBits
       /\ c.destBit + c.bitCount <= DestBits
       /\ c.entry = "Internal_Unaligned" => c.srcBit < Byte /\ c.destBit < Byte
       /\ c.entry = "Internal_Aligned" => c.srcBit < Byte /\ c.destBit = c.srcBit

ASSUME CallsAssumption

VARIABLES
  pc,            (* The next step of the call.                             *)
  call,          (* The arguments it was made with.                        *)
  mem,           (* The destination buffer.                                *)
  Dest, DestBit, (* The destination cursor: byte, and bit in that byte.    *)
  Src, SrcBit,   (* The source cursor.                                     *)
  BitCount,      (* Bits still to be copied.                               *)
  WordBits,      (* The instance of CopyBitsSrcAligned: 64 or 8.           *)
  LoopCount,     (* Iterations left of the loop being executed.            *)
  ShiftCount,    (* OriginalAppBitsCpyImpl's shift of the source byte.     *)
  RemainingBits, (* Bits of the head pass that go to a second byte.        *)
  Reg,           (* The word carried from one store to the next.           *)
  access         (* The bytes of each buffer the last step touched.        *)

cursors == <<Dest, DestBit, Src, SrcBit, BitCount>>
locals == <<WordBits, LoopCount, ShiftCount, RemainingBits, Reg>>
vars == <<pc, call, mem, cursors, locals, access>>

(* The bytes of a range of n bits from bit b on.                           *)
BytesOf(b, n) == {a \in b \div Byte .. (b + n) \div Byte : a * Byte < b + n /\ (a + 1) * Byte > b}

(* The last step touched these bytes of the source and the destination.    *)
Touch(src, dest) == access' = [src |-> src, dest |-> dest]

(* The bits the call asks for, and the destination once they are there.    *)
Target == call.destBit .. call.destBit + call.bitCount - 1
Final ==
  [j \in 0 .. DestBits - 1 |->
     IF j \in Target THEN SrcMem[call.srcBit + (j - call.destBit)] ELSE DestMem[j]]

(* The state on entry: the parameters, and nothing in the locals.          *)
CallInit ==
  /\ call \in Calls
  /\ pc = call.entry
  /\ mem = DestMem
  /\ Dest = 0 /\ DestBit = call.destBit
  /\ Src = 0 /\ SrcBit = call.srcBit
  /\ BitCount = call.bitCount
  /\ WordBits = 64 /\ LoopCount = 0 /\ ShiftCount = 0 /\ RemainingBits = 0
  /\ Reg = [k \in Positions |-> Zero]
  /\ access = [src |-> {}, dest |-> {}]
=============================================================================
