---------------------------- MODULE BitCopySpec ----------------------------
(***************************************************************************)
(* What a bit copy promises its caller (Public/FastBitCopy.h), without the *)
(* words, bytes and loops it is made with: each bit of the destination     *)
(* range goes from its old value to the source's, in any order and any     *)
(* grouping, never back; no other bit ever changes; and the call returns,  *)
(* with the whole range copied.                                            *)
(***************************************************************************)
EXTENDS Integers

CONSTANTS
  Bit,      (* The values a bit can have.                                  *)
  Source,   (* The source, a function from bit addresses to bit values.    *)
  Old,      (* The destination before the call, likewise.                  *)
  Requests  (* The copies that may be asked for.                           *)

VARIABLES
  request,  (* The copy: destBit, srcBit and bitCount.                     *)
  buf,      (* The destination.                                            *)
  done      (* The call has returned.                                      *)

vars == <<request, buf, done>>

(* The destination the caller is to find.                                  *)
Owed(j) == j \in request.destBit .. request.destBit + request.bitCount - 1
Copied(j) == Source[request.srcBit + (j - request.destBit)]

Init == request \in Requests /\ buf = Old /\ done = FALSE

(* Any number of the bits owed arrive.                                     *)
Arrive ==
  /\ buf' \in [DOMAIN Old -> Bit]
  /\ \A j \in DOMAIN Old : buf'[j] # buf[j] => Owed(j) /\ buf'[j] = Copied(j)

Write == ~done /\ Arrive /\ UNCHANGED <<request, done>>

(* The last ones arrive, if any are missing, and the call returns.         *)
Return ==
  /\ ~done /\ Arrive /\ done' = TRUE /\ UNCHANGED request
  /\ \A j \in DOMAIN Old : Owed(j) => buf'[j] = Copied(j)

Next == Write \/ Return

Spec == Init /\ [][Next]_vars /\ <>done
=============================================================================
