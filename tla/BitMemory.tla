----------------------------- MODULE BitMemory -----------------------------
(***************************************************************************)
(* Machine words and byte-addressed memory, bit by bit.                    *)
(*                                                                         *)
(* FastBitCopy.cpp only ever moves bits: it loads words, masks them with   *)
(* constants, shifts them by amounts that do not depend on the data, ORs   *)
(* them together and stores them.  A word of w bits is therefore a         *)
(* function from 0..w-1 to bit values (bit 0 is the least significant one, *)
(* as on the little-endian targets the code is compiled for), a memory is  *)
(* a function from bit addresses to bit values, and a mask is the set of   *)
(* the positions it keeps.                                                 *)
(*                                                                         *)
(* Bit values are left abstract: with Bit = {0, 1} these are the machine's *)
(* words; the model checker gives every bit of the two buffers a name of   *)
(* its own, so that one behaviour stands for all 2^n contents.             *)
(***************************************************************************)
EXTENDS Integers

CONSTANTS
  Bit,    (* The values a bit can have.                                    *)
  Zero,   (* The bit that shifts bring in and masks leave behind.          *)
  Mixed   (* What ORing two bits of which neither is Zero leaves: no such  *)
          (* bit may reach memory.                                         *)

ASSUME BitAssumption == Zero \in Bit

(* The number of bits of a byte.                                           *)
Byte == 8

Least(a, b) == IF a < b THEN a ELSE b
Greatest(a, b) == IF a > b THEN a ELSE b

(* The positions of the widest word, uint64.                               *)
Positions == 0 .. 63

(* Mutant of Mask: the right shift takes one bit too many.                 *)
MaskShort(left, right, w) == left .. w - 2 - right

(* (AllOnes << left) & (AllOnes >> right) in a word of w bits.             *)
Mask(left, right, w) == left .. w - 1 - right

(* word & mask and word & ~mask.                                           *)
Keep(word, mask) == [k \in Positions |-> IF k \in mask THEN word[k] ELSE Zero]
Drop(word, mask) == [k \in Positions |-> IF k \in mask THEN Zero ELSE word[k]]

(* A conversion to the unsigned type of w bits.                            *)
Narrow(word, w) == Keep(word, 0 .. w - 1)

(* word << n and word >> n, in 64 bits.                                    *)
ShiftLeft(word, n) == [k \in Positions |-> IF k >= n THEN word[k - n] ELSE Zero]
ShiftRight(word, n) == [k \in Positions |-> IF k + n <= 63 THEN word[k + n] ELSE Zero]

(* u | v, bit by bit.  It also stands for u + v: the code adds only words  *)
(* it takes to have no bit in common, and a bit they do have in common     *)
(* becomes Mixed.                                                          *)
OrBit(a, b) == IF a = Zero THEN b ELSE IF b = Zero THEN a ELSE Mixed
Or(u, v) == [k \in Positions |-> OrBit(u[k], v[k])]

(* (old & ~mask) | bits: the read-modify-write of the boundary bytes.      *)
Merge(old, mask, bits) == Or(Drop(old, mask), bits)

(* The word of w bits in memory m from byte `at` on, and m with the low w  *)
(* bits of a word stored there.                                            *)
Load(m, at, w) == [k \in Positions |-> IF k < w THEN m[Byte * at + k] ELSE Zero]
Store(m, at, word, w) ==
  [j \in DOMAIN m |->
     IF j \in Byte * at .. Byte * at + w - 1 THEN word[j - Byte * at] ELSE m[j]]

(* m with n bytes from byte `from` of memory s at byte `at`: a memcpy.     *)
CopyBytes(m, at, s, from, n) ==
  [j \in DOMAIN m |->
     IF j \in Byte * at .. Byte * (at + n) - 1 THEN s[j - Byte * at + Byte * from] ELSE m[j]]
=============================================================================
