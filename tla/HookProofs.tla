----------------------------- MODULE HookProofs -----------------------------
(***************************************************************************)
(* The steps of Install and Uninstall keep the invariant of the hook, for  *)
(* every function and every place the OS may put memory at.                *)
(***************************************************************************)
EXTENDS MovedCode, X64Proofs

(* The function stays the one it is.                                       *)
TargetInv == target \in Targets

-----------------------------------------------------------------------------
(* Facts about bytes and pages.                                            *)

LEMMA TargetFacts ==
  ASSUME TargetInv
  PROVE  /\ Size \in Nat /\ Size >= 32
         /\ target.arch = "x64" => \A o \in 0 .. 13 : InstrLen(target.bytes, o) \in 0 .. 15
BY TargetsAssumption DEF TargetInv, TargetsAssumption, IsTarget, Size

LEMMA PristineFacts ==
  ASSUME TargetInv
  PROVE  /\ Pristine \in [0 .. Size - 1 -> CodeByte]
         /\ \A o \in 0 .. Size - 1 : Pristine[o] = "orig"
BY DEF Pristine, Size, CodeByte

(* What the bytes copied from a function that is as it was are.            *)
LEMMA CopyFacts ==
  ASSUME TargetInv, Untouched, NEW n \in 5 .. 28, NEW to \in [Saved -> CodeByte]
  PROVE  /\ Memcpy(to, code, n) \in [Saved -> CodeByte]
         /\ Keeps(Memcpy(to, code, n), n)
<1> DEFINE bytes == Memcpy(to, code, n)
<1>1. bytes = [o \in Saved |-> IF o < n THEN code[o] ELSE to[o]]
  BY DEF Memcpy
<1>2. \A o \in 0 .. 31 : code[o] = "orig"
  BY TargetFacts, PristineFacts DEF Untouched
<1>3. bytes \in [Saved -> CodeByte]
  BY <1>1, <1>2 DEF Saved, CodeByte
<1>4. \A o \in 0 .. n - 1 : bytes[o] = "orig"
  BY <1>1, <1>2 DEF Saved
<1> QED BY <1>3, <1>4 DEF Keeps

LEMMA MemoryFacts ==
  ASSUME AllocExecutable({})
  PROVE  (Tramp' = 0 /\ allocated' = {}) \/ (Tramp' # 0 /\ allocated' = {Tramp'})
BY TargetsAssumption DEF AllocExecutable, TargetsAssumption

(* All that FScopedUnprotect made writable it protects again.              *)
LEMMA ReprotectFacts ==
  ASSUME writable = PagesOf(span), Reprotect
  PROVE  writable' = {}
BY DEF Reprotect

(* Nothing of the jump has been written.                                   *)
LEMMA StartPatching ==
  ASSUME TargetInv, Made', Untouched', target' = target,
         writable' = PagesOf(span)', written' = 0,
         jump' \in Jumps, JumpSize(jump') <= RPatchSize', jump' = "abs16" => RPatchSize' = 16
  PROVE  Patching'
<1>1. Size' = Size /\ Pristine' = Pristine /\ RPatchSize' \in 5 .. 32
  BY DEF Size, Pristine, Made, Keeps
<1>2. code' = Pristine /\ icache' = Pristine
  BY <1>1 DEF Untouched
<1>3. OriginalFrom(RPatchSize)'
  BY <1>1, <1>2, PristineFacts, TargetFacts DEF OriginalFrom
<1>4. \A o \in 0 .. Size' - 1 : code'[o] = IF o < written' THEN Patched'[o] ELSE "orig"
  BY <1>1, <1>2, PristineFacts, TargetFacts
<1>5. written' \in Ends(jump)'
  BY DEF Ends, Jumps
<1>6. icache' = code'
  BY DEF Untouched
<1> QED BY <1>1, <1>3, <1>4, <1>5, <1>6 DEF Patching

-----------------------------------------------------------------------------
(* The installation.                                                       *)

LEMMA InstallX64OK ==
  ASSUME TargetInv, HookInv, InstallX64
  PROVE  HookInv'
<1>1. Clean' /\ pc' = "Decode" /\ target'.arch = "x64"
  BY DEF HookInv, Clean, Untouched, Pristine, InstallX64, hook
<1>2. ROriginal' \in [Saved -> CodeByte] /\ OriginalBytes' \in [Saved -> CodeByte]
  BY DEF HookInv, InstallX64, hook, NewResult, NoBytes, CodeByte
<1>3. Needed' \in {5, 14} /\ Copied' \in 0 .. 28
  BY DEF InstallX64, Rel32Jump
<1> QED BY <1>1, <1>2, <1>3 DEF HookInv, Busy

LEMMA DecodeOK ==
  ASSUME TargetInv, HookInv, Decode
  PROVE  HookInv'
<1>1. Clean' /\ target'.arch = "x64"
  BY DEF HookInv, Clean, Untouched, Pristine, Decode, hook
<1>2. ROriginal' \in [Saved -> CodeByte] /\ OriginalBytes' \in [Saved -> CodeByte]
  BY DEF HookInv, Decode, hook, result
<1>3. pc' \in {"Decode", "Failed"} /\ Needed' \in {5, 14}
  BY DEF HookInv, Decode, Fail, Rel32Jump, MaxNeeded
<1>4. Copied' \in 0 .. 28
  <2>1. Copied \in 0 .. 13
    BY DEF HookInv, Decode
  <2>2. InstrLen(target.bytes, Copied) \in 0 .. 15
    BY <2>1, TargetFacts DEF HookInv, Decode
  <2> QED BY <2>1, <2>2 DEF Decode
<1> QED BY <1>1, <1>2, <1>3, <1>4 DEF HookInv, Busy

LEMMA AllocateOK ==
  ASSUME TargetInv, HookInv, Allocate
  PROVE  HookInv'
<1>1. Clean /\ Needed \in {5, 14} /\ Copied \in 5 .. 28 /\ Needed <= Copied
  BY DEF HookInv, Allocate
<1>2. Untouched' /\ writable' = {} /\ target'.arch = "x64"
  BY <1>1 DEF HookInv, Clean, Untouched, Pristine, Allocate, hook
<1>3. /\ ROriginal' \in [Saved -> CodeByte] /\ OriginalBytes' \in [Saved -> CodeByte]
      /\ RPatchSize' = Copied /\ Keeps(ROriginal', RPatchSize')
  BY <1>1, CopyFacts DEF HookInv, Clean, Allocate, MakeTrampoline, hook
<1>4. CASE Tramp' = 0
  <2>1. Clean' /\ pc' = "Failed"
    BY <1>1, <1>2, <1>4, MemoryFacts DEF Clean, Allocate, MakeTrampoline, Fail
  <2> QED BY <1>2, <1>3, <2>1 DEF HookInv, Busy
<1>5. CASE Tramp' # 0
  <2>1. Made' /\ pc' = "Unprotect"
    BY <1>1, <1>2, <1>3, <1>5, MemoryFacts DEF Made, Clean, Untouched, Allocate, MakeTrampoline
  <2>2. Needed' = Needed /\ Copied' = Copied
    BY DEF Allocate
  <2> QED BY <1>1, <1>2, <1>3, <2>1, <2>2 DEF HookInv, Busy
<1> QED BY <1>4, <1>5

LEMMA UnprotectX64OK ==
  ASSUME TargetInv, HookInv, UnprotectX64
  PROVE  HookInv'
<1>1. /\ Made /\ Untouched /\ writable = {}
      /\ Needed \in {5, 14} /\ RPatchSize = Copied /\ Needed <= Copied /\ Copied \in 5 .. 28
  BY DEF HookInv, UnprotectX64
<1>2. /\ Made' /\ Untouched' /\ target'.arch = "x64"
      /\ RPatchSize' = RPatchSize /\ Copied' = Copied
  BY <1>1 DEF HookInv, Made, Untouched, Pristine, UnprotectX64, hook, result
<1>3. /\ ROriginal' \in [Saved -> CodeByte] /\ OriginalBytes' \in [Saved -> CodeByte]
  BY DEF HookInv, UnprotectX64, hook, result
<1>4. writable' = PagesOf(span)' /\ written' = 0
  BY <1>1 DEF UnprotectX64, Unprotect, PagesOf, Page
<1>5. CASE pc' = "Extend"
  <2>1. jump' = "abs14"
    BY <1>5 DEF UnprotectX64
  <2> QED BY <1>1, <1>2, <1>3, <1>4, <1>5, <2>1 DEF HookInv, Busy
<1>6. CASE pc' = "Patch"
  <2>1. /\ jump' \in Jumps /\ jump' # "abs16" /\ JumpSize(jump') <= RPatchSize
        /\ target' = target
    BY <1>1, <1>6 DEF UnprotectX64, JumpSize, MaxNeeded, Rel32Jump, Jumps
  <2>2. Patching'
    BY <1>1, <1>2, <1>4, <2>1, StartPatching
  <2> QED BY <1>2, <1>3, <1>6, <2>2 DEF HookInv, Busy
<1> QED BY <1>5, <1>6 DEF UnprotectX64

LEMMA ExtendOK ==
  ASSUME TargetInv, HookInv, Extend
  PROVE  HookInv'
<1>1. /\ Made /\ Untouched /\ writable = PagesOf(span)
      /\ Copied \in 5 .. 13 /\ jump = "abs14" /\ written = 0 /\ target.arch = "x64"
  BY DEF HookInv, Extend, MaxNeeded
<1>2. /\ Untouched' /\ target'.arch = "x64"
      /\ RPatchSize' = RPatchSize /\ ROriginal' = ROriginal /\ Tramp' = Tramp
      /\ span' = span /\ jump' = "abs14" /\ written' = 0 /\ target' = target
  BY <1>1 DEF Untouched, Pristine, Extend, hook, result
<1>3. /\ ROriginal' \in [Saved -> CodeByte] /\ OriginalBytes' \in [Saved -> CodeByte]
  BY <1>2 DEF HookInv, Extend, hook
<1> DEFINE n == InstrLen(target.bytes, Copied)
<1>4. n \in 0 .. 15
  BY <1>1, TargetFacts
<1>5. CASE n > 0
  <2>1. Copied' = Copied + n /\ UNCHANGED <<pc, writable, allocated>>
    BY <1>5 DEF Extend
  <2>2. Made' /\ Copied' \in 5 .. 28 /\ pc' = "Extend"
    BY <1>1, <1>2, <1>4, <2>1 DEF Made, Untouched, Extend
  <2>3. writable' = PagesOf(span)'
    BY <1>1, <1>2, <2>1 DEF PagesOf, Page
  <2> QED BY <1>2, <1>3, <2>2, <2>3 DEF HookInv, Busy
<1>6. CASE ~(n > 0)
  <2>1. pc' = "Failed" /\ Reprotect /\ allocated' = allocated \ {Tramp}
    BY <1>6 DEF Extend, Fail
  <2>2. Clean'
    BY <1>1, <1>2, <2>1, ReprotectFacts DEF Clean, Made
  <2> QED BY <1>2, <1>3, <2>1, <2>2 DEF HookInv, Busy
<1> QED BY <1>5, <1>6

LEMMA ReallocateOK ==
  ASSUME TargetInv, HookInv, Reallocate
  PROVE  HookInv'
<1>1. /\ Made /\ Untouched /\ writable = PagesOf(span)
      /\ Copied \in 14 .. 28 /\ jump = "abs14" /\ written = 0
  BY DEF HookInv, Reallocate, MaxNeeded
<1>2. /\ Untouched' /\ target' = target
      /\ span' = span /\ jump' = "abs14" /\ written' = 0
  BY <1>1 DEF Untouched, Pristine, Reallocate, hook
<1>3. /\ ROriginal' \in [Saved -> CodeByte] /\ OriginalBytes' \in [Saved -> CodeByte]
      /\ RPatchSize' = Copied /\ Keeps(ROriginal', RPatchSize')
  BY <1>1, CopyFacts DEF HookInv, Reallocate, MakeTrampoline, hook
<1>4. allocated \ {Tramp} = {}
  BY <1>1 DEF Made
<1>5. (Tramp' = 0 /\ allocated' = {}) \/ (Tramp' # 0 /\ allocated' = {Tramp'})
  BY <1>4, MemoryFacts DEF Reallocate, MakeTrampoline
<1>6. CASE Tramp' = 0
  <2>1. pc' = "Failed" /\ Reprotect
    BY <1>6 DEF Reallocate, Fail
  <2>2. Clean'
    BY <1>1, <1>2, <1>5, <1>6, <2>1, ReprotectFacts DEF Clean
  <2> QED BY <1>2, <1>3, <2>1, <2>2 DEF HookInv, Busy
<1>7. CASE Tramp' # 0
  <2>1. pc' = "Patch" /\ writable' = writable
    BY <1>7 DEF Reallocate
  <2>2. Made'
    BY <1>2, <1>3, <1>5, <1>7 DEF Made, Untouched
  <2>3. writable' = PagesOf(span)'
    BY <1>1, <1>2, <2>1 DEF PagesOf, Page
  <2>4. jump' \in Jumps /\ JumpSize(jump') <= RPatchSize'
    BY <1>1, <1>2, <1>3 DEF Jumps, JumpSize
  <2>5. Patching'
    BY <1>2, <2>2, <2>3, <2>4, StartPatching
  <2> QED BY <1>2, <1>3, <2>1, <2>5 DEF HookInv, Busy
<1> QED BY <1>6, <1>7

LEMMA InstallArm64OK ==
  ASSUME TargetInv, HookInv, InstallArm64
  PROVE  HookInv'
<1>1. Clean
  BY DEF HookInv, InstallArm64
<1>2. /\ Untouched' /\ writable' = {}
      /\ OriginalBytes' \in [Saved -> CodeByte]
  BY <1>1 DEF HookInv, Clean, Untouched, Pristine, InstallArm64, hook
<1> DEFINE relocatable == \A i \in 1 .. kPatch \div 4 : IsRelocatableInsn(target.words[i])
<1>3. CASE relocatable
  <2>1. /\ RPatchSize' = 16 /\ ROriginal' = Memcpy(NoBytes, code, 16)
        /\ AllocExecutable({}) /\ IF Tramp' = 0 THEN Fail ELSE pc' = "UnprotectArm64"
    BY <1>1, <1>3 DEF InstallArm64, kPatch, Clean
  <2>2. NoBytes \in [Saved -> CodeByte]
    BY DEF NoBytes, CodeByte
  <2>3. ROriginal' \in [Saved -> CodeByte] /\ Keeps(ROriginal', RPatchSize')
    BY <1>1, <2>1, <2>2, CopyFacts DEF Clean
  <2>4. CASE Tramp' = 0
    <3>1. Clean' /\ pc' = "Failed"
      BY <1>2, <2>1, <2>4, MemoryFacts DEF Clean, Fail
    <3> QED BY <1>2, <2>3, <3>1 DEF HookInv, Busy
  <2>5. CASE Tramp' # 0
    <3>1. Made' /\ pc' = "UnprotectArm64"
      BY <1>2, <2>1, <2>3, <2>5, MemoryFacts DEF Made, Untouched
    <3> QED BY <1>2, <2>1, <2>3, <3>1 DEF HookInv, Busy
  <2> QED BY <2>4, <2>5
<1>4. CASE ~relocatable
  <2>1. pc' = "Failed" /\ ROriginal' = NoBytes /\ allocated' = allocated
    BY <1>4 DEF InstallArm64, Fail, NewResult
  <2>2. Clean' /\ ROriginal' \in [Saved -> CodeByte]
    BY <1>1, <1>2, <2>1 DEF Clean, NoBytes, CodeByte
  <2> QED BY <1>2, <2>1, <2>2 DEF HookInv, Busy
<1> QED BY <1>3, <1>4

LEMMA UnprotectArm64OK ==
  ASSUME TargetInv, HookInv, UnprotectArm64
  PROVE  HookInv'
<1>1. Made /\ Untouched /\ writable = {} /\ RPatchSize = 16
  BY DEF HookInv, UnprotectArm64
<1>2. /\ Made' /\ Untouched' /\ RPatchSize' = 16 /\ target' = target
      /\ ROriginal' \in [Saved -> CodeByte] /\ OriginalBytes' \in [Saved -> CodeByte]
  BY <1>1 DEF HookInv, Made, Untouched, Pristine, UnprotectArm64, hook, result
<1>3. /\ writable' = PagesOf(span)' /\ written' = 0 /\ jump' = "abs16" /\ pc' = "Patch"
  BY <1>1 DEF UnprotectArm64, Unprotect, PagesOf, Page
<1>4. jump' \in Jumps /\ JumpSize(jump') <= RPatchSize'
  BY <1>2, <1>3 DEF Jumps, JumpSize
<1>5. Patching'
  BY <1>2, <1>3, <1>4, StartPatching
<1> QED BY <1>2, <1>3, <1>5 DEF HookInv, Busy

(* A store of the jump ends where another begins.                          *)
LEMMA NextStoreFacts ==
  ASSUME Patching, written < RPatchSize
  PROVE  /\ written \in 0 .. 31 /\ NextStore \in Ends(jump)
         /\ written < NextStore /\ NextStore <= RPatchSize /\ RPatchSize \in 5 .. 32
<1>1. RPatchSize \in 5 .. 32 /\ jump \in Jumps /\ written \in Ends(jump)
  BY DEF Patching, Made, Keeps
<1>2. CASE jump = "rel32"
  BY <1>1, <1>2 DEF Ends, NextStore
<1>3. CASE jump = "abs14"
  BY <1>1, <1>3 DEF Patching, JumpSize, Ends, NextStore
<1>4. CASE jump = "abs16"
  BY <1>1, <1>4 DEF Patching, Ends, NextStore
<1> QED BY <1>1, <1>2, <1>3, <1>4 DEF Jumps

LEMMA PatchOK ==
  ASSUME TargetInv, HookInv, Patch
  PROVE  HookInv'
<1>1. Patching /\ written < RPatchSize
  BY DEF HookInv, Patch
<1>2. /\ target' = target /\ writable' = writable /\ allocated' = allocated /\ jump' = jump
      /\ span' = span /\ RPatchSize' = RPatchSize /\ ROriginal' = ROriginal /\ Tramp' = Tramp
      /\ bInstalled' = bInstalled /\ OriginalBytes' = OriginalBytes
     
  BY <1>1 DEF Patch, hook, result
<1>3. CASE pc' = "Crashed"
  BY <1>2, <1>3 DEF HookInv, Busy
<1>4. CASE pc' # "Crashed"
  <2>1. /\ code' = [o \in DOMAIN code |->
                     IF o \in written .. NextStore - 1 THEN Patched[o] ELSE code[o]]
        /\ icache' = code' \/ icache' = icache
        /\ written' = NextStore /\ pc' = "Patch"
    BY <1>1, <1>4 DEF Patch, StoreBytes
  <2>2. /\ written' \in Ends(jump) /\ written' <= RPatchSize
        /\ written \in 0 .. 31 /\ written < written' /\ RPatchSize \in 5 .. 32
    BY <1>1, <2>1, NextStoreFacts
  <2>3. /\ DOMAIN code = 0 .. Size - 1 /\ Patched' = Patched /\ Size' = Size /\ Size \in Nat
        /\ Size >= 32
    BY <1>1, <1>2, TargetFacts DEF Patching, OriginalFrom, Patched, Size
  <2>4. \A o \in 0 .. 31 : Patched[o] \in CodeByte
    BY <1>1 DEF Patched, Saved, Patching, CodeByte
  <2>5. \A o \in 0 .. Size - 1 : code'[o] = IF o < written' THEN Patched[o] ELSE "orig"
    <3> TAKE o \in 0 .. Size - 1
    <3>1. code[o] = IF o < written THEN Patched[o] ELSE "orig"
      BY <1>1 DEF Patching
    <3>2. written' \in Int
      BY <1>1, <2>1, NextStoreFacts DEF Patching, Ends, Jumps
    <3> QED BY <2>1, <2>2, <2>3, <3>1, <3>2
  <2>6. OriginalFrom(RPatchSize)'
    <3>1. written' \in 0 .. 32
      BY <1>1, <2>1, <2>2, NextStoreFacts DEF Patching, Ends, Jumps
    <3>2. code' \in [0 .. Size - 1 -> CodeByte]
      <4>1. \A o \in 0 .. Size - 1 : code'[o] \in CodeByte
        <5> TAKE o \in 0 .. Size - 1
        <5>1. code'[o] = IF o < written' THEN Patched[o] ELSE "orig"
          BY <2>5
        <5>2. o < written' => o \in 0 .. 31
          BY <2>3, <3>1
        <5> QED BY <2>4, <5>1, <5>2 DEF CodeByte
      <4>2. code' = [o \in 0 .. Size - 1 |-> code'[o]]
        BY <2>1, <2>3
      <4> QED BY <4>1, <4>2
    <3>3. \A o \in RPatchSize .. Size - 1 : code'[o] = "orig"
      BY <2>2, <2>3, <2>5, <3>1
    <3>4. /\ icache' \in [0 .. Size - 1 -> CodeByte]
          /\ \A o \in RPatchSize .. Size - 1 : icache'[o] = "orig"
      BY <1>1, <2>1, <3>2, <3>3 DEF Patching, OriginalFrom
    <3> QED BY <1>2, <2>3, <3>2, <3>3, <3>4 DEF OriginalFrom
  <2>7. Made' /\ writable' = PagesOf(span)'
    BY <1>1, <1>2 DEF Patching, Made, PagesOf, Page
  <2>8. Patching'
    BY <1>1, <1>2, <2>2, <2>3, <2>5, <2>6, <2>7 DEF Patching
  <2> QED BY <1>2, <2>1, <2>8 DEF HookInv, Busy
<1> QED BY <1>3, <1>4

(* The cache is flushed of all that was written.                           *)
LEMMA FlushFacts ==
  ASSUME TargetInv, NEW n \in 0 .. 32, OriginalFrom(n), Flush(n)
  PROVE  icache' = code
<1>1. /\ DOMAIN icache = 0 .. Size - 1 /\ Size \in Nat
      /\ code = [o \in 0 .. Size - 1 |-> code[o]]
  BY TargetFacts DEF OriginalFrom
<1>2. icache' = [o \in 0 .. Size - 1 |-> IF o < n THEN code[o] ELSE icache[o]]
  BY <1>1 DEF Flush
<1>3. \A o \in 0 .. Size - 1 : ~(o < n) => icache[o] = code[o]
  <2> TAKE o \in 0 .. Size - 1
  <2> HAVE ~(o < n)
  <2>1. Size \in Nat
    BY TargetFacts
  <2>2. o \in n .. Size - 1
    BY <2>1
  <2> QED BY <2>2 DEF OriginalFrom
<1>4. \A o \in 0 .. Size - 1 : (IF o < n THEN code[o] ELSE icache[o]) = code[o]
  BY <1>3
<1> QED BY <1>1, <1>2, <1>4

LEMMA PublishOK ==
  ASSUME TargetInv, HookInv, Publish
  PROVE  HookInv'
<1>1. Patching
  BY DEF HookInv, Publish
<1>2. /\ RPatchSize \in 5 .. 32 /\ written = RPatchSize /\ jump \in Jumps
      /\ JumpSize(jump) <= RPatchSize /\ JumpSize(jump) \in Nat /\ Size \in Nat /\ Size >= 32
  <2>1. RPatchSize \in 5 .. 32 /\ jump \in Jumps /\ JumpSize(jump) <= RPatchSize
    BY <1>1 DEF Patching, Made, Keeps
  <2>2. written \in Nat /\ written <= RPatchSize /\ written >= RPatchSize
    BY <1>1, <2>1 DEF Patching, Ends, Jumps, Publish
  <2> QED BY <2>1, <2>2, TargetFacts DEF Jumps, JumpSize
<1>3. /\ bInstalled' /\ PatchSize' = RPatchSize /\ TrampolineMem' = Tramp
      /\ OriginalBytes' = Memcpy(OriginalBytes, ROriginal, RPatchSize)
      /\ ROriginal' = ROriginal /\ target' = target /\ code' = code /\ allocated' = allocated
      /\ pc' = "Installed" /\ Size' = Size
  BY <1>1 DEF Publish, locals, result, Size
<1>4. writable' = {}
  BY <1>1, ReprotectFacts DEF Patching, Publish
<1>5. icache' = code'
  BY <1>1, <1>2, <1>3, FlushFacts DEF Patching, Publish
<1>6. OriginalBytes' \in [Saved -> CodeByte] /\ Keeps(OriginalBytes, PatchSize)'
  BY <1>1, <1>2, <1>3 DEF HookInv, Patching, Made, Keeps, Memcpy, Saved
<1>7. OriginalFrom(PatchSize)'
  BY <1>1, <1>3, <1>5 DEF Patching, OriginalFrom
<1>8. Held'
  BY <1>1, <1>3, <1>6, <1>7 DEF Held, Patching, Made
<1>9. JumpAt0(jump)'
  <2>1. \A o \in 0 .. JumpSize(jump) - 1 : code[o] = jump
    <3> TAKE o \in 0 .. JumpSize(jump) - 1
    <3>1. o \in 0 .. 31 /\ o \in 0 .. Size - 1 /\ o < written /\ o < JumpSize(jump)
      BY <1>2
    <3>2. code[o] = Patched[o]
      BY <1>1, <3>1 DEF Patching
    <3>3. Patched[o] = jump
      BY <3>1 DEF Patched, Saved
    <3> QED BY <3>2, <3>3
  <2>2. jump' = jump
    BY DEF Publish, locals
  <2> QED BY <1>3, <2>1, <2>2 DEF JumpAt0, WholeJump
<1>10. Hooked'
  <2>1. jump' = jump
    BY DEF Publish, locals
  <2> QED BY <1>2, <1>3, <1>4, <1>5, <1>8, <1>9, <2>1 DEF Hooked, JumpSize
<1> QED BY <1>3, <1>6, <1>10 DEF HookInv, Busy

-----------------------------------------------------------------------------
(* The reversal.                                                           *)

LEMMA UninstallOK ==
  ASSUME TargetInv, HookInv, Uninstall
  PROVE  HookInv'
<1>0. CASE ~bInstalled
  <2>1. Clean /\ pc' = "Uninstalled"
    BY <1>0 DEF HookInv, Busy, Uninstall, Hooked, Held
  <2>2. UNCHANGED <<target, code, icache, writable, allocated, hook, ROriginal>>
    BY <1>0 DEF Uninstall, result
  <2>3. Clean' /\ OriginalBytes' \in [Saved -> CodeByte] /\ ROriginal' \in [Saved -> CodeByte]
    BY <2>1, <2>2 DEF HookInv, Clean, Untouched, Pristine, hook
  <2> QED BY <2>1, <2>3 DEF HookInv, Busy
<1> SUFFICES ASSUME bInstalled PROVE HookInv'
  BY <1>0
<1>1. Hooked
  BY DEF HookInv, Busy, Uninstall, Clean, Untouched
<1>2. /\ pc' = "Restore" /\ written' = 0 /\ span' = PatchSize /\ Unprotect(PatchSize)
      /\ target' = target /\ code' = code /\ icache' = icache /\ allocated' = allocated
      /\ UNCHANGED <<bInstalled, PatchSize, OriginalBytes, TrampolineMem, ROriginal>>
  BY <1>1 DEF Uninstall, Unprotect, hook, result
<1>3. Held'
  BY <1>1, <1>2 DEF Hooked, Held, Keeps, OriginalFrom, Size
<1>4. writable' = PagesOf(span)'
  BY <1>1, <1>2 DEF Hooked, Unprotect, PagesOf, Page
<1>5. icache' = code' /\ \E form \in Jumps : JumpAt0(form)'
  BY <1>1, <1>2 DEF Hooked, JumpAt0, WholeJump
<1>6. PatchSize' \in 5 .. 32
  BY <1>3 DEF Held, Keeps
<1>7. Restoring'
  BY <1>2, <1>3, <1>4, <1>5, <1>6 DEF Restoring
<1> QED BY <1>2, <1>7 DEF HookInv, Busy

LEMMA RestoreOK ==
  ASSUME TargetInv, HookInv, Restore
  PROVE  HookInv'
<1>1. Restoring
  BY DEF HookInv, Restore
<1>2. PatchSize \in 5 .. 32 /\ written \in 0 .. 31 /\ written < PatchSize /\ Size \in Nat
  BY <1>1, TargetFacts DEF Restoring, Held, Keeps, Restore
<1>3. /\ target' = target /\ writable' = writable /\ allocated' = allocated /\ span' = span
      /\ UNCHANGED <<bInstalled, PatchSize, OriginalBytes, TrampolineMem, ROriginal>>
  BY DEF Restore, hook, result
<1>4. PICK to \in written + 1 .. PatchSize : StoreBytes(written, to, OriginalBytes)
  BY DEF Restore
<1>5. CASE pc' = "Crashed"
  BY <1>3, <1>5 DEF HookInv, Busy
<1>6. CASE pc' # "Crashed"
  <2>1. /\ code' = [o \in DOMAIN code |->
                     IF o \in written .. to - 1 THEN OriginalBytes[o] ELSE code[o]]
        /\ icache' = code' \/ icache' = icache
        /\ written' = to /\ pc' = pc
    BY <1>4, <1>6 DEF StoreBytes
  <2>2. \A o \in 0 .. PatchSize - 1 : OriginalBytes[o] = "orig"
    BY <1>1 DEF Restoring, Held, Keeps
  <2>3. /\ code \in [0 .. Size - 1 -> CodeByte] /\ icache \in [0 .. Size - 1 -> CodeByte]
        /\ \A o \in PatchSize .. Size - 1 : code[o] = "orig" /\ icache[o] = "orig"
        /\ \A o \in 0 .. written - 1 : code[o] = "orig"
    BY <1>1 DEF Restoring, Held, OriginalFrom
  <2>4. /\ code' \in [0 .. Size - 1 -> CodeByte]
        /\ \A o \in PatchSize .. Size - 1 : code'[o] = "orig"
        /\ \A o \in 0 .. to - 1 : o < Size => code'[o] = "orig"
    <3>1. \A o \in 0 .. Size - 1 :
            code'[o] = IF o \in written .. to - 1 THEN OriginalBytes[o] ELSE code[o]
      BY <2>1, <2>3
    <3>2. \A o \in written .. to - 1 : OriginalBytes[o] = "orig"
      BY <1>2, <2>2
    <3>3. \A o \in 0 .. Size - 1 : code'[o] \in CodeByte
      BY <2>3, <3>1, <3>2 DEF CodeByte
    <3>4. code' = [o \in 0 .. Size - 1 |-> code'[o]]
      BY <2>1, <2>3
    <3>5. \A o \in PatchSize .. Size - 1 : code'[o] = "orig"
      BY <1>2, <2>3, <3>1
    <3>6. \A o \in 0 .. to - 1 : o < Size => code'[o] = "orig"
      BY <1>2, <2>3, <3>1, <3>2
    <3> QED BY <3>3, <3>4, <3>5, <3>6
  <2>5. OriginalFrom(PatchSize)'
    BY <1>3, <2>1, <2>3, <2>4 DEF OriginalFrom, Size
  <2>6. Held'
    BY <1>1, <1>3, <2>5 DEF Restoring, Held, Keeps
  <2>7. \A o \in 0 .. written' - 1 : code'[o] = "orig"
    <3> TAKE o \in 0 .. written' - 1
    <3>1. Size \in Nat /\ Size >= 32
      BY TargetFacts
    <3>2. written' = to
      BY <2>1
    <3>3. o \in 0 .. to - 1 /\ o < Size
      BY <1>2, <3>1, <3>2
    <3> QED BY <2>4, <3>3
  <2>8. writable' = PagesOf(span)' /\ span' = PatchSize'
    BY <1>1, <1>3 DEF Restoring, PagesOf, Page
  <2>9. written' \in 0 .. PatchSize' /\ written' # 0
    BY <1>2, <1>3, <2>1
  <2>10. Restoring'
    BY <2>6, <2>7, <2>8, <2>9 DEF Restoring
  <2> QED BY <1>3, <2>1, <2>10 DEF HookInv, Busy, Restore
<1> QED BY <1>5, <1>6

LEMMA ReleaseOK ==
  ASSUME TargetInv, HookInv, Release
  PROVE  HookInv'
<1>1. Restoring /\ written = PatchSize
  BY DEF HookInv, Release
<1>2. PatchSize \in 5 .. 32 /\ Size \in Nat
  BY <1>1, TargetFacts DEF Restoring, Held, Keeps
<1>3. /\ target' = target /\ code' = code /\ ~bInstalled' /\ pc' = "Uninstalled"
      /\ UNCHANGED <<OriginalBytes, ROriginal>>
  BY DEF Release, locals, result
<1>4. writable' = {} /\ allocated' = {}
  BY <1>1, ReprotectFacts DEF Release, Restoring, Held
<1>5. code = Pristine
  <2>1. code \in [0 .. Size - 1 -> CodeByte]
    BY <1>1 DEF Restoring, Held, OriginalFrom
  <2>2. \A o \in 0 .. Size - 1 : code[o] = "orig"
    BY <1>1, <1>2 DEF Restoring, Held, OriginalFrom
  <2> QED BY <2>1, <2>2 DEF Pristine, Size
<1>6. icache' = code
  BY <1>1, <1>2, FlushFacts DEF Restoring, Held, Release
<1>7. Clean'
  BY <1>3, <1>4, <1>5, <1>6 DEF Clean, Untouched, Pristine
<1> QED BY <1>3, <1>7 DEF HookInv, Busy

-----------------------------------------------------------------------------
(* Whatever is done between two calls of FFunctionHook leaves it alone.    *)

ButPc == UNCHANGED <<target, code, icache, writable, allocated, hook, locals>>

LEMMA SameFacts ==
  ASSUME HookInv, ButPc
  PROVE  /\ Clean' = Clean /\ Hooked' = Hooked
         /\ OriginalBytes' \in [Saved -> CodeByte] /\ ROriginal' \in [Saved -> CodeByte]
         /\ bInstalled' = bInstalled /\ PatchSize' = PatchSize /\ target' = target
         /\ TrampolineMem' = TrampolineMem /\ allocated' = allocated
BY DEF HookInv, ButPc, hook, locals, result, Clean, Untouched, Pristine, Hooked, Held, Keeps,
       OriginalFrom, JumpAt0, WholeJump, Size

(* A call begins or ends.                                                  *)
LEMMA BetweenOK ==
  ASSUME HookInv, ButPc, pc \notin Busy \ {"Installed", "Uninstalled"},
         pc' \notin Busy \/ (Clean /\ pc' \in {"Install", "Uninstalled"})
  PROVE  HookInv'
<1>1. Clean \/ Hooked
  BY DEF HookInv, Busy
<1> QED BY <1>1, SameFacts DEF HookInv, Busy

LEMMA SameOK ==
  ASSUME HookInv, UNCHANGED hookVars
  PROVE  HookInv'
<1>1. ButPc /\ pc' = pc
  BY DEF hookVars, ButPc
<1>2. /\ Untouched' = Untouched /\ Made' = Made /\ Patching' = Patching /\ Restoring' = Restoring
      /\ PagesOf(span)' = PagesOf(span)
  BY <1>1 DEF ButPc, hook, locals, result, Untouched, Pristine, Made, Keeps, Patching, Patched,
     OriginalFrom, Held, Restoring, JumpAt0, WholeJump, Size, PagesOf, Page, Ends
<1>3. /\ target' = target /\ writable' = writable /\ Needed' = Needed /\ Copied' = Copied
      /\ RPatchSize' = RPatchSize /\ jump' = jump /\ written' = written
  BY <1>1 DEF ButPc, locals, result
<1> QED BY <1>1, <1>2, <1>3, SameFacts DEF HookInv

(* The hook is away, being made, there, or being taken off.                *)
LEMMA Stages ==
  ASSUME HookInv, pc # "Crashed"
  PROVE  \/ ~bInstalled /\ Untouched /\ pc \notin {"Patch", "Restore"}
         \/ ~bInstalled /\ Patching /\ pc = "Patch"
         \/ bInstalled /\ Hooked /\ pc \notin {"Patch", "Restore"}
         \/ bInstalled /\ Restoring /\ pc = "Restore"
<1>1. CASE pc \notin Busy
  BY <1>1 DEF HookInv, Busy, Clean, Untouched, Hooked, Held
<1>2. CASE pc \in Busy
  BY <1>2 DEF HookInv, Busy, Clean, Untouched, Made, Patching, Hooked, Held, Restoring
<1> QED BY <1>1, <1>2

-----------------------------------------------------------------------------
(* All steps together.                                                     *)

LEMMA HookInitOK ==
  ASSUME HookInit, pc \notin Busy
  PROVE  TargetInv /\ HookInv
<1>1. Clean
  BY DEF HookInit, Clean, Untouched
<1>2. OriginalBytes \in [Saved -> CodeByte] /\ ROriginal \in [Saved -> CodeByte]
  BY DEF HookInit, NoBytes, CodeByte
<1> QED BY <1>1, <1>2 DEF TargetInv, HookInv, Busy, HookInit

LEMMA HookStepOK ==
  ASSUME TargetInv, HookInv, HookStep
  PROVE  TargetInv' /\ HookInv'
<1>1. target' = target
  BY DEF HookStep, NextX64, InstallX64, Decode, Allocate, UnprotectX64, Extend, Reallocate,
     NextArm64, InstallArm64, UnprotectArm64, Patch, Publish, Uninstall, Restore, Release
<1>2. HookInv'
  BY InstallX64OK, DecodeOK, AllocateOK, UnprotectX64OK, ExtendOK, ReallocateOK,
     InstallArm64OK, UnprotectArm64OK, PatchOK, PublishOK, UninstallOK, RestoreOK, ReleaseOK
  DEF HookStep, NextX64, NextArm64
<1> QED BY <1>1, <1>2 DEF TargetInv

-----------------------------------------------------------------------------
(* The types, in three parts.                                              *)
CodeTypes == code \in [0 .. Size - 1 -> CodeByte] /\ icache \in [0 .. Size - 1 -> CodeByte]
FieldTypes ==
  /\ writable \subseteq {0, 1} /\ allocated \subseteq Distances
  /\ bInstalled \in BOOLEAN /\ PatchSize \in 0 .. 28 /\ TrampolineMem \in Distances \cup {0}
LocalTypes ==
  /\ RPatchSize \in 0 .. 28 /\ Tramp \in Distances \cup {0}
  /\ Needed \in {0, 5, 14} /\ Copied \in Nat /\ jump \in Jumps
  /\ written \in 0 .. 32 /\ span \in 0 .. 32

LEMMA PageTypes ==
  ASSUME writable \subseteq {0, 1}
  PROVE  /\ \A n : Unprotect(n) => writable' \subseteq {0, 1}
         /\ Reprotect => writable' \subseteq {0, 1}
BY DEF Unprotect, Reprotect, PagesOf, Page

LEMMA AllocTypes ==
  ASSUME NEW kept, kept \subseteq Distances, AllocExecutable(kept)
  PROVE  allocated' \subseteq Distances /\ Tramp' \in Distances \cup {0}
BY DEF AllocExecutable

LEMMA StoreTypes ==
  ASSUME CodeTypes, target' = target, NEW from \in 0 .. 32, NEW to \in 0 .. 32, NEW bytes,
         \A o \in Saved : bytes[o] \in CodeByte, StoreBytes(from, to, bytes), written \in 0 .. 32
  PROVE  CodeTypes' /\ written' \in 0 .. 32
<1>1. CASE UNCHANGED <<code, icache, written>>
  BY <1>1 DEF CodeTypes, Size
<1>2. CASE /\ code' = [o \in DOMAIN code |-> IF o \in from .. to - 1 THEN bytes[o] ELSE code[o]]
           /\ icache' = code' \/ icache' = icache
           /\ written' = to
  <2>1. \A o \in from .. to - 1 : o \in Saved
    BY DEF Saved
  <2>2. code' \in [0 .. Size - 1 -> CodeByte]
    BY <1>2, <2>1 DEF CodeTypes
  <2> QED BY <1>2, <2>2 DEF CodeTypes, Size
<1> QED BY <1>1, <1>2 DEF StoreBytes

LEMMA FlushTypes ==
  ASSUME CodeTypes, UNCHANGED <<target, code>>, NEW n, Flush(n)
  PROVE  CodeTypes'
<1>1. icache' \in [0 .. Size - 1 -> CodeByte]
  BY DEF CodeTypes, Flush
<1> QED BY <1>1 DEF CodeTypes, Size

LEMMA HookTypesOK ==
  ASSUME TargetInv, HookInv, HookTypeOK, HookStep
  PROVE  HookTypeOK'
<1>1. CodeTypes /\ FieldTypes /\ LocalTypes
  BY DEF HookTypeOK, CodeTypes, FieldTypes, LocalTypes, Size
<1>2. OriginalBytes' \in [Saved -> CodeByte] /\ ROriginal' \in [Saved -> CodeByte]
  BY HookStepOK DEF HookInv
<1>3. CodeTypes' /\ FieldTypes' /\ LocalTypes'
  <2>1. CASE InstallX64
    BY <1>1, <2>1 DEF CodeTypes, FieldTypes, LocalTypes, Size, InstallX64, NewResult, hook, Rel32Jump
  <2>2. CASE Decode
    <3>1. Copied' \in Nat
      <4>1. Copied \in 0 .. 13 /\ target.arch = "x64"
        BY <2>2 DEF HookInv, Decode
      <4>2. InstrLen(target.bytes, Copied) \in 0 .. 15
        BY <4>1, TargetFacts
      <4> QED BY <2>2, <4>1, <4>2 DEF Decode
    <3> QED BY <1>1, <2>2, <3>1 DEF CodeTypes, FieldTypes, LocalTypes, Size, Decode, hook, result,
             Rel32Jump, MaxNeeded
  <2>3. CASE Allocate
    <3>1. Copied \in 0 .. 28 /\ AllocExecutable(allocated) /\ RPatchSize' = Copied
      BY <2>3 DEF HookInv, Allocate, MakeTrampoline
    <3>2. allocated' \subseteq Distances /\ Tramp' \in Distances \cup {0}
      BY <1>1, <3>1, AllocTypes DEF FieldTypes
    <3> QED BY <1>1, <2>3, <3>1, <3>2 DEF CodeTypes, FieldTypes, LocalTypes, Size, Allocate, hook
  <2>4. CASE UnprotectX64
    <3>1. writable' \subseteq {0, 1} /\ span' \in 0 .. 32
      BY <1>1, <2>4, PageTypes DEF FieldTypes, LocalTypes, UnprotectX64, Unprotect
    <3> QED BY <1>1, <2>4, <3>1 DEF CodeTypes, FieldTypes, LocalTypes, Size, UnprotectX64, hook,
             result, Jumps
  <2>5. CASE Extend
    <3>1. Copied' \in Nat
      <4>1. Copied \in 5 .. 13 /\ target.arch = "x64"
        BY <2>5 DEF HookInv, Extend, MaxNeeded
      <4>2. InstrLen(target.bytes, Copied) \in 0 .. 15
        BY <4>1, TargetFacts
      <4> QED BY <2>5, <4>1, <4>2 DEF Extend
    <3>2. writable' \subseteq {0, 1} /\ allocated' \subseteq Distances
      BY <1>1, <2>5, PageTypes DEF FieldTypes, Extend
    <3> QED BY <1>1, <2>5, <3>1, <3>2 DEF CodeTypes, FieldTypes, LocalTypes, Size, Extend, hook, result
  <2>6. CASE Reallocate
    <3>1. /\ Copied \in 5 .. 28 /\ RPatchSize' = Copied
          /\ AllocExecutable(allocated \ {Tramp})
      BY <2>6 DEF HookInv, Reallocate, MakeTrampoline
    <3>2. allocated' \subseteq Distances /\ Tramp' \in Distances \cup {0}
      <4>1. allocated \ {Tramp} \subseteq Distances
        BY <1>1 DEF FieldTypes
      <4> QED BY <3>1, <4>1, AllocTypes
    <3>3. writable' \subseteq {0, 1}
      BY <1>1, <2>6, PageTypes DEF FieldTypes, Reallocate
    <3> QED BY <1>1, <2>6, <3>1, <3>2, <3>3 DEF CodeTypes, FieldTypes, LocalTypes, Size, Reallocate, hook
  <2>7. CASE InstallArm64
    <3>1. /\ RPatchSize' \in 0 .. 28
          /\ AllocExecutable(allocated) \/ (Tramp' = 0 /\ allocated' = allocated)
      BY <2>7 DEF InstallArm64, kPatch, NewResult
    <3>2. allocated' \subseteq Distances /\ Tramp' \in Distances \cup {0}
      BY <1>1, <3>1, AllocTypes DEF FieldTypes
    <3> QED BY <1>1, <2>7, <3>1, <3>2 DEF CodeTypes, FieldTypes, LocalTypes, Size, InstallArm64, hook
  <2>8. CASE UnprotectArm64
    <3>1. writable' \subseteq {0, 1} /\ span' \in 0 .. 32
      BY <1>1, <2>8, PageTypes DEF FieldTypes, UnprotectArm64, Unprotect, kPatch
    <3> QED BY <1>1, <2>8, <3>1 DEF CodeTypes, FieldTypes, LocalTypes, Size, UnprotectArm64, hook,
             result, Jumps
  <2>9. CASE Patch
    <3>1. NextStore \in 0 .. 32 /\ written \in 0 .. 32
      BY <2>9, NextStoreFacts DEF HookInv, Patch, Patching, Ends, Jumps
    <3>2. \A o \in Saved : Patched[o] \in CodeByte
      BY <1>1 DEF Patched, LocalTypes, CodeByte
    <3>3. target' = target /\ StoreBytes(written, NextStore, Patched)
      BY <2>9 DEF Patch
    <3>4. CodeTypes' /\ written' \in 0 .. 32
      BY <1>1, <3>1, <3>2, <3>3, StoreTypes
    <3> QED BY <1>1, <2>9, <3>4 DEF FieldTypes, LocalTypes, Patch, hook, result
  <2>10. CASE Publish
    <3>1. writable' \subseteq {0, 1}
      BY <1>1, <2>10, PageTypes DEF FieldTypes, Publish
    <3>2. CodeTypes'
      BY <1>1, <2>10, FlushTypes DEF Publish
    <3> QED BY <1>1, <2>10, <3>1, <3>2 DEF FieldTypes, LocalTypes, Publish, locals, result
  <2>11. CASE Uninstall
    <3>1. span' \in 0 .. 32 /\ written' \in 0 .. 32
      BY <1>1, <2>11 DEF FieldTypes, LocalTypes, Uninstall, Unprotect
    <3>2. writable' \subseteq {0, 1}
      BY <1>1, <2>11, PageTypes DEF FieldTypes, Uninstall
    <3> QED BY <1>1, <2>11, <3>1, <3>2 DEF CodeTypes, FieldTypes, LocalTypes, Size, Uninstall, hook, result
  <2>12. CASE Restore
    <3>1. PICK to \in written + 1 .. PatchSize : StoreBytes(written, to, OriginalBytes)
      BY <2>12 DEF Restore
    <3>2. to \in 0 .. 32 /\ written \in 0 .. 32 /\ target' = target
      BY <1>1, <2>12, <3>1 DEF FieldTypes, LocalTypes, Restore
    <3>3. \A o \in Saved : OriginalBytes[o] \in CodeByte
      BY DEF HookInv
    <3>4. CodeTypes' /\ written' \in 0 .. 32
      BY <1>1, <3>1, <3>2, <3>3, StoreTypes
    <3> QED BY <1>1, <2>12, <3>4 DEF FieldTypes, LocalTypes, Restore, hook, result
  <2>13. CASE Release
    <3>1. writable' \subseteq {0, 1}
      BY <1>1, <2>13, PageTypes DEF FieldTypes, Release
    <3>2. CodeTypes'
      BY <1>1, <2>13, FlushTypes DEF Release
    <3>3. allocated' \subseteq Distances /\ PatchSize' = 0 /\ TrampolineMem' = 0
      BY <1>1, <2>13 DEF FieldTypes, Release
    <3>5. bInstalled' \in BOOLEAN
      BY <2>13 DEF Release
    <3>4. LocalTypes'
      BY <1>1, <2>13 DEF LocalTypes, Release, locals, result
    <3> QED BY <3>1, <3>2, <3>3, <3>4, <3>5 DEF FieldTypes
  <2> QED BY <2>1, <2>2, <2>3, <2>4, <2>5, <2>6, <2>7, <2>8, <2>9, <2>10, <2>11, <2>12, <2>13
          DEF HookStep, NextX64, NextArm64
<1> QED BY <1>2, <1>3 DEF HookTypeOK, CodeTypes, FieldTypes, LocalTypes, Size

LEMMA InitTypesOK ==
  ASSUME HookInit, TargetInv
  PROVE  HookTypeOK
<1>1. Pristine \in [0 .. target.size - 1 -> CodeByte]
  BY DEF Pristine, CodeByte
<1>2. NoBytes \in [Saved -> CodeByte]
  BY DEF NoBytes, CodeByte
<1>3. code \in [0 .. target.size - 1 -> CodeByte] /\ icache \in [0 .. target.size - 1 -> CodeByte]
  BY <1>1 DEF HookInit
<1>4. OriginalBytes \in [Saved -> CodeByte] /\ ROriginal \in [Saved -> CodeByte]
  BY <1>2 DEF HookInit
<1>5. /\ writable = {} /\ allocated = {} /\ PatchSize = 0 /\ RPatchSize = 0
      /\ TrampolineMem = 0 /\ Tramp = 0 /\ Needed = 0 /\ Copied = 0 /\ jump \in Jumps
      /\ written = 0 /\ span = 0
  BY DEF HookInit, Jumps
<1>6. bInstalled \in BOOLEAN
  BY DEF HookInit
<1> QED BY <1>3, <1>4, <1>5, <1>6 DEF HookTypeOK

LEMMA SameTypes ==
  ASSUME HookTypeOK, ButPc
  PROVE  HookTypeOK'
BY DEF HookTypeOK, ButPc, hook, locals, result

-----------------------------------------------------------------------------
(* What a thread that is in the function sees of it.                       *)

LEMMA InsnFacts ==
  ASSUME TargetInv
  PROVE  /\ 0 \in DOMAIN target.insns
         /\ \A o \in DOMAIN target.insns :
              /\ o \in 0 .. Size - 1 /\ target.insns[o].len \in 1 .. 15
              /\ o + target.insns[o].len # Size => o + target.insns[o].len \in DOMAIN target.insns
<1>1. IsTarget(target)
  BY TargetsAssumption DEF TargetInv, TargetsAssumption
<1> QED BY <1>1 DEF IsTarget, Size

LEMMA NoOverlap ==
  ASSUME TargetInv, NEW o \in DOMAIN target.insns, NEW q \in DOMAIN target.insns, o < q
  PROVE  o + target.insns[o].len <= q
<1>1. IsTarget(target)
  BY TargetsAssumption DEF TargetInv, TargetsAssumption
<1> QED BY <1>1 DEF IsTarget

(* A byte is seen as it is in memory or as it is in the cache.             *)
LEMMA ViewFacts ==
  ASSUME DOMAIN code = 0 .. Size - 1, NEW view \in Views
  PROVE  /\ \A k \in 0 .. Size - 1 : view[k] \in {code[k], icache[k]}
         /\ icache = code => view = [k \in 0 .. Size - 1 |-> code[k]]
<1>1. PICK stale \in IF icache = code THEN {{}} ELSE SUBSET (0 .. 3) :
        view = [k \in DOMAIN code |-> IF k \div 4 \in stale THEN icache[k] ELSE code[k]]
  BY DEF Views
<1>2. \A k \in 0 .. Size - 1 : view[k] \in {code[k], icache[k]}
  BY <1>1
<1>3. ASSUME icache = code PROVE view = [k \in 0 .. Size - 1 |-> code[k]]
  BY <1>1, <1>3
<1> QED BY <1>2, <1>3

(* A thread at a place where it may be sees the original from there on, or *)
(* the jump, and what it sees is there.                                    *)
LEMMA Sees ==
  ASSUME TargetInv, HookInv, pc # "Crashed", NEW o \in DOMAIN target.insns, SafeAt(o),
         NEW view \in Views
  PROVE  \/ /\ code[o] = "orig" /\ \A k \in o .. Size - 1 : view[k] = "orig"
            /\ bInstalled => o >= PatchSize
         \/ /\ o = 0 /\ view[0] # "orig" /\ bInstalled /\ Redirected
            /\ \E form \in Jumps : WholeJump(view, form)
<1>1. o \in 0 .. Size - 1 /\ Size \in Nat /\ Size >= 32
  BY InsnFacts, TargetFacts
<1>2. ASSUME NEW n \in 0 .. 32, OriginalFrom(n), o >= n
      PROVE  code[o] = "orig" /\ \A k \in o .. Size - 1 : view[k] = "orig"
  <2> SUFFICES ASSUME NEW k \in o .. Size - 1 PROVE code[k] = "orig" /\ view[k] = "orig"
    BY <1>1
  <2>1. k \in n .. Size - 1 /\ k \in 0 .. Size - 1
    BY <1>1, <1>2
  <2>2. code[k] = "orig" /\ icache[k] = "orig" /\ DOMAIN code = 0 .. Size - 1
    BY <1>2, <2>1 DEF OriginalFrom
  <2> QED BY <2>1, <2>2, ViewFacts
<1>3. CASE code = Pristine /\ icache = Pristine /\ ~bInstalled
  <2>1. OriginalFrom(0)
    BY <1>3, PristineFacts DEF OriginalFrom
  <2> QED BY <1>1, <1>2, <1>3, <2>1
<1>4. CASE pc = "Patch"
  <2>1. Patching /\ RPatchSize \in 5 .. 32 /\ ~bInstalled
    BY <1>4 DEF HookInv, Patching, Made, Keeps
  <2>2. CASE written > 0
    BY <1>2, <1>4, <2>1, <2>2 DEF SafeAt, Patching
  <2>3. CASE ~(written > 0)
    <3>1. written = 0
      BY <2>1, <2>3 DEF Patching, Ends, Jumps
    <3>2. OriginalFrom(0)
      BY <1>1, <2>1, <3>1 DEF Patching, OriginalFrom
    <3> QED BY <1>1, <1>2, <2>1, <3>2
  <2> QED BY <2>2, <2>3
<1>5. CASE bInstalled
  <2>1. Held /\ PatchSize \in 5 .. 32
    BY <1>5, Stages DEF Hooked, Restoring, Held, Keeps
  <2>2. CASE o >= PatchSize
    BY <1>2, <2>1, <2>2 DEF Held
  <2>3. CASE ~(o >= PatchSize)
    <3>1. o = 0 /\ ~(pc = "Restore" /\ written > 0)
      BY <1>5, <2>3 DEF SafeAt
    <3>2. icache = code /\ \E form \in Jumps : JumpAt0(form)
      <4>1. CASE pc = "Restore"
        <5>1. Restoring /\ written = 0
          BY <2>1, <3>1, <4>1 DEF HookInv, Restoring
        <5> QED BY <5>1 DEF Restoring
      <4>2. CASE pc # "Restore"
        <5>1. Hooked
          BY <1>5, <4>2, Stages
        <5> QED BY <5>1 DEF Hooked
      <4> QED BY <4>1, <4>2
    <3>3. PICK form \in Jumps : JumpAt0(form)
      BY <3>2
    <3>4. view = code
      <4>1. code = [k \in 0 .. Size - 1 |-> code[k]] /\ DOMAIN code = 0 .. Size - 1
        BY <2>1 DEF Held, OriginalFrom
      <4> QED BY <3>2, <4>1, ViewFacts
    <3>5. WholeJump(view, form)
      BY <3>3, <3>4 DEF JumpAt0
    <3>6. view[0] = form
      <4>1. 0 \in 0 .. JumpSize(form) - 1 /\ ~IsData(form, 0)
        BY <3>3 DEF Jumps, JumpSize, IsData
      <4> QED BY <3>5, <4>1 DEF WholeJump
    <3> QED BY <1>5, <3>1, <3>3, <3>5, <3>6 DEF Jumps, Redirected
  <2> QED BY <2>2, <2>3
<1>6. CASE ~bInstalled /\ pc # "Patch"
  BY <1>3, <1>6, Stages DEF Untouched
<1> QED BY <1>4, <1>5, <1>6

(* A place that is safe stays safe as long as it is not overwritten.       *)
LEMMA SafeStays ==
  ASSUME TargetInv, HookInv, NEW o \in DOMAIN target.insns, SafeAt(o),
         \/ NextX64 \/ NextArm64 \/ Publish \/ Uninstall \/ Release
         \/ ~(o < Overwritten) /\ (Patch \/ Restore)
  PROVE  SafeAt(o)'
<1>1. o \in Nat
  BY InsnFacts, TargetFacts
<1>2. CASE ~(o < Overwritten) /\ Patch
  <2>1. pc = "Patch" /\ o >= RPatchSize
    <3>1. pc = "Patch"
      BY <1>2 DEF Patch
    <3>2. RPatchSize \in 5 .. 28
      BY <3>1 DEF HookInv, Patching, Made, Keeps
    <3> QED BY <1>1, <1>2, <3>1, <3>2 DEF Overwritten
  <2>2. RPatchSize' = RPatchSize /\ bInstalled' = bInstalled /\ ~bInstalled
    BY <1>2, <2>1 DEF HookInv, Patching, Made, Patch, hook, result
  <2>3. pc' \in {"Patch", "Crashed"}
    BY <1>2, <2>1 DEF Patch, StoreBytes
  <2> QED BY <2>1, <2>2, <2>3 DEF SafeAt
<1>3. CASE ~(o < Overwritten) /\ Restore
  <2>1. pc = "Restore" /\ o >= PatchSize
    <3>1. pc = "Restore"
      BY <1>3 DEF Restore
    <3>2. PatchSize \in 5 .. 28
      BY <3>1 DEF HookInv, Restoring, Held, Keeps
    <3> QED BY <1>1, <1>3, <3>1, <3>2 DEF Overwritten
  <2>2. PatchSize' = PatchSize /\ pc' \in {"Restore", "Crashed"}
    BY <1>3, <2>1 DEF Restore, hook, StoreBytes
  <2> QED BY <2>1, <2>2 DEF SafeAt
<1>4. CASE Publish
  <2>1. o >= RPatchSize
    BY <1>4 DEF HookInv, Patching, Made, Keeps, Publish, SafeAt, Ends, Jumps
  <2>2. PatchSize' = RPatchSize /\ pc' = "Installed"
    BY <1>4 DEF Publish
  <2> QED BY <2>1, <2>2 DEF SafeAt
<1>5. CASE Uninstall
  <2>1. /\ bInstalled' = bInstalled /\ PatchSize' = PatchSize /\ pc' # "Patch"
        /\ ~(pc' = "Restore" /\ written' > 0)
    BY <1>5 DEF Uninstall, hook
  <2> QED BY <2>1 DEF SafeAt
<1>6. CASE Release
  BY <1>6 DEF Release, SafeAt
<1>7. CASE NextX64 \/ NextArm64
  <2>1. ~bInstalled /\ bInstalled' = bInstalled /\ pc' # "Restore"
    BY <1>7 DEF HookInv, Clean, Untouched, Made, NextX64, InstallX64, Decode, Allocate,
       UnprotectX64, Extend, Reallocate, NextArm64, InstallArm64, UnprotectArm64, hook, Fail
  <2>2. pc' = "Patch" => written' = 0
    BY <1>7 DEF HookInv, NextX64, InstallX64, Decode, Allocate,
       UnprotectX64, Extend, Reallocate, NextArm64, InstallArm64, UnprotectArm64, Fail
  <2> QED BY <2>1, <2>2 DEF SafeAt
<1> QED BY <1>2, <1>3, <1>4, <1>5, <1>6, <1>7

(* Who answers a call is what FFunctionHook says, unless bytes are being   *)
(* overwritten.                                                            *)
LEMMA JumpIsNotOriginal == Redirected => code[0] # "orig"
<1> SUFFICES ASSUME NEW form \in Jumps, JumpAt0(form) PROVE code[0] # "orig"
  BY DEF Redirected
<1>1. 0 \in 0 .. JumpSize(form) - 1 /\ ~IsData(form, 0)
  BY DEF Jumps, JumpSize, IsData
<1> QED BY <1>1 DEF JumpAt0, WholeJump, Jumps

LEMMA SaysWhatItDoes ==
  ASSUME TargetInv, HookInv, ~Overwriting, pc # "Crashed"
  PROVE  bInstalled <=> Redirected
<1>1. (bInstalled /\ Hooked) \/ (~bInstalled /\ Untouched)
  BY Stages DEF Overwriting
<1>2. Hooked => Redirected
  BY DEF Hooked, Redirected
<1>3. Untouched => ~Redirected
  <2>1. Untouched => code[0] = "orig"
    BY TargetFacts, PristineFacts DEF Untouched
  <2> QED BY <2>1, JumpIsNotOriginal
<1> QED BY <1>1, <1>2, <1>3

LEMMA SameCode ==
  ASSUME code' = code
  PROVE  Redirected' = Redirected
BY DEF Redirected, JumpAt0, WholeJump

-----------------------------------------------------------------------------
(* What is decoded, and moved.                                             *)

LEMMA X64Facts ==
  ASSUME TargetInv, target.arch = "x64"
  PROVE  /\ Bytes(target.bytes)
         /\ \A o \in DOMAIN target.insns : target.insns[o] = X64Insn(target.bytes, o)
<1>1. IsTarget(target)
  BY TargetsAssumption DEF TargetInv, TargetsAssumption
<1> QED BY <1>1 DEF IsTarget, Bytes

(* InstrLen goes from one instruction to the next.                         *)
LEMMA Measures ==
  ASSUME TargetInv, WellMeasured(target), target.arch = "x64", NEW o \in DOMAIN target.insns,
         o < 14, InstrLen(target.bytes, o) # 0
  PROVE  InstrLen(target.bytes, o) = target.insns[o].len
<1>1. o \in Nat
  BY InsnFacts, TargetFacts
<1>2. ~Misread(target.bytes, o)
  BY DEF WellMeasured, MaxNeeded
<1>3. InstrLen(target.bytes, o) = TrueLen(target.bytes, o)
  BY <1>1, <1>2, X64Facts, DecoderMeasures
<1>4. target.insns[o].len = TrueLen(target.bytes, o)
  <2>1. X64Insn(target.bytes, o).len = TrueLen(target.bytes, o)
    BY DEF X64Insn
  <2> QED BY <2>1, X64Facts
<1> QED BY <1>3, <1>4

LEMMA DecodesNext ==
  ASSUME TargetInv, WellMeasured(target), target.arch = "x64", NEW need \in {5, 14},
         NEW n, Decoded(target, n, need), n < need, InstrLen(target.bytes, n) # 0
  PROVE  Decoded(target, n + InstrLen(target.bytes, n), need)
<1> DEFINE len == target.insns[n].len
<1>1. n \in DOMAIN target.insns /\ n \in 0 .. 13 /\ len \in 1 .. 15 /\ Size \in Nat /\ Size >= 32
  <2>1. n \in DOMAIN target.insns
    BY DEF Decoded
  <2>2. Size \in Nat /\ Size >= 32
    BY TargetFacts
  <2>3. n \in 0 .. Size - 1 /\ len \in 1 .. 15
    BY <2>1, InsnFacts
  <2> QED BY <2>1, <2>2, <2>3
<1>2. InstrLen(target.bytes, n) = len
  BY <1>1, Measures
<1>3. n + len \in DOMAIN target.insns
  BY <1>1, InsnFacts
<1>4. ASSUME NEW o \in DOMAIN target.insns, o < n + len
      PROVE  o < need /\ InstrLen(target.bytes, o) # 0
  <2>1. o \in Int /\ ~(n < o)
    BY <1>1, <1>4, InsnFacts, NoOverlap
  <2>2. CASE o < n
    BY <2>2 DEF Decoded
  <2>3. CASE o = n
    BY <2>3
  <2> QED BY <1>1, <2>1, <2>2, <2>3
<1> QED BY <1>2, <1>3, <1>4 DEF Decoded

(* What has been decoded may be moved.                                     *)
LEMMA DecodedMoves ==
  ASSUME target.arch = "x64", NEW need \in {5, 14}, NEW n, n >= need, Decoded(target, n, need)
  PROVE  n \in Sizes(target)
BY DEF Sizes, Decoded, Rel32Jump, MaxNeeded

LEMMA FourMove ==
  ASSUME TargetInv, target.arch = "arm64"
  PROVE  16 \in Sizes(target)
<1>1. \A o \in DOMAIN target.insns : target.insns[o].len = 4
  <2>1. IsTarget(target)
    BY TargetsAssumption DEF TargetInv, TargetsAssumption
  <2> QED BY <2>1 DEF IsTarget, OtherArm64Insn
<1>2. \A o \in DOMAIN target.insns : o < 28 => o + 4 \in DOMAIN target.insns
  BY <1>1, InsnFacts, TargetFacts
<1>3. 0 \in DOMAIN target.insns /\ 4 \in DOMAIN target.insns
  BY <1>2, InsnFacts
<1>4. 8 \in DOMAIN target.insns
  BY <1>2, <1>3
<1>5. 12 \in DOMAIN target.insns
  BY <1>2, <1>4
<1>6. 16 \in DOMAIN target.insns
  BY <1>2, <1>5
<1>7. Decoded(target, 16, 16)
  BY <1>6 DEF Decoded
<1> QED BY <1>6, <1>7 DEF Sizes, kPatch

LEMMA MovedX64OK ==
  ASSUME TargetInv, HookInv, MovedInv, WellMeasured(target), NextX64
  PROVE  MovedInv'
<1>1. target' = target /\ ~bInstalled' /\ target.arch = "x64"
  BY DEF HookInv, Clean, Untouched, Made, NextX64, InstallX64, Decode, Allocate, UnprotectX64,
     Extend, Reallocate, hook
<1>2. CASE InstallX64
  <2>1. Decoded(target, 0, 5)
    BY InsnFacts, TargetFacts DEF Decoded
  <2> QED BY <1>1, <1>2, <2>1 DEF MovedInv, InstallX64, Rel32Jump
<1>3. CASE Decode
  <2>1. Decoded(target, Copied, Needed) /\ Copied < Needed /\ Needed \in {5, 14}
    BY <1>3 DEF HookInv, MovedInv, Decode
  <2>2. CASE InstrLen(target.bytes, Copied) > 0
    <3>1. Copied' = Copied + InstrLen(target.bytes, Copied) /\ Needed' = Needed /\ pc' = "Decode"
      BY <1>3, <2>2 DEF Decode
    <3>2. Decoded(target, Copied', Needed')
      BY <1>1, <2>1, <2>2, <3>1, DecodesNext
    <3> QED BY <1>1, <3>1, <3>2 DEF MovedInv
  <2>3. CASE InstrLen(target.bytes, Copied) = 0 /\ Needed = 5
    <3>1. Copied' = Copied /\ Needed' = 14 /\ pc' = "Decode"
      BY <1>3, <2>3 DEF Decode, Rel32Jump, MaxNeeded
    <3>2. Decoded(target, Copied', Needed')
      BY <2>1, <2>3, <3>1, InsnFacts DEF Decoded
    <3> QED BY <1>1, <3>1, <3>2 DEF MovedInv
  <2>4. CASE pc' = "Failed"
    BY <1>1, <2>4 DEF MovedInv
  <2> QED BY <1>3, <2>2, <2>3, <2>4 DEF Decode, Fail, Rel32Jump
<1>4. CASE Allocate
  <2>1. /\ Decoded(target, Copied, Needed) /\ Copied' = Copied /\ Needed' = Needed
        /\ pc' \in {"Failed", "Unprotect"}
    BY <1>4 DEF MovedInv, Allocate, Fail
  <2> QED BY <1>1, <2>1 DEF MovedInv
<1>5. CASE UnprotectX64
  <2>1. /\ Decoded(target, Copied, Needed) /\ Copied' = Copied /\ RPatchSize' = RPatchSize
        /\ RPatchSize = Copied /\ Copied >= Needed /\ Needed \in {5, 14}
        /\ pc' \in {"Extend", "Patch"}
    BY <1>5 DEF HookInv, MovedInv, UnprotectX64, result
  <2>2. Decoded(target, Copied, 14)
    BY <2>1, InsnFacts DEF Decoded
  <2>3. Copied \in Sizes(target)
    BY <1>1, <2>1, DecodedMoves
  <2> QED BY <1>1, <2>1, <2>2, <2>3 DEF MovedInv, MaxNeeded
<1>6. CASE Extend
  <2>1. Decoded(target, Copied, 14) /\ Copied < 14
    BY <1>6 DEF MovedInv, Extend, MaxNeeded
  <2>2. CASE InstrLen(target.bytes, Copied) > 0
    <3>1. Copied' = Copied + InstrLen(target.bytes, Copied) /\ pc' = "Extend"
      BY <1>6, <2>2 DEF Extend
    <3>2. Decoded(target, Copied', 14)
      BY <1>1, <2>1, <2>2, <3>1, DecodesNext
    <3> QED BY <1>1, <3>1, <3>2 DEF MovedInv, MaxNeeded
  <2>3. CASE ~(InstrLen(target.bytes, Copied) > 0)
    BY <1>1, <1>6, <2>3 DEF Extend, Fail, MovedInv
  <2> QED BY <2>2, <2>3
<1>7. CASE Reallocate
  <2>1. /\ Decoded(target, Copied, 14) /\ Copied >= 14 /\ RPatchSize' = Copied
        /\ pc' \in {"Failed", "Patch"}
    BY <1>7 DEF MovedInv, Reallocate, MakeTrampoline, MaxNeeded, Fail
  <2>2. Copied \in Sizes(target)
    BY <1>1, <2>1, DecodedMoves
  <2> QED BY <1>1, <2>1, <2>2 DEF MovedInv
<1> QED BY <1>2, <1>3, <1>4, <1>5, <1>6, <1>7 DEF NextX64

LEMMA MovedOK ==
  ASSUME TargetInv, HookInv, MovedInv, WellMeasured(target), HookStep
  PROVE  MovedInv'
<1>1. CASE NextArm64
  <2>1. target' = target /\ ~bInstalled'
    BY <1>1 DEF HookInv, Clean, Untouched, Made, NextArm64, InstallArm64, UnprotectArm64, hook
  <2>2. CASE InstallArm64
    <3>1. pc' = "UnprotectArm64" => RPatchSize' = 16 /\ target.arch = "arm64"
      BY <2>2 DEF InstallArm64, Fail, kPatch
    <3>2. pc' \in {"UnprotectArm64", "Failed"}
      BY <2>2 DEF InstallArm64, Fail
    <3> QED BY <2>1, <3>1, <3>2, FourMove DEF MovedInv
  <2>3. CASE UnprotectArm64
    BY <2>1, <2>3 DEF MovedInv, UnprotectArm64, result
  <2> QED BY <1>1, <2>2, <2>3 DEF NextArm64
<1>2. CASE Patch
  <2>1. target' = target /\ RPatchSize' = RPatchSize /\ pc' \in {"Patch", "Crashed"} /\ ~bInstalled'
    BY <1>2 DEF HookInv, Patching, Made, Patch, StoreBytes, result, hook
  <2> QED BY <1>2, <2>1 DEF MovedInv, Patch
<1>3. CASE Publish
  BY <1>3 DEF MovedInv, Publish
<1>4. CASE Uninstall \/ Restore
  <2>1. /\ target' = target /\ PatchSize' = PatchSize /\ bInstalled' = bInstalled
        /\ pc' \in {"Restore", "Uninstalled", "Crashed"}
    BY <1>4 DEF Uninstall, Restore, StoreBytes, hook
  <2> QED BY <2>1 DEF MovedInv
<1>5. CASE Release
  BY <1>5 DEF MovedInv, Release
<1> QED BY <1>1, <1>2, <1>3, <1>4, <1>5, MovedX64OK DEF HookStep

LEMMA MovedInitOK ==
  ASSUME HookInit, pc \notin {"Decode", "Unprotect", "Extend", "UnprotectArm64", "Patch"}
  PROVE  MovedInv
BY DEF HookInit, MovedInv

(* Nothing is decoded between two calls.                                   *)
LEMMA MovedBetweenOK ==
  ASSUME MovedInv, ButPc,
         pc' = pc \/ pc' \notin {"Decode", "Unprotect", "Extend", "UnprotectArm64", "Patch"}
  PROVE  MovedInv'
BY DEF MovedInv, ButPc, hook, locals, result

(* What is moved: instructions that InstrLen measures right.               *)
LEMMA MovedFacts ==
  ASSUME TargetInv, NEW n \in Sizes(target)
  PROVE  /\ n \in DOMAIN target.insns /\ n >= 5
         /\ \A o \in DOMAIN target.insns :
              o < n /\ target.arch = "x64" => o < 14 /\ InstrLen(target.bytes, o) # 0
<1>1. PICK need \in {5, 14, 16} :
        need <= n /\ Decoded(target, n, need) /\ (target.arch = "x64" => need \in {5, 14})
  BY DEF Sizes, Rel32Jump, MaxNeeded, kPatch
<1>2. n \in DOMAIN target.insns /\ n \in Int
  BY <1>1, InsnFacts, TargetFacts DEF Decoded
<1>3. ASSUME NEW o \in DOMAIN target.insns, o < n, target.arch = "x64"
      PROVE  o < 14 /\ InstrLen(target.bytes, o) # 0
  <2>1. o < need /\ InstrLen(target.bytes, o) # 0
    BY <1>1, <1>3 DEF Decoded
  <2>2. o \in Int
    BY InsnFacts, TargetFacts
  <2> QED BY <1>1, <1>3, <2>1, <2>2
<1> QED BY <1>1, <1>2, <1>3

(* Displacements are integers.                                             *)
LEMMA RelTypes ==
  ASSUME TargetInv, NEW o \in DOMAIN target.insns
  PROVE  target.insns[o].rel \in Int
<1>1. CASE target.arch = "x64"
  <2>1. target.insns[o] = X64Insn(target.bytes, o) /\ Bytes(target.bytes)
    BY <1>1, X64Facts
  <2>2. Displacement(target.bytes, o) \in Int
    BY <2>1, OffsetTypes DEF Displacement
  <2>3. X64Insn(target.bytes, o).rel \in Int
    BY <2>2 DEF X64Insn
  <2> QED BY <2>1, <2>3
<1>2. CASE target.arch # "x64"
  <2>1. IsTarget(target)
    BY TargetsAssumption DEF TargetInv, TargetsAssumption
  <2> QED BY <1>2, <2>1 DEF IsTarget, OtherArm64Insn
<1> QED BY <1>1, <1>2

(* A branch that RelocateTrampoline knows has the displacement it finds.   *)
LEMMA BranchFacts ==
  ASSUME TargetInv, target.arch = "x64", NEW o \in DOMAIN target.insns,
         InstrLen(target.bytes, o) # 0
  PROVE  /\ IsRel8(target.bytes, o) => Rel8(target.bytes, o) = target.insns[o].rel
         /\ IsRel32(target.bytes, o) =>
              ~IsRel8(target.bytes, o) /\ Rel32(target.bytes, o) = target.insns[o].rel
<1> DEFINE p == target.bytes
<1>1. o \in Nat /\ Bytes(p) /\ target.insns[o] = X64Insn(p, o)
  BY InsnFacts, TargetFacts, X64Facts
<1>2. X64Insn(p, o).rel = IF IsRelative(p, o) THEN Displacement(p, o) ELSE 0
  BY DEF X64Insn
<1>3. IsRel32(p, o) => ~IsRel8(p, o)
  BY Classes DEF IsRel8, IsRel32, ShortJump, NearJump
<1>4. /\ IsRel8(p, o) => Jb(p, o) /\ Rel8(p, o) = Displacement(p, o)
      /\ IsRel32(p, o) => Jz(p, o) /\ Rel32(p, o) = Displacement(p, o)
  BY <1>1, DecoderFindsBranches
<1> QED BY <1>1, <1>2, <1>3, <1>4 DEF IsRelative

(* RelocateTrampoline moves a near branch by as much as it adjusts it.     *)
LEMMA NearIsAdjusted ==
  ASSUME TargetInv, target.arch = "x64", NEW o \in DOMAIN target.insns,
         InstrLen(target.bytes, o) # 0, IsRel32(target.bytes, o),
         NEW d \in Int, InReach(target.insns[o].rel - d)
  PROVE  NewRel(target.bytes, o, d) = target.insns[o].rel - d
BY BranchFacts DEF NewRel, InReach
=============================================================================
