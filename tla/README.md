# FastBitCopy in TLA+

FastBitCopy is an Unreal Engine plugin with two halves. `FastBitCopy.cpp` is a
bit copy: it moves `BitCount` bits from any bit offset of one buffer to any bit
offset of another, with 64-bit words where the stock `appBitsCpy` goes byte by
byte. `FunctionHook.cpp` overwrites the first instructions of the engine's
`appBitsCpy`, while the engine runs, with a jump to it. Both are short, and both
fail silently: the first by changing a neighbour's bits for some pairs of
offsets, the second by leaving half an instruction somewhere.

## Inventory

| Part | State it keeps | Operations | What makes it correct |
|---|---|---|---|
| Bit copy (`FastBitCopy.cpp`) | the parameters, advanced as cursors; one carried word; the two buffers | `FastBitCopy`, `OriginalAppBitsCpy`, the two internal wrappers; under them `BitsCopyFastAligned`, `BitsCopyFastUnaligned`, `CopyBitsSrcAligned<uint64>` and `<uint8>`, `OriginalAppBitsCpyImpl` | the range is copied, no bit outside changes at any time, no access leaves the bytes of the range, no shift by the width of a word, the call returns |
| Length decoder and relocation (`FunctionHook.cpp` 239-685) | none | `InstrLen`, `RelocateTrampoline`, `WriteJmp*` | whole instructions are measured; what is moved still means what it meant |
| Hook (`FunctionHook.cpp`, `FunctionHook.h`) | `bInstalled`, `PatchSize`, `OriginalBytes`, `TrampolineMem`; the target's bytes, what the instruction caches hold of them, page protection; executable memory | `Install` (x86_64, arm64), `Uninstall`, the destructor | the hook is whole or there is no trace of it, wherever the installation fails; the pointer handed out behaves like the original until the hook is reverted |
| Module (`FastBitCopyModule.cpp`) | `GBitsCpyHookInstalled` | `StartupModule`, `ShutdownModule`, `IsHookInstalled`, the detour `HookedAppBitsCpy` | every call returns; callers never see a half-made hook; unloading leaves the engine pristine |
| Tests (`FastBitCopyTests`, `CI/`), `TestHost`, scripts, build rules | none | | not modelled: no logic of the program; what their comments claim of it is checked on it |

The module calls the hook, the hook writes into `appBitsCpy`, and the engine's
threads run `appBitsCpy`, the detour and `FastBitCopy` without asking. The bit
copy itself is sequential and keeps nothing between calls; what is hard about it
is arithmetic: eight times eight phases, four loops that hand their cursors to
each other, two thresholds. What is hard about the hook is failure after some
of the work is done, sizes taken twice, code bytes that are executed while they
are written or cached as they were, and the decoding of a machine language.
`PROJECT.json` lists the hazards, each at its line, with the properties that
watch it.

## The bit copy

| Module | Code |
|---|---|
| `BitMemory` | words, masks, shifts, loads and stores |
| `CopyState` | the call, the cursors, the buffers, and what the call is to do |
| `AlignedCopy` | `BitsCopyFastAligned` |
| `UnalignedCopy` | `BitsCopyFastUnaligned`, `CopyBitsSrcAligned` |
| `OriginalCopy` | `OriginalAppBitsCpyImpl` |
| `FastBitCopy` | the entry points and thresholds, the program, its properties |
| `BitCopySpec` | the abstract bit copy: owed bits arrive, in any order and grouping, and the call returns |
| `CopyInvariant` | the inductive invariant |
| `MCFastBitCopy` | calls and buffers for TLC |
| `StepLemmas`, `RoutineProofs`, `FastBitCopyProofs` | the proofs |

A behaviour is one call. `pc` names the next block of code that stores; every
store to the destination is a step of its own, since the first and last byte are
shared with other data and have to be right at every moment. `Dest`, `DestBit`,
`Src`, `SrcBit` and `BitCount` are the parameters, which the code uses as
cursors; `Reg` is the one word that lives from one store to the next
(`Overflow`, `BitAccu`, the rest of a head or tail byte); `access` records the
bytes the last step touched. The pointers that the 64-bit loop indexes with `i`
advance with the loop here. The 64-bit and the byte instance of the template are
one set of actions with `WordBits` for the parameter.

Words are functions from positions to bit values, not numbers: the code only
masks, shifts by amounts that do not depend on the data, ORs, and stores. So the
model checker can give every bit of both buffers a name of its own (source bit
*i* is *i* + 1, destination bit *j* is -(*j* + 1)), and one behaviour stands for all
contents. ORing two bits of data gives `Mixed`, which is not a bit: `TypeOK`
says it never happens, so that the `+` of the original's accumulator never
carries.

Offsets and counts are integers without bounds; `IntMax` is the largest `int32`,
and `Ints` (`AlignedInts`, `UnalignedInts`, `OriginalInts`) lists every `int32`
the code computes at each `pc`. `IntsFit` says they are in range: always on the
fast paths, which add to normalised cursors only, and in the stock routine as
long as both ranges end by the last bit an `int32` can name.

### What is checked

| Run | Instance | Shows |
|---|---|---|
| `bitcopy` | buffers of 224 bits, both thresholds 8, `IntMax` 200; all phases and offsets beyond the first byte; counts around 8, 16, 64, 128, 192 bits; the original on 1 to 34 bits; the internal wrappers | `TypeOK`, `Inv` (the invariant the proofs use), `CopiedExactly`, `AccessInBounds`, `StatedRanges`, `WordCopyOnlyInternal`, `IntsFit`, `OnlyOwedBits`, and `IsBitCopy`: the program implements `BitCopySpec`, its termination included |
| `thresholds` | the shipped thresholds of 32 and 256, counts on either side | the dispatch: `CopiedExactly`, `OnlyOwedBits` |
| `empty` | counts of 0 | a disagreement, below |
| `threshold257` | the shipped thresholds, 257 bits | a disagreement, below |
| `prelude` | the edge cases of `CI/test_main.cpp` | a disagreement, below |

The bounds: 200 bits give the 64-bit loop two iterations (it runs
`BitCount / 64 - 1` times), which is one store that only comes from the
register, the merge, and a tail of every length class; the counts chosen
are those next to each branch of the code. The thresholds are 8 in
`bitcopy` so that the fast paths also see payloads that end inside their first
byte or word. `IntMax` is below the size of the buffers, so that ranges beyond it
are among the calls. The proofs have no bounds.

`Spec` has `WF_vars(Next)`: one thread runs the call and waits for nothing. The
behaviour ends when the call returns, so deadlock is not checked.

### What is proved

For all buffers, contents, offsets, counts above zero and thresholds
(`FastBitCopyProofs`):

* `Invariance`: `Spec => []Inv`, from which follow
* `TypeCorrect` (`TypeOK`), `Correctness` (`CopiedExactly`) and `RangesHold`
  (`StatedRanges`);
* `OnlyOwed` (`OnlyOwedBits`) and `InBounds` (`AccessInBounds`), which are shown
  of each step beside the invariant;
* `Refinement`: the initial states and the steps are those of `BitCopySpec`;
* `NoOverflow` (`IntsFit`);
* `WordCopyNeverReached` (`WordCopyOnlyInternal`): above the thresholds the
  two phases differ, the head pass leaves the destination off the byte boundary
  (`StaggeredOK`), and whole words and bytes keep it there.

`CopiedExactly` speaks of the last state only, and says nothing of how the state
before it came about. `Inv` does: at every step the destination is final below a
frontier and untouched from there on (`Frontier`). On the fast paths the
frontier is the cursor and the source cursor is in step with it (`AtCursor`).
In the shift-word loop the code stores a word whose low bits come from `Reg`:
the bits between the last word boundary and the cursor are final in `Reg`
(`Carried`), while in memory they may still be old. In the original the frontier
is a byte boundary and `Accumulated` says which source bits the
accumulator holds. `StepOK` collects what is shown of each action (the
invariant afterwards, no wrong store, no access out of bounds); there is a lemma
per action, resting on `Advance`, `PutBits` and `SourceBit` (`StepLemmas`).

Assumptions: those `CopyState` states of a call (the ranges lie in the buffers,
which are whole bytes; the wrappers get offsets within a byte), and `NonEmpty`:
no call asks for zero bits. That one is needed, see the first disagreement.

Only model-checked: that the call returns.

Not modelled: overlapping buffers (source and destination are separate memories;
`memcpy` would not allow them either); the big-endian build, which only
forwards to `appBitsCpy`.

## The hook

| Module | Code |
|---|---|
| `X64Decode` | `InstrLen` and the branch recognition of `RelocateTrampoline` |
| `X64Manual` | the processor's manual on the same bytes (external) |
| `Instructions` | functions as instructions, and what one does when it is executed (external) |
| `Arm64Decode` | `IsRelocatableInsn` |
| `HookState` | `FFunctionHook`, `FInstallResult`, `AllocExecutable`, `FScopedUnprotect`, `FlushIcache`, the stores of `WriteJmp*` |
| `HookX64`, `HookArm64` | the two installers |
| `FunctionHook` | `Install`, `Uninstall` |
| `HookedCode` | what a thread meets in the function while it is changed |
| `HookInvariant` | the inductive invariant of the hook, whoever uses it |
| `MovedCode` | what is decoded and moved, and which functions survive it |
| `FastBitCopyModule` | the first user: the module's life, the calling threads, the properties |
| `RedirectSpec` | what the module promises to callers: a call is answered by the old or the new function, as the mode is when it is made |
| `HookClient` | the second user: any client of `FFunctionHook`, with the pointer to the trampoline |
| `OriginalFunction` | the function as it was compiled, which that pointer behaves like |
| `ModuleInvariant`, `ClientInvariant` | where flags and threads are, of the one user and of the other |
| `MCTargets`, `MCFastBitCopyModule`, `MCHookClient`, `MCX64Decode` | functions, clients and instructions for TLC |
| `X64Proofs`, `DecoderProofs`, `HookProofs`, `ModuleProofs`, `ClientProofs` | the proofs |

One thread installs and reverts the hook; its steps are pieces of `Install` and
`Uninstall` between which something else can be seen: the decoding of one
instruction, an allocation, a change of protection, one store to the target.
`Restore` is a `memcpy` whose stores may be of any sizes. The target is a
function given by its instruction bytes (arm64: by what `IsRelocatableInsn` sees
of each instruction). A code byte in memory is `"orig"` or a byte of a jump or
NOP, since nothing depends on more. Addresses are relative to the target;
`Distances` are the places the OS may put a trampoline, `Rel32Reach` stands for
2^31, scaled down to 40000 to have a distance beyond it. `room` puts a page
boundary inside the function. A store to a page that is not writable ends the
process (`pc = "Crashed"`).

On ARM the instruction cache is not coherent: until `FlushIcache`, a thread may
see each of the four overwritten words old or new, in any combination (`Views`).
The caches are taken to hold nothing else of the function.

The other threads of `FastBitCopyModule` are outside, at an instruction of
`appBitsCpy`, or in `FastBitCopy`. One that executes anything but an original
instruction or a whole jump is lost. Branches inside `appBitsCpy` are taken as
not taken there, and as taken or not in `HookClient`.

`Quiet` is an assumption about the engine: no thread executes the bytes that
are being overwritten. Nothing in the code sees to it. The plugin loads at
`PostConfigInit`, "before any gameplay code runs" (README.md), and unloads at
exit. With `Quiet = FALSE` TLC finds `NoneLost` violated as soon as a thread
calls the function between the stores of `WriteJmpRel32`; the other properties
about threads (`ThreadInv`, `IsRedirection`) assume `Quiet` as well, and none of
them shows anything of a thread that meets half a jump.

What is shown without it is how much `Quiet` has to rule out.
`TornOnlyWhileWritten` speaks of no thread: it takes every instruction of the
function and everything a processor may have cached, and says that what is found
there can be executed, except among the bytes being overwritten, from the first
store to the flush, and in the middle of the moved bytes of an installed hook
(where a thread that was there before the hook would go on). No failed
installation, extension, reload or stale cache adds to that. It holds with
`Quiet` `TRUE` or `FALSE`, and is proved without it.

The process may end with the module loaded, or after it was unloaded: the static
`FFunctionHook` is destroyed, which reverts a hook that is still there
(`DestroyHook`).

### The trampoline

The plugin passes `nullptr` for `OutTrampoline`; the class offers more. In
`HookClient` a client calls `Install` and `Uninstall` in any order, also twice;
it, the detour, or anybody calls the trampoline. Two obligations, which the code
leaves to the client, are guards of the model: before `Uninstall`, the pointer is
forgotten and no thread is in the trampoline (`Forget`, `Drained`: the memory is
freed at once), and, as for the module, nobody executes what is overwritten. So
no run shows what becomes of a thread under which the trampoline is freed:
`PointerLives`, `ThreadsInv` and `BehavesLikeOriginal` speak of clients that meet
their obligations, in any order of calls.

`BehavesLikeOriginal` says that threads then execute the instructions of the
original in an order in which they would have, each naming the address it would
have, no matter where (`OriginalFunction`, refined with the position of a thread
in the trampoline mapped to the instruction it is a copy of). It holds of
functions that meet the conditions `MovedCode` spells out, none of which
`InstallHook_X64` checks; `Suitable` puts them together, and TLC evaluates it on
the functions of the run:

1. `InstrLen` measures the first instructions right (`WellMeasured`; `misread`
   shows one that it does not);
2. no branch from the rest of the function goes into the moved bytes
   (`NotEntered`), and none goes into the middle of an instruction;
3. no operand among the moved bytes is relative to the instruction pointer
   (`rip`), except those of branches;
4. a short branch among them goes to another of the moved instructions, or to
   the first that is not (`short` shows one that does not), and the trampoline
   is not within 128 bytes or so, where the branch would be adjusted to leave it;
5. a near branch among them does not go to another of them: it would be adjusted
   to where that one was, which is in the jump; and its destination is within
   reach of the trampoline, which `mmap` puts anywhere;
6. the trampoline does not touch the function, and the function names no address
   where the trampoline comes to be. The OS gives free memory, so this is no
   condition in practice; it is one here because the model's only memory is the
   function and the trampoline.

On arm64, `IsRelocatableInsn` refuses what would break 3 to 5.

### What is checked

| Run | Instance | Shows |
|---|---|---|
| `hook` | 54 functions: 8 x86_64 prologues (with instructions unknown to the decoder at the start, after 5 bytes, and after 8), the detour near or far, several page boundaries; 4 arm64 functions; four builds; allocations that fail | `TypeOK`; `HookInv`, `MovedInv`, `FlagsInv` and `ThreadInv`, the invariants the proofs use; `LeftClean`: without a hook the code, the pages and the memory are as before, after every kind of failure and at the end of the process; `HookedWhole`; `NoneLost`; `TornOnlyWhileWritten`; `NearBranchesFollow`; `WholeInstructions`; `CallsReturn`: calls of the function return; `HookCallsReturn`: `Install` and `Uninstall` do; `IsRedirection`: the module implements `RedirectSpec` |
| `trampoline` | 11 functions that meet the conditions, with branches of every kind among the moved bytes and a loop in the rest; a client and a thread | `ClientTypeOK`; `HookInv` and `MovedInv` again, `ThreadsInv`; `PointerLives`; `Settled`; `BehavesLikeOriginal` |
| `decoder` | every opcode of the one- and two-byte maps, up to two prefixes, REX with and without W, all `mod` fields and the `reg`, `rm` and SIB values that matter | `Measured`: what `InstrLen` returns is the length or 0, but for three encodings, and for those it is never right; `DecodedAlike`: it measures the same in the trampoline, whatever follows; `BranchesFound`: what is adjusted is exactly the branches, at the right place |
| `rip`, `short`, `misread`, `pageend` | functions chosen for them | disagreements, below |

The bounds: one thread, which only reads the code, so that it shows what any
number would do (the theorems are for any number); two distances, one within the
scaled reach and one beyond; any number of loadings and unloadings. Deadlock is
checked in `trampoline` and `hook`: the client can always call again, and a
thread can always call even when the module is gone for good. An instruction of
`decoder` grows to its end, and the run stops: deadlock is not checked there.

In `decoder`, the manual is the reader's part: near branches with the
operand-size prefix are read as Intel's processors do (the offset stays 32 bits
wide), and `C7 F8` (xbegin), which the decoder takes for a `mov` of the right
length, is not listed as a branch.

Fairness: `WF_vars(ThreadRun(t))` for each thread, that is, a thread inside one
of the functions goes on executing, and in `FastBitCopyModule`
`WF_vars(HookNext)`: the thread inside `Install` or `Uninstall` goes on too.
These are ordinary threads that wait for nothing. Nothing makes a thread call,
nor the engine load or unload the module.

The probe that `StartupModule` asks first keeps the hook out of the fallback
build, in which the detour would call the hooked function for ever: with the
probe ignored `CallsReturn` fails.

### What is proved

For every function, place of the trampoline, and page boundary that
`TargetsAssumption` allows (functions are whole instructions, one after the
other, at least 32 bytes of them, and `InstrLen` takes none of the first for
longer than 15), and every positive `Rel32Reach`:

* `X64Proofs`, for every sequence of bytes: `DecoderMeasures` (what `InstrLen`
  returns is 0 or the manual's length, but for the three encodings of `Misread`,
  for which it never is), `TrampolineDecodes` (it reads no byte beyond the
  length it returns) and `DecoderFindsBranches`. `DecoderProofs` draws from them
  what the run `decoder` checks: `InstrLenIsRight` (`Measured`), `InstrLenIsLocal`
  (`DecodedAlike`), `BranchesAreFound` (`BranchesFound`), for any prefixes and
  fields. The decoder and the manual are compared class of opcodes by class
  (`OneByteManual`, `TwoByteManual`).
* `HookProofs`: each step of `Install` and `Uninstall` keeps `HookInv` and
  `HookTypeOK`, one lemma per step (`InstallX64OK`, `DecodeOK`, ...), put together
  by `HookStepOK` and `HookTypesOK`. `BetweenOK` is what a user may do between two
  calls. Nothing in it knows the module or the client.
* `ModuleProofs`, for any number of threads and any set of builds:
  `HookInvariance` (`HookInv` and, with `FlagsAgree`, `FlagsInv`),
  `TypeCorrectness` (`TypeOK`), `CleanUp` (`LeftClean`), `WholeHook`
  (`HookedWhole`), `TornBriefly` (`TornOnlyWhileWritten`); and assuming `Quiet`, `ThreadsStayPlaced` (`ThreadInv`),
  `NoneIsLost` (`NoneLost`) and `Redirection`: initial states and steps are those
  of `RedirectSpec`. Assuming that the functions are `WellMeasured`,
  `MovedInvariance` (`MovedInv`), and from it `WholeInstructionsMoved`
  (`WholeInstructions`) and `NearBranchesAdjusted` (`NearBranchesFollow`).
* `ClientProofs`, for any client: `ClientInvariance` (`HookInv`),
  `PointerStaysLive` (`PointerLives`), `SettledBetweenCalls` (`Settled`),
  `ClientTypes` (`ClientTypeOK`). Assuming `Suitable`, `ThreadsStayPlaced`
  (`MovedInv` and `ThreadsInv`) and `BehavesAsOriginal`: initial states and steps
  are those of `OriginalFunction`, which is `BehavesLikeOriginal` but for its
  fairness.

`LeftClean` and `HookedWhole` speak of the moments between two calls and are far
from inductive: that `Uninstall` restores every byte needs what `Install` saved,
how far the jump was written, and which pages were opened, at each `pc`.
`HookInv` has a conjunct for each stage: `Clean` while decoding, `Made` once there
is a trampoline and before anything is written, `Patching` with exactly the
bytes below `written` replaced, `Hooked`, and `Restoring`, the reverse. `Stages`
says that there is no fifth. `FlagsInv` ties the module's flag to the hook's, and
is what turns `HookInv` into `LeftClean`. `ThreadInv` is the same for the threads:
a thread in the function is at an instruction that is not, and will not be under
it, replaced, except at offset 0, where the jump is; `Sees` derives what such a
thread can fetch, stale caches included, and `TornBriefly` is the same lemma read
the other way: where `SafeAt` fails is what threads have to keep out of.
`PointerLives` is made inductive by `Holding`, a step of its proof: whoever holds
the pointer has not called `Uninstall`. `SaysWhatItDoes` is the heart of
`Redirection`: whenever nothing is being written, `bInstalled` says where a call
goes.

`WholeInstructions` is a statement about one number, and what it takes to be
inductive is the way that number came about: `MovedInv` says at each `pc` that
what has been decoded ends where an instruction begins (`Decoded`), and which
amount was asked for. Then a call of `InstrLen` is at an instruction, measures it
(`DecoderMeasures`, if it is not one of the three), and the next call is at the
next one (`DecodesNext`, which needs that instructions do not overlap).

`BehavesAsOriginal` needs the place of every thread: `ThreadsInv` is to a client
what `ThreadInv` is to the module, with the copies in the trampoline for one
more kind of place. A thread in a copy goes to a copy as long as the original
stays in what was moved, and back into the function where it leaves it
(`InTheTrampoline`: the heart, where `Follows` says for each branch that its new
displacement leads where the old one did); one in the rest of the function stays
there (`OnwardIsSafe`, from `NotEntered`). The hook moves no thread in the
original: while it writes, nobody is in what it overwrites (`JumpWrittenAlone`).

Only model-checked: liveness (`CallsReturn`, `HookCallsReturn`, that of
`RedirectSpec` and of `OriginalFunction`), which the prover does not do.

## Disagreements between the code and what is said of it

* `empty`: a call for 0 bits whose destination offset is on a byte boundary
  changes bits (`LastDest` and `LastMask` are made of `DestBit + BitCount - 1`).
  The stock routine kept in the file does the same, so that tests that compare
  the two agree.
* `threshold257`: 257 bits take the fast path; the comment above the thresholds
  says the original one.
* `prelude`: the CI edge cases said to reach the `DestBit == 0` loop do not.
  `WordCopyOnlyInternal` says more: no call of `FastBitCopy` does, and the
  comment on `CopyBitsSrcAligned` that the recursion into the byte instance
  gets there is mistaken too.
* `rip`: operands relative to the instruction pointer are not adjusted when
  their instruction is moved to the trampoline.
* `short`: short branches are not adjusted either, as the new displacement
  never fits.
* `misread`: two encodings are measured wrong (an index without a base; `B8+rd`
  with a REX prefix that is not REX.W). The run `decoder` finds a third that
  compilers do not emit (REX.W with the operand-size prefix it overrides, before
  an immediate), and no more.
* `pageend`: when the bytes first decoded end at a page and the jump needs 14,
  the next page is written to without being made writable.

Two more, not runs of their own:

* Several comments say that the fast path reads, or writes, past the range:
  "BitsCopyFastUnaligned does 64-bit loads/stores one past the last fully-used
  word" (`CI/test_main.cpp` 61-64), the tail padding is "reserved for the
  algorithm's over-read" (175), "the fast path over-reads up to one uint64 past
  the end" (366-367); it "may issue an unaligned 64-bit load up to one word past
  the nominal end" (`FastBitCopyTests.cpp` 149-154), and a source gets 8 bytes
  more so that these reads "never walk off the end" (184). It does nothing of
  the kind: `AccessInBounds` holds in the run `bitcopy`, and `InBounds` proves
  for all calls and thresholds that no load and no store leaves the bytes that
  hold requested bits. The 64-bit loop leaves the last whole word, "not
  guaranteed to be accessible" (`FastBitCopy.cpp` 127), and what comes after it to
  the byte instance. (The page-boundary test announced in
  `FastBitCopyTests.cpp` 7-8, "we never over-read / over-write", has it right.)
  The padding does no harm.
* When decoding fails for the 5-byte jump the code "tries again demanding more"
  (`FunctionHook.cpp` 703-709), at the offset that has just failed; the retry
  cannot succeed.

## Not modelled, and what could come next

* The tests, the harness, the test host, the scripts and the build rules have no
  logic of the program.
* `mprotect` and `VirtualProtect` failing: the code does not look, so the outcome
  is the fault `StoresAllowed` is about, or a page left writable.
* Apple's `MAP_JIT` toggle, which touches the trampoline before anybody knows it.
* Registers: that the jumps clobber none (`rel32` and `abs14` do not; `abs16`
  uses X16, which a function may use inside itself).
* VEX and three-byte opcodes beyond their being refused.
* A function whose rest branches into the moved bytes, as a run of its own.
