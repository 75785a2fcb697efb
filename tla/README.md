# A TLA+ model of unxorer-plus

unxorer-plus is a plugin for IDA Pro that finds strings a program hides. It
emulates functions of the database with Unicorn, forces branches so that code is
reached, stubs out library calls, emulates vector instructions itself, and looks
for readable text on the stack, in registers and in memory the program wrote.
This directory holds TLA+ models of it, the TLC configurations that check them,
and proofs checked by TLAPS.

Paths such as `emulator.cpp:535` are relative to `src/`.

## 1. The system

| Component | State | Operations | Made correct by |
|---|---|---|---|
| Plugin commands (`plugin.cpp` 35-119, 243-296) | the form's values, the two snapshots | one pass: processor, form, snapshots, one of two commands | the runs are those the form asks for; a command runs only on both snapshots |
| Setup (`emulator.cpp` 669-786, 899-955) | engine, mappings, hooks, the two snapshots | round the image to pages, sweep its instructions, map, hook | an emulator is complete or unusable |
| Worker pool (`plugin.cpp` 28-33, 121-241) | five shared atomics, one result set per worker, the threads | create, construct, claim, run, tally, merge, complete; poll, cancel, join, aggregate | a function runs once, nothing is lost, the call returns |
| Emulator run (`emulator.cpp` 802-897) | budgets, entry, pending branches | slice, charge, scan, resume | budgets hold, no branch is resumed twice, the run ends |
| Code hook (`emulator.cpp` 369-550) | visited branches, loop counters | classify, skip, handle, intercept, schedule, force, cut | both sides of a branch are reached, loops get their iterations and no more |
| Branch forcing (`emulator.cpp` 239-367, `instruction_classifier.hpp`) | EFLAGS, RCX | one switch over instruction types | the condition is true afterwards |
| Memory hooks, write tracker (`emulator.cpp` 552-657, `write_tracker.hpp`) | dirty pages, transient pages | record, map on demand, merge, scan | the dirty pages are the written ones, and can be read |
| Fake heap, allocation stubs (`fake_heap.hpp`, `api_stubs.hpp`) | base, cursor, block sizes | alloc, calloc, realloc, reset | blocks are disjoint, the arena conflicts with nothing |
| Import resolver (`import_resolver.cpp`) | none | build the map from addresses to names | calls of stubbed imports are found |
| Memory and string stubs (`api_stubs.hpp` 57-278) | emulated memory | memcpy, strlen, strcpy, ... | as the C library, up to 1 MB |
| String scanner (`emulator.cpp` 78-196, `strings.hpp`) | set of strings found | extract, escape, trim, deduplicate | what is scanned is listed, as it is and once |
| Vector handler (`handler.cpp`, `vector_operations.hpp`, `register_mapper.hpp`) | vector registers | moves, logic, arithmetic, shifts, shuffles | as the instruction set manual says |
| AES rounds (`aes_impl.hpp`) | none | rounds, inverse rounds, key schedule | as the AES standard says |
| Results, console, logger | a window | display, print | user interface only |

How they interact. IDA calls `run` on its main thread. The every-function command
starts one thread per processor; each owns an emulator, and all of them share the
atomics of `run_on_all_functions`, the global counters of `emulator.hpp:6-26`,
and, read only, the two snapshots. An emulator is driven from two sides: its run
loop calls `uc_emu_start`, and Unicorn calls back into `hook_code` before every
instruction, `hook_mem_write` before every store and `hook_mem` on a fault. The
code hook calls the vector handler, the stubs and the scanner. The stop flag is
written by the main thread (Cancel) and by workers that cannot start, and read by
the workers' loops, the run loop and the code hook.

What is hard: threads over shared atomics, stop requests at any moment, workers
that fail to start; two budgets, a timer and a stop flag that race to end a
slice; exploration that must both end and cover both sides of branches, with
counters that are dropped and kept between slices; a set of dirty pages that is
supposed to describe memory, and stubs that write without marking it; strings that
cross pages, end at the end of a window or are overwritten between two scans; an
emulator of vector instructions that has to agree with the engine it runs beside;
arithmetic at the ends of the address space. The
list is in `PROJECT.json` under `hazards`, each entry at its line with the
properties that cover it.

## 2. Modules

| Module | Models | Checked by |
|---|---|---|
| `FunctionBatch` | what an every-function batch promises, with no threads | refined by `WorkerPool` |
| `WorkerPool` | `run_on_all_functions` and the workers' lambda | run `pool`, proofs |
| `WorkerPoolProofs` | theorems about `WorkerPool`: who holds what, its counters, and that it implements `FunctionBatch` | TLAPS |
| `Plugin` | the plugin's `run`: checks, form, snapshots, and the arguments of `emulator::run` (operators only) | the configurations of `MCEmulator` |
| `Emulator` | `emulator::run`, `hook_code`, `handle_call`, `schedule_branch`, the import map, the instruction snapshot | run `emulator`, four violation runs, proofs |
| `EmulatorProofs` | theorems about `Emulator` | TLAPS |
| `PageMemory` | `hook_mem`, `hook_mem_write`, `write_tracker`, the bytes of a scan | run `memory`, one violation run, proofs |
| `PageMemoryProofs` | theorems about `PageMemory` | TLAPS |
| `FakeHeap` | the emulator's constructor, `capture_image_snapshot`, `fake_heap` and the stubs that allocate | run `heap`, proofs |
| `FakeHeapProofs` | theorems about `FakeHeap` | TLAPS |
| `ForceBranch` | `force_branch` against the classification tables | run `force_branch`, proofs |
| `ForceBranchProofs` | theorem about `ForceBranch` | TLAPS |
| `Aes` | `aes_impl.hpp`, over bytes, and the rounds as the standard has them (operators only) | run `vector` |
| `VectorHandler` | `handler.cpp`, `vector_operations.hpp`, `register_mapper.hpp`, and the instruction set manual | run `vector` |
| `MemoryStubs` | the stubs that do not allocate, the search for a stub, and the C library (operators only) | run `strings`, proofs |
| `MemoryStubsProofs` | lemmas about what each stub does to memory and returns | TLAPS |
| `StringScan` | `scan_buffer_for_strings`, `push_string`, `strings.hpp` (operators only) | run `strings`, proofs |
| `StringCollection` | which memory is scanned when, composed with the stubs and the scanner | run `strings`, proofs |
| `StringCollectionProofs` | theorems about `StringCollection`, lemmas about the scanner | TLAPS |
| `NaturalFacts` | lemmas about remainders and alignment, induction over sets and intervals, loops and ranks | TLAPS |
| `MC*` | instances for TLC | |

Definitions keep the names of the code; `Mut_...` definitions are faulty variants
of the definition that follows them, one or more per property, and show that the
property notices the fault.

### WorkerPool

One action per access to a shared atomic. `wpc[w]` says where worker `w` is:
`construct`, `check_stop` (182), `claim` (185), `run` (189), the two tallies (194,
195), `merge` (199), `complete` (200). What lies between two of those touches
only the worker's own data and is part of the action. An emulation run is one
step with an arbitrary result, since the pool only sees its strings and its
number of limit hits. `main` walks through creation, the three tests of the
polling loop, joining and aggregation. The user may cancel at any poll; any
worker may fail to construct its emulator. The atomics are sequentially
consistent in the model; the code uses relaxed ones, and apart from `join`, which
synchronises, it never draws a conclusion about one atomic from another while
workers run.

`WorkerPool` implements `FunctionBatch`: a function's results are recorded when
its worker merges them, and the window opens once, on exactly what is recorded.
The refinement mapping is `Recorded`.

### Emulator

One step is a call of `hook_code` followed by the execution of the instruction,
chosen by address. An instruction is a record (kind, size, operand, successors,
page it writes), so registers and data are abstracted to "where may the engine go
next, and which page does it write". Where the code forces the outcome (a forward
branch, a loop that is cut, a call that is replaced, a skipped instruction) the
model's successor is forced too; otherwise every successor is tried. `cfg` is a
run's arguments: limits, features, whether other workers run beside it, and
whether the engine may fail to save contexts; `MCEmulator` takes the arguments from
answers to the dialog through `Plugin`. Time is abstracted to whether any is left
(after the conversion to microseconds, modulo 2^64); `TimerExpires` may happen at any
instruction. What the hook knows of the image is computed by the linear sweep of
`capture_instruction_snapshot`: code that is encrypted in the database or lies inside
another instruction is executed unseen.

History variables record what happened for the properties and are never read by an
action: `executed`, `covered`, `truncated`, `modified`, `quiet`; `scheduled`, how often
each pair was saved, and `resumed`, how many of them were taken up again, so that a pair
that is saved a second time after it left the list is noticed; `streak`, how often in a row a
backward branch was taken, and `tried`, how often it was met since it was last given up.

The scans belong to other modules, because what they find depends on bytes and not on
control: `StringCollection` has when they happen and what they list, `PageMemory` what
they can read. `hook_code` and `handle_call` occur in `Emulator` and in `StringCollection`;
both send calls only to the stubs (`emulator.cpp:384-385`), and a `jmp` to an import is left
to the engine, which finds no page there (`EngineLeaves`, `JumpToImport`).

`Plugin` gives `Emulator` its `cfg`. Nothing is run for another processor, without an
answer to the dialog, or without both snapshots (`plugin.cpp:254-283`); `scan_register_strings`
is among the arguments and read by `StringCollection` only, under the name `registers`.

### PageMemory, FakeHeap, ForceBranch

`PageMemory` models `record_write` turn by turn, because its counter can wrap, and the
demand mapping as the set of pages it grants. A region of which one page cannot be read is
skipped as a whole (`emulator.cpp:583-584`), so `dump_tracked_writes` reads it only if all
of it is mapped; the history variable `refused` has the dirty pages some access was kept
from, and a region that has none of them is read. `FakeHeap` starts with the emulator's
constructor (one action for each way it may end) and models every path through the allocator
modulo the size of the address space; contents are whether a byte is zero. `ForceBranch` is
the switch of `force_branch` as a table of its cases, each with the masks it sets and
clears, compared with the meaning of each condition.

### Aes, VectorHandler

`VectorHandler` keeps two machines and gives every instruction to both: `engine`
to `handle`, which is the code, and `manual` to `Meaning`, which is the instruction
set manual. `Meaning` shares no operator with the handlers' computations: logic is a truth
table on single bits (`Truth`), sums and differences put a carry or borrow into each byte
from a comparison of the lane's lower bytes (`Exceeds`), the product is the one of signed words
(`Signed`), shifts move bits by their place in the lane (`Shifted`), shuffles pick bytes of a
half (`Shuffled`), AES rounds follow the standard with an S-box computed from inverses and
the affine map (`Aes`, `Manual...`). What the two have in common is not arithmetic of lanes:
bytes of registers and how they make an address or a shift count, and in AES the exclusive-or
of bytes and the product of the field, which has to fit the code's tables for the S-boxes to
agree. Bytes are
whole bytes, registers have 32 of them, AES has its full tables. A behaviour is a
free program of up to three instructions of the menu, or one of the listed
programs: one instruction on chosen data, AES over blocks in which every byte
occurs, or a program that undoes what it did. The comparison stops
(`followed`) at the first instruction of a form in which the code is known to
differ. `Deviates` lists them:

* a `[reg]` operand (`o_phrase`) is not taken as memory; an absolute operand has
  the register field added to its address (`vector_operations.hpp:5-25`);
* accesses to pages that are not mapped are dropped, where the engine would map
  them (`handler.cpp:11`, `:43`);
* `movd` and `movq` from an XMM register do nothing: no vector register is read as
  4 or 8 bytes (`vector_operations.hpp:29`); MMX registers are unknown;
* a shift count in a vector register is read as 0, for the same reason;
* a VEX instruction that writes an XMM register keeps the upper half
  (`vector_operations.hpp:76`), the manual clears it;
* AES on YMM registers takes state and key as zeros: the code asks for 16 bytes, and a
  YMM register is read as 32 only (`vector_operations.hpp:29-38`);
* `aeskeygenassist` rotates its words the wrong way (`aes_impl.hpp:141-144`).

The fifth and the last of them are faults of the code: a key schedule made with
`aeskeygenassist` is wrong, and what a v-form leaves in an upper half comes back in a later
256-bit instruction. No property covers them, since the comparison ends there.

`vmov_operation` and `read_vector_operand` (`vector_operations.hpp:44-57, 92-125`)
are never called.

### MemoryStubs, StringScan, StringCollection

Memory is a function from the mapped addresses to bytes. `MemoryStubs` has the stubs
as the code computes them (loops as recursive functions) and the C library as it
is defined: `LibDefined` says for which arguments, `LibMem` and `LibReturns` what.
`lstrcpynA` and `lstrcpynW` share the stub of `strncpy` (`api_stubs.hpp:371`), which
pads and leaves out the NUL; only where the length makes the two agree are they
claimed to follow Win32. `StringScan` has the loop of `scan_buffer_for_strings` and,
apart from it, `IsString` and `Shown`, which say what is to be found. The UTF-16
branch of the loop (`emulator.cpp:113-127`) is dead: it is reached only when the low
byte is not printable, and then the word is not either. No wide string is found, by
the code or the model.

`StringCollection` is the machine around them: one action per kind of instruction,
since the scans depend on it: `mov` (no scan), return, call of an import (a scan, the stub,
and with tracking another scan), jump to an import (no stub; without tracking a scan of
the stack and registers, with tracking none), the end of a slice, and any other
instruction. Only stores of the engine mark pages dirty; what a stub writes to a page that is
not dirty is not scanned, which `writes_untracked` is about.

What is modelled of Unicorn is what the code relies on: the code hook runs before
each instruction and a changed RIP takes effect at once; the write hook runs
before the check whether the page is mapped; the unmapped hook is retried when it
returns true; `uc_mem_write` fires no hooks; the instruction count and the timer
end `uc_emu_start`; contexts hold registers and no memory.

## 3. Runs

| Run | Bounds | Shows |
|---|---|---|
| `pool` | up to 3 functions, 2 workers, 2 strings, 1 hit per run | claims are exclusive (`ExclusiveClaims`), no function runs twice (`RunOnce`), no result is lost (`NoResultLost`), the counters agree (`Accounting`, `LimitWarningConsistent`), the call returns (`Terminates`), `FunctionBatch` is implemented |
| `emulator` | an image of 30 addresses with four functions, started as the dialog's answers say, limits of 3, 7 or 12 instructions, loop limits of 1, 2 and the largest number (`MaxU64`, here 5), time limits of which one wraps to none, dirty allowance 3 | branches are scheduled once (`PendingScheduledOnce`) and both sides covered (`BranchSidesCovered`), budgets kept (`BudgetKept`), loops get their allowance and no more (`LoopsGetTheirIterations`, `LoopsBounded`), limited runs end (`LoopLimitEndsRun`, `LimitedRunsEnd`) |
| `heap` | 128 addresses, an arena of 16, six layouts, five sizes of which two wrap, four blocks | the arena fits (`ArenaConflictFree`), blocks are disjoint (`BlocksDisjoint`), contents survive `realloc` (`ReallocKeepsContents`) and not a reset (`CleanAboveCursor`), for every way the constructor ends |
| `memory` | eight pages of four bytes, three core pages, three transient ones, a scan limit of two pages | dirty pages, regions and scans agree (`DirtyPagesExact`, `RegionsExact`), also beside pages that were refused (`SmallRegionsScanned`); the hook returns except at the top page |
| `force_branch` | all instruction types, all flags | every condition is forced |
| `vector` | four vector and three general registers, whole bytes, 65 menu instructions, free programs of up to three and 80 listed ones | the handler agrees with the manual's lanes and bits (`ManualFollowed`), inverse programs restore their data (`InversesRestore`) |
| `strings` | pages of 8 bytes, an image, a stack and a heap, three instructions out of six stores, 22 calls, two jumps to imports, three values of RSP, returns and slice ends; `max_buffer` 12, windows of 8, 12 and 16 bytes | strings in dirty pages, on the stack and behind arguments are listed when they should be (`TrackedStringsListed`, `StackStringsListed`), nothing else is (`ListedStringsExist`), stubs follow the C library (`CLibraryFollowed`) and stay within their bound (`StubWritesBounded`) |

The bounds are the smallest at which the interesting cases meet: in `pool` three
functions over two workers give a worker that claims twice while another is
anywhere, claims past the end, and unequal sets to merge; in `emulator` the image
holds a two-sided branch, nested loops of which one writes, a loop that writes
nothing, calls through a slot and a thunk, an indirect jump, an address the
snapshot does not hold and a function that spins, and every limit is both reached
and not reached; in `heap` the arena is filled exactly and overshot, in each
position relative to the stack; in `memory` every page boundary is crossed,
including the last, and the limit is met in the middle of an access; in `vector` every
handler, operand kind and lane width is in the menu, and three instructions are a
producer, a consumer in the other width, and a store; in `strings` two stores and a call
make strings across a page border, at the end of a region longer than a window and
under a stub that overwrites them, and every call of the menu is made with arguments
the library defines and with ones it does not.

Fairness. `pool`: weak fairness of the main thread and of each worker, which is
what an operating system's scheduler gives to threads that never block on each
other except in `join`; nothing makes the user press Cancel, and `Terminates` does
not need it. An emulation run counts as a step that ends; that it does is
`LimitedRunsEnd` of `Emulator`, and with no limit at all it need not. `emulator`:
weak fairness of the run itself and of the engine's timer; no fairness for stop
requests. `memory`: weak fairness of the hooks.

`heap` switches the deadlock check off, because the model stops after an exception
or a failed constructor, and `vector` and `strings` because their programs end;
everything else runs with it on.

### Where the code and its documentation differ

Five runs expect a violation.

* `budget_shared`: "Max instructions (per function)" (`plugin.cpp:54`) is charged
  with a counter all workers increment (`emulator.cpp:866`); in a batch a function
  may be stopped after a fraction of its budget. It never gets more than its
  budget (`BudgetKept`).
* `writes_untracked`: stores made by the vector handler and the stubs are not
  tracked (`README.md:15` of the repository), since `uc_mem_write` fires no hook.
* `quiet_loop_allowance`: the allowance for loops that write
  (`emulator.cpp:522-524`) goes to every loop once any page is dirty.
* `iat_calls`: a call through an import slot looks up the slot's contents, the map
  is keyed by slots (`emulator.cpp:406`, `import_resolver.cpp:14`), so such calls
  are answered with 0 and not with the stub (`README.md:12` of the repository).
  Calls of thunks are found.
* `top_page_store`: the loop of `record_write` (`write_tracker.hpp:20`) does not
  end for a store into the last page of the address space. `HookReturnsBelowTop`
  is the part that holds.

Two more differences are in the models without a run of their own. `handle_call` answers
calls only (`emulator.cpp:384-385`): a jump to an import, a tail call or a thunk that is
jumped to, runs no stub, although `README.md:12` of the repository has "direct jumps
(thunks)" intercepted (`JumpToImport` of `StringCollection`, the `jmp` of `Emulator`).
And `aeskeygenassist`, which `README.md:21` of the repository lists among what is emulated,
is the last of the deviating forms of section 2.

## 4. Proofs

Every invariant and step property that `pool`, `emulator`, `heap`, `memory`, `force_branch`
and `strings` check is a theorem for every value of the constants; so is the refinement of
`FunctionBatch`. Only liveness and the run `vector` are left to TLC alone. In each module
of proofs `IInv` is the inductive invariant; it held on the module's instance before it was
proved. There is one lemma per action and part, then `Inductive` (`CountInductive`,
`RunInductive`, `HeapInductive`, `MemoryInductive`, `Collects`), then the properties.

What a loop of the code computes is a recursive function in the models. The library's
induction theorems cannot be used, since they have an operator as parameter, but induction
over the *set* of the numbers for which something holds needs none (`SetInduction`,
`IntervalInduction` in `NaturalFacts`). `LoopExists` says that a function with `f[0]` given
and `f[i]` computed from `f[i - 1]` exists, which is what a definition by recursion has to
be shown first; each loop is then taken with an invariant of its own.

### WorkerPool

`WorkerPoolProofs` proves, for any number of functions, processors and strings,
`TypeCorrect`, `ClaimsAreExclusive`, `RunsOnce` and `NoResultIsLost`, from
`PoolAssumption` (sizes are natural numbers; the marker `NotRun` is not a set of
strings).

None of the properties is inductive. The invariant `IInv` adds three parts to the
types. `IndexInv`: what workers hold is below `next_index` and distinct, and every
index below `next_index` belongs to a finished run or to a worker in `run`; it is
needed because exclusiveness of a new claim rests on everything claimed being
below the counter. `StringsInv`: what a finished run reported is in some partial
set, or its worker is between the run and the merge, and partial sets hold nothing
else. `ThreadsInv`: a worker that exited saw the stop flag or the end of the
indices, and aggregation happens after all of them exited. When the window opens
no worker holds anything, so `StringsInv` becomes an equation, and thread 0 exited,
so `IndexInv` says every function ran unless the batch was stopped. Each part is
preserved by each action (`TypeStep`, `IndexStep`, `StringsStep`, `ThreadsStep`).

The section on counters proves `ProgressAccounted` and `LimitWarningIsConsistent`,
which count the workers at certain program points. A step moves one worker into or out
of such a set, so its cardinality changes by one as the counter does. `TallyInv` is
needed since the two tallies are separate atomics: while a worker is between them they
disagree by as many as there are such workers, and only after the join by none.

The last section proves `PoolImplementsBatch`, the refinement that the run
`pool` checks on its instance. What a function has on record, seen through the
mapping, is called `Recording`. `Merge` is `Record` of the function the worker
holds; a worker that cannot start and Cancel are `Stop`; `Display` is `Show`; every
other step leaves the batch alone. `ShownInv` says the window is not open before
the main thread returns. The hard steps use `IInv`: a claim must not forget a
recorded function (the claimed one has not run), a merge must find its function
unrecorded and held by no one else, and at `Display` no worker may hold results.

### Emulator

`EmulatorProofs` is about every program, image, set of arguments and behaviour of the other
workers, from `ProgramAssumption` (addresses and sizes are natural numbers, the
snapshot is right about the instructions it holds) and `LimitAssumption` (limits are numbers
below 2^64).

* `BothSidesExplored`. `BranchSidesCovered` speaks of finished runs only. `SidesInv` says
  of every state where a side of an executed branch is: executed, pending, or where the
  engine stands. A side leaves the pending ones only to be resumed, and the engine
  leaves an address only by executing it, by an event that marks the run `truncated`, or
  at the end of a slice. A side that was scheduled before is found through
  `ScheduleInv`: a marked branch was executed, so its side is accounted for already.
  `DoneInv`: a run that nothing cut short leaves nothing pending.
* `BudgetHolds`. `BudgetInv` relates what was executed, what is left of the slice and of
  the budget, and the shared counter at the start of the slice and now. Other workers
  only add to the counter, so they shorten a run and never lengthen it.
* `LoopsStayBounded`. `LoopInv`: a loop's counter is at least its current streak, and
  the allowance only grows during a run because no page becomes clean.
* `LoopsAreNotCutShort`. `tried` is what the loop's counter holds (`LoopInv`), in every slice
  and branch, so a cut, which asks the counter, happens only after as many tries; the
  allowance never falls under the limit and the bonus, because its sum saturates.
* `BranchesScheduledOnce`. A pair is saved only if it is not marked, and marked when it is
  saved, so the history has each pair once, and what is pending and what was resumed
  add up to the number of pairs. The list alone would not show it, since a resumed pair has
  left it.
* `RunTypes`.

### FakeHeap

`FakeHeapProofs` assumes `ArenaAssumption` (alignments are positive and divide each other as
the code's powers of two do, and `std::vector` can be as large as the arena) and
`LayoutAssumption` (the address space goes on after the image and the stack by an arena
and its alignment, 16 MB and 64 KB; true of every image that does not end in the last 17 MB).

`ArenaBesideImageAndStack` is the arithmetic of `compute_base`, for each position of the
stack relative to the image. `SetupInv` keeps its result from the constructor on, and says
that an arena is where it put it or not at all, and that nothing exists before.
`BlocksNeverOverlap` needs `CursorInv` (the cursor is aligned and in the arena) and that the
size on record of a block is at least the one asked for; a new block starts where everything
earlier ends. From the same facts follow `FreshMemoryClean`, `OnlyWrappingThrows` and the
step property `ReallocCopies`. What is said of blocks and contents is said as long as no
request wrapped, in the theorems as in the properties. `NaturalFacts` has the facts about
remainders these proofs and those of `PageMemory` share.

### PageMemory

`PageMemoryProofs` assumes `MemoryAssumption` (pages divide the address space; accesses
are shorter than it) and `CoreAssumption`. `TransientBounded`: the pages an access is
granted are the lowest missing ones, as many as there is room for; their number is
found by pairing each with the number of missing pages below it. `DirtyPagesAreStores`:
`RecordInv` is the loop invariant of `record_write`, stated only for
stores that do not reach the last page, for which the loop does not end.
`DirtyPagesReadable` says what scans rely on, and no run checks it: each dirty page
is mapped between accesses unless an access was kept from that very page. `MappedInv` says it
during an access too: what was stored to is mapped, refused or still to be asked for.

`RegionsAreDirtyPages` is about `get_dirty_regions`. The sorted pages are found by rank,
the number of dirty pages below each (`SortedAdjacent`: nothing is dirty between one page
and the next in order). `MergeInv` is the invariant of the merging loop: after `n` pages the
closed regions and the open one cover exactly the dirty pages up to the `n`-th, and the
closed ones lie below with gaps between them. That the sums which end a region do not wrap
rests on `TopInv`: a store to the last page never finishes, so between accesses that page
is not dirty. `SmallRegionsAreScanned` follows with `MappedInv`: every page of a small
region without refused pages can be read, so `dump_tracked_writes` reads all of it.

### ForceBranch

`EveryConditionForced`: the cases of the switch are the conditions of the processor's
manual (`SwitchFollowsManual`), every type the classifier lists has one
(`EveryTypeHasACase`), no type has two (`ConditionsApart`).

### MemoryStubs, StringScan, StringCollection

`CollectionAssumption` only says that addresses and sizes are natural numbers, that memory
and what stores put in it are bytes, that the stack is mapped, and that calls have a name
and three arguments. Images, windows, menus and the bound `max_buffer` are arbitrary.

* `StubsWriteTheirBuffers`. `StubChanges` says of every stub, on defined arguments or not,
  which bytes it may change; the loops of `strcpy` and `strncpy` need their turns one by
  one, because they read what they may have overwritten.
* `CallsFollowTheLibrary`, about calls that stubs answer; jumps run none.
  `StubsFollowLibrary` compares each stub with the library's definition, one lemma per kind
  of function. What a copy leaves is written as one string laid over another memory
  (`Overlay`). The invariant of the copying loop is that the first `i` characters are laid
  over the memory the call began with; the library demands that strings do not overlap, so
  the source is still what it was. The one of `strncpy`'s loop adds that its flag is set
  when the string has ended, and that from there on the characters laid are NUL. `memcmp`
  returns the sign at the least position where the memories differ, and `strcat` copies to
  the end `EndedAt` finds.
* `OnlyStringsAreListed`, `TrackedStringsAreListed`, `StackStringsAreListed`. `ScanInv` is
  the invariant of the scanner's loop: what was added are strings of the buffer, and every
  string that begins before the place reached is listed. A turn covers what it passes
  (`ScanKeeps`): no string is lost in the bytes it steps over. `ScanTurn` shows
  that the branch for wide strings is never taken. `ShownText` connects what `push_string`
  makes of bytes (escape, trim) with what is to be shown of them. `ScanRegion` moves the
  result from the buffer to memory; `ScansGrow`, `RegisterScans` and `RegionScans` put the
  scans of several places together. A dirty region ends, because pages are finitely many
  (`RegionStops`).
* `TypeCorrect`. `ListOK` has to be inductive, since a scan leaves out what is listed under
  the same text: without it, "listed" would not mean that the string is there as shown.

### Only model-checked

* Liveness (`Terminates`, `LoopLimitEndsRun`, `LimitedRunsEnd`, `HookReturnsBelowTop`):
  it rests on fairness, hence ENABLED, which the prover does not treat.
* `ManualFollowed`, `InversesRestore` and the types of `VectorHandler`: bytes are combined with
  the operators of `Bitwise`, which are recursive; modules that reach them have no
  working prover.

## 5. Not modelled, and the plan

Not modelled: the results window, console and logger (user interface); the counters
that are only printed; the wait box;
`std::thread`'s constructor failing; `read_arg` beyond the fourth argument, which no
stub uses.

Abstracted: a database instruction and the one in memory are the same where both
exist, so a program that rewrites its own code is not followed;
`resolve_operand_target` reads a fixed qword per operand; `o_displ` operands of jumps
have a fixed address, since `Emulator` has no registers. Runs of one worker are not
independent of each other: vector registers and flags survive
(`emulator.cpp:834`), which no module claims to the contrary. In `strings` a store
to a page that is not mapped stops the engine (`PageMemory` has what is mapped on demand),
register scans see the four registers a
call uses, and strings have at most 16 bytes. That the switches of an emulator follow what its
constructor could set up is an assignment of the constructor (`emulator.cpp:741-786`) and
modelled, but no property of its own.

What is left to prove is the run `vector`. It would take exclusive-or, and, and or of
bytes as functions of their bits instead of the operators of `Bitwise`; then the logic and
the moves of `VectorHandler` could be compared with `Meaning` lane by lane. The inverse
AES rounds and key schedules rest on full tables, on which TLC checks every byte.
