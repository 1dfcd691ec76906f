# A TLA+ verification of the TauOS kernel

TauOS is a small AMD64 kernel in Rust, started by the BOOTBOOT loader on all
processors at once. This directory holds TLA+ models of its parts, the TLC runs
that check them on small instances, and TLAPS proofs of the most important
results. Paths below are relative to `src/`; `PROJECT.json` names the source
lines of every definition.

## The system

All processors enter `_start` (`kernel/src/init.rs`) together. The one that
draws ticket 0 sets up the frame buffer, reads the boot configuration
(`kernel/src/cfg.rs`), builds the kernel's page tables and the allocator of
physical memory (`Mapper::setup`, `kernel/src/memm/mod.rs`) and publishes the
tables; the others spin until they see them. Then each processor maps itself a
stack, switches to it, enters `init`, maps itself a heap, puts a buddy allocator
(`Talloc`, `kernel/src/memm/talloc.rs`) over it, allocates its descriptor tables
there, and halts. The processors share the `MAPPER` lock (page tables and
physical memory), the console (`kernel/src/out`: a lazily initialised UART and
the terminal lock `TERM1`) and the configuration.

The allocator is used twice: inside `Mapper` for physical memory, where running
out is an error, and as the heap of a processor, where the handler `oom_handler`
maps more memory and calls `Talloc::extend`.

## Inventory

| Part | Source | Modelled by |
|---|---|---|
| Integer helpers, `copy_slice_bits` | `kernel/src/utils/mod.rs` | `BitOps`, `BitCopy` |
| Linked lists | `kernel/src/utils/llist.rs` | `Llist` |
| Geometry of an arena | `kernel/src/memm/talloc.rs` | `Arena` |
| `alloc`, `dealloc`, `shrink`, `release` | `talloc.rs` | `Talloc` |
| What the allocator promises | doc comments of `talloc.rs` | `Allocator`, refined in `TallocContract` |
| `new`, `extend`, `oom_handler` | `talloc.rs`, `kernel/src/init.rs` | `TallocHeap` |
| `Tallock`: `GlobalAlloc` and `Allocator` behind a lock | `talloc.rs` | `Tallock`, over `Allocator` |
| Memory map, `Mapper::setup` | `kernel/src/bootboot.rs`, `kernel/src/memm/mod.rs` | `MemorySetup` |
| `Mapper::map`, `map_offset`, `alloc_phys` | `memm/mod.rs`, `amd64/src/paging.rs` | `PageMap` |
| `_start`, `init`, `allocator_setup`, panic handler | `init.rs` | `Boot` |
| Synchronisation of the configuration | `kernel/src/cfg.rs` | `Boot` |
| Selectors, descriptors, gates, insertion into a GDT | `amd64/src/segmentation.rs`, `interrupts.rs` | `Segmentation`, `Interrupts`, under the client `DescriptorApi` |
| `setup_sys_tables`, exception wrappers and handlers | `init.rs`, `amd64/src/lib.rs` | `SysTables` |
| Serial port | `kernel/src/out/uart.rs`, `amd64/src/ports.rs` | `Uart` |
| Terminal, frame buffer, glyphs | `kernel/src/out/terminal.rs`, `framebuffer.rs`, `utils/psf.rs` | `Terminal` |
| `print!` and its locks | `kernel/src/out/mod.rs` | `Output`; in `Boot` as far as the bring-up depends on it |
| `Mapping` iterators, registers, `old/` | various | no, see *Not modelled* |

How the models fit together. `TallocContract` shows that `Talloc` implements
`Allocator`, and `Tallock` uses `Allocator` in its place. `Talloc` has sets where
the code has linked lists; `Llist` shows that the lists behave as sequences.
`TallocHeap` moves bitmaps with the copies that `BitCopy` examines. `Boot` has
`Mapper::setup` and `map` as single steps; `MemorySetup` and `PageMap` have their
inside. `Output` composes `Uart` and `Terminal`; `SysTables` and `DescriptorApi`
both stand on the operators of `Segmentation` and `Interrupts`. `Services`
(`Boot`, `PageMap` and `Output`) and `Parts` (the others) put components that
share no state side by side for one run: a behaviour of `Services` or of `Parts`
is a behaviour of one of them.

## The modules

### BitOps, Arena

Addresses are integers, as the code compares them (`isize`). A shift is a
multiplication or division by a power of two; a mask rounds. `WordBits` is the
width of the word: exponents are below it, and a shift by the whole width is an
overflow, which the dev profile (the one the kernel is built with) turns into a
panic. `Arena` is the geometry: granularity `g` has blocks of the arena's power
of two divided by `2^g`, two blocks that differ in one address bit are buddies,
and each pair has one flag in the bitmap at `bitmap_offset`.

`FlagsApart` says when the offsets of two pairs differ. It is a condition on the
arena: it fails if the arena crosses a boundary as aligned as its own size. The
arenas of the kernel satisfy it (heaps start at a whole GiB and are smaller);
the code does not test it, so it is an assumption of the module.

### Talloc

One arena whose out-of-memory handler always fails, which is the allocator of
physical memory. Every method runs under the allocator's lock, so methods do not
interleave; their loops are small steps, so that invariants are examined in the
middle of a method as well.

| State | Code |
|---|---|
| `arena`, `avails`, `llists`, `bitmap` | the fields of `Talloc`; `avails` and `bitmap` as sets of set bits, a list as the set of its blocks |
| `held` | what callers have: the safety contract of `dealloc` and `shrink` |
| `pending` | memory that callers will release |
| `pc`, `cur`, `want`, `rel`, `todo` | the running method and its locals |
| `err` | the size of the last refused request |

| Action | Code |
|---|---|
| `AllocExact`, `AllocLarger`, `AllocErr` | the three ways through `alloc` before its loop |
| `Split`, `SplitDone` | the split loop of `alloc` and `shrink` |
| `Shrink` | `shrink` before its loop |
| `Dealloc`, `Merge`, `MergeDone` | `dealloc`, its loop, and what follows it |
| `Release`, `ReleaseNested` | `release` with its assertions, early return and the two calls that leave out null |
| `ReleaseAscending`, `ReleaseDescending` | the two modes of the loop of `release`; each block goes through `dealloc` |
| `Halted` | after a panic, the lock is never given back |

A list is a set because `alloc` takes whichever block is next to the sentinel
and no property depends on which that is; the choice is left open.

### Allocator and TallocContract

`Allocator` is what a caller may rely on: memory that was released, as large and
aligned as the layout asks, never null, never shared. It knows no blocks and no
books. `TallocContract` maps `Talloc` to it: a caller owns its block from the
moment `alloc` takes it off a list (while it is still being cut down) until
`dealloc` is called. Steps of loops and of `release` are stuttering steps.

### TallocHeap

`Talloc` with `extend` and `oom_handler`. The status data (list sentinels and
bitmap) lies inside the heap: an extension builds new status data in the added
memory, moves lists and flags over (`Extend`, `CopyBitmap`), releases the old
status data, then the rest of the added memory (`ReleaseRest`), and `alloc` looks
again (`Resume`), in the loop that called the handler. `HeapArguments` states
what `allocator_setup` and the default configuration give: a base that is a
multiple of the largest power of two and a first size that is a power of two, so
that each extension adds one granularity. For those the copies that
`copy_slice_bits` makes (four fields of at most four bits) end inside one byte
and are right.

### PageMap

`Mapper::map` over a tree of tables. The recursion of `map_offset` is an explicit
stack of loops, so that the tree is examined after every entry that is written:
other processors walk the same tables meanwhile. `Translate` is the processor's
walk. A frame is a number and is given out once (`alloc_phys`); a table is named
by its frame. The size of a page, which `Boot` needs too, is declared in `Paging`. Following a page as if it were a table leads to `astray`, where
what happens is up to the contents of that page.

### Boot

Every processor runs `_start` and `init`; a step lies between two accesses to
shared state. `given` is what loader and machine provide (frame buffer,
configuration, memory map, UART chip: fit or not), chosen in `BootInit`, as is the
number of maps that physical memory serves. `print` is a subroutine (`then` is
the place it returns to), `Panic` is a print that returns to `dead`. Locks
that a panicking processor holds stay held: nothing is unwound. `map` is one
critical section here (`PageMap` has its inside), and whether a heap has room is
nondeterministic (`TallocHeap` has its inside).

### Words, Segmentation, Interrupts, DescriptorApi

A word is the set of its 1 bits (`Words`), so that fields, shifts and masks are
set operations that TLC evaluates at the real widths. Each method of the crate
is an operator of the same name. `DescriptorApi` is a client: it makes one
object, calls setters in any order, and remembers in `told` what it asked for,
limits that a descriptor has no room for included;
the tables into which it inserts have every mix of used, split and free slots.

### SysTables

One processor runs `setup_sys_tables`, then `init`'s `int3` and `int 13`. The
assembly wrappers are lists of instructions; each is a step, and before any of
them the processor may raise an exception, so handlers nest (up to `MaxDepth`).
The processor is external: how it reads a descriptor through a selector, finds
the gate of a vector, pushes a frame with or without an error code and turns an
undeliverable exception into a double fault. So is the prologue that the compiler
gives an `x86-interrupt` function.

### Llist

`next` and `prev` are functions on addresses, and `new`, `mov`, `remove`,
`relink` and the iterator assign them as the code does. `lists` is the
reference, a sequence per list that is kept without looking at the links. Calls
respect the *Safety* sections of the methods, and alias their arguments as those
allow; the list changes under an iterator.

### BitCopy

`copy_slice_bits`: what it does before its loop, each round of the loop, and what
it does at the last byte. Whether the build checks overflow is chosen at the
start: with checks, a shift by the width of a byte panics.

### MemorySetup

`mmap_available_iter` (a byte is written to each block and read back) and
`Mapper::setup`: the pages of the first tables from the largest block, the
entries for the last GiB and for all physical memory, the new `CR3`, and the
releases to the allocator, one for each block. The choice of builds is as in
`BitCopy`.

### Tallock

Several processors call `alloc`, `alloc_zeroed`, `realloc`, `shrink`, `dealloc`
and the methods of `Allocator` with size 0. The lock is taken and dropped where
the code does it: `realloc` to a larger size holds it twice and copies in
between. `Talloc` is `Allocator` (`INSTANCE`), but finding a block and taking it
are two steps, so that only the lock keeps them together; free memory holds
arbitrary bytes, as lists are written there.

### Uart, Terminal, Output

`Uart` has the driver beside a chip of one of five versions, in whatever state
the firmware left it. Every port access is a step, between which the chip sends
on what it holds; the chip remembers which of the bits that it reserves were
set, and in which step (`touched`). `Terminal` draws on a frame buffer that maps byte offsets to
pixels: glyphs, wrapping, scrolling. `Output` is `__print` on several
processors: the lazy initialisation of the port, `try_lock` of the port, the
terminal lock, and the panic handler, which prints too while its processor
holds what it holds.

## The runs

| Run | Instance | What it shows |
|---|---|---|
| `talloc` | words of 6 bits, blocks of 2, arena [2, 21), two regions, four layouts | The books agree with the lists and no byte is owned twice (`MethodsInv`, the invariant of the proofs, in which `TypeOK`, `NoOverlap`, `BitmapAgrees`, `Coalesced` and `NeverPanics` are conjuncts), a set flag leads to a free buddy (`MergeFindsBuddy`), nothing is lost (`NothingLost`), allocations are right (`AllocationsFit`), `Err` only when nothing fits (`ErrOnlyWhenExhausted`), every method returns (`MethodsReturn`), `Allocator` is implemented (`Contract`) |
| `talloc_wrap` | blocks of 4, arena [-16, 16), regions that start at null, end on it, lie inside a block and stick out of the arena | `NoOverlap` and `AllocationsFit` (in particular, null is never handed out) up to the panics of `release`, which are reached |
| `talloc_across_null` | as `talloc_wrap`, a region [-5, 8) | finding 6 |
| `talloc_inside_one_block` | blocks of 4, arena [-16, 16) | finding 1 |
| `heap` | blocks of 32, nodes of 16, heap of 256 that grows to 512 and 992 | The books survive the move of the status data (`MergeFindsBuddy`, `AllocationsFit`), which shares no byte with a block (`StatusApart`); at most two blocks per extension are lost (`LittleLost`); only the mapper panics (`OnlyMapperPanics`); `alloc` returns (`AllocReturns`) |
| `heap_err` | as `heap` | finding 2 |
| `services`: booting | two processors, all loader inputs, 0 to 8 maps | Nothing is used before it is set up (`SetUpFirst`), stacks and growing heaps stay apart (`MemoryApart`), locks are given back (`LocksLeft`), everybody boots unless somebody panics (`EverybodyBoots`), a panic is reported and halts (`PanicsHalt`) |
| `services`: mapping | three levels of four entries, pages of 2, up to 18 frames, seven spans in any order | The tables stay a tree (`TreeShaped`), a call changes only translations of its span at any moment (`OnlySpanChanges`), well placed spans are mapped completely (`WellPlacedMapped`) |
| `services`: printing | two processors, five chips, two states left by firmware, three texts, a screen of two by two characters | The chip is identified and configured (`UartConfigured`), texts reach the line whole and in the order of the lock (`LineGetsTexts`), the screen shows the last lines (`ScreenShowsTexts`), every print ends unless somebody panics (`PrintsEnd`) |
| `page_map_stack`, `page_map_remap` | as mapping in `services` | findings 3 and 4 |
| `boot_stacks` | three processors | finding 5 |
| `uart_reserved` | as printing in `services` | finding 7 |
| `parts` | one of six parts in each behaviour, see below | the properties of the next table |

| Part of run `parts` | Instance | Properties |
|---|---|---|
| linked lists | two lists, five addresses (symmetric but for the first sentinels) | `LinksInverse`, `ListsAgree` with the reference, `IterOnce` while the list changes |
| descriptors | addresses, limits and indices with bits in every field, limits of 20 and of 24 bits among them, all tables of up to four slots | `GettersAgree` after any setters, but for the three cases that its comment lists; `UserInsertKeeps` |
| tables | `setup_sys_tables`, seven vectors raised anywhere, nested twice | `TablesReachHandlers`, `HandlersSeeTheirException`, `ReturnsRestore` |
| bit copy | slices of three bytes, eight offsets, twelve lengths, both builds | `CopyExact` against a reference definition, where the destination lies within a byte or ends with one |
| memory setup | some 800 maps of two and three entries, both builds | `SetupKeepsApart`, `SetupMapsAll`, on maps that fit (`Fits` states which) |
| locked allocator | two processors, five bytes, four layouts | `ContentsKept`, `BlocksAccounted` |

Deadlock is checked in every run. Each processor prints at most `MaxPrints`
times; that it then has nothing to do, as between two prints of the kernel, is
the stuttering action `Quiet`.

**Why the bounds are enough.** The arena of `talloc` has five granularities, so
a merge or a split goes through several rounds; it starts one block off an
aligned address and is not a power of two long, so the bitmap is offset, the top
blocks are missing, and `release` uses both modes of its loop. The four layouts
cover rounding up, an alignment above the size and requests for which the arena
is exhausted. The heap is extended twice, the second time up to the maximum,
which is not a power of two, as in the kernel. The spans to be mapped start
on and off a page of each level, overlap, and run out of frames. For the
bring-up two processors show every race between the bootstrap processor and
another; that the number of processors matters for memory only through
`RoomForStacks` is proved. A list operation reads at most the four nodes it is
given and their neighbours; two lists of up to three nodes have every
coincidence among them. The memory maps have the largest block first, in the
middle and last, off a page, too small, and beyond the last huge page. The
screen leaves a pixel over in each direction, and the texts of one print wrap,
break and scroll it. The two processors of `parts` show every interleaving of
two methods of the locked allocator; any number is proved.

**Fairness.** `Talloc` and `TallocHeap`: weak fairness of the running method, as
a processor that holds the lock keeps running (the kernel disables no processor
and has no scheduler). Calls are not fair: nobody has to allocate. What could
keep a method from returning is a loop without a bound: `dealloc`'s `while`,
`release`'s `loop` (which must change from ascending to descending sizes), and
the two loops of `alloc` that call the out-of-memory handler (`AllocReturns`). `Boot`: weak
fairness of each processor, for the same reason. The locks are spin locks
without a queue; weak fairness is enough because every processor takes each of
them finitely often. `Output`: weak fairness of each processor inside a print
and of the chip, which sends what it holds; nobody has to print, and prints are
bounded, so the remark about locks applies. `PageMap` and `Parts` have safety
properties only, and no fairness.

## What is proved

The theorems hold for every value of the constants that the named assumptions
allow. `PowersOfTwo` (in `BitOps`) states the few facts about powers of two that
the provers leave uninterpreted; each run whose module extends it evaluates it.

**Talloc** (`TallocFacts`, `TallocProofs`, `TallocContractProofs`). From `ArenaArguments` (a valid arena, flags apart),
`LayoutArguments` (what Rust guarantees of a `Layout`) and `RegionsFit` (regions
do not overlap, lie in the arena, hold a block or end on one, and touch null only
at their start; findings 1 and 6 show what happens otherwise):

| Theorem | States |
|---|---|
| `MethodsKeepInv` | `MethodsInv` is an invariant |
| `Types`, `NoByteOwnedTwice`, `BitmapIsRight`, `BuddiesMerge`, `MethodsNeverPanic` | `TypeOK`, `NoOverlap`, `BitmapAgrees`, `Coalesced`, `NeverPanics` |
| `FlagsLeadToBuddies` | `MergeFindsBuddy` |
| `AllocationsAreRight` | `AllocationsFit` |
| `NoMemoryLost` | `NothingLost` |
| `RefusalMeansExhausted` | `ErrOnlyWhenExhausted` |
| `TallocImplementsAllocator` | `Contract`: `Spec` implies the specification of `Allocator` under the refinement mapping of `TallocContract` |

The argument. `NoOverlap` is not inductive: `dealloc` trusts a flag, so the
bitmap must be right (`BitmapAgrees`). A flag is the exclusive or of two buddies,
so that a clear flag means "neither is free" only if they are never both free
(`Coalesced`). A set flag then has the buddy on the list of this granularity
unless the block in hand is itself listed, which `NoOverlap` excludes; it has a
parent because the buddy of a block of granularity 0 does not lie in the arena.
All this is about blocks: aligned, inside the arena, without null (`BlocksFit`).
`release` hands out such blocks because of the shape of what is left
(`ReleaseFits`): whole smallest blocks away from null and, in descending mode, a
base aligned to more than what is left. `MethodsInv` is the conjunction.
`TallocFacts` has powers of two, buddies and blocks, and what each elementary
step does to the books and to ownership; `TallocProofs` one step per action.
`NoMemoryLost` adds that each step passes on the smallest blocks of the
spans that it consumes.

For the refinement one more invariant is needed: whatever is listed, held, in
hand or left to release lies in memory that was released (`Inside`). With
`NoOverlap` and `AllocationsFit` it gives that what callers own can be owned side
by side (`OwnedFit`), before and after a step. Each action then either leaves
what callers own alone, or adds, drops or shrinks one allocation, which is a step
of `Allocator`.

`alloc` refuses when no list of the granularity or of a larger block has an
element (`Refused`). That the free memory is exhausted then is not obvious: an
aligned range could be free as a patchwork of smaller blocks. Take a smallest
block of the patchwork. Its buddy lies in the range too and is free, in no
smaller pieces and, as blocks do not overlap, in no larger one: it is a free
block, which `Coalesced` excludes.

**Tallock** (`PartsProofs`), from `TallockAssumption`, for any number of
processors, any memory and any layouts:

| Theorem | States |
|---|---|
| `TallockKeepsInv` | `IInv` is an invariant |
| `CallersKeepContents` | `ContentsKept` |
| `NoBlockLost` | `BlocksAccounted` |

Contents survive only if no two processors have a byte in common (`Apart`), also
counting the block that a method has taken and not yet returned. That follows
from the books: what is given out is exactly what processors have (`Accounted`),
and a block that `alloc` has found but not taken can still be taken, because its
finder has the lock (in `Reached`). After the copy of `realloc` the new block
holds what the caller knows (`Copied`), which is why giving up the old one is
harmless.

**Boot** (`BootProofs`), from `BootArguments`, for any number of processors:

| Theorem | States |
|---|---|
| `BootTypes` | `BootTypeOK`: in particular, the counters never pass the number of processors |
| `NothingUsedEarly` | `SetUpFirst` |
| `MemoryStaysApart` | `MemoryApart`, if `RoomForStacks` |
| `NoLockLeft` | `LocksLeft` |

The inductive invariant `IInv` adds to the types that the counters are the
cardinalities of the sets of processors that have drawn (`Counted`), that tickets
are distinct and drawn before memory is mapped (`Distinct`), and what has been
set up at each place of the bootstrap processor (`Ordered`). Stacks are then
apart because tickets differ, heaps because numbers differ and no heap reaches
the next GiB, and a stack and a heap because of the room that `stack_size`
leaves. `LocksInv` says where a processor is while it has each lock; it allows
`TERM1` to stay with a processor that panicked while drawing, which spins in its
own panic message for ever and so never counts as halted.

**PageMap** (`PageMapTreeProofs`, `PageMapProofs`), for any number of levels, entries and frames and
any requests inside the tables (`SpansInTable`, which `map_offset` demands of its
caller). `PowersOfFanout` states what the provers need of the powers of the
number of entries.

| Theorem | States |
|---|---|
| `TablesStayATree` | `TreeShaped` |
| `MapChangesOnlyItsSpan` | `OnlySpanChanges`, a property of steps |
| `WellPlacedSpansMapped` | `WellPlacedMapped` |

For the tree, tables hold only frames that were given out (`Sound`), so that the
next frame is used nowhere. For translations every table has a place in the
address space: there is a function from tables to aligned regions under which an
entry that leads to a table has the table's region as its part (`TablesPlaced`),
and the running loops are at an address of their table's region, each in the
table that an entry of the one around it leads to (`CallsPlaced`). A walk stays
in the place of its address, by induction over the levels, so writing an entry
changes no translation outside of the entry's part, and an empty table changes
none. Since a loop writes only entries that overlap the span, and a leaf only
when its page lies inside, nothing outside of the span changes. For the span
itself the invariant says that what is below the innermost loop is mapped
(`Smooth`): each loop is at the start of an entry, or at the start of the span,
or past its end, and the loop around a finished one goes on where that one
ended. This is where a span that is not well placed fails (finding 3). Spans that
were mapped before stay mapped, whatever is mapped over them (`EarlierCovered`).

**Llist** (`PartsProofs`), from `LlistAssumption`, for any finite set of addresses:
`LinksStayInverse` states `LinksInverse`. It is inductive as it stands; the work is in
the aliasing of the arguments that the *Safety* sections allow.

**BitCopy** (`MemoryProofs`), from `CopyAssumption` (which only types the
constants), for slices of any length: `BitsCopiedExactly` states `CopyExact`.
The invariant of the loop (`InLoop`) says that the bytes before the current one
have the bits asked for, that the carry holds the low bits of the next byte, that
no byte at or beyond the current one has been written, and which bits of the old
destination are saved: all of them of its first byte, also those that are meant
for the last, which is why a copy that ends inside a later byte is exempt from the
property.

**MemorySetup** (`MemoryProofs`), from `MemoryAssumption`, for maps of any
length whose entries are sorted and apart and none of whose free ones holds the
loader's page tables:

| Theorem | States |
|---|---|
| `SetupKeepsInv` | `SetupInv` is an invariant |
| `SetupHandsOutNothingTwice` | `SetupKeepsApart` |
| `SetupMapsWhatItGives` | `SetupMapsAll` |

`SetupInv` relates the program to the loader's map: the block that is used for the
tables is one of those that answered, and none reaches beyond the total
(`Measured`), the pages taken are the successive ones that the getter
computes (`FramesFit`), each range given lies behind them or in one of the other
blocks that the loop has passed (`GivenFit`), and a panic means that the map does
not fit (`PanicsUnfit`). `TablesInv` says which
entries of the new tables are written at each step and that the loader's tables are not
overwritten, which needs `SetupInv`: the new ones lie in free memory.

**Only model-checked.** Liveness (`MethodsReturn`, `AllocReturns`,
`EverybodyBoots`, `PanicsHalt`, `PrintsEnd`) and `ENABLED` are out of the
prover's reach. Induction over numbers is available only in the form that a set
of numbers has a least element, which the proofs about levels and refusals use; what a recursively defined operator on sequences computes
cannot be proved. On such operators rest `ListsAgree` and `IterOnce` (a list
without a range of its nodes, `SelectSeq`), `ScreenShowsTexts` and
`LineGetsTexts` (texts strung together). `TallocHeap` (`StatusApart`,
`LittleLost`, `OnlyMapperPanics`, and its `MergeFindsBuddy` and
`AllocationsFit`) has not been proved: the proof would have to carry `MethodsInv`,
which is proved for one fixed arena, through the move of the bitmap to a larger
one. Likewise `talloc_wrap` reaches panics that `RegionsFit` excludes, beyond
the theorems. `UartConfigured` and the properties of descriptors and tables
(`GettersAgree`, `UserInsertKeeps`, `TablesReachHandlers`,
`HandlersSeeTheirException`, `ReturnsRestore`) are about bits of literal
constants and fixed lists of instructions: TLC evaluates them at the real widths,
and no constant is left to generalise over but the choice of values.

## Findings

Each is a run that ends in a counterexample; `PROJECT.json` quotes the comment
that the code disagrees with.

1. `talloc_inside_one_block` (`talloc.rs:379`): `release` of a range inside one
   smallest block does not return early, since its rounded base is above its
   rounded end, and panics.
2. `heap_err` (`talloc.rs:482`): after the heap has been extended, `alloc` looks
   at larger blocks only, and can return `Err` although a block of exactly the
   right size is free.
3. `page_map_stack` (`memm/mod.rs:174`): a span that does not start on a page of
   a level at which it needs two entries is left with a hole. The kernel stacks
   are such spans.
4. `page_map_remap` (`memm/mod.rs:149`): mapping small pages inside a mapped
   large page follows the large page as if it were a table.
5. `boot_stacks` (`init.rs:225`): with the default configuration and three
   processors the first heap can grow into the third processor's stack.
6. `talloc_across_null` (`talloc.rs:385`): `release` of a range that crosses null
   and does not start on a smallest block cuts the part below null too short, as
   it measures from the rounded start, and the block below null is lost.
7. `uart_reserved` (`out/uart.rs:437`): on a 16550A the bit of the 64-byte FIFO,
   which that chip reserves, is not masked out.

Met while modelling. The models do what the code does here; where a property
would not hold, its comment names the exception.

* `release` of a range that starts below null and holds it or ends on it shifts by
  the trailing zeros of 0 and panics (`talloc.rs:401`), unless finding 6 keeps it
  from reaching null. `RegionsFit` excludes such ranges; run `talloc_wrap` reaches
  the panic. The null block itself is never released, so `alloc` never returns the
  "*valid* zero-pointer" that its doc warns of (`talloc.rs:460`).
* `extend` copies the flag of granularity 0 from offset 1, where the flag of
  granularity 1 is (`talloc.rs:330`). The copy may set the flag of the pair
  formed by the old arena and the added memory, which `dealloc` follows only if
  one of the two becomes a single block. Neither does: the padding before the
  status data, at the start of each, is never released. `MergeFindsBuddy` of run
  `heap` confirms that no such flag is followed.
* `copy_slice_bits` takes the first byte of the destination for the last one
  (`utils/mod.rs:77`), and with overflow checks panics for copies that end with
  a byte. The copies of `extend` lie within a byte.
* The page getter of `Mapper::setup` counts the base of the largest block twice
  (`memm/mod.rs:318`): the tables lie in the block only if it is long enough,
  which `Fits` states.
* `mmap_available_iter` tests `& MMAP_FREE`, which MMIO (3) passes as well
  (`bootboot.rs:106`).
* Inserting a system segment counts one slot twice and overwrites the descriptor
  before it (`segmentation.rs:126`); nothing calls it.
* `SysSegDesc::new` drops bit 19 of the limit (`segmentation.rs:254`, a mask of
  three bits for a nibble), `set_limit` lets a limit from 2^20 on spill into the
  granularity (line 286), and `set_dpl` does not shift its argument (line 311).
* The data segment registers are loaded with the index `DATA_SEG_IDX` (3), not
  with the selector `DATA_SEG_SEL`. It is a null selector with RPL 3, which an AMD
  processor takes in `ss` at CPL 0 and an Intel one refuses; the model's is AMD's.
* The wrapper of the protection fault reads the frame and the error code one slot
  low if the processor raised the fault (`init.rs:531`). For `int 13`, which pushes
  no error code, the frame is right, but the word printed as the error code is the
  saved `rax`, and `naked_general_protection_fault` is called with a stack that is
  not aligned.
* The handlers of the double fault and of a segment that is not present print the
  `rip` of their copy of the frame as the error code (`init.rs:587`, `628`).
* `identify_uart` tests bit 6 first, so a 16550 is taken for a 16450, which is
  driven alike. It writes 0xE7 to FCR before it knows the chip (`uart.rs:343`).
  If the firmware left the divisor latch open, the write that is to disable the
  interrupts goes to the divisor instead (`uart.rs:476`). A failed loopback test
  leaves loopback on (`uart.rs:503`).
* A character whose code is the number of glyphs has no glyph, and panics
  (`terminal.rs:61`).
* A panic inside a print spins on the lock that its own processor holds.

## Not modelled

* The iterators of `Mapping`, `get_entry_offset` and `map_offset_at`: nothing
  constructs a `Mapping` or calls them, and on addresses of the upper half the
  iterators do not get past their first step (a level that underflows,
  `memm/mod.rs:526`; an index that is an address, line 259).
* `old/`: an earlier bootloader, not part of the workspace. `amd64/src/apic.rs`
  is empty.
* Control registers, MSRs, CPUID and port instructions: single instructions.
* The LDT, the instructions that read tables back, and debug output of
  descriptors; `read_byte` of the UART. Nothing uses them.
* Pixel formats and the parsing of the font, a constant that is compiled in; the
  text of the boot configuration (it is fit for use or not).
* Wording and layout of messages; the contents of memory, except in `Tallock`.
* The state of a machine whose `MAPPER` holder panicked: other processors spin,
  which is a stutter of the model (`BootStopped`).
