------------------------------- MODULE Talloc -------------------------------
(***************************************************************************)
(* The buddy allocator of kernel/src/memm/talloc.rs over one arena, with   *)
(* an out-of-memory handler that always fails (mapper_oom_handler, the     *)
(* handler of the allocator of physical memory).  TallocHeap adds extend   *)
(* and the handler that grows the arena.                                   *)
(*                                                                         *)
(* Every method runs under the lock of the allocator.  Its loops are       *)
(* small steps: `pc' says where the running method is, `cur' is the block  *)
(* it has in hand, and no other method starts before it returns.           *)
(***************************************************************************)
EXTENDS Arena

CONSTANTS
  FirstArena,  \* [base, size]: the arena given to `new'
  Regions,     \* [lo, hi]: memory that is released to the allocator
  Layouts      \* [size, align]: what callers ask for

(***************************************************************************)
(* What validate_arena_args and the word size ask of the arena, and that   *)
(* its alignment keeps the flags of the bitmap apart.                      *)
(***************************************************************************)
ASSUME ArenaArguments ==
  /\ FirstArena \in [base : Int, size : Nat]
  /\ smlst_block <= FirstArena.size
  /\ \E p \in Exponents : IsNextPow2(p, FirstArena.size)
  /\ \A v \in FirstArena.base..(FirstArena.base + FirstArena.size) :
        v # 0 => \E n \in Exponents : IsTrailingZeros(n, v)
  /\ FlagsApart(FirstArena)

\* A Layout has a nonzero size that fits the word and a power of two alignment.
ASSUME LayoutArguments ==
  \A layout \in Layouts :
    /\ layout \in [size : Nat \ {0}, align : Nat]
    /\ \E n \in Exponents : layout.align = 2^n
    /\ \E n \in Exponents : IsNextPow2(n, layout.size)

VARIABLES
  arena,    \* [base, size]: arena_base and arena_size
  avails,   \* the granularities whose bit is set in `avails'
  llists,   \* granularity -> bases of the blocks on its free list
  bitmap,   \* the offsets of the bits that are set
  held,     \* [ptr, layout]: what callers have been given and not given back
  pending,  \* the regions that have not been released yet
  pc,       \* "idle", "merge", "split", "release" or "panic"
  cur,      \* [base, size, granularity]: the block in hand
  want,     \* [size, layout]: what the split loop is cutting the block down to
  rel,      \* [on, base, acme, asc]: what the release loop has still to do
  todo,     \* ranges of the nested calls of release
  err       \* size of the request that the last alloc answered with Err, or 0

books == <<avails, llists, bitmap>>
vars == <<arena, books, held, pending, pc, cur, want, rel, todo, err>>

NoBlock == [base |-> 0, size |-> 0, granularity |-> 0]
NoRelease == [on |-> FALSE, base |-> 0, acme |-> 0, asc |-> FALSE]
NoWant == [size |-> 0, layout |-> [size |-> 0, align |-> 0]]
-----------------------------------------------------------------------------
ToggleBitflag(offset) ==
  IF offset \in bitmap THEN bitmap \ {offset} ELSE bitmap \cup {offset}

\* Mutant of AddBlock: the flag is not toggled.
AddBlockNoToggle(g, offset, base) ==
  /\ avails' = avails \cup {g}
  /\ llists' = [llists EXCEPT ![g] = @ \cup {base}]
  /\ bitmap' = bitmap

\* add_block_next: list the block at `base', toggle the flag of its pair.
AddBlock(g, offset, base) ==
  /\ avails' = avails \cup {g}
  /\ llists' = [llists EXCEPT ![g] = @ \cup {base}]
  /\ bitmap' = ToggleBitflag(offset)

\* Mutants of RemoveBlock: the bit of avails stays, or the flag does.
RemoveBlockKeepsAvails(g, offset, base) ==
  /\ avails' = avails
  /\ llists' = [llists EXCEPT ![g] = @ \ {base}]
  /\ bitmap' = ToggleBitflag(offset)

RemoveBlockNoToggle(g, offset, base) ==
  /\ avails' = IF llists[g] \subseteq {base} THEN avails \ {g} ELSE avails
  /\ llists' = [llists EXCEPT ![g] = @ \ {base}]
  /\ bitmap' = bitmap

\* remove_block_next and remove_block: the list loses the block and the bit
\* of avails is cleared with the last one.  A list is a set here: which of
\* its blocks is next to the sentinel is left open.
RemoveBlock(g, offset, base) ==
  /\ avails' = IF llists[g] \subseteq {base} THEN avails \ {g} ELSE avails
  /\ llists' = [llists EXCEPT ![g] = @ \ {base}]
  /\ bitmap' = ToggleBitflag(offset)
-----------------------------------------------------------------------------
Init ==
  /\ arena = FirstArena
  /\ avails = {}
  /\ llists = [g \in Granularities(arena) |-> {}]
  /\ bitmap = {}
  /\ held = {}
  /\ pending = Regions
  /\ pc = "idle"
  /\ cur = NoBlock
  /\ want = NoWant
  /\ rel = NoRelease
  /\ todo = {}
  /\ err = 0

\* alloc, when a block of the size asked for is listed: take it.
AllocExact(layout) ==
  LET size == layout_to_size(layout)
      g == block_granularity(arena, size)
  IN  /\ pc = "idle"
      /\ size <= arena.size
      /\ g \in avails
      /\ \E base \in llists[g] :
            /\ RemoveBlock(g, bitmap_offset(arena, base, size), base)
            /\ held' = held \cup {[ptr |-> base, layout |-> layout]}
      /\ err' = 0
      /\ UNCHANGED <<arena, pending, pc, cur, want, rel, todo>>

\* Take one of the smallest of the larger blocks (the top bit of the available
\* bits below the granularity) and split it.
TakeLarger(layout) ==
  LET size == layout_to_size(layout)
      larger_avl == {g \in avails : g < block_granularity(arena, size)}
  IN  /\ \E lgr \in larger_avl :
            /\ \A g \in larger_avl : g <= lgr
            /\ \E base \in llists[lgr] :
                  /\ RemoveBlock(lgr, bitmap_offset(arena, base, BlockSize(arena, lgr)), base)
                  /\ cur' = [base |-> base, size |-> BlockSize(arena, lgr), granularity |-> lgr]
      /\ want' = [size |-> size, layout |-> layout]
      /\ pc' = "split"
      /\ err' = 0
      /\ UNCHANGED <<arena, held, pending, rel, todo>>

\* alloc, when no block of the size asked for is listed and a larger one is.
AllocLarger(layout) ==
  LET size == layout_to_size(layout)
  IN  /\ pc = "idle"
      /\ size <= arena.size
      /\ block_granularity(arena, size) \notin avails
      /\ TakeLarger(layout)

\* The out-of-memory handler of alloc gives Err, and `?' returns it.
AllocErr(layout) ==
  LET size == layout_to_size(layout)
  IN  /\ pc = "idle"
      /\ \/ size > arena.size
         \/ \A g \in avails : g > block_granularity(arena, size)
      /\ err' = size
      /\ UNCHANGED <<arena, books, held, pending, pc, cur, want, rel, todo>>

\* One round of the loop of alloc and of shrink: the upper half is listed.
Split ==
  LET hi_size == cur.size \div 2
      hi_base == cur.base + hi_size
      hi_granularity == cur.granularity + 1
  IN  /\ pc = "split"
      /\ cur.granularity < block_granularity(arena, want.size)
      /\ AddBlock(hi_granularity, bitmap_offset(arena, hi_base, hi_size), hi_base)
      /\ cur' = [base |-> cur.base, size |-> hi_size, granularity |-> hi_granularity]
      /\ UNCHANGED <<arena, held, pending, pc, want, rel, todo, err>>

\* The loop ends: alloc returns the block, shrink leaves it with its caller.
SplitDone ==
  /\ pc = "split"
  /\ cur.granularity >= block_granularity(arena, want.size)
  /\ held' = held \cup {[ptr |-> cur.base, layout |-> want.layout]}
  /\ pc' = "idle"
  /\ cur' = NoBlock
  /\ want' = NoWant
  /\ UNCHANGED <<arena, books, pending, rel, todo, err>>

\* shrink: the caller keeps the pointer with a layout of a smaller or equal
\* block size; the size is compared first, and nothing is done when it is equal.
Shrink(h, layout) ==
  LET old_size == layout_to_size(h.layout)
      new_size == layout_to_size(layout)
  IN  /\ pc = "idle"
      /\ new_size <= old_size
      /\ err' = 0
      /\ \/ /\ new_size = old_size
            /\ held' = (held \ {h}) \cup {[ptr |-> h.ptr, layout |-> layout]}
            /\ UNCHANGED <<pc, cur, want>>
         \/ /\ new_size < old_size
            /\ held' = held \ {h}
            /\ cur' = [base |-> h.ptr, size |-> old_size,
                       granularity |-> block_granularity(arena, old_size)]
            /\ want' = [size |-> new_size, layout |-> layout]
            /\ pc' = "split"
      /\ UNCHANGED <<arena, books, pending, rel, todo>>

\* dealloc, up to its loop.
Dealloc(h) ==
  LET size == layout_to_size(h.layout)
  IN  /\ pc = "idle"
      /\ held' = held \ {h}
      /\ cur' = [base |-> h.ptr, size |-> size,
                 granularity |-> block_granularity(arena, size)]
      /\ pc' = "merge"
      /\ err' = 0
      /\ UNCHANGED <<arena, books, pending, want, rel, todo>>

\* Mutant of Merge: the merged block starts at the block in hand.
MergeKeepsBase ==
  LET offset == bitmap_offset(arena, cur.base, cur.size)
  IN  /\ pc = "merge"
      /\ offset \in bitmap
      /\ RemoveBlock(cur.granularity, offset, Buddy(cur.base, cur.size))
      /\ cur' = [base |-> cur.base, size |-> 2 * cur.size, granularity |-> cur.granularity - 1]
      /\ UNCHANGED <<arena, held, pending, pc, want, rel, todo, err>>

\* One round of the loop of dealloc: the flag of the pair is set, so the
\* buddy is taken off its list and merged with the block in hand.
Merge ==
  LET buddy == Buddy(cur.base, cur.size)
      offset == bitmap_offset(arena, cur.base, cur.size)
  IN  /\ pc = "merge"
      /\ offset \in bitmap
      /\ RemoveBlock(cur.granularity, offset, buddy)
      /\ cur' = [base |-> IF is_lower_buddy(cur.base, cur.size) THEN cur.base ELSE buddy,
                 size |-> 2 * cur.size,
                 granularity |-> cur.granularity - 1]
      /\ UNCHANGED <<arena, held, pending, pc, want, rel, todo, err>>

\* The loop ends at a clear flag: the block in hand is listed.  A dealloc
\* that release called goes back to the release loop.
MergeDone ==
  LET offset == bitmap_offset(arena, cur.base, cur.size)
  IN  /\ pc = "merge"
      /\ offset \notin bitmap
      /\ AddBlock(cur.granularity, offset, cur.base)
      /\ pc' = IF rel.on THEN "release" ELSE "idle"
      /\ cur' = NoBlock
      /\ UNCHANGED <<arena, held, pending, want, rel, todo, err>>
-----------------------------------------------------------------------------
\* release up to its loop, for one range: the assertions, the early return,
\* the two nested calls that leave out the null block.
EnterRelease(mem, rest) ==
  LET base == ReleaseBase(mem)
      acme == ReleaseAcme(mem)
      inside == base >= arena.base /\ acme <= arena.base + arena.size
      null == base <= 0 /\ 0 < acme
  IN  \/ /\ ~inside
         /\ pc' = "panic"
         /\ UNCHANGED <<rel, todo>>
      \/ /\ inside /\ base = acme
         /\ pc' = IF rest = {} THEN "idle" ELSE "release"
         /\ rel' = NoRelease
         /\ todo' = rest
      \/ /\ inside /\ base # acme /\ null
         /\ pc' = "release"
         /\ rel' = NoRelease
         /\ todo' = rest \cup {[lo |-> mem.lo, hi |-> mem.lo + (0 - base)],
                               [lo |-> mem.lo + (smlst_block - base), hi |-> mem.hi]}
      \/ /\ inside /\ base # acme /\ ~null
         /\ pc' = "release"
         /\ rel' = [on |-> TRUE, base |-> base, acme |-> acme, asc |-> TRUE]
         /\ todo' = rest

Release(mem) ==
  /\ pc = "idle"
  /\ pending' = pending \ {mem}
  /\ EnterRelease(mem, {})
  /\ err' = 0
  /\ UNCHANGED <<arena, books, held, cur, want>>

\* The next of the nested calls.
ReleaseNested ==
  /\ pc = "release"
  /\ ~rel.on
  /\ \E mem \in todo : EnterRelease(mem, todo \ {mem})
  /\ UNCHANGED <<arena, books, held, pending, cur, want, err>>

\* The loop hands the block [rel.base, rel.base + size) to dealloc.
ReleaseBlock(size, asc) ==
  /\ cur' = [base |-> rel.base, size |-> size,
             granularity |-> block_granularity(arena, size)]
  /\ rel' = [on |-> TRUE, base |-> rel.base + size, acme |-> rel.acme, asc |-> asc]
  /\ pc' = "merge"

\* The largest block that the alignment of the address allows fits.
AlignedBlockFits(n) ==
  IsTrailingZeros(n, rel.base) /\ rel.base + 2^n <= rel.acme

ReleaseAscending ==
  /\ pc = "release"
  /\ rel.on
  /\ rel.asc
  /\ \/ \E n \in Exponents : AlignedBlockFits(n) /\ ReleaseBlock(2^n, TRUE)
     \* Address 0 has as many trailing zeros as the word has bits: the shift
     \* overflows, which the dev profile checks.
     \/ rel.base = 0 /\ pc' = "panic" /\ UNCHANGED <<cur, rel>>
  /\ UNCHANGED <<arena, books, held, pending, want, todo, err>>

\* Mutant: `asc_block_sizes = false' is missing, so the loop tries the block that
\* does not fit for ever.
ReleaseStaysAscending ==
  /\ pc = "release"
  /\ rel.on
  /\ rel.asc /\ rel.base # 0 /\ \A n \in Exponents : ~AlignedBlockFits(n)
  /\ UNCHANGED vars

\* It does not fit (`asc_block_sizes = false'), now or in an earlier round.
ReleaseDescending ==
  /\ pc = "release"
  /\ rel.on
  /\ rel.asc => rel.base # 0 /\ \A n \in Exponents : ~AlignedBlockFits(n)
  /\ LET delta == rel.acme - rel.base
     IN  \/ /\ delta >= smlst_block
            /\ \E n \in Exponents : IsPrevPow2(n, delta) /\ ReleaseBlock(2^n, FALSE)
            /\ UNCHANGED todo
         \/ /\ delta \in 0..(smlst_block - 1)
            /\ rel' = NoRelease
            /\ pc' = IF todo = {} THEN "idle" ELSE "release"
            /\ UNCHANGED <<cur, todo>>
         \* `as usize' makes a negative delta the largest power of two, for
         \* which block_granularity overflows.
         \/ /\ delta < 0
            /\ pc' = "panic"
            /\ UNCHANGED <<cur, rel, todo>>
  /\ UNCHANGED <<arena, books, held, pending, want, err>>

\* The panic handler halts the processor, which never gives the lock back.
Halted ==
  /\ pc = "panic"
  /\ UNCHANGED vars
-----------------------------------------------------------------------------
\* A method that has started and not returned.
Step ==
  \/ Split \/ SplitDone
  \/ Merge \/ MergeDone
  \/ ReleaseNested \/ ReleaseAscending \/ ReleaseDescending

\* What callers do.
Call ==
  \/ \E layout \in Layouts : AllocExact(layout) \/ AllocLarger(layout) \/ AllocErr(layout)
  \/ \E h \in held : Dealloc(h) \/ \E layout \in Layouts : Shrink(h, layout)
  \/ \E mem \in pending : Release(mem)

Next == Call \/ Step \/ Halted

\* The processor that holds the lock keeps running.
Spec == Init /\ [][Next]_vars /\ WF_vars(Step)
-----------------------------------------------------------------------------
(***************************************************************************)
(* Properties.                                                             *)
(***************************************************************************)
Block == [base : Int, size : Nat, granularity : Int]

\* Type invariant: the books, the callers' pointers and the locals of the
\* running method keep their types; llists has one list per granularity.
TypeOK ==
  /\ arena = FirstArena
  /\ avails \subseteq Granularities(arena)
  /\ llists \in [Granularities(arena) -> SUBSET Int]
  /\ bitmap \subseteq Int
  /\ held \subseteq [ptr : Int, layout : Layouts]
  /\ pending \subseteq Regions
  /\ pc \in {"idle", "merge", "split", "release", "panic"}
  /\ cur \in Block
  /\ want = NoWant \/ \E layout \in Layouts :
                        want = [size |-> layout_to_size(layout), layout |-> layout]
  /\ rel \in [on : BOOLEAN, base : Int, acme : Int, asc : BOOLEAN]
  /\ todo \subseteq [lo : Int, hi : Int]
  /\ err \in Nat

\* avails: a granularity's bit is set exactly while its free list has a block
\* (`Tracks memory block availability in the linked lists').
AvailsAgree == \A g \in Granularities(arena) : g \in avails <=> llists[g] # {}

Listed(g, base) == base \in llists[g]

\* bitmap: the flag of a pair of buddies is set exactly while one of the two
\* is on the free list, so a clear flag means both or neither are allocated.
BitmapAgrees ==
  \A g \in Granularities(arena) : \A b \in ArenaBlocks(arena, g) :
    bitmap_offset(arena, b, BlockSize(arena, g)) \in bitmap
      <=> ~(Listed(g, b) <=> Listed(g, Buddy(b, BlockSize(arena, g))))

\* dealloc merges eagerly: two buddies are never both on the free list.
Coalesced ==
  \A g \in Granularities(arena) : \A b \in ArenaBlocks(arena, g) :
    ~(Listed(g, b) /\ Listed(g, Buddy(b, BlockSize(arena, g))))

\* dealloc: a set flag is followed to a block that really is on the list, in
\* a granularity that has a parent; remove_block never unlinks anything else.
MergeFindsBuddy ==
  pc = "merge" /\ bitmap_offset(arena, cur.base, cur.size) \in bitmap =>
    /\ cur.granularity \in Granularities(arena) \ {0}
    /\ Listed(cur.granularity, Buddy(cur.base, cur.size))

\* Who has a span of memory: a free list, a caller, the running method, or
\* the regions that are waiting to be released.
Span(who, lo, hi) == [who |-> who, lo |-> lo, hi |-> hi]
FreeSpans == UNION {{Span("free", b, b + BlockSize(arena, g)) : b \in llists[g]} : g \in Granularities(arena)}
HeldSpans == {Span("held", h.ptr, h.ptr + layout_to_size(h.layout)) : h \in held}
HandSpans == IF pc \in {"merge", "split"} THEN {Span("hand", cur.base, cur.base + cur.size)} ELSE {}
RelSpans == IF rel.on /\ rel.base < rel.acme THEN {Span("release", rel.base, rel.acme)} ELSE {}
PendingSpans == {Span("pending", r.lo, r.hi) : r \in {r \in pending : r.lo < r.hi}}
NestedSpans == {Span("nested", r.lo, r.hi) : r \in {r \in todo : r.lo < r.hi}}
Given == FreeSpans \cup HeldSpans \cup HandSpans \cup RelSpans
Spans == Given \cup PendingSpans \cup NestedSpans

\* What release can be given: whole blocks inside the arena, or none at a
\* block boundary; a region that touches null starts there.
RegionFits(r) ==
  /\ r \in [lo : Int, hi : Int]
  /\ FirstArena.base <= ReleaseBase(r)
  /\ ReleaseAcme(r) <= FirstArena.base + FirstArena.size
  /\ ReleaseBase(r) <= ReleaseAcme(r)
  /\ ReleaseBase(r) < ReleaseAcme(r) =>
       ReleaseAcme(r) < 0 \/ ReleaseBase(r) > 0 \/ (ReleaseBase(r) = 0 /\ r.lo = 0)

Apart(s, t) == s.hi <= t.lo \/ t.hi <= s.lo

\* The safety contract of the regions that callers release.
RegionsFit ==
  /\ \A r \in Regions : RegionFits(r)
  /\ \A r, s \in Regions : r # s => Apart(r, s)

\* No byte is owned twice: a block that alloc returned overlaps no other
\* allocation, no listed block and nothing that is still to be released.
NoOverlap ==
  /\ \A h, k \in held : h.ptr = k.ptr => h = k
  /\ \A s, t \in Spans : s # t => Apart(s, t)

Cells(lo, hi) == {c \in lo..(hi - 1) : c % smlst_block = 0}
CellsOf(spans) == UNION {Cells(s.lo, s.hi) : s \in spans}
WholeCells(r) == Cells(ReleaseBase(r), ReleaseAcme(r)) \ {0}

\* No block is lost: the smallest blocks that lie inside a region are, at any
\* time, free, held, in hand or still to be released (null excepted: "Address-space
\* wraparound is allowed, but `null` block will not be released", talloc.rs:366).
NothingLost ==
  pc # "panic" =>
    UNION {WholeCells(r) : r \in Regions}
      \subseteq CellsOf(Given) \cup UNION {WholeCells(r) : r \in pending \cup todo}

\* alloc: what callers hold is aligned to its whole block, at least as large
\* and as aligned as its layout asks, inside the arena and never null.  (The
\* doc, talloc.rs:460, warns that it "May return a *valid* zero-pointer"; as
\* release keeps the null block back, it never does.)
AllocationsFit ==
  \A h \in held :
    LET size == layout_to_size(h.layout)
    IN  /\ h.ptr % size = 0 /\ h.ptr % h.layout.align = 0
        /\ h.layout.size <= size
        /\ h.ptr >= arena.base /\ h.ptr + size <= arena.base + arena.size
        /\ h.ptr # 0

\* `Returns Err upon memory exhaustion': when alloc refuses a size, no
\* aligned range of that size is free, however the free memory came about.
ErrOnlyWhenExhausted ==
  err # 0 => \A b \in arena.base..(arena.base + arena.size - err) :
                b % err = 0 => ~(Cells(b, b + err) \subseteq CellsOf(FreeSpans))

\* No assertion fails and no subtraction or shift overflows in a method.
NeverPanics == pc # "panic"

(***************************************************************************)
(* What the running method relies on: every block that is listed, held or  *)
(* in hand is a block of the arena, the split loop cuts down towards a     *)
(* block size, and what release has still to hand out is made of whole     *)
(* smallest blocks away from null.                                         *)
(***************************************************************************)
BlocksFit ==
  /\ \A g \in Granularities(arena) : llists[g] \subseteq ArenaBlocks(arena, g)
  /\ \A h \in held : \E g \in Granularities(arena) :
       layout_to_size(h.layout) = BlockSize(arena, g) /\ h.ptr \in ArenaBlocks(arena, g)
  /\ pc \in {"merge", "split"} =>
       /\ cur.granularity \in Granularities(arena)
       /\ cur.size = BlockSize(arena, cur.granularity)
       /\ cur.base \in ArenaBlocks(arena, cur.granularity)
  /\ pc = "split" =>
       /\ want.layout \in Layouts /\ want.size = layout_to_size(want.layout)
       /\ \E g \in Granularities(arena) :
            want.size = BlockSize(arena, g) /\ cur.granularity <= g

ReleaseFits ==
  /\ \A r \in pending \cup todo : RegionFits(r)
  /\ pc \in {"idle", "split"} => ~rel.on
  /\ pc # "release" /\ ~rel.on => todo = {}
  /\ rel.on =>
       /\ rel.base % smlst_block = 0 /\ rel.acme % smlst_block = 0
       /\ arena.base <= rel.base /\ rel.base <= rel.acme
       /\ rel.acme <= arena.base + arena.size
       /\ rel.acme < 0 \/ 0 < rel.base
       /\ ~rel.asc => \E n \in Exponents : rel.base % 2^n = 0 /\ rel.acme - rel.base < 2^n

\* The inductive invariant of the methods: the books agree with each other,
\* no two owners share a byte, and the methods only handle blocks.
MethodsInv ==
  /\ TypeOK /\ AvailsAgree /\ BitmapAgrees /\ Coalesced
  /\ BlocksFit /\ ReleaseFits /\ NoOverlap /\ NeverPanics

\* Every method returns and gives the lock back: dealloc's `while' runs out of
\* flags, and release's `loop' changes over to descending sizes and then breaks.
MethodsReturn == pc # "idle" ~> pc = "idle"
=============================================================================
