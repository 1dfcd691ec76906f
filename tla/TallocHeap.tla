----------------------------- MODULE TallocHeap -----------------------------
(***************************************************************************)
(* The heap of a processor: Talloc with `extend' and with the oom_handler  *)
(* of kernel/src/init.rs, which doubles the arena.  The status data (free  *)
(* list sentinels and bitmap) lies inside the heap itself: extend builds   *)
(* new status data in the added memory, copies the books over, releases    *)
(* the old status data and then the rest of the added memory.  alloc waits *)
(* for that and then looks for a block again.                              *)
(***************************************************************************)
EXTENDS Talloc, FiniteSets

CONSTANTS
  node_size,       \* bytes of a LlistNode<()>, also its alignment
  max_arena_size   \* what oom_handler grows the arena to at most

\* As allocator_setup has it: a whole GiB aligns the base.  The default of
\* heap_init_size is a power of two, so each extension adds one granularity;
\* copy_slice_bits is right for the fields that this moves.
ASSUME HeapArguments ==
  /\ FirstArena.size = arena_size_pow2(FirstArena)
  /\ FirstArena.base % next_pow2(max_arena_size) = 0
  /\ node_size \in Nat \ {0} /\ max_arena_size \in Nat
  /\ node_size <= smlst_block
  /\ FirstArena.size <= max_arena_size
  /\ Regions = {}

VARIABLES
  status,   \* [lo, hi]: where llists and bitmap are
  after,    \* [lo, hi]: what extend releases once the old status data is in
  asking    \* [layout, loop]: the alloc that waits for the handler; `loop' says
            \* which of its two loops called it ("size" or "larger"), "none" when
            \* there is no such alloc, "no frames" when the mapper panicked

heapvars == <<vars, status, after, asking>>

NoRange == [lo |-> 0, hi |-> 0]
NotAsking == [layout |-> [size |-> 0, align |-> 0], loop |-> "none"]
-----------------------------------------------------------------------------
\* slice_bytes: one sentinel per granularity, one bit per pair and size.
llists_len(size) == (log2(size - 1) + 1) - log2(smlst_block) + 1
ll_bytes(size) == llists_len(size) * node_size
bm_bytes(size) == IF 2^llists_len(size) < 8 THEN 1 ELSE 2^llists_len(size) \div 8

req_free_mem(base, size) == (base % node_size) + ll_bytes(size) + bm_bytes(size)

\* Where extend puts the new status data in the free memory it is given: a
\* whole node further on when that is aligned already.
StatusAt(lo, size) ==
  LET ll_align_offset == node_size - (lo % node_size)
  IN  [lo |-> lo + ll_align_offset, hi |-> lo + ll_align_offset + ll_bytes(size) + bm_bytes(size)]

\* Mutant of CopyBitmap: the flags keep their offsets.
CopyBitmapInPlace(old, new) == bitmap

\* The flags of each granularity move to the field that its block size has
\* in the larger arena.  Granularity 0 has one flag, at offset 0: the code
\* reads it at offset 1.
CopyBitmap(old, new) ==
  UNION {LET width == IF g = 0 THEN 1 ELSE 2^(g - 1)
             to == bitmap_offset(new, old.base, BlockSize(old, g))
         IN  {to + (o - width) : o \in bitmap \cap (width..(2 * width - 1))}
         : g \in Granularities(old)}

\* extend to `size', given the memory after the arena, up to the releases.
Extend(size) ==
  LET larger == [base |-> arena.base, size |-> size]
      gra_diff == llists_len(size) - llists_len(arena.size)
      acme == arena.base + arena.size
      used == status.hi - status.lo
  IN  /\ arena' = larger
      /\ llists' = [g \in Granularities(larger) |-> IF g < gra_diff THEN {} ELSE llists[g - gra_diff]]
      /\ avails' = {g + gra_diff : g \in avails}
      /\ bitmap' = CopyBitmap(arena, larger)
      /\ status' = StatusAt(acme, size)
      /\ todo' = {[lo |-> status.lo, hi |-> status.lo + CeilTo(used, smlst_block)]}
      /\ after' = [lo |-> StatusAt(acme, size).hi, hi |-> acme + (size - arena.size)]
      /\ pc' = "release"
      /\ UNCHANGED <<held, pending, cur, want, rel, err>>

\* Mutant of ReleaseRest: the rest is forgotten.
ReleaseRestForgets ==
  /\ pc = "idle"
  /\ after # NoRange
  /\ after' = NoRange
  /\ UNCHANGED <<vars, status, asking>>

\* extend then releases the rest of the memory it was given.
ReleaseRest ==
  /\ pc = "idle"
  /\ after # NoRange
  /\ after' = NoRange
  /\ EnterRelease(after, {})
  /\ UNCHANGED <<arena, books, held, pending, cur, want, err, status, asking>>

\* Mutants of OomHandler: the room for the status data is not tested, Ok is
\* returned although nothing was added.
OomHandlerNoRoom(layout, loop) ==
  /\ Extend(IF 2 * arena.size <= max_arena_size THEN 2 * arena.size ELSE max_arena_size)
  /\ asking' = [layout |-> layout, loop |-> loop]

OomHandlerAlwaysOk(layout, loop) ==
  /\ asking' = [layout |-> layout, loop |-> loop]
  /\ IF arena.size < max_arena_size
     THEN Extend(IF 2 * arena.size <= max_arena_size THEN 2 * arena.size ELSE max_arena_size)
     ELSE UNCHANGED <<vars, status, after>>

\* oom_handler, called by one of the loops of alloc: double the arena up to
\* the maximum, or Err.  The mapper panics when physical memory is exhausted.
OomHandler(layout, loop) ==
  LET doubled == 2 * arena.size
      lgr_size == IF doubled <= max_arena_size THEN doubled ELSE max_arena_size
      room == arena.size < lgr_size - req_free_mem(arena.base, lgr_size)
  IN  \/ /\ room
         /\ Extend(lgr_size)
         /\ asking' = [layout |-> layout, loop |-> loop]
      \/ /\ room
         /\ pc' = "panic"
         /\ asking' = [layout |-> layout, loop |-> "no frames"]
         /\ UNCHANGED <<arena, books, held, pending, cur, want, rel, todo, err, status, after>>
      \/ /\ ~room
         /\ err' = layout_to_size(layout)
         /\ asking' = NotAsking
         /\ UNCHANGED <<arena, books, held, pending, pc, cur, want, rel, todo, status, after>>

NoneLarger(layout) == \A g \in avails : g >= block_granularity(arena, layout_to_size(layout))

\* alloc from the first look at the free lists on.
Look(layout) ==
  LET size == layout_to_size(layout)
  IN  \/ /\ AllocExact(layout) \/ AllocLarger(layout)
         /\ asking' = NotAsking
         /\ UNCHANGED <<status, after>>
      \/ /\ size > arena.size
         /\ OomHandler(layout, "size")
      \/ /\ size <= arena.size
         /\ block_granularity(arena, size) \notin avails
         /\ NoneLarger(layout)
         /\ OomHandler(layout, "larger")

\* The heap's lock is free.
Unlocked == pc = "idle" /\ after = NoRange /\ asking = NotAsking

HeapAlloc(layout) == Unlocked /\ Look(layout)

\* The handler gave Ok.  The loop on the size tests it again and goes on to
\* the free lists; the loop on larger blocks looks at larger blocks only.
Resume ==
  LET layout == asking.layout
  IN  /\ pc = "idle"
      /\ after = NoRange
      /\ \/ asking.loop = "size" /\ Look(layout)
         \/ /\ asking.loop = "larger"
            /\ TakeLarger(layout)
            /\ asking' = NotAsking
            /\ UNCHANGED <<status, after>>
         \/ /\ asking.loop = "larger"
            /\ NoneLarger(layout)
            /\ OomHandler(layout, "larger")
-----------------------------------------------------------------------------
\* `new': the first extend, over the whole of the heap's first memory.
HeapInit ==
  /\ Init
  /\ status = StatusAt(FirstArena.base, FirstArena.size)
  /\ after = [lo |-> status.hi, hi |-> FirstArena.base + FirstArena.size]
  /\ asking = NotAsking

HeapStep ==
  \/ Step /\ UNCHANGED <<status, after, asking>>
  \/ ReleaseRest
  \/ Resume

HeapCall ==
  /\ Unlocked
  /\ \/ \E layout \in Layouts : HeapAlloc(layout)
     \/ /\ \E h \in held : Dealloc(h) \/ \E layout \in Layouts : Shrink(h, layout)
        /\ UNCHANGED <<status, after, asking>>

HeapHalted == Halted /\ UNCHANGED <<status, after, asking>>

HeapNext == HeapCall \/ HeapStep \/ HeapHalted

\* The processor that holds the lock keeps running.
HeapSpec == HeapInit /\ [][HeapNext]_heapvars /\ WF_heapvars(HeapStep)
-----------------------------------------------------------------------------
\* The whole blocks that extend has still to release, and the status data.
Waiting == {r \in todo \cup {after} : ReleaseBase(r) < ReleaseAcme(r)}
StatusSpans ==
  {Span("status", status.lo, status.hi)}
    \cup {Span("waiting", ReleaseBase(r), ReleaseAcme(r)) : r \in Waiting}

\* Type invariant: the books keep one list per granularity of the arena as
\* it grows, and alloc waits for the handler in one of its two loops.
HeapTypeOK ==
  /\ arena.base = FirstArena.base /\ arena.size \in FirstArena.size..max_arena_size
  /\ avails \subseteq Granularities(arena)
  /\ llists \in [Granularities(arena) -> SUBSET Int]
  /\ held \subseteq [ptr : Int, layout : Layouts]
  /\ pc \in {"idle", "merge", "split", "release", "panic"}
  /\ cur \in Block
  /\ asking = NotAsking \/ asking \in [layout : Layouts, loop : {"size", "larger", "no frames"}]

\* The status data moves with every extension and never shares a byte with a
\* block that is free, held or in hand, nor with what is still to be released:
\* releasing the old status data, rounded up, takes nothing that is in use.
StatusApart ==
  /\ \A h, k \in held : h.ptr = k.ptr => h = k
  /\ \A s, t \in Given \cup StatusSpans : s # t => Apart(s, t)

\* The arena's smallest blocks that nobody has: not free, held, in hand, to be
\* released or under the status data.
Lost == Cells(arena.base, arena.base + arena.size) \
          (CellsOf(Given \cup StatusSpans) \cup
             {FloorTo(b, smlst_block) : b \in status.lo..(status.hi - 1)})

\* Extending loses little: the padding before the status data for good, and
\* for each extension at most one more block, the last of the old status data.
LittleLost ==
  Cardinality(Lost) <= 1 + 2 * (log2(arena_size_pow2(arena)) - log2(arena_size_pow2(FirstArena)))

\* Growing the heap breaks no assertion and overflows nothing in extend and
\* release: the only panic is the mapper's, when physical memory is exhausted.
OnlyMapperPanics == pc = "panic" => asking.loop = "no frames"

\* alloc returns: the handler is not called for ever, because the arena stops
\* growing, and each extension hands all of its memory out.
AllocReturns == ~Unlocked ~> (Unlocked \/ asking.loop = "no frames")
=============================================================================
