-------------------------------- MODULE Arena --------------------------------
(***************************************************************************)
(* The geometry of an arena of kernel/src/memm/talloc.rs: granularities,   *)
(* block sizes, buddies and the place of their flags in the bitmap.  An    *)
(* arena is a record [base, size]; granularity 0 is its next power of two. *)
(***************************************************************************)
EXTENDS BitOps

CONSTANT smlst_block   \* the smallest block, in bytes

ASSUME SmallestBlock == \E k \in Exponents : smlst_block = 2^k

arena_size_pow2(a) == next_pow2(a.size)

\* The indices of llists: slice_bytes makes one list per granularity.
Granularities(a) == 0..(log2(arena_size_pow2(a)) - log2(smlst_block))

BlockSize(a, g) == arena_size_pow2(a) \div 2^g

\* The difference of the leading zeros is the difference of the logarithms.
block_granularity(a, size) == log2(arena_size_pow2(a)) - log2(size)

\* The flag of a block: the field of its granularity starts at the number of
\* pairs of that size in the arena, and the pairs follow by address.
bitmap_offset(a, base, size) ==
  LET aligned_arena_base == FloorTo(a.base, 2 * size)
  IN  (arena_size_pow2(a) + (base - aligned_arena_base)) \div (2 * size)

\* The largest of three powers of two: the top bit of their OR.
layout_to_size(layout) ==
  LET sizes == {next_pow2(layout.size), layout.align, smlst_block}
  IN  CHOOSE s \in sizes : \A t \in sizes : t <= s

\* The other block of the pair.
Buddy(base, size) ==
  IF is_lower_buddy(base, size) THEN base + size ELSE base - size

\* The blocks of a granularity that lie inside the arena and leave null out.
ArenaBlocks(a, g) ==
  {b \in a.base..(a.base + a.size - BlockSize(a, g)) :
     b % BlockSize(a, g) = 0 /\ ~(b <= 0 /\ 0 < b + BlockSize(a, g))}

(***************************************************************************)
(* The bitmap keeps the flags of different pairs apart, and only those.    *)
(* This is a condition on the alignment of the arena: it fails when the    *)
(* arena crosses a boundary that is as aligned as its own size.            *)
(***************************************************************************)
FlagsApart(a) ==
  \A g, h \in Granularities(a) : \A b \in ArenaBlocks(a, g), c \in ArenaBlocks(a, h) :
    bitmap_offset(a, b, BlockSize(a, g)) = bitmap_offset(a, c, BlockSize(a, h))
      <=> g = h /\ c \in {b, Buddy(b, BlockSize(a, g))}

\* The part of a range that is made of whole smallest blocks.
ReleaseBase(mem) == CeilTo(mem.lo, smlst_block)
ReleaseAcme(mem) == FloorTo(mem.hi, smlst_block)
=============================================================================
