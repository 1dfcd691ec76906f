------------------------------ MODULE MCTalloc ------------------------------
(***************************************************************************)
(* Talloc on the shape of the allocator of physical memory: the arena      *)
(* starts one smallest block (a page) above an aligned address and is not  *)
(* a power of two long; two regions of the memory map are released into it *)
(***************************************************************************)
EXTENDS TallocContract

MCArena == [base |-> 2, size |-> 19]

MCRegions == {[lo |-> 2, hi |-> 16], [lo |-> 16, hi |-> 21]}

MCLayouts == {[size |-> 1, align |-> 1], [size |-> 3, align |-> 1],
              [size |-> 2, align |-> 4], [size |-> 6, align |-> 2]}
=============================================================================
