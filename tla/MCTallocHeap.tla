---------------------------- MODULE MCTallocHeap ----------------------------
(***************************************************************************)
(* A heap that is extended twice.  The sizes are in the proportions of the *)
(* kernel: a node is half a smallest block, the heap starts at an odd      *)
(* multiple of its largest size, and the largest size is not a power of    *)
(* two.                                                                    *)
(***************************************************************************)
EXTENDS TallocHeap

MCArena == [base |-> 1024, size |-> 256]

MCLayouts == {[size |-> 60, align |-> 8], [size |-> 100, align |-> 8], [size |-> 300, align |-> 8]}
=============================================================================
