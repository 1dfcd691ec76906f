---------------------------- MODULE MCTallocWrap ----------------------------
(***************************************************************************)
(* Talloc on an arena that wraps around the address space.  Null lies at   *)
(* the start of one region and at the end of another, one region lies      *)
(* strictly inside a smallest block and one sticks out of the arena: the   *)
(* panics of release are reached as well.                                  *)
(***************************************************************************)
EXTENDS Talloc

MCArena == [base |-> -16, size |-> 32]

MCRegions == {[lo |-> -16, hi |-> -4], [lo |-> -4, hi |-> 0],
              [lo |-> 0, hi |-> 13], [lo |-> 13, hi |-> 15], [lo |-> 15, hi |-> 20]}

MCLayouts == {[size |-> 1, align |-> 1], [size |-> 5, align |-> 1]}
=============================================================================
