---------------------------- MODULE MCTallocEdge ----------------------------
(***************************************************************************)
(* Talloc given a region at the edge of what release handles: one that     *)
(* lies strictly inside a smallest block, or one that crosses null and     *)
(* does not start on a block.                                              *)
(***************************************************************************)
EXTENDS Talloc

MCArena == [base |-> -16, size |-> 32]

MCInsideOneBlock == {[lo |-> -16, hi |-> -8], [lo |-> -7, hi |-> -5]}

MCAcrossNull == {[lo |-> -16, hi |-> -8], [lo |-> -5, hi |-> 8]}

MCLayouts == {[size |-> 1, align |-> 1]}
=============================================================================
