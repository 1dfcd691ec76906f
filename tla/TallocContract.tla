--------------------------- MODULE TallocContract ---------------------------
(***************************************************************************)
(* Talloc implements Allocator: a caller owns a block from the moment that *)
(* alloc has chosen it, while the split loop is still cutting it down, and *)
(* no longer owns it once dealloc has been called.                         *)
(***************************************************************************)
EXTENDS Talloc

Memory == UNION {ReleaseBase(r)..(ReleaseAcme(r) - 1) : r \in Regions}

Owned ==
  held \cup IF pc = "split" THEN {[ptr |-> cur.base, layout |-> want.layout]} ELSE {}

Client == INSTANCE Allocator WITH Memory <- Memory, Layouts <- Layouts, owned <- Owned

\* alloc, dealloc and shrink give callers what Allocator promises: memory
\* that was released, large enough, aligned, not null and theirs alone.
Contract == Client!Spec
=============================================================================
