----------------------------- MODULE Allocator ------------------------------
(***************************************************************************)
(* What Talloc promises its callers (the documentation of alloc, dealloc   *)
(* and shrink in kernel/src/memm/talloc.rs): memory that was released to   *)
(* it, aligned and as large as the layout asks, never null and never       *)
(* shared between two callers.  Blocks, buddies and books do not appear.   *)
(***************************************************************************)
EXTENDS Integers

CONSTANTS
  Memory,   \* the addresses that were released to the allocator
  Layouts   \* [size, align]: what callers ask for

VARIABLE owned   \* [ptr, layout]: what callers have

Extent(h) == h.ptr..(h.ptr + h.layout.size - 1)

\* A caller can own h beside the others.
CanOwn(h, others) ==
  /\ h.ptr # 0
  /\ h.ptr % h.layout.align = 0
  /\ Extent(h) \subseteq Memory
  /\ \A k \in others : Extent(h) \cap Extent(k) = {}

Init == owned = {}

Alloc(layout) ==
  \E ptr \in Memory :
    LET h == [ptr |-> ptr, layout |-> layout]
    IN  CanOwn(h, owned) /\ owned' = owned \cup {h}

Dealloc(h) == owned' = owned \ {h}

\* The block stays in place and keeps its contents.
Shrink(h, layout) ==
  LET k == [ptr |-> h.ptr, layout |-> layout]
  IN  CanOwn(k, owned \ {h}) /\ owned' = (owned \ {h}) \cup {k}

Next ==
  \/ \E layout \in Layouts : Alloc(layout)
  \/ \E h \in owned : Dealloc(h) \/ \E layout \in Layouts : Shrink(h, layout)

Spec == Init /\ [][Next]_owned
=============================================================================
