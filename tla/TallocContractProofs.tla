----------------------- MODULE TallocContractProofs ------------------------
(***************************************************************************)
(* What Talloc promises to its callers, for every arena, all layouts and   *)
(* all regions that fit: it implements Allocator, and it refuses only what *)
(* is not there.                                                           *)
(***************************************************************************)
EXTENDS TallocContract, TallocProofs, WellFoundedInduction

\* The bytes from lo up to hi were released to the allocator.
Released(lo, hi) == \A a \in Int : lo <= a /\ a < hi => a \in Memory

\* Whatever the allocator has given, listed or in hand was released to it.
Inside ==
  /\ \A s \in Given : Released(s.lo, s.hi)
  /\ \A r \in todo : Released(ReleaseBase(r), ReleaseAcme(r))

(***************************************************************************)
(* Inside is invariant.                                                    *)
(***************************************************************************)
LEMMA RegionReleased ==
  ASSUME NEW r \in Regions, RegionFits(r)
  PROVE  Released(ReleaseBase(r), ReleaseAcme(r))
<1>1. ReleaseBase(r) \in Int /\ ReleaseAcme(r) \in Int
  BY RegionBounds
<1>2. \A a \in Int : ReleaseBase(r) <= a /\ a < ReleaseAcme(r) => a \in ReleaseBase(r)..(ReleaseAcme(r) - 1)
  BY <1>1
<1> QED
  BY <1>2 DEF Released, Memory

\* The new spans are inside; those that remain are.
LEMMA StaysInside ==
  ASSUME Inside, NEW new, Given' \subseteq Given \cup new, \A n \in new : Released(n.lo, n.hi),
         \A r \in todo' : r \in todo \/ Released(ReleaseBase(r), ReleaseAcme(r))
  PROVE  Inside'
BY DEF Inside, Released, Memory

\* The case of at most two new spans.
LEMMA StaysInsideTwo ==
  ASSUME Inside, NEW m, NEW n, Given' \subseteq Given \cup {m, n}, Released(m.lo, m.hi), Released(n.lo, n.hi),
         todo' = todo
  PROVE  Inside'
BY DEF Inside, Released, Memory

LEMMA InsideAllocExact ==
  ASSUME Parts, Inside, NEW layout \in Layouts, AllocExact(layout)
  PROVE  Inside'
<1> DEFINE size == layout_to_size(layout)
           g == block_granularity(FirstArena, size)
<1>0. arena = FirstArena /\ arena' = FirstArena
  BY DEF Parts, AllocExact
<1>1. g \in G /\ size = Sz(g)
  BY <1>0, LayoutBlock DEF AllocExact
<1>2. PICK base \in llists[g] :
        /\ RemoveBlock(g, bitmap_offset(arena, base, size), base)
        /\ held' = held \cup {[ptr |-> base, layout |-> layout]}
  BY <1>0 DEF AllocExact
<1>3. UNCHANGED <<pc, cur, rel, todo>>
  BY DEF AllocExact
<1> DEFINE o == FreeSpan(g, base)
           n == HeldSpan(base, layout)
<1>4. o \in FreeSpans /\ FreeSpans' \subseteq FreeSpans
  BY <1>0, <1>1, <1>2, FreeRemoved
<1>5. HeldSpans' \subseteq HeldSpans \cup {n}
  BY <1>2, HeldAdded
<1>6. o.lo = n.lo /\ o.hi = n.hi
  BY <1>1 DEF FreeSpan, HeldSpan, Span
<1> HIDE DEF o, n
<1>7. Given' \subseteq Given \cup {n, n} /\ o \in Given
  BY <1>3, <1>4, <1>5, Kept DEF Given
<1>8. Released(n.lo, n.hi)
  BY <1>6, <1>7 DEF Inside
<1> QED
  BY <1>3, <1>7, <1>8, StaysInsideTwo

LEMMA InsideAllocLarger ==
  ASSUME Parts, Inside, NEW layout \in Layouts, AllocLarger(layout)
  PROVE  Inside'
<1>0. arena = FirstArena /\ arena' = FirstArena /\ pc = "idle" /\ pc' = "split"
      /\ UNCHANGED <<held, rel, todo>>
  BY DEF Parts, AllocLarger, TakeLarger
<1>1. PICK g \in avails : \E base \in llists[g] :
              /\ RemoveBlock(g, bitmap_offset(arena, base, BlockSize(arena, g)), base)
              /\ cur' = [base |-> base, size |-> BlockSize(arena, g), granularity |-> g]
  BY <1>0 DEF AllocLarger, TakeLarger
<1>2. PICK base \in llists[g] :
              /\ RemoveBlock(g, bitmap_offset(arena, base, BlockSize(arena, g)), base)
              /\ cur' = [base |-> base, size |-> Sz(g), granularity |-> g]
  BY <1>0, <1>1 DEF Sz
<1>3. g \in G
  BY <1>1 DEF Parts, BooksAgree
<1> DEFINE o == FreeSpan(g, base)
           n == HandSpan(base, Sz(g))
<1>4. o \in FreeSpans /\ FreeSpans' \subseteq FreeSpans
  BY <1>0, <1>2, <1>3, FreeRemoved
<1>5. HandSpans' = {n}
  BY <1>0, <1>2, Kept
<1>6. o.lo = n.lo /\ o.hi = n.hi
  BY DEF FreeSpan, HandSpan, Span
<1> HIDE DEF o, n
<1>7. Given' \subseteq Given \cup {n, n} /\ o \in Given
  BY <1>0, <1>4, <1>5, Kept DEF Given
<1>8. Released(n.lo, n.hi)
  BY <1>6, <1>7 DEF Inside
<1> QED
  BY <1>0, <1>7, <1>8, StaysInsideTwo

LEMMA InsideSplit ==
  ASSUME Parts, Inside, Split
  PROVE  Inside'
<1> DEFINE g == cur.granularity
           s == Sz(g + 1)
           b == cur.base
<1>0. arena = FirstArena /\ arena' = FirstArena /\ pc = "split" /\ pc' = "split"
      /\ UNCHANGED <<held, rel, todo>>
  BY DEF Parts, Split
<1>1. g \in G /\ cur.size = Sz(g) /\ b \in Int
  BY <1>0 DEF Parts, HandFits, Locals, Block
<1>2. PICK w \in G : want.size = Sz(w) /\ g <= w
  BY <1>0 DEF Parts, WantFits
<1>3. g < w
  BY <1>0, <1>2, Sizes DEF Split
<1>4. g + 1 \in G
  BY <1>1, <1>2, <1>3, Geometry DEF Exponents
<1>5. s \in Nat \ {0} /\ cur.size = 2 * s /\ cur.size \div 2 = s
  BY <1>1, <1>4, Sizes
<1>6. /\ AddBlock(g + 1, bitmap_offset(arena, b + s, s), b + s)
      /\ cur' = [base |-> b, size |-> s, granularity |-> g + 1]
  BY <1>5 DEF Split
<1> DEFINE o == HandSpan(b, 2 * s)
           m == HandSpan(b, s)
           n == FreeSpan(g + 1, b + s)
<1>7. FreeSpans' \subseteq FreeSpans \cup {n}
  BY <1>0, <1>4, <1>6, FreeAdded
<1>8. HandSpans = {o} /\ HandSpans' = {m}
  BY <1>0, <1>5, <1>6, Kept
<1>9. /\ o.lo = b /\ o.hi = b + 2 * s /\ m.lo = b /\ m.hi = b + s
      /\ n.lo = b + s /\ n.hi = (b + s) + s
  BY DEF FreeSpan, HandSpan, Span
<1> HIDE DEF o, m, n, b, s, g
<1>10. Given' \subseteq Given \cup {m, n} /\ o \in Given
  BY <1>0, <1>7, <1>8, Kept DEF Given
<1>11. Released(o.lo, o.hi)
  BY <1>10 DEF Inside
<1>12. Released(m.lo, m.hi) /\ Released(n.lo, n.hi)
  BY <1>1, <1>5, <1>9, <1>11 DEF Released
<1> QED
  BY <1>0, <1>10, <1>12, StaysInsideTwo

LEMMA InsideSplitDone ==
  ASSUME Parts, Inside, SplitDone
  PROVE  Inside' /\ layout_to_size(want.layout) = cur.size
<1> DEFINE b == cur.base
<1>0. arena = FirstArena /\ arena' = FirstArena /\ pc = "split" /\ pc' = "idle"
      /\ UNCHANGED <<llists, rel, todo>>
  BY DEF Parts, SplitDone, books
<1>1. cur.granularity \in G /\ cur.size = Sz(cur.granularity)
  BY <1>0 DEF Parts, HandFits
<1>2. PICK w \in G : want.size = Sz(w) /\ cur.granularity <= w
  BY <1>0 DEF Parts, WantFits
<1>3. cur.granularity = w
  BY <1>0, <1>1, <1>2, Sizes DEF SplitDone
<1>4. layout_to_size(want.layout) = cur.size
  BY <1>0, <1>1, <1>2, <1>3 DEF Parts, WantFits
<1> DEFINE o == HandSpan(b, cur.size)
           n == HeldSpan(b, want.layout)
<1>5. HeldSpans' \subseteq HeldSpans \cup {n}
  BY HeldAdded DEF SplitDone
<1>6. o.lo = n.lo /\ o.hi = n.hi
  BY <1>4 DEF HeldSpan, HandSpan, Span
<1>7. HandSpans = {o} /\ HandSpans' = {}
  BY <1>0, Kept
<1> HIDE DEF o, n
<1>8. Given' \subseteq Given \cup {n, n} /\ o \in Given
  BY <1>0, <1>5, <1>7, Kept, FreeKept DEF Given
<1>9. Released(n.lo, n.hi)
  BY <1>6, <1>8 DEF Inside
<1> QED
  BY <1>0, <1>4, <1>8, <1>9, StaysInsideTwo

LEMMA InsideTakeHeld ==
  ASSUME Parts, Inside, NEW h \in held, pc = "idle", held' = held \ {h},
         cur'.base = h.ptr, cur'.size = layout_to_size(h.layout), pc' \in {"merge", "split"},
         UNCHANGED <<arena, llists, rel, todo>>
  PROVE  Inside'
<1> DEFINE o == HeldSpan(h.ptr, h.layout)
           n == HandSpan(h.ptr, layout_to_size(h.layout))
<1>1. o \in HeldSpans /\ HeldSpans' \subseteq HeldSpans
  BY HeldRemoved
<1>2. HandSpans' = {n}
  BY Kept
<1>3. o.lo = n.lo /\ o.hi = n.hi
  BY DEF HeldSpan, HandSpan, Span
<1> HIDE DEF o, n
<1>4. Given' \subseteq Given \cup {n, n} /\ o \in Given
  BY <1>1, <1>2, Kept, FreeKept DEF Parts, Given
<1>5. Released(n.lo, n.hi)
  BY <1>3, <1>4 DEF Inside
<1> QED
  BY <1>4, <1>5, StaysInsideTwo

LEMMA InsideShrink ==
  ASSUME Parts, Inside, NEW h \in held, NEW layout \in Layouts, Shrink(h, layout)
  PROVE  Inside'
<1>0. pc = "idle" /\ UNCHANGED <<arena, llists, rel, todo>>
  BY DEF Shrink, books
<1>1. CASE /\ layout_to_size(layout) = layout_to_size(h.layout) /\ UNCHANGED <<pc, cur>>
           /\ held' = (held \ {h}) \cup {[ptr |-> h.ptr, layout |-> layout]}
  <2>1. HeldSpan(h.ptr, h.layout) = HeldSpan(h.ptr, layout)
    BY <1>1 DEF HeldSpan
  <2>2. HeldSpans' \subseteq HeldSpans
    <3> DEFINE n == [ptr |-> h.ptr, layout |-> layout]
    <3>1. n.ptr = h.ptr /\ n.layout = layout /\ held' \subseteq held \cup {n}
      BY <1>1
    <3> HIDE DEF n
    <3>2. \A k \in held' : \E j \in held : HeldSpan(k.ptr, k.layout) = HeldSpan(j.ptr, j.layout)
      BY <2>1, <3>1
    <3>3. /\ \A s : s \in HeldSpans <=> \E j \in held : s = HeldSpan(j.ptr, j.layout)
          /\ \A s : s \in HeldSpans' <=> \E j \in held' : s = HeldSpan(j.ptr, j.layout)
      BY DEF HeldSpans, HeldSpan
    <3> QED
      BY <3>2, <3>3
  <2>3. Given' \subseteq Given /\ todo' = todo
    BY <1>0, <1>1, <2>2, Kept, FreeKept DEF Parts, Given
  <2> QED
    BY <2>3 DEF Inside, Released, Memory
<1>2. CASE /\ held' = held \ {h} /\ pc' = "split"
           /\ cur' = [base |-> h.ptr, size |-> layout_to_size(h.layout),
                      granularity |-> block_granularity(arena, layout_to_size(h.layout))]
  BY <1>0, <1>2, InsideTakeHeld
<1> QED
  BY <1>1, <1>2 DEF Shrink

LEMMA InsideMerge ==
  ASSUME Parts, Inside, Merge
  PROVE  Inside'
<1> DEFINE g == cur.granularity
           s == Sz(g)
           b == cur.base
           c == Buddy(b, s)
           lower == IF is_lower_buddy(b, s) THEN b ELSE c
<1>0. arena = FirstArena /\ arena' = FirstArena /\ pc = "merge" /\ pc' = "merge"
      /\ UNCHANGED <<held, rel, todo>>
  BY DEF Parts, Merge
<1>1. g \in G /\ cur.size = s /\ b \in Blk(g) /\ b \in Int /\ s \in Nat \ {0} /\ b % s = 0
  BY <1>0, Sizes, Blocks DEF Parts, HandFits, Locals, Block
<1>2. /\ RemoveBlock(g, bitmap_offset(arena, b, s), c)
      /\ cur' = [base |-> lower, size |-> 2 * s, granularity |-> g - 1]
  BY <1>0, <1>1 DEF Merge
<1> DEFINE o == HandSpan(b, s)
           f == FreeSpan(g, c)
           n == HandSpan(lower, 2 * s)
<1>3. HandSpans = {o} /\ HandSpans' = {n}
  BY <1>0, <1>1, <1>2, Kept
<1>4. c \in llists[g]
  <2>1. o \in Spans /\ o.who = "hand" /\ o.lo = b /\ o.hi = b + s
    BY <1>3 DEF Spans, Given, HandSpan, Span
  <2>2. b \notin llists[g]
    BY <1>1, <2>1, NotListed
  <2>3. Off(g, b) \in bitmap
    BY <1>0, <1>1 DEF Merge, Off
  <2> QED
    BY SMTT(30), <1>1, <2>2, <2>3 DEF Parts, BooksAgree
<1>5. f \in FreeSpans /\ FreeSpans' \subseteq FreeSpans
  BY <1>0, <1>1, <1>2, <1>4, FreeRemoved
<1>6. /\ o.lo = b /\ o.hi = b + s /\ f.lo = c /\ f.hi = c + s
      /\ n.lo = lower /\ n.hi = lower + 2 * s
  BY DEF FreeSpan, HandSpan, Span
<1>7. c \in Int /\ ((lower = b /\ c = b + s) \/ (lower = c /\ b = c + s))
  BY <1>1, Buddies
<1> HIDE DEF o, f, n, b, c, s, g, lower
<1>8. Given' \subseteq Given \cup {n, n} /\ o \in Given /\ f \in Given
  BY <1>0, <1>3, <1>5, Kept DEF Given
<1>9. Released(o.lo, o.hi) /\ Released(f.lo, f.hi)
  BY <1>8 DEF Inside
<1>10. Released(n.lo, n.hi)
  BY <1>1, <1>6, <1>7, <1>9 DEF Released
<1> QED
  BY <1>0, <1>8, <1>10, StaysInsideTwo

LEMMA InsideMergeDone ==
  ASSUME Parts, Inside, MergeDone
  PROVE  Inside'
<1> DEFINE g == cur.granularity
           b == cur.base
<1>0. arena = FirstArena /\ arena' = FirstArena /\ pc = "merge" /\ pc' \in {"release", "idle"}
      /\ UNCHANGED <<held, rel, todo>>
  BY DEF Parts, MergeDone
<1>1. g \in G /\ cur.size = Sz(g)
  BY <1>0 DEF Parts, HandFits
<1>2. AddBlock(g, bitmap_offset(arena, b, cur.size), b)
  BY DEF MergeDone
<1> DEFINE o == HandSpan(b, Sz(g))
           n == FreeSpan(g, b)
<1>3. FreeSpans' \subseteq FreeSpans \cup {n}
  BY <1>0, <1>1, <1>2, FreeAdded
<1>4. HandSpans = {o} /\ HandSpans' = {}
  BY <1>0, <1>1, Kept
<1>5. o.lo = n.lo /\ o.hi = n.hi
  BY DEF FreeSpan, HandSpan, Span
<1> HIDE DEF o, n, b, g
<1>6. Given' \subseteq Given \cup {n, n} /\ o \in Given
  BY <1>0, <1>3, <1>4, Kept DEF Given
<1>7. Released(n.lo, n.hi)
  BY <1>5, <1>6 DEF Inside
<1> QED
  BY <1>0, <1>6, <1>7, StaysInsideTwo

LEMMA InsideEntering ==
  ASSUME Parts, Inside, pc \in {"idle", "release"}, ~rel.on,
         NEW mem, RegionFits(mem), Released(ReleaseBase(mem), ReleaseAcme(mem)),
         NEW rest, rest \subseteq todo, EnterRelease(mem, rest), UNCHANGED <<arena, llists, held>>
  PROVE  Inside'
<1> DEFINE base == ReleaseBase(mem)
           acme == ReleaseAcme(mem)
<1>0. arena = FirstArena /\ arena' = FirstArena /\ HandSpans = {} /\ RelSpans = {}
  BY Kept DEF Parts, RelSpans
<1>1. base \in Int /\ acme \in Int /\ base <= acme /\ mem.lo \in Int /\ smlst_block \in Nat \ {0}
  BY RegionBounds
<1>2. /\ FirstArena.base <= base /\ acme <= FirstArena.base + FirstArena.size
      /\ base # acme => acme < 0 \/ base > 0 \/ (base = 0 /\ mem.lo = 0)
  BY <1>1 DEF RegionFits
<1>3. \A r \in rest : Released(ReleaseBase(r), ReleaseAcme(r))
  BY DEF Inside
<1>4. CASE base # acme /\ base <= 0 /\ 0 < acme
  <2> DEFINE none == [lo |-> 0, hi |-> 0]
             above == [lo |-> smlst_block, hi |-> mem.hi]
  <2>1. base = 0 /\ mem.lo = 0
    BY <1>1, <1>2, <1>4
  <2>2. mem.lo + (0 - base) = 0 /\ mem.lo + (smlst_block - base) = smlst_block
    BY <1>1, <2>1
  <2>3. pc' = "release" /\ rel' = NoRelease /\ todo' = rest \cup {none, above}
    BY <1>0, <1>1, <1>2, <1>4, <2>1, <2>2 DEF EnterRelease
  <2>4. /\ RegionFits(none) /\ ReleaseBase(above) = smlst_block /\ ReleaseAcme(above) = acme
    BY <1>4, <2>1, AboveNull
  <2>5. Released(ReleaseBase(none), ReleaseAcme(none))
    <3> DEFINE a == ReleaseAcme(none)
               b == ReleaseBase(none)
    <3>1. none.lo <= b /\ a <= none.hi /\ a \in Int /\ b \in Int
      BY <2>4, RegionBounds
    <3>2. 0 <= b /\ a <= 0
      BY <3>1
    <3> HIDE DEF a, b, none
    <3>3. Released(b, a)
      BY <3>1, <3>2 DEF Released
    <3> QED
      BY <3>3 DEF a, b
  <2>6. Released(smlst_block, acme)
    BY <1>1, <2>1 DEF Released
  <2>7. Released(ReleaseBase(above), ReleaseAcme(above))
    BY <2>4, <2>6
  <2> HIDE DEF none, above
  <2>8. \A r \in todo' : Released(ReleaseBase(r), ReleaseAcme(r))
    BY <1>3, <2>3, <2>5, <2>7
  <2>9. Given' \subseteq Given
    BY <1>0, <2>3, Kept, FreeKept DEF Given, RelSpans, NoRelease
  <2> QED
    BY <2>8, <2>9 DEF Inside, Released, Memory
<1>5. CASE base = acme
  <2>1. pc' \in {"idle", "release"} /\ rel' = NoRelease /\ todo' = rest
    BY <1>0, <1>1, <1>2, <1>5 DEF EnterRelease
  <2>2. Given' \subseteq Given
    BY <1>0, <2>1, Kept, FreeKept DEF Given, RelSpans, NoRelease
  <2> QED
    BY <1>3, <2>1, <2>2 DEF Inside, Released, Memory
<1>6. CASE base # acme /\ ~(base <= 0 /\ 0 < acme)
  <2> DEFINE n == Span("release", base, acme)
  <2>1. pc' = "release" /\ todo' = rest /\ rel' = [on |-> TRUE, base |-> base, acme |-> acme, asc |-> TRUE]
    BY <1>0, <1>1, <1>2, <1>6 DEF EnterRelease
  <2>2. RelSpans' \subseteq {n}
    BY <2>1 DEF RelSpans
  <2>3. n.lo = base /\ n.hi = acme
    BY DEF Span
  <2>4. Released(n.lo, n.hi)
    BY <2>3
  <2> HIDE DEF n
  <2>5. Given' \subseteq Given \cup {n}
    BY <1>0, <2>1, <2>2, Kept, FreeKept DEF Given
  <2> QED
    BY <1>3, <2>1, <2>4, <2>5 DEF Inside, Released, Memory
<1> QED
  BY <1>4, <1>5, <1>6

LEMMA InsideHandOut ==
  ASSUME Parts, Inside, pc = "release", rel.on, NEW s \in Nat \ {0}, rel.base + s <= rel.acme,
         NEW asc, ReleaseBlock(s, asc), UNCHANGED <<arena, llists, held, todo>>
  PROVE  Inside'
<1> DEFINE b == rel.base
           o == Span("release", b, rel.acme)
           m == HandSpan(b, s)
           r == Span("release", b + s, rel.acme)
<1>1. b \in Int /\ rel.acme \in Int /\ b + s <= rel.acme
  BY DEF Parts, Locals
<1>2. RelSpans = {o} /\ HandSpans' = {m}
  BY <1>1, Kept DEF RelSpans, ReleaseBlock
<1>3. RelSpans' \subseteq {r}
  BY DEF ReleaseBlock, RelSpans
<1>4. /\ o.lo = b /\ o.hi = rel.acme /\ m.lo = b /\ m.hi = b + s
      /\ r.lo = b + s /\ r.hi = rel.acme
  BY DEF HandSpan, Span
<1> HIDE DEF b, o, m, r
<1>5. Given' \subseteq Given \cup {m, r} /\ o \in Given
  BY <1>2, <1>3, Kept, FreeKept DEF Parts, Given
<1>6. Released(o.lo, o.hi)
  BY <1>5 DEF Inside
<1>7. Released(m.lo, m.hi) /\ Released(r.lo, r.hi)
  BY <1>1, <1>4, <1>6 DEF Released
<1> QED
  BY <1>5, <1>7, StaysInsideTwo

LEMMA InsideReleaseDescending ==
  ASSUME Parts, Inside, ReleaseDescending
  PROVE  Inside'
<1>1. /\ pc = "release" /\ rel.on /\ UNCHANGED <<arena, llists, held>>
  BY DEF ReleaseDescending, books
<1>2. rel.base \in Int /\ rel.acme \in Int /\ rel.base <= rel.acme
  BY <1>1 DEF Parts, Locals, ReleaseFits
<1>3. CASE UNCHANGED todo /\ \E n \in Exponents :
             IsPrevPow2(n, rel.acme - rel.base) /\ ReleaseBlock(2^n, FALSE)
  <2>1. PICK n \in Exponents : IsPrevPow2(n, rel.acme - rel.base) /\ ReleaseBlock(2^n, FALSE)
    BY Zenon, <1>3
  <2>2. 2^n \in Nat \ {0} /\ 2^n <= rel.acme - rel.base
    BY <2>1, PowSucc DEF IsPrevPow2
  <2>3. rel.base + 2^n <= rel.acme
    BY <1>2, <2>2
  <2> QED
    BY Zenon, <1>1, <1>3, <2>1, <2>2, <2>3, InsideHandOut
<1>4. CASE rel' = NoRelease /\ pc' \in {"idle", "release"} /\ UNCHANGED todo
  <2>1. Given' \subseteq Given
    BY <1>1, <1>4, Kept, FreeKept DEF Parts, Given, RelSpans, NoRelease
  <2> QED
    BY <1>4, <2>1 DEF Inside, Released, Memory
<1>5. ~(rel.acme - rel.base < 0)
  BY <1>2
<1> QED
  BY Zenon, <1>3, <1>4, <1>5 DEF ReleaseDescending

LEMMA InitInside ==
  ASSUME Init
  PROVE  Inside
<1>1. \A g \in G : llists[g] = {}
  BY DEF Init, G
<1>2. Given = {}
  BY <1>1, FreeMember DEF Init, Given, HeldSpans, HandSpans, RelSpans, NoRelease
<1> QED
  BY <1>2 DEF Init, Inside

LEMMA NextInside ==
  ASSUME Parts, Inside, [Next]_vars
  PROVE  Inside'
<1>1. CASE UNCHANGED <<arena, llists, held, pc, cur, rel, todo>>
  <2>1. Given' \subseteq Given /\ todo' = todo
    BY <1>1, Kept, FreeKept DEF Parts, Given
  <2> QED
    BY <2>1 DEF Inside, Released, Memory
<1>2. ASSUME NEW layout \in Layouts, AllocExact(layout) \/ AllocLarger(layout) \/ AllocErr(layout)
      PROVE  Inside'
  BY <1>1, <1>2, InsideAllocExact, InsideAllocLarger DEF AllocErr, books
<1>3. ASSUME NEW h \in held, Dealloc(h) \/ \E layout \in Layouts : Shrink(h, layout)
      PROVE  Inside'
  <2>1. CASE Dealloc(h)
    BY <2>1, InsideTakeHeld DEF Dealloc, books
  <2>2. CASE \E layout \in Layouts : Shrink(h, layout)
    BY <2>2, InsideShrink
  <2> QED
    BY <1>3, <2>1, <2>2
<1>4. ASSUME NEW mem \in pending, Release(mem)
      PROVE  Inside'
  <2>1. mem \in Regions /\ RegionFits(mem) /\ pc \in {"idle", "release"} /\ ~rel.on
    BY <1>4 DEF Release, Parts, Locals, ReleaseFits
  <2>2. Released(ReleaseBase(mem), ReleaseAcme(mem))
    BY <2>1, RegionReleased
  <2>3. EnterRelease(mem, {}) /\ UNCHANGED <<arena, llists, held>> /\ {} \subseteq todo
    BY <1>4 DEF Release, books
  <2> QED
    BY <2>1, <2>2, <2>3, InsideEntering
<1>5. CASE ReleaseNested
  <2>1. PICK mem \in todo : EnterRelease(mem, todo \ {mem})
    BY <1>5 DEF ReleaseNested
  <2>2. RegionFits(mem) /\ pc \in {"idle", "release"} /\ ~rel.on
    BY <1>5, <2>1 DEF ReleaseNested, Parts, ReleaseFits
  <2>3. Released(ReleaseBase(mem), ReleaseAcme(mem)) /\ todo \ {mem} \subseteq todo
    BY <2>1 DEF Inside
  <2>4. UNCHANGED <<arena, llists, held>>
    BY <1>5 DEF ReleaseNested, books
  <2> QED
    BY <2>1, <2>2, <2>3, <2>4, InsideEntering
<1>6. CASE ReleaseAscending
  <2>1. /\ pc = "release" /\ rel.on /\ rel.base # 0
        /\ UNCHANGED <<arena, llists, held, todo>>
    BY <1>6 DEF ReleaseAscending, books, Parts, Locals, ReleaseFits
  <2>2. PICK n \in Exponents : AlignedBlockFits(n) /\ ReleaseBlock(2^n, TRUE)
    BY Zenon, <1>6, <2>1 DEF ReleaseAscending
  <2>3. 2^n \in Nat \ {0} /\ rel.base + 2^n <= rel.acme
    BY <2>2, PowSucc DEF AlignedBlockFits
  <2> QED
    BY Zenon, <2>1, <2>2, <2>3, InsideHandOut
<1>7. CASE Step
  BY <1>5, <1>6, <1>7, InsideSplit, InsideSplitDone, InsideMerge, InsideMergeDone,
     InsideReleaseDescending DEF Step
<1>8. CASE UNCHANGED vars \/ Halted
  BY <1>1, <1>8 DEF Halted, vars, books
<1> QED
  BY <1>2, <1>3, <1>4, <1>7, <1>8 DEF Next, Call

(***************************************************************************)
(* What callers own is what Allocator lets them own.                       *)
(***************************************************************************)

\* The memory that stands behind what a caller owns.
SpanOf(h) ==
  IF h \in held THEN HeldSpan(h.ptr, h.layout) ELSE HandSpan(cur.base, cur.size)

\* A block is aligned to every smaller block size.
LEMMA AlignedToSmaller ==
  ASSUME NEW g \in G, NEW w \in G, g <= w, NEW b \in Blk(g)
  PROVE  Sz(w) <= Sz(g) /\ b % Sz(w) = 0
<1> DEFINE n == top - g
           m == top - w
<1>1. /\ n \in Exponents /\ m \in Exponents /\ g \in Nat /\ w \in Nat /\ Sz(g) = 2^n /\ Sz(w) = 2^m
      /\ 2^n \in Nat \ {0} /\ 2^m \in Nat \ {0}
  BY Sizes, PowSucc
<1>2. n \in 0..WordBits /\ m \in 0..WordBits /\ m <= n
  BY <1>1, Geometry, PowersOfTwo DEF Exponents
<1>3. b \in Int /\ b % Sz(g) = 0
  BY Blocks
<1> HIDE DEF n, m
<1>4. 2^m <= 2^n
  BY <1>1, <1>2, PowMono
<1>5. b % 2^m = 0
  BY <1>1, <1>2, <1>3, PowDivides
<1> QED
  BY <1>1, <1>4, <1>5

LEMMA OwnedHasSpan ==
  ASSUME Parts, NEW h \in Owned
  PROVE  /\ SpanOf(h) \in Given
         /\ h.ptr \in Int /\ h.ptr # 0 /\ h.ptr % h.layout.align = 0
         /\ h.layout.size \in Nat \ {0}
         /\ SpanOf(h).lo = h.ptr /\ h.ptr + h.layout.size <= SpanOf(h).hi
<1>1. PICK g \in G : /\ h.layout \in Layouts /\ h.ptr \in Blk(g)
                     /\ layout_to_size(h.layout) <= Sz(g) /\ h.ptr % layout_to_size(h.layout) = 0
                     /\ SpanOf(h) \in Given /\ SpanOf(h).lo = h.ptr /\ SpanOf(h).hi = h.ptr + Sz(g)
  <2>1. CASE h \in held
    <3>1. PICK g \in G : layout_to_size(h.layout) = Sz(g) /\ h.ptr \in Blk(g)
      BY <2>1 DEF Parts, HeldFit
    <3>2. SpanOf(h) = HeldSpan(h.ptr, h.layout) /\ SpanOf(h) \in Given
      BY <2>1 DEF SpanOf, HeldSpan, HeldSpans, Given
    <3>3. SpanOf(h).lo = h.ptr /\ SpanOf(h).hi = h.ptr + Sz(g)
      BY <3>1, <3>2 DEF HeldSpan, Span
    <3>4. Sz(g) \in Nat \ {0} /\ h.ptr % Sz(g) = 0
      BY <3>1, Sizes, Blocks
    <3>5. h.layout \in Layouts
      BY <2>1 DEF Parts, Locals
    <3> QED
      BY <3>1, <3>2, <3>3, <3>4, <3>5
  <2>2. CASE h \notin held
    <3>1. pc = "split" /\ h = [ptr |-> cur.base, layout |-> want.layout]
      BY <2>2 DEF Owned
    <3> DEFINE g == cur.granularity
    <3>2. h.ptr = cur.base /\ h.layout = want.layout /\ h.layout \in Layouts
      BY <3>1 DEF Parts, WantFits
    <3>3. g \in G /\ cur.size = Sz(g) /\ h.ptr \in Blk(g)
      BY <3>1, <3>2 DEF Parts, HandFits
    <3>4. PICK w \in G : layout_to_size(h.layout) = Sz(w) /\ g <= w
      BY <3>1, <3>2 DEF Parts, WantFits
    <3>5. SpanOf(h) = HandSpan(h.ptr, Sz(g)) /\ SpanOf(h) \in Given
      BY <2>2, <3>1, <3>2, <3>3, Kept DEF SpanOf, Given
    <3>6. SpanOf(h).lo = h.ptr /\ SpanOf(h).hi = h.ptr + Sz(g)
      BY <3>5 DEF HandSpan, Span
    <3>7. Sz(w) <= Sz(g) /\ h.ptr % Sz(w) = 0
      BY <3>3, <3>4, AlignedToSmaller
    <3> QED
      BY <3>2, <3>3, <3>4, <3>5, <3>6, <3>7
  <2> QED
    BY <2>1, <2>2
<1>2. PICK n \in Exponents : /\ layout_to_size(h.layout) = 2^n /\ h.layout.size <= 2^n
                             /\ \E m \in 0..n : h.layout.align = 2^m
  BY <1>1, LayoutSize
<1>3. PICK m \in 0..n : h.layout.align = 2^m
  BY <1>2
<1>4. /\ h.ptr \in Int /\ h.ptr % Sz(g) = 0 /\ Sz(g) \in Nat \ {0}
      /\ ~(h.ptr <= 0 /\ 0 < h.ptr + Sz(g))
  BY <1>1, Blocks, Sizes
<1>5. h.layout.size \in Nat \ {0}
  BY <1>1, LayoutArguments
<1>6. 2^n \in Nat \ {0} /\ h.ptr % 2^n = 0
  BY <1>1, <1>2, PowSucc
<1>7. h.ptr % 2^m = 0
  <2>1. m \in 0..WordBits /\ n \in 0..WordBits /\ m <= n
    BY PowersOfTwo DEF Exponents
  <2> QED
    BY <1>4, <1>6, <2>1, PowDivides
<1>8. h.ptr # 0 /\ h.ptr + h.layout.size <= SpanOf(h).hi
  <2>1. h.ptr # 0
    BY <1>4
  <2>2. h.layout.size <= Sz(g)
    BY <1>1, <1>2, <1>4, <1>5, <1>6
  <2>3. h.ptr + h.layout.size <= h.ptr + Sz(g)
    BY <1>4, <1>5, <2>2
  <2> QED
    BY <1>1, <2>1, <2>3
<1> QED
  BY <1>1, <1>3, <1>4, <1>5, <1>7, <1>8

\* Callers own memory that they can own beside each other.
OwnedFit ==
  \A h \in Owned : h.ptr \in Memory /\ Client!CanOwn(h, Owned \ {h})

LEMMA OwnedApart ==
  ASSUME Parts, NEW h \in Owned, NEW k \in Owned, h # k
  PROVE  Apart(SpanOf(h), SpanOf(k))
<1>1. SpanOf(h) \in Spans /\ SpanOf(k) \in Spans
  BY OwnedHasSpan DEF Spans
<1>2. SpanOf(h) # SpanOf(k)
  <2>1. CASE h \in held /\ k \in held
    <3>1. h.ptr # k.ptr
      BY <2>1 DEF Parts, HeldUnique
    <3> QED
      BY <3>1, OwnedHasSpan
  <2>2. CASE ~(h \in held <=> k \in held)
    BY <2>2 DEF SpanOf, HeldSpan, HandSpan, Span
  <2>3. CASE h \notin held /\ k \notin held
    BY <2>3 DEF Owned
  <2> QED
    BY <2>1, <2>2, <2>3
<1> QED
  BY <1>1, <1>2 DEF Parts, Disjoint

LEMMA OwnersFit == Parts /\ Inside => OwnedFit
<1> SUFFICES ASSUME Parts, Inside, NEW h \in Owned
             PROVE  h.ptr \in Memory /\ Client!CanOwn(h, Owned \ {h})
  BY DEF OwnedFit
<1> DEFINE s == SpanOf(h)
<1>1. /\ s \in Given /\ h.ptr \in Int /\ h.ptr # 0 /\ h.ptr % h.layout.align = 0
      /\ h.layout.size \in Nat \ {0} /\ s.lo = h.ptr /\ h.ptr + h.layout.size <= s.hi /\ IsSpan(s)
  BY OwnedHasSpan, Families DEF Spans
<1>2. Released(s.lo, s.hi)
  BY <1>1 DEF Inside
<1> HIDE DEF s
<1>3. \A a \in Int : h.ptr <= a /\ a < h.ptr + h.layout.size => a \in Memory
  BY <1>1, <1>2 DEF Released, IsSpan
<1>4. h.ptr \in Memory /\ Client!Extent(h) \subseteq Memory
  BY <1>1, <1>3 DEF Client!Extent
<1>5. ASSUME NEW k \in Owned, k # h
      PROVE  Client!Extent(h) \cap Client!Extent(k) = {}
  <2> DEFINE t == SpanOf(k)
  <2>1. /\ k.ptr \in Int /\ k.layout.size \in Nat \ {0} /\ t.lo = k.ptr
        /\ k.ptr + k.layout.size <= t.hi /\ t \in Given /\ IsSpan(t)
    BY OwnedHasSpan, Families DEF Spans
  <2>2. Apart(s, t)
    BY <1>5, OwnedApart DEF s
  <2> HIDE DEF t
  <2>3. h.ptr + h.layout.size <= k.ptr \/ k.ptr + k.layout.size <= h.ptr
    BY <1>1, <2>1, <2>2 DEF Apart, IsSpan
  <2> QED
    BY <1>1, <2>1, <2>3 DEF Client!Extent
<1> QED
  BY <1>1, <1>4, <1>5 DEF Client!CanOwn

(***************************************************************************)
(* Every step of Talloc is a step of Allocator or leaves Owned alone.      *)
(***************************************************************************)
LEMMA OwnedIs ==
  /\ pc = "split" => Owned = held \cup {[ptr |-> cur.base, layout |-> want.layout]}
  /\ pc # "split" => Owned = held
  /\ pc' = "split" => Owned' = held' \cup {[ptr |-> cur'.base, layout |-> want'.layout]}
  /\ pc' # "split" => Owned' = held'
BY DEF Owned

\* What alloc takes from a list becomes its caller's.
LEMMA Allocates ==
  ASSUME OwnedFit', NEW layout \in Layouts, NEW ptr,
         [ptr |-> ptr, layout |-> layout] \notin Owned,
         Owned' = Owned \cup {[ptr |-> ptr, layout |-> layout]}
  PROVE  Client!Next
<1> DEFINE h == [ptr |-> ptr, layout |-> layout]
<1>1. h.ptr = ptr /\ h \in Owned' /\ Owned' \ {h} = Owned
  OBVIOUS
<1> HIDE DEF h
<1>2. ptr \in Memory /\ Client!CanOwn(h, Owned)
  BY <1>1 DEF OwnedFit, Client!CanOwn, Client!Extent, Memory
<1>3. Client!Alloc(layout)
  BY <1>2 DEF Client!Alloc, h
<1> QED
  BY <1>3 DEF Client!Next

\* shrink leaves the pointer with its caller, under the new layout.
LEMMA Shrinks ==
  ASSUME Parts, OwnedFit', NEW h \in held, NEW layout \in Layouts, Owned = held,
         Owned' = (Owned \ {h}) \cup {[ptr |-> h.ptr, layout |-> layout]}
  PROVE  Client!Next
<1> DEFINE k == [ptr |-> h.ptr, layout |-> layout]
<1>1. k.ptr = h.ptr /\ k \in Owned'
  OBVIOUS
<1> HIDE DEF k
<1>2. k \in held => k = h
  BY <1>1 DEF Parts, HeldUnique
<1>3. Owned' = (Owned \ {h}) \cup {k}
  BY DEF k
<1>4. Owned' \ {k} = Owned \ {h}
  BY <1>2, <1>3
<1>5. Client!CanOwn(k, Owned \ {h})
  BY <1>1, <1>4 DEF OwnedFit, Client!CanOwn, Client!Extent, Memory
<1>6. Client!Shrink(h, layout)
  BY <1>3, <1>5 DEF Client!Shrink, k
<1> QED
  BY <1>6 DEF Client!Next

LEMMA SimulatesAllocExact ==
  ASSUME Parts, OwnedFit', NEW layout \in Layouts, AllocExact(layout)
  PROVE  Client!Next
<1> DEFINE g == block_granularity(arena, layout_to_size(layout))
<1>1. pc = "idle" /\ pc' = "idle" /\ arena = FirstArena
  BY DEF Parts, AllocExact
<1>2. g \in G
  BY <1>1, LayoutBlock DEF AllocExact
<1>3. PICK base \in llists[g] : held' = held \cup {[ptr |-> base, layout |-> layout]}
  BY DEF AllocExact
<1>4. FreeSpan(g, base) \in Spans /\ FreeSpan(g, base).who = "free" /\ FreeSpan(g, base).lo = base
  BY <1>1, <1>2, <1>3, FreeMember DEF Spans, Given, FreeSpan, Span
<1>5. [ptr |-> base, layout |-> layout] \notin held
  BY <1>4, FreshPointer
<1>6. Owned = held /\ Owned' = held'
  BY <1>1, OwnedIs
<1> QED
  BY <1>3, <1>5, <1>6, Allocates

LEMMA SimulatesAllocLarger ==
  ASSUME Parts, OwnedFit', NEW layout \in Layouts, AllocLarger(layout)
  PROVE  Client!Next
<1>1. pc = "idle" /\ pc' = "split" /\ held' = held /\ want'.layout = layout /\ arena = FirstArena
  BY DEF Parts, AllocLarger, TakeLarger
<1>2. PICK g \in avails : \E base \in llists[g] :
         cur' = [base |-> base, size |-> BlockSize(arena, g), granularity |-> g]
  BY DEF AllocLarger, TakeLarger
<1>3. PICK base \in llists[g] : cur'.base = base
  BY <1>2, BlockFields, Zenon
<1>4. g \in G
  BY <1>2 DEF Parts, BooksAgree
<1>5. FreeSpan(g, base) \in Spans /\ FreeSpan(g, base).who = "free" /\ FreeSpan(g, base).lo = base
  BY <1>1, <1>3, <1>4, FreeMember DEF Spans, Given, FreeSpan, Span
<1>6. [ptr |-> base, layout |-> layout] \notin held
  BY <1>5, FreshPointer
<1>7. Owned = held /\ Owned' = held \cup {[ptr |-> base, layout |-> layout]}
  BY <1>1, <1>3, OwnedIs
<1> QED
  BY <1>6, <1>7, Allocates

LEMMA SimulatesShrink ==
  ASSUME Parts, OwnedFit', NEW h \in held, NEW layout \in Layouts, Shrink(h, layout)
  PROVE  Client!Next
<1>1. pc = "idle" /\ Owned = held
  BY OwnedIs DEF Shrink
<1>2. Owned' = (held \ {h}) \cup {[ptr |-> h.ptr, layout |-> layout]}
  <2>1. CASE pc' = pc /\ held' = (held \ {h}) \cup {[ptr |-> h.ptr, layout |-> layout]}
    BY <1>1, <2>1, OwnedIs
  <2>2. CASE pc' = "split" /\ held' = held \ {h} /\ cur'.base = h.ptr /\ want'.layout = layout
    BY <2>2, OwnedIs
  <2> QED
    BY <2>1, <2>2 DEF Shrink
<1> QED
  BY <1>1, <1>2, Shrinks

LEMMA SimulatesDealloc ==
  ASSUME Parts, NEW h \in held, Dealloc(h)
  PROVE  Client!Next
<1>1. h \in Owned /\ Owned' = Owned \ {h}
  BY OwnedIs DEF Dealloc
<1> QED
  BY <1>1 DEF Client!Next, Client!Dealloc

\* The loops, release and the error path show callers nothing.
LEMMA StepKeepsOwned ==
  ASSUME Parts, Parts', Step
  PROVE  Owned' = Owned
<1>1. CASE Split
  <2>1. pc = "split" /\ pc' = "split" /\ held' = held /\ want' = want /\ cur'.base = cur.base
    BY <1>1 DEF Split
  <2> QED
    BY <2>1, OwnedIs
<1>2. CASE SplitDone
  <2>1. pc = "split" /\ pc' = "idle" /\ held' = held \cup {[ptr |-> cur.base, layout |-> want.layout]}
    BY <1>2 DEF SplitDone
  <2> QED
    BY <2>1, OwnedIs
<1>3. CASE Merge \/ MergeDone \/ ReleaseNested \/ ReleaseAscending \/ ReleaseDescending
  <2>1. pc # "split" /\ held' = held
    BY <1>3, Zenon DEF Merge, MergeDone, ReleaseNested, ReleaseAscending, ReleaseDescending
  <2>2. pc' # "split"
    BY <1>3 DEF Merge, MergeDone, ReleaseNested, ReleaseAscending, ReleaseDescending,
       EnterRelease, ReleaseBlock
  <2> QED
    BY <2>1, <2>2, OwnedIs
<1> QED
  BY <1>1, <1>2, <1>3 DEF Step

LEMMA NextSimulates ==
  ASSUME Parts, Parts', OwnedFit', [Next]_vars
  PROVE  [Client!Next]_Owned
<1>1. CASE UNCHANGED vars \/ Halted
  <2>1. UNCHANGED <<held, pc, cur, want>>
    BY <1>1 DEF Halted, vars
  <2> QED
    BY <2>1 DEF Owned
<1>2. ASSUME NEW layout \in Layouts, AllocExact(layout) \/ AllocLarger(layout) \/ AllocErr(layout)
      PROVE  Client!Next \/ Owned' = Owned
  <2>1. CASE AllocErr(layout)
    <3>1. UNCHANGED <<held, pc, cur, want>>
      BY <2>1 DEF AllocErr
    <3> QED
      BY <3>1 DEF Owned
  <2> QED
    BY <1>2, <2>1, SimulatesAllocExact, SimulatesAllocLarger
<1>3. ASSUME NEW h \in held, Dealloc(h) \/ \E layout \in Layouts : Shrink(h, layout)
      PROVE  Client!Next
  BY <1>3, SimulatesDealloc, SimulatesShrink
<1>4. ASSUME NEW mem \in pending, Release(mem)
      PROVE  Owned' = Owned
  <2>1. pc = "idle" /\ held' = held /\ pc' # "split"
    BY <1>4 DEF Release, EnterRelease
  <2> QED
    BY <2>1, OwnedIs
<1> QED
  BY <1>1, <1>2, <1>3, <1>4, StepKeepsOwned DEF Next, Call

(***************************************************************************)
(* Talloc implements Allocator: whatever the arena, the regions and the    *)
(* requests, alloc, dealloc and shrink give callers memory that was        *)
(* released, large enough, aligned, not null and theirs alone, and every   *)
(* step of their loops and of release leaves what callers own alone.       *)
(***************************************************************************)
THEOREM TallocImplementsAllocator == RegionsFit => (Spec => Contract)
<1> DEFINE Kernel == Parts /\ Inside
<1>1. RegionsFit /\ Init => Kernel
  BY InitParts, InitInside
<1>2. Kernel /\ [Next]_vars => Kernel'
  BY NextParts, NextInside
<1>3. Init => Client!Init
  BY OwnedIs DEF Init, Client!Init
<1>4. Kernel => OwnedFit
  BY OwnersFit
<1>5. Kernel /\ Kernel' /\ OwnedFit' /\ [Next]_vars => [Client!Next]_Owned
  BY NextSimulates
<1> HIDE DEF Kernel
<1> QED
  BY <1>1, <1>2, <1>3, <1>4, <1>5, PTL DEF Spec, Contract, Client!Spec

(***************************************************************************)
(* alloc refuses only what is not there.                                   *)
(***************************************************************************)

\* A set of naturals that is not empty has a least element: what the arguments
\* by induction come down to.
LEMMA LeastNat ==
  ASSUME NEW S, S \subseteq Nat, S # {}
  PROVE  \E x \in S : \A y \in S : x <= y
<1> DEFINE R == OpToRel(<, Nat)
<1>1. IsWellFoundedOn(R, Nat)
  BY NatLessThanWellFounded, Zenon
<1>2. \A x, y \in Nat : x < y => <<x, y>> \in R
  BY DEF OpToRel
<1> HIDE DEF R
<1>3. PICK x \in S : \A y \in S : ~(<<y, x>> \in R)
  BY <1>1, WFMin, Zenon
<1>4. \A y \in S : ~(y < x)
  BY <1>2, <1>3, Zenon
<1> QED
  BY <1>4

\* What a refused request leaves behind until the next call: no method runs,
\* and no list has a block of the size asked for or of a larger one.
Refused ==
  err # 0 =>
    /\ pc = "idle"
    /\ \/ err > FirstArena.size
       \/ \E g \in G : err = Sz(g) /\ \A a \in avails : g < a

LEMMA RefusedKept ==
  ASSUME Parts, Refused, [Next]_vars
  PROVE  Refused'
<1>1. CASE err' = 0
  BY <1>1 DEF Refused
<1>2. CASE UNCHANGED vars
  BY <1>2 DEF Refused, vars, books
<1>3. ASSUME NEW layout \in Layouts, AllocErr(layout)
      PROVE  Refused'
  <2> DEFINE size == layout_to_size(layout)
             g == block_granularity(FirstArena, size)
  <2>1. /\ arena = FirstArena /\ pc' = "idle" /\ err' = size /\ avails' = avails
        /\ size > FirstArena.size \/ \A a \in avails : a > g
    BY <1>3 DEF AllocErr, Parts, books
  <2>2. PICK n \in Exponents : size = 2^n
    BY LayoutSize
  <2>3. size \in Nat /\ FirstArena.size \in Nat
    BY <2>2, Geometry, PowersOfTwo DEF Exponents
  <2>4. CASE size > FirstArena.size
    BY <2>1, <2>4 DEF Refused
  <2>5. CASE ~(size > FirstArena.size)
    <3>1. size <= FirstArena.size
      BY <2>3, <2>5
    <3>2. g \in G /\ size = Sz(g)
      BY <3>1, LayoutBlock
    <3>3. avails \subseteq G /\ G \subseteq Nat
      BY Sizes DEF Parts, BooksAgree
    <3>4. \A a \in avails : g < a
      BY <2>1, <2>5, <3>2, <3>3
    <3> HIDE DEF g, size
    <3> QED
      BY <2>1, <3>2, <3>4 DEF Refused
  <2> QED
    BY <2>4, <2>5
<1>4. CASE Step
  <2>1. pc # "idle"
    BY <1>4, Zenon DEF Step, Split, SplitDone, Merge, MergeDone, ReleaseNested, ReleaseAscending, ReleaseDescending
  <2>2. err' = err
    BY <1>4, Zenon DEF Step, Split, SplitDone, Merge, MergeDone, ReleaseNested, ReleaseAscending, ReleaseDescending
  <2> QED
    BY <2>1, <2>2 DEF Refused
<1>5. CASE Halted
  BY <1>2, <1>5 DEF Halted
<1>6. CASE Call
  <2>1. ASSUME NEW layout \in Layouts, AllocExact(layout) \/ AllocLarger(layout)
        PROVE  err' = 0
    BY <2>1, Zenon DEF AllocExact, AllocLarger, TakeLarger
  <2>2. ASSUME NEW h \in held, Dealloc(h) \/ \E layout \in Layouts : Shrink(h, layout)
        PROVE  err' = 0
    BY <2>2 DEF Dealloc, Shrink
  <2>3. ASSUME NEW mem \in pending, Release(mem)
        PROVE  err' = 0
    BY <2>3 DEF Release
  <2> QED
    BY <1>1, <1>3, <1>6, <2>1, <2>2, <2>3 DEF Call
<1> QED
  BY <1>2, <1>4, <1>5, <1>6 DEF Next

\* The address c lies in the free block of granularity g at x.
FreeAt(c, g, x) == g \in G /\ x \in llists[g] /\ x <= c /\ c < x + Sz(g)

LEMMA FreeAtTypes ==
  ASSUME Parts, NEW c \in Int, NEW g, NEW x, FreeAt(c, g, x)
  PROVE  /\ g \in Nat /\ g \in avails /\ Sz(g) \in Nat \ {0} /\ smlst_block \in Nat \ {0}
         /\ x \in Int /\ x \in Blk(g) /\ x % Sz(g) = 0
<1>1. g \in G /\ x \in llists[g]
  BY DEF FreeAt
<1>2. g \in avails /\ x \in Blk(g)
  BY <1>1 DEF Parts, BooksAgree
<1>3. smlst_block \in Nat \ {0}
  BY Geometry, PowersOfTwo DEF Exponents
<1> QED
  BY <1>1, <1>2, <1>3, Sizes, Blocks

\* A cell of the free memory lies in a free block.
LEMMA FreeCell ==
  ASSUME Parts, NEW c \in CellsOf(FreeSpans)
  PROVE  c \in Int /\ \E g \in G : \E x \in llists[g] : FreeAt(c, g, x)
<1>1. PICK s \in FreeSpans : c \in Cells(s.lo, s.hi)
  BY DEF CellsOf
<1>2. PICK g \in G : \E x \in llists[g] : s = FreeSpan(g, x)
  BY FreeMember DEF Parts
<1>3. PICK x \in llists[g] : s = FreeSpan(g, x)
  BY <1>2
<1>4. s.lo = x /\ s.hi = x + Sz(g) /\ x \in Int /\ Sz(g) \in Nat
  BY <1>3, Sizes DEF FreeSpan, Span, Parts, BooksAgree
<1>5. c \in Int /\ x <= c /\ c < x + Sz(g)
  BY <1>1, <1>4 DEF Cells
<1> QED
  BY <1>5 DEF FreeAt

\* A free block that has an address in common with an aligned range of a larger
\* block size lies in that range.
LEMMA FreeInside ==
  ASSUME Parts, NEW g0 \in G, NEW b \in Int, b % Sz(g0) = 0, NEW c \in Int, b <= c, c < b + Sz(g0),
         NEW g, NEW x, FreeAt(c, g, x), g0 < g
  PROVE  b <= x /\ x + Sz(g) <= b + Sz(g0)
<1>1. /\ g \in G /\ x \in Int /\ x % Sz(g) = 0 /\ Sz(g) \in Nat \ {0} /\ x <= c /\ c < x + Sz(g)
  BY FreeAtTypes DEF FreeAt
<1>2. PICK k \in Nat \ {0} : Sz(g0) = k * (2 * Sz(g))
  BY <1>1, SizeMultiple
<1> DEFINE j == 2 * k
<1>3. j \in Nat \ {0} /\ Sz(g0) = j * Sz(g)
  BY <1>1, <1>2
<1> HIDE DEF j
<1> QED
  BY <1>1, <1>3, BlocksNest

\* The pair that a block makes with its buddy.
LEMMA Pair ==
  ASSUME NEW x \in Int, NEW s \in Nat \ {0}, x % s = 0
  PROVE  \E p \in Int : /\ p % (2 * s) = 0
                        /\ p <= x /\ x < p + 2 * s
                        /\ p <= Buddy(x, s) /\ Buddy(x, s) < p + 2 * s
<1>1. CASE is_lower_buddy(x, s)
  <2>1. Buddy(x, s) = x + s /\ x % (2 * s) = 0
    BY <1>1, Buddies
  <2> QED
    BY <2>1
<1>2. CASE ~is_lower_buddy(x, s)
  <2>1. Buddy(x, s) = x - s /\ (x - s) % (2 * s) = 0
    BY <1>2, Buddies
  <2> QED
    BY <2>1
<1> QED
  BY <1>1, <1>2

\* Where only smaller blocks are free, no aligned range of a block size is free:
\* of the smallest blocks that it would be made of, some two were buddies.
LEMMA NotAllFree ==
  ASSUME Parts, NEW g0 \in G, \A a \in avails : g0 < a,
         NEW b \in Int, b % Sz(g0) = 0, Cells(b, b + Sz(g0)) \subseteq CellsOf(FreeSpans)
  PROVE  FALSE
<1> DEFINE Within(c) == c \in Int /\ b <= c /\ c < b + Sz(g0)
           T == {g \in G : \E x \in llists[g] : Within(x)}
<1>1. /\ Sz(g0) \in Nat \ {0} /\ smlst_block \in Nat \ {0} /\ Sz(g0) % smlst_block = 0
      /\ G = 0..(top - bottom) /\ top - bottom \in Nat
  BY Sizes, Geometry, PowersOfTwo DEF Exponents
<1>2. ASSUME NEW c, Within(c), c % smlst_block = 0
      PROVE  \E g \in T : \E x \in llists[g] : FreeAt(c, g, x)
  <2>1. c \in Cells(b, b + Sz(g0))
    BY <1>1, <1>2 DEF Cells
  <2>2. PICK g \in G : \E x \in llists[g] : FreeAt(c, g, x)
    BY <2>1, FreeCell
  <2>3. PICK x \in llists[g] : FreeAt(c, g, x)
    BY <2>2
  <2>4. g \in avails /\ x \in Int /\ Sz(g) \in Nat \ {0}
    BY <1>2, <2>3, FreeAtTypes
  <2>5. b <= x /\ x + Sz(g) <= b + Sz(g0)
    BY <1>2, <2>3, <2>4, FreeInside
  <2>6. Within(x)
    BY <1>1, <2>4, <2>5
  <2> QED
    BY <2>3, <2>6
<1>3. ASSUME NEW c \in Int, NEW g \in G, c % Sz(g) = 0
      PROVE  c % smlst_block = 0
  <2>1. /\ Sz(g) = 2^(top - g) /\ top - g \in Exponents /\ bottom <= top - g
        /\ smlst_block = 2^bottom /\ bottom \in Exponents
    BY Sizes, Geometry
  <2>2. top - g \in 0..WordBits /\ bottom \in 0..WordBits
    BY <2>1, PowersOfTwo DEF Exponents
  <2> QED
    BY <1>3, <2>1, <2>2, PowDivides
<1>4. \E g \in T : \A h \in T : h <= g
  <2>1. Within(b) /\ b % smlst_block = 0
    BY <1>1, <1>3
  <2>2. T # {}
    BY <1>2, <2>1
  <2> DEFINE D == {n \in 0..(top - bottom) : (top - bottom) - n \in T}
  <2>3. T \subseteq 0..(top - bottom)
    BY <1>1
  <2> HIDE DEF T
  <2>4. D \subseteq Nat /\ D # {}
    <3>1. PICK g \in T : TRUE
      BY <2>2
    <3>2. (top - bottom) - g \in 0..(top - bottom) /\ (top - bottom) - ((top - bottom) - g) = g
      BY <1>1, <2>3
    <3> QED
      BY <1>1, <3>1, <3>2
  <2>5. PICK n \in D : \A m \in D : n <= m
    BY <2>4, LeastNat, Zenon
  <2>6. \A h \in T : (top - bottom) - h \in D
    BY <1>1, <2>3
  <2>7. \A h \in T : h <= (top - bottom) - n
    BY <1>1, <2>3, <2>4, <2>5, <2>6
  <2> QED
    BY <2>5, <2>7
<1>5. PICK g \in T : \A h \in T : h <= g
  BY <1>4
<1>6. PICK x \in llists[g] : Within(x)
  BY <1>5
<1> HIDE DEF T
<1> DEFINE s == Sz(g)
           y == Buddy(x, s)
<1>7. g \in G
  BY <1>5 DEF T
<1>8. s \in Nat \ {0} /\ x \in Blk(g) /\ x % s = 0 /\ g \in avails /\ FreeAt(x, g, x)
  <2>1. s \in Nat \ {0}
    BY <1>7, Sizes
  <2>2. FreeAt(x, g, x)
    BY <1>6, <1>7, <2>1 DEF FreeAt
  <2> QED
    BY <1>6, <2>1, <2>2, FreeAtTypes
<1>9. g0 < g
  BY <1>8
<1>10. y \in Int /\ y % s = 0
  BY <1>6, <1>8, Buddies
<1> HIDE DEF s, y
<1>11. PICK p \in Int : /\ p % (2 * s) = 0 /\ p <= x /\ x < p + 2 * s
                        /\ p <= y /\ y < p + 2 * s
  BY <1>6, <1>8, Pair DEF y
\* A block whose size is a multiple of the pair's and that meets the pair has both.
<1>12. ASSUME NEW h \in G, h < g, NEW z \in Int, z % Sz(h) = 0,
              NEW c \in {x, y}, z <= c, c < z + Sz(h)
       PROVE  z <= p /\ p + 2 * s <= z + Sz(h)
  <2>1. PICK k \in Nat \ {0} : Sz(h) = k * (2 * s)
    BY <1>7, <1>12, SizeMultiple DEF s
  <2>2. 2 * s \in Nat \ {0}
    BY <1>8
  <2>3. c \in Int /\ p <= c /\ c < p + 2 * s
    BY <1>6, <1>10, <1>11
  <2>4. p \in Int /\ p % (2 * s) = 0 /\ z \in Int /\ z % Sz(h) = 0 /\ z <= c /\ c < z + Sz(h)
    BY <1>11, <1>12, Zenon
  <2> QED
    BY ONLY <2>1, <2>2, <2>3, <2>4, BlocksNest
<1>13. Within(y) /\ y % smlst_block = 0
  <2>1. b <= p /\ p + 2 * s <= b + Sz(g0)
    BY <1>6, <1>9, <1>12
  <2>2. b <= y /\ y < b + Sz(g0)
    BY <1>1, <1>8, <1>10, <1>11, <2>1
  <2>3. y % smlst_block = 0
    BY <1>3, <1>7, <1>10 DEF s
  <2> QED
    BY <1>10, <2>2, <2>3
<1>14. PICK h \in T : \E z \in llists[h] : FreeAt(y, h, z)
  BY <1>2, <1>13 DEF T
<1>15. PICK z \in llists[h] : FreeAt(y, h, z)
  BY <1>14
<1>16. /\ h \in G /\ h \in Nat /\ z \in Int /\ z % Sz(h) = 0 /\ Sz(h) \in Nat \ {0}
       /\ z <= y /\ y < z + Sz(h)
  BY <1>10, <1>15, FreeAtTypes DEF FreeAt
<1>17. CASE h = g
  <2>1. 1 \in Nat \ {0} /\ s = 1 * s /\ y <= y /\ y < y + s
    BY <1>8, <1>10
  <2>2. z % s = 0 /\ z <= y /\ y < z + s
    BY <1>16, <1>17 DEF s
  <2>3. z <= y /\ y + s <= z + s
    BY <1>8, <1>10, <1>16, <2>1, <2>2, BlocksNest, Zenon
  <2>4. z = y
    BY <1>8, <1>10, <1>16, <2>3
  <2> QED
    BY <1>6, <1>7, <1>8, <1>15, <1>17, <2>4 DEF y, s, Parts, BooksAgree
<1>18. CASE h # g
  <2>1. h < g
    BY <1>5, <1>7, <1>16, <1>18, Sizes
  <2>2. z <= p /\ p + 2 * s <= z + Sz(h)
    BY <1>16, <2>1, <1>12
  <2> DEFINE f == FreeSpan(h, z)
             e == FreeSpan(g, x)
  <2>3. f \in Spans /\ e \in Spans
    BY <1>6, <1>7, <1>15, <1>16, FreeMember, Zenon DEF Spans, Given, Parts
  <2>4. f.lo = z /\ f.hi = z + Sz(h) /\ e.lo = x /\ e.hi = x + s
    BY DEF FreeSpan, Span, s
  <2> HIDE DEF f, e
  <2>5. ~Apart(f, e)
    BY <1>6, <1>8, <1>11, <1>16, <2>2, <2>4 DEF Apart
  <2>6. f # e
    <3>1. z + Sz(h) - z >= 2 * s
      BY <1>8, <1>11, <1>16, <2>2
    <3> QED
      BY <1>6, <1>8, <1>16, <2>4, <3>1
  <2> QED
    BY <2>3, <2>5, <2>6 DEF Parts, Disjoint
<1> QED
  BY <1>17, <1>18

\* `Returns Err upon memory exhaustion': whenever alloc has refused a request,
\* whatever was allocated, given back, shrunk and released before, no aligned
\* range of the size asked for is free.
THEOREM RefusalMeansExhausted == RegionsFit => (Spec => []ErrOnlyWhenExhausted)
<1>1. RegionsFit /\ Init => Parts /\ Refused
  BY InitParts DEF Init, Refused
<1>2. Parts /\ Refused /\ [Next]_vars => Parts' /\ Refused'
  BY NextParts, RefusedKept
<1>3. Parts /\ Refused => ErrOnlyWhenExhausted
  <2> SUFFICES ASSUME Parts, Refused, err # 0,
                      NEW b \in arena.base..(arena.base + arena.size - err), b % err = 0,
                      Cells(b, b + err) \subseteq CellsOf(FreeSpans)
               PROVE  FALSE
    BY DEF ErrOnlyWhenExhausted
  <2>1. arena = FirstArena /\ err \in Nat /\ FirstArena.base \in Int /\ FirstArena.size \in Nat
    BY Geometry DEF Parts, Locals
  <2>2. b \in Int /\ ~(err > FirstArena.size)
    BY <2>1
  <2>3. PICK g \in G : err = Sz(g) /\ \A a \in avails : g < a
    BY <2>2 DEF Refused
  <2> QED
    BY <2>2, <2>3, NotAllFree
<1> QED
  BY <1>1, <1>2, <1>3, PTL DEF Spec
=============================================================================
