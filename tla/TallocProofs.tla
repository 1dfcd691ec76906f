---------------------------- MODULE TallocProofs ----------------------------
(***************************************************************************)
(* Proofs about Talloc, for every arena whose alignment keeps the flags    *)
(* of the bitmap apart, every set of layouts and every set of regions:     *)
(* its books are right, no byte has two owners and no memory is lost.      *)
(***************************************************************************)
EXTENDS TallocFacts

(***************************************************************************)
(* release.                                                                *)
(***************************************************************************)
LEMMA RegionBounds ==
  ASSUME NEW mem, RegionFits(mem)
  PROVE  /\ mem.lo \in Int /\ mem.hi \in Int
         /\ ReleaseBase(mem) \in Int /\ ReleaseAcme(mem) \in Int
         /\ ReleaseBase(mem) % smlst_block = 0 /\ ReleaseAcme(mem) % smlst_block = 0
         /\ mem.lo <= ReleaseBase(mem) /\ ReleaseBase(mem) <= ReleaseAcme(mem)
         /\ ReleaseAcme(mem) <= mem.hi /\ mem.hi < ReleaseAcme(mem) + smlst_block
         /\ smlst_block \in Nat \ {0}
<1>1. smlst_block \in Nat \ {0}
  BY Geometry, PowSucc
<1>2. mem.lo \in Int /\ mem.hi \in Int /\ ReleaseBase(mem) <= ReleaseAcme(mem)
  BY DEF RegionFits
<1> QED
  BY Zenon, <1>1, <1>2, Rounding DEF ReleaseBase, ReleaseAcme

\* The part of a region above null is a region again, and so is none of it.
LEMMA AboveNull ==
  ASSUME NEW mem, RegionFits(mem), ReleaseBase(mem) = 0, mem.lo = 0, 0 < ReleaseAcme(mem)
  PROVE  /\ RegionFits([lo |-> 0, hi |-> 0])
         /\ RegionFits([lo |-> smlst_block, hi |-> mem.hi])
         /\ ReleaseBase([lo |-> smlst_block, hi |-> mem.hi]) = smlst_block
         /\ ReleaseAcme([lo |-> smlst_block, hi |-> mem.hi]) = ReleaseAcme(mem)
<1> DEFINE k == smlst_block
           acme == ReleaseAcme(mem)
<1>1. /\ k \in Nat \ {0} /\ acme \in Int /\ acme % k = 0 /\ mem.hi \in Int /\ 0 < acme
  BY RegionBounds
<1>2. FirstArena.base <= 0 /\ acme <= FirstArena.base + FirstArena.size
  BY DEF RegionFits
<1>3. k <= acme
  <2> DEFINE q == acme \div k
  <2>1. acme = q * k /\ q \in Int
    BY Zenon, <1>1, Multiples
  <2> HIDE DEF q, acme, k
  <2>2. q > 0
    BY <1>1, <2>1
  <2> QED
    BY <1>1, <2>1, <2>2
<1>4. ASSUME NEW q \in Int
      PROVE  FloorTo(q * k, k) = q * k /\ CeilTo(q * k, k) = q * k
  <2>1. (q * k) % k = 0 /\ q * k \in Int
    <3> DEFINE v == q * k
    <3>1. v = q * k /\ v \in Int
      BY <1>1
    <3> HIDE DEF v, k
    <3>2. v % k = 0
      BY Zenon, <1>1, <3>1, Quotient
    <3> QED
      BY <3>1, <3>2
  <2>2. FloorTo(q * k, k) = q * k
    BY <2>1 DEF FloorTo
  <2> DEFINE c == CeilTo(q * k, k)
             r == c \div k
  <2>3. c \in Int /\ c % k = 0 /\ q * k <= c /\ c < q * k + k
    BY Zenon, <1>1, <2>1, Rounding
  <2>4. c = r * k /\ r \in Int
    BY Zenon, <1>1, <2>3, Multiples
  <2> HIDE DEF c, r, k
  <2>5. ~(r < q) /\ ~(q < r)
    BY <1>1, <2>3, <2>4
  <2>6. r = q
    BY <2>4, <2>5
  <2> QED
    BY <2>2, <2>4, <2>6 DEF c
<1>5. 0 * k = 0 /\ 1 * k = k
  BY <1>1
<1>6. FloorTo(0, k) = 0 /\ CeilTo(0, k) = 0 /\ CeilTo(k, k) = k
  BY <1>4, <1>5
<1>7. RegionFits([lo |-> 0, hi |-> 0])
  <2>1. ReleaseBase([lo |-> 0, hi |-> 0]) = 0 /\ ReleaseAcme([lo |-> 0, hi |-> 0]) = 0
    BY <1>6 DEF ReleaseBase, ReleaseAcme
  <2> QED
    BY <1>1, <1>2, <2>1, Geometry DEF RegionFits
<1>8. /\ RegionFits([lo |-> smlst_block, hi |-> mem.hi])
      /\ ReleaseBase([lo |-> smlst_block, hi |-> mem.hi]) = smlst_block
      /\ ReleaseAcme([lo |-> smlst_block, hi |-> mem.hi]) = ReleaseAcme(mem)
  <2> DEFINE r == [lo |-> smlst_block, hi |-> mem.hi]
  <2>1. ReleaseBase(r) = k /\ ReleaseAcme(r) = acme
    BY <1>6 DEF ReleaseBase, ReleaseAcme
  <2>2. r \in [lo : Int, hi : Int]
    BY <1>1
  <2> HIDE DEF r
  <2>3. RegionFits(r)
    BY <1>1, <1>2, <1>3, <2>1, <2>2, Geometry DEF RegionFits
  <2> QED
    BY <2>1, <2>3 DEF r
<1> QED
  BY <1>7, <1>8

\* Entering release, for a pending region or a nested one: `o' is the span
\* of the region, and `rest' the nested ranges that wait.
LEMMA Entering ==
  ASSUME Parts, pc \in {"idle", "release"}, ~rel.on,
         NEW mem, mem \in pending \cup todo,
         NEW o, o.who \in {"pending", "nested"}, o.lo = mem.lo, o.hi = mem.hi,
         mem.lo < mem.hi => o \in Spans,
         NEW rest, rest \subseteq todo,
         o \notin PendingSpans',
         \A r \in rest : r.lo < r.hi => Span("nested", r.lo, r.hi) # o,
         pending' \subseteq pending,
         EnterRelease(mem, rest),
         UNCHANGED <<arena, avails, llists, bitmap, held, cur, want>>, err' \in Nat
  PROVE  Parts'
<1> DEFINE base == ReleaseBase(mem)
           acme == ReleaseAcme(mem)
           end == FirstArena.base + FirstArena.size
<1>0. RegionFits(mem) /\ arena = FirstArena /\ arena' = FirstArena
  BY DEF Parts, ReleaseFits
<1>1. /\ mem.lo \in Int /\ mem.hi \in Int /\ base \in Int /\ acme \in Int
      /\ base % smlst_block = 0 /\ acme % smlst_block = 0
      /\ mem.lo <= base /\ base <= acme /\ acme <= mem.hi /\ smlst_block \in Nat \ {0}
  BY <1>0, RegionBounds
<1>2. /\ FirstArena.base <= base /\ acme <= end
      /\ base # acme => acme < 0 \/ base > 0 \/ (base = 0 /\ mem.lo = 0)
  BY <1>0, <1>1 DEF RegionFits
<1>3. BooksAgree' /\ HeldFit' /\ HeldUnique'
  BY DEF Parts, BooksAgree, HeldFit, HeldUnique
<1>4. rest \subseteq [lo : Int, hi : Int] /\ \A r \in pending \cup rest : RegionFits(r)
  BY DEF Parts, Locals, ReleaseFits
<1>5. HandSpans = {} /\ RelSpans = {}
  BY Kept DEF RelSpans
<1>6. FreeSpans' = FreeSpans /\ HeldSpans' = HeldSpans /\ PendingSpans' \subseteq PendingSpans \ {o}
  BY <1>0, FreeKept, Kept DEF PendingSpans
<1> DEFINE Waiting == {Span("nested", r.lo, r.hi) : r \in {r \in rest : r.lo < r.hi}}
<1>7. Waiting \subseteq NestedSpans \ {o}
  BY DEF NestedSpans
<1>8. FreeSpans \cup HeldSpans \cup PendingSpans' \cup Waiting \subseteq Spans \ {o}
  BY <1>6, <1>7, Families DEF Spans, Given
<1>9. CASE base = acme
  <2>1. /\ pc' = IF rest = {} THEN "idle" ELSE "release"
        /\ rel' = NoRelease /\ todo' = rest
    BY <1>0, <1>1, <1>2, <1>9 DEF EnterRelease
  <2>2. HandSpans' = {} /\ RelSpans' = {} /\ NestedSpans' = Waiting
    BY <2>1, Kept DEF RelSpans, NoRelease, NestedSpans
  <2>3. Spans' \subseteq Spans
    BY <1>6, <1>8, <2>2 DEF Spans, Given
  <2>4. Disjoint(Spans')
    BY <2>3 DEF Parts, Disjoint
  <2>5. Locals'
    BY <1>4, <2>1 DEF Parts, Locals, NoRelease
  <2>6. HandFits' /\ WantFits' /\ ReleaseFits'
    BY <1>4, <2>1 DEF HandFits, WantFits, ReleaseFits, NoRelease
  <2> QED
    BY <1>0, <1>3, <2>4, <2>5, <2>6 DEF Parts
<1>10. CASE base # acme /\ base <= 0 /\ 0 < acme
  <2>1. base = 0 /\ mem.lo = 0
    BY <1>1, <1>2, <1>10
  <2> DEFINE none == [lo |-> 0, hi |-> 0]
             above == [lo |-> smlst_block, hi |-> mem.hi]
  <2>2. /\ mem.lo + (0 - base) = 0 /\ mem.lo + (smlst_block - base) = smlst_block
    BY <1>1, <2>1
  <2>3. /\ pc' = "release" /\ rel' = NoRelease
        /\ todo' = rest \cup {none, above}
    BY <1>0, <1>1, <1>2, <1>10, <2>1, <2>2 DEF EnterRelease
  <2>4. RegionFits(none) /\ RegionFits(above)
    BY <1>0, <1>10, <2>1, AboveNull
  <2>5. none \in [lo : Int, hi : Int] /\ above \in [lo : Int, hi : Int]
    BY <1>1
  <2> DEFINE n == Span("nested", smlst_block, mem.hi)
  <2>6. HandSpans' = {} /\ RelSpans' = {}
    BY <2>3, Kept DEF RelSpans, NoRelease
  <2>7. NestedSpans' \subseteq Waiting \cup {n}
    BY <2>3 DEF NestedSpans
  <2>8. smlst_block < mem.hi \/ NestedSpans' \subseteq Waiting
    BY <1>1, <2>3 DEF NestedSpans
  <2>9. n.lo = smlst_block /\ n.hi = mem.hi
    BY DEF Span
  <2>10. Disjoint(Spans')
    <3> HIDE DEF Waiting, n, none, above, base, acme, end
    <3>1. CASE smlst_block < mem.hi
      <4>1. Spans' \subseteq (Spans \ {o}) \cup {n}
        BY <1>6, <1>8, <2>6, <2>7 DEF Spans, Given
      <4>2. IsSpan(n) /\ o.lo <= n.lo /\ n.hi <= o.hi /\ o \in Spans
        BY <1>1, <2>1, <2>9, <3>1 DEF IsSpan
      <4> QED
        BY <4>1, <4>2, Handover
    <3>2. CASE NestedSpans' \subseteq Waiting
      <4>1. Spans' \subseteq Spans
        BY <1>6, <1>8, <2>6, <3>2 DEF Spans, Given
      <4> QED
        BY <4>1 DEF Parts, Disjoint
    <3> QED
      BY <2>8, <3>1, <3>2
  <2>11. Locals'
    <3> HIDE DEF none, above
    <3> QED
      BY <1>4, <2>3, <2>5 DEF Parts, Locals, NoRelease
  <2>12. HandFits' /\ WantFits'
    BY <2>3 DEF HandFits, WantFits
  <2>13. ReleaseFits'
    <3> HIDE DEF none, above
    <3> QED
      BY <1>4, <2>3, <2>4 DEF ReleaseFits, NoRelease
  <2> QED
    BY <1>0, <1>3, <2>10, <2>11, <2>12, <2>13 DEF Parts
<1>11. CASE base # acme /\ ~(base <= 0 /\ 0 < acme)
  <2>1. /\ pc' = "release" /\ todo' = rest
        /\ rel' = [on |-> TRUE, base |-> base, acme |-> acme, asc |-> TRUE]
    BY <1>0, <1>1, <1>2, <1>11 DEF EnterRelease
  <2>2. acme < 0 \/ 0 < base
    BY <1>1, <1>2, <1>11
  <2> DEFINE n == Span("release", base, acme)
  <2>3. HandSpans' = {} /\ RelSpans' \subseteq {n} /\ NestedSpans' = Waiting
    BY <2>1, Kept DEF RelSpans, NestedSpans
  <2>4. n.lo = base /\ n.hi = acme
    BY DEF Span
  <2>5. Disjoint(Spans')
    <3> HIDE DEF Waiting, n, base, acme, end
    <3>1. Spans' \subseteq (Spans \ {o}) \cup {n}
      BY <1>6, <1>8, <2>3 DEF Spans, Given
    <3>2. IsSpan(n) /\ o.lo <= n.lo /\ n.hi <= o.hi /\ o \in Spans
      BY <1>1, <1>11, <2>4 DEF IsSpan
    <3> QED
      BY <3>1, <3>2, Handover
  <2> HIDE DEF base, acme, end
  <2>6. Locals'
    BY <1>1, <1>4, <2>1 DEF Parts, Locals
  <2>7. HandFits' /\ WantFits'
    BY <2>1 DEF HandFits, WantFits
  <2>8. ReleaseFits'
    BY <1>0, <1>1, <1>2, <1>4, <2>1, <2>2 DEF ReleaseFits, end
  <2> QED
    BY <1>0, <1>3, <2>5, <2>6, <2>7, <2>8 DEF Parts
<1> QED
  BY <1>9, <1>10, <1>11

LEMMA StepRelease ==
  ASSUME Parts, NEW mem \in pending, Release(mem)
  PROVE  Parts'
<1> DEFINE o == Span("pending", mem.lo, mem.hi)
<1>1. /\ pc = "idle" /\ pending' = pending \ {mem} /\ EnterRelease(mem, {}) /\ err' = 0
      /\ UNCHANGED <<arena, avails, llists, bitmap, held, cur, want>>
  BY DEF Release, books
<1>2. ~rel.on
  BY <1>1 DEF Parts, ReleaseFits
<1>3. o.who = "pending" /\ o.lo = mem.lo /\ o.hi = mem.hi
  BY DEF Span
<1>4. mem.lo < mem.hi => o \in Spans
  BY DEF Spans, PendingSpans
<1>5. o \notin PendingSpans'
  <2>1. \A r \in pending' : r \in [lo : Int, hi : Int] /\ r # mem /\ mem \in [lo : Int, hi : Int]
    BY <1>1 DEF Parts, ReleaseFits, RegionFits
  <2>2. \A r \in pending' : Span("pending", r.lo, r.hi) # o
    BY <2>1 DEF Span
  <2> QED
    BY <2>2 DEF PendingSpans
<1> HIDE DEF o
<1>6. {} \subseteq todo /\ \A r \in {} : r.lo < r.hi => Span("nested", r.lo, r.hi) # o
  OBVIOUS
<1> QED
  BY <1>1, <1>2, <1>3, <1>4, <1>5, <1>6, Entering

LEMMA StepReleaseNested ==
  ASSUME Parts, ReleaseNested
  PROVE  Parts'
<1>1. /\ pc = "release" /\ ~rel.on
      /\ UNCHANGED <<arena, avails, llists, bitmap, held, pending, cur, want, err>>
  BY DEF ReleaseNested, books
<1>2. PICK mem \in todo : EnterRelease(mem, todo \ {mem})
  BY DEF ReleaseNested
<1> DEFINE o == Span("nested", mem.lo, mem.hi)
<1>3. o.who = "nested" /\ o.lo = mem.lo /\ o.hi = mem.hi
  BY DEF Span
<1>4. mem.lo < mem.hi => o \in Spans
  BY <1>2 DEF Spans, NestedSpans
<1>5. o \notin PendingSpans'
  BY <1>1, <1>3, Kept, Families
<1>6. \A r \in todo \ {mem} : r.lo < r.hi => Span("nested", r.lo, r.hi) # o
  <2>1. \A r \in todo : r \in [lo : Int, hi : Int]
    BY DEF Parts, Locals
  <2> QED
    BY <1>2, <2>1 DEF Span
<1>7. err' \in Nat /\ todo \ {mem} \subseteq todo
  BY <1>1 DEF Parts, Locals
<1> HIDE DEF o
<1> QED
  BY <1>1, <1>2, <1>3, <1>4, <1>5, <1>6, <1>7, Entering

\* The release loop hands out a block of 2^n bytes at an aligned address.
LEMMA HandOut ==
  ASSUME Parts, pc = "release", rel.on,
         NEW n \in Exponents, bottom <= n, rel.base % 2^n = 0, rel.base + 2^n <= rel.acme,
         NEW asc \in BOOLEAN,
         ~asc => \E k \in Exponents : (rel.base + 2^n) % 2^k = 0 /\ rel.acme - (rel.base + 2^n) < 2^k,
         ReleaseBlock(2^n, asc),
         UNCHANGED <<arena, avails, llists, bitmap, held, pending, want, todo, err>>
  PROVE  Parts'
<1> DEFINE s == 2^n
           b == rel.base
           g == top - n
<1>0. arena = FirstArena /\ arena' = FirstArena
  BY DEF Parts
<1>1. /\ b \in Int /\ rel.acme \in Int /\ s \in Nat \ {0}
      /\ b % smlst_block = 0 /\ rel.acme % smlst_block = 0
      /\ FirstArena.base <= b /\ rel.acme <= FirstArena.base + FirstArena.size
      /\ rel.acme < 0 \/ 0 < b
  BY <1>0, PowSucc DEF Parts, Locals, ReleaseFits
<1>2. n <= top
  <2>1. n \in 0..WordBits /\ top \in 0..WordBits
    BY Geometry, PowersOfTwo DEF Exponents
  <2>2. s <= 2^top /\ 2^top \in Nat \ {0}
    BY SMTT(30), <1>1, <2>1, Geometry, PowersOfTwo
  <2>3. ~(top < n)
    <3>1. SUFFICES ASSUME top < n PROVE FALSE
      OBVIOUS
    <3>2. 2 * 2^top <= s
      BY <2>1, <3>1, PowMono
    <3> QED
      BY <1>1, <2>2, <3>2
  <2> QED
    BY <2>1, <2>3
<1>3. g \in G /\ Sz(g) = s /\ block_granularity(arena, s) = g /\ g \in Int
  BY <1>0, <1>2, PowSize, Sizes
<1>4. b \in Blk(g)
  <2>1. b % Sz(g) = 0 /\ b + Sz(g) <= rel.acme
    BY <1>3
  <2> HIDE DEF b, g, s
  <2>2. b + Sz(g) <= FirstArena.base + FirstArena.size /\ ~(b <= 0 /\ 0 < b + Sz(g))
    BY <1>1, <1>3, <2>1, Geometry
  <2> QED
    BY <1>1, <1>3, <2>1, <2>2, Blocks
<1>5. /\ cur' = [base |-> b, size |-> s, granularity |-> g]
      /\ rel' = [on |-> TRUE, base |-> b + s, acme |-> rel.acme, asc |-> asc]
      /\ pc' = "merge"
  BY <1>3 DEF ReleaseBlock
<1> DEFINE o == Span("release", b, rel.acme)
           m == HandSpan(b, s)
           r == Span("release", b + s, rel.acme)
<1>6. RelSpans = {o} /\ HandSpans = {} /\ HandSpans' = {m}
  BY <1>1, <1>5, Kept DEF RelSpans
<1>7. RelSpans' = IF b + s < rel.acme THEN {r} ELSE {}
  BY <1>5 DEF RelSpans
<1>8. /\ o.who = "release" /\ o.lo = b /\ o.hi = rel.acme /\ m.lo = b /\ m.hi = b + s
      /\ r.lo = b + s /\ r.hi = rel.acme
  BY DEF HandSpan, Span
<1>9. o \in Spans /\ IsSpan(m)
  BY <1>1, <1>6, <1>8 DEF Spans, Given, IsSpan
<1>10. b + s <= rel.acme
  OBVIOUS
<1> HIDE DEF s, b, g, o, m, r
<1>11. Disjoint(Spans')
  <2>1. CASE b + s < rel.acme
    <3>1. Spans' \subseteq (Spans \ {o}) \cup {m, r}
      BY <1>0, <1>6, <1>7, <1>8, Kept, FreeKept, Families DEF Spans, Given
    <3>2. IsSpan(r) /\ o.lo <= m.lo /\ m.hi <= r.lo /\ r.hi <= o.hi
      BY <1>1, <1>8, <2>1 DEF IsSpan
    <3> QED
      BY <1>9, <3>1, <3>2, Division
  <2>2. CASE ~(b + s < rel.acme)
    <3>1. Spans' \subseteq (Spans \ {o}) \cup {m}
      BY <1>0, <1>6, <1>7, <1>8, <2>2, Kept, FreeKept, Families DEF Spans, Given
    <3>2. o.lo <= m.lo /\ m.hi <= o.hi
      BY <1>1, <1>8, <1>10
    <3> QED
      BY <1>9, <3>1, <3>2, Handover
  <2> QED
    BY <2>1, <2>2
<1>12. BooksAgree' /\ HeldUnique' /\ HeldFit'
  BY DEF Parts, BooksAgree, HeldUnique, HeldFit
<1>13. Locals'
  BY <1>1, <1>3, <1>5 DEF Parts, Locals, Block
<1>14. HandFits' /\ WantFits'
  BY <1>3, <1>4, <1>5 DEF HandFits, WantFits
<1>15. (b + s) % smlst_block = 0
  <2>1. s % smlst_block = 0 /\ smlst_block \in Nat \ {0}
    BY <1>3, Sizes, Geometry, PowSucc
  <2> DEFINE q == b \div smlst_block
             t == s \div smlst_block
  <2>2. b = q * smlst_block /\ s = t * smlst_block /\ q \in Int /\ t \in Int
    BY <1>1, <2>1, Multiples
  <2> HIDE DEF q, t
  <2>3. b + s = (q + t) * smlst_block /\ q + t \in Int
    BY <2>1, <2>2
  <2> QED
    BY <2>1, <2>3, Quotient
<1>16. ReleaseFits'
  <2>1. /\ arena'.base <= rel'.base /\ rel'.base <= rel'.acme
        /\ rel'.acme <= arena'.base + arena'.size
        /\ rel'.acme < 0 \/ 0 < rel'.base
    BY <1>0, <1>1, <1>5, <1>10, Geometry
  <2>2. ~asc => \E k \in Exponents : (b + s) % 2^k = 0 /\ rel.acme - (b + s) < 2^k
    BY DEF b, s
  <2>3. \A x \in pending' \cup todo' : RegionFits(x)
    BY DEF Parts, ReleaseFits
  <2> QED
    BY <1>1, <1>5, <1>15, <2>1, <2>2, <2>3 DEF ReleaseFits
<1> QED
  BY <1>0, <1>11, <1>12, <1>13, <1>14, <1>16 DEF Parts

LEMMA StepReleaseAscending ==
  ASSUME Parts, ReleaseAscending
  PROVE  Parts'
<1>1. /\ pc = "release" /\ rel.on /\ rel.asc
      /\ UNCHANGED <<arena, avails, llists, bitmap, held, pending, want, todo, err>>
  BY DEF ReleaseAscending, books
<1>3. rel.base \in Int /\ rel.base # 0 /\ rel.base % 2^bottom = 0
  BY <1>1, Geometry DEF Parts, Locals, ReleaseFits
<1>4. PICK n \in Exponents : AlignedBlockFits(n) /\ ReleaseBlock(2^n, TRUE)
  BY Zenon, <1>3 DEF ReleaseAscending
<1>5. rel.base % 2^n = 0 /\ rel.base % 2^(n + 1) # 0 /\ rel.base + 2^n <= rel.acme
  BY <1>4 DEF AlignedBlockFits, IsTrailingZeros
<1>6. bottom <= n
  <2> DEFINE j == n + 1
  <2>1. j \in 0..WordBits /\ bottom \in 0..WordBits /\ n \in Int
    BY Geometry, PowersOfTwo DEF Exponents
  <2>2. rel.base % 2^j # 0
    BY <1>5
  <2> HIDE DEF j
  <2>3. ~(j <= bottom)
    BY <1>3, <2>1, <2>2, PowDivides
  <2> QED
    BY <2>1, <2>3 DEF j
<1> QED
  BY Zenon, <1>1, <1>4, <1>5, <1>6, HandOut

LEMMA StepReleaseDescending ==
  ASSUME Parts, ReleaseDescending
  PROVE  Parts'
<1> DEFINE delta == rel.acme - rel.base
<1>1. /\ pc = "release" /\ rel.on
      /\ UNCHANGED <<arena, avails, llists, bitmap, held, pending, want, err>>
  BY DEF ReleaseDescending, books
<1>2. /\ arena = FirstArena /\ rel.base \in Int /\ rel.acme \in Int /\ rel.base <= rel.acme
      /\ FirstArena.base <= rel.base /\ rel.acme <= FirstArena.base + FirstArena.size
      /\ rel.base # 0
  BY <1>1 DEF Parts, Locals, ReleaseFits
<1>3. \E n \in Exponents : rel.base % 2^n = 0 /\ delta < 2^n
  <2>1. CASE rel.asc
    <3>1. rel.base \in FirstArena.base..(FirstArena.base + FirstArena.size)
      BY <1>2, Geometry
    <3>2. PICK n \in Exponents : IsTrailingZeros(n, rel.base)
      BY <1>2, <3>1, ArenaArguments
    <3>3. ~AlignedBlockFits(n)
      BY <2>1 DEF ReleaseDescending
    <3>4. rel.base % 2^n = 0 /\ ~(rel.base + 2^n <= rel.acme) /\ 2^n \in Nat
      BY <3>2, <3>3, PowSucc DEF AlignedBlockFits, IsTrailingZeros
    <3> QED
      BY <1>2, <3>4
  <2>2. CASE ~rel.asc
    BY <1>1, <2>2 DEF Parts, ReleaseFits
  <2> QED
    BY <2>1, <2>2
<1>4. CASE delta >= smlst_block /\ UNCHANGED todo /\ \E n \in Exponents :
             IsPrevPow2(n, delta) /\ ReleaseBlock(2^n, FALSE)
  <2>1. PICK n \in Exponents : IsPrevPow2(n, delta) /\ ReleaseBlock(2^n, FALSE)
    BY Zenon, <1>4
  <2>2. PICK m \in Exponents : rel.base % 2^m = 0 /\ delta < 2^m
    BY <1>3
  <2>3. /\ 2^n <= delta /\ delta < 2^(n + 1) /\ 2^(n + 1) = 2 * 2^n /\ 2^n \in Nat \ {0}
        /\ 2^m \in Nat \ {0} /\ 2^bottom <= delta /\ 2^bottom \in Nat
    BY <1>4, <2>1, PowSucc, Geometry DEF IsPrevPow2
  <2>4. n \in 0..WordBits /\ m \in 0..WordBits /\ n + 1 \in 0..WordBits /\ bottom \in 0..WordBits
    BY Geometry, PowersOfTwo DEF Exponents
  <2>5. n < m
    <3>1. 2^n < 2^m
      BY <1>2, <2>2, <2>3
    <3> QED
      BY <2>4, <3>1, PowLess
  <2>6. bottom <= n
    <3> DEFINE j == n + 1
    <3>1. 2^bottom < 2^j /\ j \in 0..WordBits
      BY <1>2, <2>3, <2>4
    <3> HIDE DEF j
    <3>2. bottom < j
      BY <2>4, <3>1, PowLess
    <3> QED
      BY <2>4, <3>2 DEF j
  <2>7. rel.base % 2^n = 0
    BY <1>2, <2>2, <2>4, <2>5, PowDivides
  <2>8. rel.base + 2^n <= rel.acme
    BY <1>2, <2>3
  <2>9. (rel.base + 2^n) % 2^n = 0 /\ rel.acme - (rel.base + 2^n) < 2^n
    <3> DEFINE s == 2^n
               q == rel.base \div s
    <3>1. rel.base = q * s /\ q \in Int
      BY SMTT(30), <1>2, <2>3, <2>7, Multiples
    <3>2. s \in Nat \ {0} /\ rel.acme - rel.base < 2 * s
      BY <1>2, <2>3
    <3> HIDE DEF q, s
    <3>3. rel.base + s = (q + 1) * s /\ q + 1 \in Int /\ rel.acme - (rel.base + s) < s
      BY <1>2, <3>1, <3>2
    <3>4. (rel.base + s) % s = 0
      BY <3>2, <3>3, Quotient
    <3> QED
      BY <3>3, <3>4 DEF s
  <2> QED
    BY Zenon, <1>1, <1>4, <2>1, <2>6, <2>7, <2>8, <2>9, HandOut
<1>5. CASE /\ rel' = NoRelease /\ pc' = IF todo = {} THEN "idle" ELSE "release"
           /\ UNCHANGED <<cur, todo>>
  <2>1. HandSpans = {} /\ HandSpans' = {} /\ RelSpans' = {}
    BY <1>1, <1>5, Kept DEF RelSpans, NoRelease
  <2>2. Spans' \subseteq Spans
    BY <1>1, <1>2, <1>5, <2>1, Kept, FreeKept DEF Spans, Given
  <2>3. Disjoint(Spans')
    BY <2>2 DEF Parts, Disjoint
  <2>4. BooksAgree' /\ HeldUnique' /\ HeldFit'
    BY <1>1 DEF Parts, BooksAgree, HeldUnique, HeldFit
  <2>5. Locals'
    BY <1>1, <1>5 DEF Parts, Locals, NoRelease
  <2>6. HandFits' /\ WantFits' /\ ReleaseFits'
    BY <1>1, <1>5 DEF Parts, HandFits, WantFits, ReleaseFits, NoRelease
  <2> QED
    BY <1>1, <1>2, <2>3, <2>4, <2>5, <2>6 DEF Parts
<1>6. ~(delta < 0)
  BY <1>2
<1> QED
  BY Zenon, <1>4, <1>5, <1>6 DEF ReleaseDescending

(***************************************************************************)
(* The invariant holds initially and every step keeps it.                  *)
(***************************************************************************)
LEMMA InitParts ==
  ASSUME RegionsFit, Init
  PROVE  Parts
<1> USE DEF Init
<1>1. BooksAgree
  <2>1. llists = [g \in G |-> {}]
    BY DEF G
  <2> QED
    BY <2>1 DEF BooksAgree
<1>2. Locals
  <2>1. cur \in Block /\ rel \in [on : BOOLEAN, base : Int, acme : Int, asc : BOOLEAN]
    BY DEF Block, NoBlock, NoRelease
  <2> QED
    BY <2>1 DEF Locals
<1>3. HeldFit /\ HeldUnique /\ HandFits /\ WantFits
  BY DEF HeldFit, HeldUnique, HandFits, WantFits
<1>4. ReleaseFits
  BY DEF RegionsFit, ReleaseFits, NoRelease
<1>5. FreeSpans = {}
  <2>1. \A g \in G : llists[g] = {}
    BY DEF G
  <2> QED
    BY <2>1, FreeMember
<1>6. Spans \subseteq {Span("pending", r.lo, r.hi) : r \in Regions}
  BY <1>5 DEF Spans, Given, HeldSpans, HandSpans, RelSpans, PendingSpans, NestedSpans, NoRelease
<1>7. Disjoint(Spans)
  <2>1. ASSUME NEW s \in Spans, NEW t \in Spans, s # t
        PROVE  Apart(s, t)
    <3>1. PICK q \in Regions : s = Span("pending", q.lo, q.hi)
      BY <1>6
    <3>2. PICK r \in Regions : t = Span("pending", r.lo, r.hi)
      BY <1>6
    <3>3. q # r
      BY <2>1, <3>1, <3>2
    <3>4. Apart(q, r)
      BY <3>3 DEF RegionsFit
    <3> QED
      BY <3>1, <3>2, <3>4 DEF Apart, Span
  <2> QED
    BY <2>1 DEF Disjoint
<1> QED
  BY <1>1, <1>2, <1>3, <1>4, <1>7 DEF Parts

LEMMA NextParts ==
  ASSUME Parts, [Next]_vars
  PROVE  Parts'
<1>1. CASE UNCHANGED vars
  <2>1. UNCHANGED <<arena, avails, llists, bitmap, held, pending, pc, cur, want, rel, todo, err>>
    BY <1>1 DEF vars, books
  <2>2. BooksAgree' /\ Locals'
    BY SMTT(30), <2>1 DEF Parts, BooksAgree, Locals
  <2>3. HeldFit' /\ HeldUnique' /\ HandFits' /\ WantFits' /\ ReleaseFits'
    BY Zenon, <2>1 DEF Parts, HeldFit, HeldUnique, HandFits, WantFits, ReleaseFits
  <2>4. Spans' = Spans
    BY <2>1, FreeKept, Kept DEF Parts, Spans, Given
  <2> QED
    BY <2>1, <2>2, <2>3, <2>4 DEF Parts
<1>2. CASE Call
  BY <1>2, StepAllocExact, StepAllocLarger, StepAllocErr, StepDealloc, StepShrink, StepRelease DEF Call
<1>3. CASE Step
  BY <1>3, StepSplit, StepSplitDone, StepMerge, StepMergeDone, StepReleaseNested,
     StepReleaseAscending, StepReleaseDescending DEF Step
<1>4. CASE Halted
  BY <1>4, <1>1 DEF Halted
<1> QED
  BY <1>1, <1>2, <1>3, <1>4 DEF Next

(***************************************************************************)
(* The allocator keeps its books: whatever the arena, the regions and the  *)
(* requests, alloc, dealloc, shrink and release keep the availability      *)
(* bits, the free lists and the bitmap in agreement, never give a byte to  *)
(* two owners and never panic, if the regions are ones that release        *)
(* handles (RegionsFit).                                                   *)
(***************************************************************************)
THEOREM MethodsKeepInv == RegionsFit => (Spec => []MethodsInv)
<1>1. RegionsFit /\ Init => Parts
  BY InitParts
<1>2. Parts /\ [Next]_vars => Parts'
  BY NextParts
<1>3. Parts => MethodsInv
  BY InvOfParts
<1> QED
  BY <1>1, <1>2, <1>3, PTL DEF Spec

\* Type correctness of the state of the allocator and its running method.
THEOREM Types == RegionsFit => (Spec => []TypeOK)
<1>1. MethodsInv => TypeOK
  BY DEF MethodsInv
<1> QED
  BY <1>1, MethodsKeepInv, PTL

\* alloc never returns memory that overlaps another allocation, a free block
\* or memory that is still to be released.
THEOREM NoByteOwnedTwice == RegionsFit => (Spec => []NoOverlap)
<1>1. MethodsInv => NoOverlap
  BY DEF MethodsInv
<1> QED
  BY <1>1, MethodsKeepInv, PTL

\* The flag of every pair of buddies tells whether exactly one is free.
THEOREM BitmapIsRight == RegionsFit => (Spec => []BitmapAgrees)
<1>1. MethodsInv => BitmapAgrees
  BY DEF MethodsInv
<1> QED
  BY <1>1, MethodsKeepInv, PTL

\* dealloc leaves no two buddies free: free memory is merged as far as it goes.
THEOREM BuddiesMerge == RegionsFit => (Spec => []Coalesced)
<1>1. MethodsInv => Coalesced
  BY DEF MethodsInv
<1> QED
  BY <1>1, MethodsKeepInv, PTL

\* The assertions of release hold and no arithmetic of the methods overflows.
THEOREM MethodsNeverPanic == RegionsFit => (Spec => []NeverPanics)
<1>1. MethodsInv => NeverPanics
  BY DEF MethodsInv
<1> QED
  BY <1>1, MethodsKeepInv, PTL

\* A flag that dealloc finds set leads to a block on the list of a granularity
\* that has a parent.
THEOREM FlagsLeadToBuddies == RegionsFit => (Spec => []MergeFindsBuddy)
<1>1. MethodsInv => MergeFindsBuddy
  <2> SUFFICES ASSUME MethodsInv, pc = "merge", bitmap_offset(arena, cur.base, cur.size) \in bitmap
               PROVE  /\ cur.granularity \in Granularities(arena) \ {0}
                      /\ Listed(cur.granularity, Buddy(cur.base, cur.size))
    BY DEF MergeFindsBuddy
  <2>1. Parts
    BY PartsOfInv
  <2> DEFINE g == cur.granularity
             b == cur.base
             o == HandSpan(b, cur.size)
  <2>2. arena = FirstArena /\ g \in G /\ cur.size = Sz(g) /\ b \in Blk(g) /\ b \in Int /\ Sz(g) \in Nat \ {0}
    BY <2>1, Sizes DEF Parts, HandFits, Locals, Block
  <2>3. o \in Spans /\ o.who = "hand" /\ o.lo = b /\ o.hi = b + cur.size
    BY Kept DEF Spans, Given, HandSpan, Span
  <2>4. b \notin llists[g]
    <3>1. o.lo <= b /\ b < o.hi
      BY <2>2, <2>3
    <3> QED
      BY <2>1, <2>2, <2>3, <3>1, NotListed
  <2>5. Buddy(b, Sz(g)) \in llists[g] /\ Buddy(b, Sz(g)) \in Blk(g)
    BY SMTT(30), <2>1, <2>2, <2>4 DEF Parts, BooksAgree, Off
  <2>6. g # 0
    BY <2>2, <2>5, MergeBlock
  <2> QED
    BY <2>2, <2>5, <2>6 DEF Listed, G
<1> QED
  BY <1>1, MethodsKeepInv, PTL

\* What alloc returns is large enough, aligned, inside the arena and not null.
THEOREM AllocationsAreRight == RegionsFit => (Spec => []AllocationsFit)
<1>1. MethodsInv => AllocationsFit
  <2> SUFFICES ASSUME MethodsInv, NEW h \in held
               PROVE  LET size == layout_to_size(h.layout)
                      IN  /\ h.ptr % size = 0 /\ h.ptr % h.layout.align = 0
                          /\ h.layout.size <= size
                          /\ h.ptr >= arena.base /\ h.ptr + size <= arena.base + arena.size
                          /\ h.ptr # 0
    BY DEF AllocationsFit
  <2>1. Parts
    BY PartsOfInv
  <2>2. h.layout \in Layouts /\ arena = FirstArena
    BY <2>1 DEF Parts, Locals
  <2>3. PICK g \in G : layout_to_size(h.layout) = Sz(g) /\ h.ptr \in Blk(g)
    BY <2>1 DEF Parts, HeldFit
  <2>4. PICK n \in Exponents : /\ layout_to_size(h.layout) = 2^n /\ h.layout.size <= 2^n
                               /\ \E m \in 0..n : h.layout.align = 2^m
    BY <2>2, LayoutSize
  <2>5. PICK m \in 0..n : h.layout.align = 2^m
    BY <2>4
  <2>6. /\ h.ptr \in Int /\ h.ptr % Sz(g) = 0 /\ Sz(g) \in Nat \ {0}
        /\ FirstArena.base <= h.ptr /\ h.ptr + Sz(g) <= FirstArena.base + FirstArena.size
        /\ ~(h.ptr <= 0 /\ 0 < h.ptr + Sz(g))
    BY <2>3, Blocks, Sizes
  <2>7. h.ptr # 0 /\ h.ptr >= FirstArena.base
    BY <2>6, Geometry
  <2>8. h.ptr % 2^m = 0
    <3>1. m \in 0..WordBits /\ n \in 0..WordBits /\ m <= n
      BY PowersOfTwo DEF Exponents
    <3> QED
      BY <2>3, <2>4, <2>6, <3>1, PowDivides
  <2> QED
    BY <2>2, <2>3, <2>4, <2>5, <2>6, <2>7, <2>8
<1> QED
  BY <1>1, MethodsKeepInv, PTL

(***************************************************************************)
(* Nothing is lost: every smallest block of the regions that were given to *)
(* Talloc stays free, held, in hand or to be released.                     *)
(***************************************************************************)

\* Everything that somebody owns, in smallest blocks.
Covered == CellsOf(Given) \cup UNION {WholeCells(r) : r \in pending \cup todo}

LEMMA CoveredMember ==
  \A c : c \in Covered <=> \/ \E s \in Given : c \in Cells(s.lo, s.hi)
                           \/ \E r \in pending \cup todo : c \in WholeCells(r)
BY DEF Covered, CellsOf

LEMMA CoveredMemberNext ==
  \A c : c \in Covered' <=> \/ \E s \in Given' : c \in Cells(s.lo, s.hi)
                            \/ \E r \in pending' \cup todo' : c \in WholeCells(r)
BY DEF Covered, CellsOf

\* The spans in `old' pass their smallest blocks on, the others stay.
LEMMA PassedOn ==
  ASSUME NEW old, Given \subseteq Given' \cup old, UNCHANGED <<pending, todo>>,
         \A o \in old : \A c \in Cells(o.lo, o.hi) : \E n \in Given' : c \in Cells(n.lo, n.hi)
  PROVE  Covered \subseteq Covered'
BY CoveredMember, CoveredMemberNext

LEMMA FreeSpansGrow ==
  ASSUME Parts, arena' = FirstArena, NEW g \in G, NEW b, NEW off, AddBlock(g, off, b)
  PROVE  FreeSpans \subseteq FreeSpans' /\ FreeSpan(g, b) \in FreeSpans'
<1>1. \A h \in G : llists'[h] = IF h = g THEN llists[g] \cup {b} ELSE llists[h]
  BY DEF AddBlock, Parts, BooksAgree
<1> QED
  BY <1>1, FreeMember, FreeMemberNext DEF Parts

LEMMA FreeSpansShrink ==
  ASSUME Parts, arena' = FirstArena, NEW g \in G, NEW b, NEW off, RemoveBlock(g, off, b)
  PROVE  FreeSpans \subseteq FreeSpans' \cup {FreeSpan(g, b)}
<1>1. \A h \in G : llists'[h] = IF h = g THEN llists[g] \ {b} ELSE llists[h]
  BY DEF RemoveBlock, Parts, BooksAgree
<1> QED
  BY <1>1, FreeMember, FreeMemberNext DEF Parts

LEMMA HeldMember ==
  \A s : s \in HeldSpans <=> \E h \in held : s = HeldSpan(h.ptr, h.layout)
BY DEF HeldSpans, HeldSpan

LEMMA HeldMemberNext ==
  \A s : s \in HeldSpans' <=> \E h \in held' : s = HeldSpan(h.ptr, h.layout)
BY DEF HeldSpans, HeldSpan

LEMMA HeldSpansGrow ==
  ASSUME NEW ptr, NEW layout, held' = held \cup {[ptr |-> ptr, layout |-> layout]}
  PROVE  HeldSpans \subseteq HeldSpans' /\ HeldSpan(ptr, layout) \in HeldSpans'
<1> DEFINE n == [ptr |-> ptr, layout |-> layout]
<1>1. n.ptr = ptr /\ n.layout = layout /\ n \in held' /\ held \subseteq held'
  OBVIOUS
<1> HIDE DEF n
<1> QED
  BY <1>1, HeldMember, HeldMemberNext

LEMMA CoverAllocExact ==
  ASSUME Parts, NEW layout \in Layouts, AllocExact(layout)
  PROVE  Covered \subseteq Covered'
<1> DEFINE size == layout_to_size(layout)
           g == block_granularity(FirstArena, size)
<1>0. arena = FirstArena /\ arena' = FirstArena
  BY DEF Parts, AllocExact
<1>1. g \in G /\ size = Sz(g)
  BY <1>0, LayoutBlock DEF AllocExact
<1>2. PICK base \in llists[g] :
        /\ RemoveBlock(g, bitmap_offset(arena, base, size), base)
        /\ held' = held \cup {[ptr |-> base, layout |-> layout]}
  BY <1>0 DEF AllocExact
<1>3. UNCHANGED <<pending, pc, cur, rel, todo>>
  BY DEF AllocExact
<1> DEFINE o == FreeSpan(g, base)
           n == HeldSpan(base, layout)
<1>4. FreeSpans \subseteq FreeSpans' \cup {o}
  BY <1>0, <1>1, <1>2, FreeSpansShrink
<1>5. HeldSpans \subseteq HeldSpans' /\ n \in HeldSpans'
  BY <1>2, HeldSpansGrow
<1>6. o.lo = n.lo /\ o.hi = n.hi
  BY <1>1 DEF FreeSpan, HeldSpan, Span
<1> HIDE DEF o, n
<1>7. Given \subseteq Given' \cup {o} /\ n \in Given'
  BY <1>3, <1>4, <1>5, Kept, Zenon DEF Given
<1> QED
  BY <1>3, <1>6, <1>7, PassedOn

LEMMA CoverAllocLarger ==
  ASSUME Parts, NEW layout \in Layouts, AllocLarger(layout)
  PROVE  Covered \subseteq Covered'
<1>0. arena = FirstArena /\ arena' = FirstArena /\ pc = "idle" /\ pc' = "split"
      /\ UNCHANGED <<held, pending, rel, todo>>
  BY DEF Parts, AllocLarger, TakeLarger
<1>1. PICK g \in avails : \E base \in llists[g] :
              /\ RemoveBlock(g, bitmap_offset(arena, base, BlockSize(arena, g)), base)
              /\ cur' = [base |-> base, size |-> BlockSize(arena, g), granularity |-> g]
  BY <1>0 DEF AllocLarger, TakeLarger
<1>2. PICK base \in llists[g] :
              /\ RemoveBlock(g, bitmap_offset(arena, base, BlockSize(arena, g)), base)
              /\ cur' = [base |-> base, size |-> Sz(g), granularity |-> g]
  BY <1>0, <1>1 DEF Sz
<1>3. g \in G
  BY <1>1 DEF Parts, BooksAgree
<1> DEFINE o == FreeSpan(g, base)
           n == HandSpan(base, Sz(g))
<1>4. FreeSpans \subseteq FreeSpans' \cup {o}
  BY <1>0, <1>2, <1>3, FreeSpansShrink
<1>5. HandSpans = {} /\ HandSpans' = {n}
  BY <1>0, <1>2, Kept
<1>6. o.lo = n.lo /\ o.hi = n.hi
  BY DEF FreeSpan, HandSpan, Span
<1> HIDE DEF o, n
<1>7. Given \subseteq Given' \cup {o} /\ n \in Given'
  BY <1>0, <1>4, <1>5, Kept DEF Given
<1> QED
  BY <1>0, <1>6, <1>7, PassedOn

LEMMA CoverSplit ==
  ASSUME Parts, Split
  PROVE  Covered \subseteq Covered'
<1> DEFINE g == cur.granularity
           s == Sz(g + 1)
           b == cur.base
<1>0. arena = FirstArena /\ arena' = FirstArena /\ pc = "split" /\ pc' = "split"
      /\ UNCHANGED <<held, pending, rel, todo>>
  BY DEF Parts, Split
<1>1. g \in G /\ cur.size = Sz(g) /\ b \in Int
  BY <1>0 DEF Parts, HandFits, Locals, Block
<1>2. PICK w \in G : want.size = Sz(w) /\ g <= w
  BY <1>0 DEF Parts, WantFits
<1>3. g < w
  BY <1>0, <1>2, Sizes DEF Split
<1>4. g + 1 \in G
  BY <1>1, <1>2, <1>3, Geometry DEF Exponents
<1>5. s \in Nat \ {0} /\ cur.size = 2 * s /\ cur.size \div 2 = s
  BY <1>1, <1>4, Sizes
<1>6. /\ AddBlock(g + 1, bitmap_offset(arena, b + s, s), b + s)
      /\ cur' = [base |-> b, size |-> s, granularity |-> g + 1]
  BY <1>5 DEF Split
<1> DEFINE o == HandSpan(b, 2 * s)
           m == HandSpan(b, s)
           n == FreeSpan(g + 1, b + s)
<1>7. FreeSpans \subseteq FreeSpans' /\ n \in FreeSpans'
  BY <1>0, <1>4, <1>6, FreeSpansGrow
<1>8. HandSpans = {o} /\ HandSpans' = {m}
  BY <1>0, <1>5, <1>6, Kept
<1>9. /\ o.lo = b /\ o.hi = b + 2 * s /\ m.lo = b /\ m.hi = b + s
      /\ n.lo = b + s /\ n.hi = (b + s) + s
  BY DEF FreeSpan, HandSpan, Span
<1> HIDE DEF o, m, n, b, s, g
<1>10. Given \subseteq Given' \cup {o} /\ m \in Given' /\ n \in Given'
  BY <1>0, <1>7, <1>8, Kept DEF Given
<1>11. \A c \in Cells(o.lo, o.hi) : c \in Cells(m.lo, m.hi) \/ c \in Cells(n.lo, n.hi)
  BY <1>1, <1>5, <1>9 DEF Cells
<1> QED
  BY <1>0, <1>10, <1>11, PassedOn

LEMMA CoverSplitDone ==
  ASSUME Parts, SplitDone
  PROVE  Covered \subseteq Covered'
<1> DEFINE b == cur.base
<1>0. arena = FirstArena /\ arena' = FirstArena /\ pc = "split" /\ pc' = "idle"
      /\ UNCHANGED <<llists, pending, rel, todo>>
  BY DEF Parts, SplitDone, books
<1>1. cur.granularity \in G /\ cur.size = Sz(cur.granularity)
  BY <1>0 DEF Parts, HandFits
<1>2. PICK w \in G : want.size = Sz(w) /\ cur.granularity <= w
  BY <1>0 DEF Parts, WantFits
<1>3. cur.granularity = w
  BY <1>0, <1>1, <1>2, Sizes DEF SplitDone
<1>4. layout_to_size(want.layout) = cur.size
  BY <1>0, <1>1, <1>2, <1>3 DEF Parts, WantFits
<1> DEFINE o == HandSpan(b, cur.size)
           n == HeldSpan(b, want.layout)
<1>5. HeldSpans \subseteq HeldSpans' /\ n \in HeldSpans'
  BY HeldSpansGrow DEF SplitDone
<1>6. o.lo = n.lo /\ o.hi = n.hi
  BY <1>4 DEF HeldSpan, HandSpan, Span
<1>7. HandSpans = {o}
  BY <1>0, Kept
<1> HIDE DEF o, n
<1>8. Given \subseteq Given' \cup {o} /\ n \in Given'
  BY <1>0, <1>5, <1>7, Kept, FreeKept DEF Given
<1> QED
  BY <1>0, <1>6, <1>8, PassedOn

LEMMA CoverTakeHeld ==
  ASSUME Parts, NEW h \in held, pc = "idle", held' = held \ {h},
         cur'.base = h.ptr, cur'.size = layout_to_size(h.layout), pc' \in {"merge", "split"},
         UNCHANGED <<arena, llists, pending, rel, todo>>
  PROVE  Covered \subseteq Covered'
<1> DEFINE o == HeldSpan(h.ptr, h.layout)
           n == HandSpan(h.ptr, layout_to_size(h.layout))
<1>1. HeldSpans \subseteq HeldSpans' \cup {o}
  BY DEF HeldSpans, HeldSpan
<1>2. HandSpans = {} /\ HandSpans' = {n}
  BY Kept
<1>3. o.lo = n.lo /\ o.hi = n.hi
  BY DEF HeldSpan, HandSpan, Span
<1> HIDE DEF o, n
<1>4. Given \subseteq Given' \cup {o} /\ n \in Given'
  BY <1>1, <1>2, Kept, FreeKept DEF Parts, Given
<1> QED
  BY <1>3, <1>4, PassedOn

LEMMA CoverShrink ==
  ASSUME Parts, NEW h \in held, NEW layout \in Layouts, Shrink(h, layout)
  PROVE  Covered \subseteq Covered'
<1>0. pc = "idle" /\ UNCHANGED <<arena, llists, pending, rel, todo>>
  BY DEF Shrink, books
<1>1. CASE /\ layout_to_size(layout) = layout_to_size(h.layout) /\ UNCHANGED <<pc, cur>>
           /\ held' = (held \ {h}) \cup {[ptr |-> h.ptr, layout |-> layout]}
  <2>1. HeldSpan(h.ptr, h.layout) = HeldSpan(h.ptr, layout)
    BY <1>1 DEF HeldSpan
  <2>2. HeldSpans \subseteq HeldSpans'
    <3> DEFINE n == [ptr |-> h.ptr, layout |-> layout]
    <3>1. n.ptr = h.ptr /\ n.layout = layout /\ n \in held' /\ held \subseteq held' \cup {h}
      BY <1>1
    <3> HIDE DEF n
    <3> QED
      BY <2>1, <3>1, HeldMember, HeldMemberNext
  <2>3. Given \subseteq Given' \cup {}
    BY <1>0, <1>1, <2>2, Kept, FreeKept DEF Parts, Given
  <2> QED
    BY <1>0, <2>3, PassedOn
<1>2. CASE /\ held' = held \ {h} /\ pc' = "split"
           /\ cur' = [base |-> h.ptr, size |-> layout_to_size(h.layout),
                      granularity |-> block_granularity(arena, layout_to_size(h.layout))]
  BY <1>0, <1>2, CoverTakeHeld
<1> QED
  BY <1>1, <1>2 DEF Shrink

LEMMA CoverMerge ==
  ASSUME Parts, Merge
  PROVE  Covered \subseteq Covered'
<1> DEFINE g == cur.granularity
           s == Sz(g)
           b == cur.base
           c == Buddy(b, s)
           lower == IF is_lower_buddy(b, s) THEN b ELSE c
<1>0. arena = FirstArena /\ arena' = FirstArena /\ pc = "merge" /\ pc' = "merge"
      /\ UNCHANGED <<held, pending, rel, todo>>
  BY DEF Parts, Merge
<1>1. g \in G /\ cur.size = s /\ b \in Blk(g) /\ b \in Int /\ s \in Nat \ {0} /\ b % s = 0
  BY <1>0, Sizes, Blocks DEF Parts, HandFits, Locals, Block
<1>2. /\ RemoveBlock(g, bitmap_offset(arena, b, s), c)
      /\ cur' = [base |-> lower, size |-> 2 * s, granularity |-> g - 1]
  BY <1>0, <1>1 DEF Merge
<1> DEFINE o == HandSpan(b, s)
           f == FreeSpan(g, c)
           n == HandSpan(lower, 2 * s)
<1>3. FreeSpans \subseteq FreeSpans' \cup {f}
  BY <1>0, <1>1, <1>2, FreeSpansShrink
<1>4. HandSpans = {o} /\ HandSpans' = {n}
  BY <1>0, <1>1, <1>2, Kept
<1>5. /\ o.lo = b /\ o.hi = b + s /\ f.lo = c /\ f.hi = c + s
      /\ n.lo = lower /\ n.hi = lower + 2 * s
  BY DEF FreeSpan, HandSpan, Span
<1>6. c \in Int /\ ((lower = b /\ c = b + s) \/ (lower = c /\ b = c + s))
  BY <1>1, Buddies
<1> HIDE DEF o, f, n, b, c, s, g, lower
<1>7. Given \subseteq Given' \cup {o, f} /\ n \in Given'
  BY <1>0, <1>3, <1>4, Kept DEF Given
<1>8. \A x \in Cells(o.lo, o.hi) : x \in Cells(n.lo, n.hi)
  BY <1>1, <1>5, <1>6 DEF Cells
<1>9. \A x \in Cells(f.lo, f.hi) : x \in Cells(n.lo, n.hi)
  BY <1>1, <1>5, <1>6 DEF Cells
<1> QED
  BY <1>0, <1>7, <1>8, <1>9, PassedOn

LEMMA CoverMergeDone ==
  ASSUME Parts, MergeDone
  PROVE  Covered \subseteq Covered'
<1> DEFINE g == cur.granularity
           b == cur.base
<1>0. arena = FirstArena /\ arena' = FirstArena /\ pc = "merge"
      /\ UNCHANGED <<held, pending, rel, todo>>
  BY DEF Parts, MergeDone
<1>1. g \in G /\ cur.size = Sz(g)
  BY <1>0 DEF Parts, HandFits
<1>2. AddBlock(g, bitmap_offset(arena, b, cur.size), b)
  BY DEF MergeDone
<1> DEFINE o == HandSpan(b, Sz(g))
           n == FreeSpan(g, b)
<1>3. FreeSpans \subseteq FreeSpans' /\ n \in FreeSpans'
  BY <1>0, <1>1, <1>2, FreeSpansGrow
<1>4. HandSpans = {o}
  BY <1>0, <1>1, Kept
<1>5. o.lo = n.lo /\ o.hi = n.hi
  BY DEF FreeSpan, HandSpan, Span
<1> HIDE DEF o, n, b, g
<1>6. Given \subseteq Given' \cup {o} /\ n \in Given'
  BY <1>0, <1>3, <1>4, Kept DEF Given
<1> QED
  BY <1>0, <1>5, <1>6, PassedOn

\* What a range gives to the loop or to its nested calls.
LEMMA CoverEntering ==
  ASSUME Parts, NEW mem, RegionFits(mem), pc \in {"idle", "release"}, ~rel.on, NEW rest,
         EnterRelease(mem, rest), UNCHANGED <<arena, llists, held, cur>>,
         pending \cup todo \subseteq pending' \cup rest \cup {mem}
  PROVE  Covered \subseteq Covered'
<1> DEFINE base == ReleaseBase(mem)
           acme == ReleaseAcme(mem)
<1>0. arena = FirstArena /\ arena' = FirstArena
  BY DEF Parts
<1>1. /\ mem.lo \in Int /\ base \in Int /\ acme \in Int /\ base <= acme
      /\ smlst_block \in Nat \ {0}
  BY RegionBounds
<1>2. /\ FirstArena.base <= base /\ acme <= FirstArena.base + FirstArena.size
      /\ base # acme => acme < 0 \/ base > 0 \/ (base = 0 /\ mem.lo = 0)
  BY <1>1 DEF RegionFits
<1>3. HandSpans = {} /\ RelSpans = {}
  BY Kept DEF RelSpans
<1>4. Given \subseteq Given'
  BY <1>0, <1>3, Kept, FreeKept DEF Given
<1>5. rest \subseteq todo'
  BY <1>0, <1>1, <1>2 DEF EnterRelease
<1>6. SUFFICES ASSUME NEW c \in WholeCells(mem)
               PROVE  c \in Covered'
  BY <1>4, <1>5, CoveredMember, CoveredMemberNext
<1>7. c \in Int /\ base <= c /\ c < acme /\ c # 0 /\ c % smlst_block = 0
  BY <1>1 DEF WholeCells, Cells
<1>8. CASE base <= 0 /\ 0 < acme
  <2>1. base = 0 /\ mem.lo = 0
    BY <1>1, <1>2, <1>8
  <2> DEFINE above == [lo |-> smlst_block, hi |-> mem.hi]
  <2>2. mem.lo + (smlst_block - base) = smlst_block
    BY <1>1, <2>1
  <2>3. above \in todo'
    BY <1>0, <1>1, <1>2, <1>7, <1>8, <2>2 DEF EnterRelease
  <2>4. ReleaseBase(above) = smlst_block /\ ReleaseAcme(above) = acme
    BY <1>8, <2>1, AboveNull
  <2>5. smlst_block <= c
    <3> DEFINE q == c \div smlst_block
    <3>1. c = q * smlst_block /\ q \in Int
      BY <1>1, <1>7, Multiples
    <3> HIDE DEF q, base
    <3>2. q > 0
      BY <1>1, <1>7, <2>1, <3>1
    <3> QED
      BY <1>1, <3>1, <3>2
  <2> HIDE DEF above
  <2>6. c \in WholeCells(above)
    BY <1>1, <1>7, <2>4, <2>5 DEF WholeCells, Cells
  <2> QED
    BY <2>3, <2>6, CoveredMemberNext
<1>9. CASE ~(base <= 0 /\ 0 < acme)
  <2>1. rel' = [on |-> TRUE, base |-> base, acme |-> acme, asc |-> TRUE]
    BY <1>0, <1>1, <1>2, <1>7, <1>9 DEF EnterRelease
  <2> DEFINE n == Span("release", base, acme)
  <2>2. n \in RelSpans'
    BY <1>1, <1>7, <2>1 DEF RelSpans
  <2>3. n.lo = base /\ n.hi = acme
    BY DEF Span
  <2> HIDE DEF n, base, acme
  <2>4. n \in Given' /\ c \in Cells(n.lo, n.hi)
    BY <1>1, <1>7, <2>2, <2>3 DEF Given, Cells
  <2> QED
    BY <2>4, CoveredMemberNext
<1> QED
  BY <1>8, <1>9

LEMMA CoverHandOut ==
  ASSUME Parts, pc = "release", rel.on, NEW s \in Nat \ {0}, NEW asc, ReleaseBlock(s, asc),
         UNCHANGED <<arena, llists, held, pending, todo>>
  PROVE  Covered \subseteq Covered'
<1> DEFINE b == rel.base
           o == Span("release", b, rel.acme)
           m == HandSpan(b, s)
           r == Span("release", b + s, rel.acme)
<1>1. b \in Int /\ rel.acme \in Int
  BY DEF Parts, Locals
<1>2. RelSpans \subseteq {o} /\ HandSpans = {} /\ HandSpans' = {m}
  BY Kept DEF RelSpans, ReleaseBlock
<1>3. RelSpans' = IF b + s < rel.acme THEN {r} ELSE {}
  BY DEF ReleaseBlock, RelSpans
<1>4. /\ o.lo = b /\ o.hi = rel.acme /\ m.lo = b /\ m.hi = b + s
      /\ r.lo = b + s /\ r.hi = rel.acme
  BY DEF HandSpan, Span
<1> HIDE DEF b, o, m, r
<1>5. Given \subseteq Given' \cup {o} /\ m \in Given' /\ (b + s < rel.acme => r \in Given')
  BY <1>2, <1>3, Kept, FreeKept DEF Parts, Given
<1>6. \A c \in Cells(o.lo, o.hi) :
        c \in Cells(m.lo, m.hi) \/ (b + s < rel.acme /\ c \in Cells(r.lo, r.hi))
  BY <1>1, <1>4 DEF Cells
<1> QED
  BY <1>5, <1>6, PassedOn

LEMMA CoverReleaseDescending ==
  ASSUME Parts, ReleaseDescending
  PROVE  Covered \subseteq Covered'
<1>1. /\ pc = "release" /\ rel.on /\ UNCHANGED <<arena, llists, held, pending>>
  BY DEF ReleaseDescending, books
<1>2. /\ rel.base \in Int /\ rel.acme \in Int /\ rel.base <= rel.acme
      /\ rel.base % smlst_block = 0 /\ rel.acme % smlst_block = 0
  BY <1>1 DEF Parts, Locals, ReleaseFits
<1>3. CASE UNCHANGED todo /\ \E n \in Exponents : ReleaseBlock(2^n, FALSE)
  BY Zenon, <1>1, <1>3, PowSucc, CoverHandOut
<1>4. CASE rel.acme - rel.base \in 0..(smlst_block - 1) /\ rel' = NoRelease /\ UNCHANGED <<cur, todo>>
  <2>1. smlst_block \in Nat \ {0}
    BY Geometry, PowSucc
  <2>2. rel.base = rel.acme
    <3> DEFINE q == rel.base \div smlst_block
               t == rel.acme \div smlst_block
    <3>1. rel.base = q * smlst_block /\ rel.acme = t * smlst_block /\ q \in Int /\ t \in Int
      BY Zenon, <1>2, <2>1, Multiples
    <3> HIDE DEF q, t
    <3>2. q * smlst_block <= t * smlst_block /\ t * smlst_block < q * smlst_block + smlst_block
      BY <1>2, <1>4, <2>1, <3>1
    <3>3. ~(t < q) /\ ~(q < t)
      BY <2>1, <3>1, <3>2
    <3> QED
      BY <3>1, <3>3
  <2>3. RelSpans = {} /\ HandSpans = {}
    BY <1>1, <1>2, <2>2, Kept DEF RelSpans
  <2>4. Given \subseteq Given' \cup {}
    BY <1>1, <2>3, Kept, FreeKept DEF Parts, Given
  <2> QED
    BY <1>1, <1>4, <2>4, PassedOn
<1>5. ~(rel.acme - rel.base < 0)
  BY <1>2
<1> QED
  BY Zenon, <1>3, <1>4, <1>5 DEF ReleaseDescending

LEMMA NextCovered ==
  ASSUME Parts, [Next]_vars
  PROVE  Covered \subseteq Covered'
<1>1. CASE UNCHANGED <<arena, llists, held, pending, pc, cur, rel, todo>>
  <2>1. Given \subseteq Given' \cup {}
    BY <1>1, Kept, FreeKept DEF Parts, Given
  <2> QED
    BY <1>1, <2>1, PassedOn
<1>2. ASSUME NEW layout \in Layouts, AllocExact(layout) \/ AllocLarger(layout) \/ AllocErr(layout)
      PROVE  Covered \subseteq Covered'
  BY <1>1, <1>2, CoverAllocExact, CoverAllocLarger DEF AllocErr, books
<1>3. ASSUME NEW h \in held, Dealloc(h) \/ \E layout \in Layouts : Shrink(h, layout)
      PROVE  Covered \subseteq Covered'
  <2>1. CASE Dealloc(h)
    BY <2>1, CoverTakeHeld DEF Dealloc, books
  <2>2. CASE \E layout \in Layouts : Shrink(h, layout)
    BY <2>2, CoverShrink
  <2> QED
    BY <1>3, <2>1, <2>2
<1>4. ASSUME NEW mem \in pending, Release(mem)
      PROVE  Covered \subseteq Covered'
  <2>1. RegionFits(mem) /\ pc = "idle" /\ ~rel.on /\ todo = {}
    BY <1>4 DEF Release, Parts, ReleaseFits
  <2>2. pending \cup todo \subseteq pending' \cup {} \cup {mem}
    BY <1>4, <2>1 DEF Release
  <2> QED
    BY <1>4, <2>1, <2>2, CoverEntering DEF Release, books
<1>5. CASE ReleaseNested
  <2>1. PICK mem \in todo : EnterRelease(mem, todo \ {mem})
    BY <1>5 DEF ReleaseNested
  <2>2. RegionFits(mem) /\ pc = "release" /\ ~rel.on
    BY <1>5, <2>1 DEF ReleaseNested, Parts, ReleaseFits
  <2>3. pending \cup todo \subseteq pending' \cup (todo \ {mem}) \cup {mem}
    BY <1>5 DEF ReleaseNested
  <2> QED
    BY <1>5, <2>1, <2>2, <2>3, CoverEntering DEF ReleaseNested, books
<1>6. CASE ReleaseAscending
  <2>1. /\ pc = "release" /\ rel.on /\ rel.base # 0
        /\ UNCHANGED <<arena, llists, held, pending, todo>>
    BY <1>6 DEF ReleaseAscending, books, Parts, Locals, ReleaseFits
  <2>2. PICK n \in Exponents : ReleaseBlock(2^n, TRUE)
    BY Zenon, <1>6, <2>1 DEF ReleaseAscending
  <2> QED
    BY Zenon, <2>1, <2>2, PowSucc, CoverHandOut
<1>7. CASE Step
  BY <1>5, <1>6, <1>7, CoverSplit, CoverSplitDone, CoverMerge, CoverMergeDone,
     CoverReleaseDescending DEF Step
<1>8. CASE UNCHANGED vars \/ Halted
  BY <1>1, <1>8 DEF Halted, vars, books
<1> QED
  BY <1>2, <1>3, <1>4, <1>7, <1>8 DEF Next, Call

(***************************************************************************)
(* release, dealloc and shrink lose no memory: the smallest blocks of the  *)
(* regions that were given to the allocator stay in its lists, with a      *)
(* caller, in the hands of the running method or to be released.           *)
(***************************************************************************)
THEOREM NoMemoryLost == RegionsFit => (Spec => []NothingLost)
<1> DEFINE All == UNION {WholeCells(r) : r \in Regions}
           Kernel == Parts /\ All \subseteq Covered
<1>1. RegionsFit /\ Init => Kernel
  <2>1. Init => All \subseteq Covered
    BY DEF Init, Covered
  <2> QED
    BY <2>1, InitParts
<1>2. Kernel /\ [Next]_vars => Kernel'
  BY NextParts, NextCovered
<1>3. Kernel => NothingLost
  BY DEF NothingLost, Covered
<1> HIDE DEF Kernel
<1> QED
  BY <1>1, <1>2, <1>3, PTL DEF Spec
=============================================================================
