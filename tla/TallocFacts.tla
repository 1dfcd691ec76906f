---------------------------- MODULE TallocFacts -----------------------------
(***************************************************************************)
(* What the proofs about Talloc rest on: powers of two and buddies, the    *)
(* blocks of an arena, its books, the spans of memory by their owner, and  *)
(* that the steps of alloc, shrink and dealloc keep all of it in order.    *)
(***************************************************************************)
EXTENDS Talloc, TLAPS

(***************************************************************************)
(* The fields of a block at hand and of a request.                         *)
(***************************************************************************)
LEMMA BlockFields ==
  ASSUME NEW c, NEW b, NEW s, NEW g, c = [base |-> b, size |-> s, granularity |-> g]
  PROVE  c.base = b /\ c.size = s /\ c.granularity = g
OBVIOUS

LEMMA WantFields ==
  ASSUME NEW c, NEW s, NEW l, c = [size |-> s, layout |-> l]
  PROVE  c.size = s /\ c.layout = l
OBVIOUS

LEMMA NoBlockTyped == NoBlock \in Block
BY DEF NoBlock, Block

(***************************************************************************)
(* Powers of two.                                                          *)
(***************************************************************************)
LEMMA PowSplit ==
  ASSUME NEW m \in 0..WordBits, NEW n \in 0..WordBits, m <= n
  PROVE  2^n = 2^(n - m) * 2^m
BY PowersOfTwo

LEMMA PowSucc ==
  ASSUME NEW n \in Exponents
  PROVE  2^(n + 1) = 2 * 2^n /\ 2^n \in Nat \ {0}
<1> DEFINE j == n + 1
<1>1. n \in 0..WordBits /\ j \in 0..WordBits /\ n <= j
  BY PowersOfTwo DEF Exponents
<1>2. j - n = 1
  BY <1>1
<1> HIDE DEF j
<1>3. 2^j = 2^(j - n) * 2^n
  BY <1>1, PowSplit
<1>4. 2^j = 2 * 2^n
  BY Zenon, <1>2, <1>3, PowersOfTwo
<1> QED
  BY <1>1, <1>4, PowersOfTwo DEF j

\* A larger exponent gives at least the double.
LEMMA PowMono ==
  ASSUME NEW m \in 0..WordBits, NEW n \in 0..WordBits, m < n
  PROVE  2 * 2^m <= 2^n
<1> DEFINE j == n - 1
<1>1. j \in Exponents /\ j \in 0..WordBits /\ j + 1 = n /\ m <= j /\ j - m \in 0..WordBits
  BY PowersOfTwo DEF Exponents
<1> HIDE DEF j
<1>2. 2^n = 2 * 2^j
  BY <1>1, PowSucc
<1>3. 2^j = 2^(j - m) * 2^m
  BY <1>1, PowSplit
<1>4. 2^(j - m) \in Nat \ {0} /\ 2^m \in Nat \ {0} /\ 2^j \in Nat
  BY <1>1, PowersOfTwo
<1>5. 2^m <= 2^j
  BY <1>3, <1>4
<1> QED
  BY <1>2, <1>4, <1>5

\* Comparing powers of two compares their exponents.
LEMMA PowLess ==
  ASSUME NEW m \in 0..WordBits, NEW n \in 0..WordBits, 2^m < 2^n
  PROVE  m < n
<1>1. CASE n < m
  <2>1. 2 * 2^n <= 2^m /\ 2^n \in Nat \ {0} /\ 2^m \in Nat
    BY <1>1, PowMono, PowersOfTwo
  <2> QED
    BY <2>1
<1>2. CASE n = m
  BY <1>2, PowersOfTwo
<1> QED
  BY <1>1, <1>2

\* fast_non0_log2 of a power of two is its exponent.
LEMMA Log2Pow ==
  ASSUME NEW n \in Exponents
  PROVE  log2(2^n) = n
<1>1. 2^n <= 2^n /\ 2^n < 2^(n + 1)
  BY PowSucc
<1>2. ASSUME NEW m \in Exponents, 2^m <= 2^n, 2^n < 2^(m + 1)
      PROVE  m = n
  <2>1. m \in 0..WordBits /\ n \in 0..WordBits /\ m + 1 \in 0..WordBits /\ m \in Int /\ n \in Int
    BY PowersOfTwo DEF Exponents
  <2>2. n < m + 1
    BY <1>2, <2>1, PowLess
  <2>3. ~(n < m)
    <3>1. SUFFICES ASSUME n < m PROVE FALSE
      OBVIOUS
    <3>2. 2 * 2^n <= 2^m /\ 2^n \in Nat \ {0} /\ 2^m \in Nat
      BY <2>1, <3>1, PowMono, PowersOfTwo
    <3> QED
      BY <1>2, <3>2
  <2> QED
    BY <2>1, <2>2, <2>3
<1> DEFINE Top(m) == 2^m <= 2^n /\ 2^n < 2^(m + 1)
<1>3. log2(2^n) = CHOOSE m \in Exponents : Top(m)
  BY DEF log2
<1>4. Top(n) /\ \A m \in Exponents : Top(m) => m = n
  BY <1>1, <1>2
<1> HIDE DEF Top
<1> QED
  BY <1>3, <1>4

\* A multiple of a power of two is a multiple of the smaller ones.
LEMMA PowDivides ==
  ASSUME NEW m \in 0..WordBits, NEW n \in 0..WordBits, m <= n,
         NEW v \in Int, v % 2^n = 0
  PROVE  v % 2^m = 0
<1>1. n - m \in 0..WordBits
  BY PowersOfTwo
<1>2. 2^n = 2^(n - m) * 2^m /\ 2^m \in Nat \ {0} /\ 2^n \in Nat \ {0} /\ 2^(n - m) \in Nat \ {0}
  BY <1>1, PowersOfTwo
<1> DEFINE q == v \div 2^n
<1>3. v = q * 2^n /\ q \in Int
  BY <1>2
<1> HIDE DEF q
<1>4. v = (q * 2^(n - m)) * 2^m
  BY <1>2, <1>3
<1>5. \A r \in Int, s \in Nat \ {0} : (r * s) % s = 0
  OBVIOUS
<1>6. q * 2^(n - m) \in Int
  BY <1>2, <1>3
<1> QED
  BY <1>2, <1>4, <1>5, <1>6

(***************************************************************************)
(* Multiples and buddies.                                                  *)
(***************************************************************************)

LEMMA Multiples ==
  ASSUME NEW b \in Int, NEW s \in Nat \ {0}
  PROVE  b % s = 0 => b = (b \div s) * s /\ b \div s \in Int
OBVIOUS

LEMMA Quotient ==
  ASSUME NEW q \in Int, NEW s \in Nat \ {0}, NEW b, b = q * s
  PROVE  b % s = 0 /\ b \div s = q
<1>1. (q * s) % s = 0 /\ (q * s) \div s = q
  OBVIOUS
<1> QED
  BY <1>1

\* The buddy of an aligned block is the other half of the enclosing block.
LEMMA Buddies ==
  ASSUME NEW b \in Int, NEW s \in Nat \ {0}, b % s = 0
  PROVE  /\ Buddy(b, s) \in Int
         /\ Buddy(b, s) % s = 0
         /\ Buddy(Buddy(b, s), s) = b
         /\ is_lower_buddy(b, s) => Buddy(b, s) = b + s /\ b % (2 * s) = 0
         /\ ~is_lower_buddy(b, s) => Buddy(b, s) = b - s /\ (b - s) % (2 * s) = 0
<1> DEFINE q == b \div s
<1>1. b = q * s /\ q \in Int
  BY Multiples
<1>2. /\ (q + 1) * s = b + s /\ (q - 1) * s = b - s
      /\ q + 1 \in Int /\ q - 1 \in Int
  BY <1>1
<1>3. /\ (b + s) \div s = q + 1 /\ (b - s) \div s = q - 1
      /\ (b + s) % s = 0 /\ (b - s) % s = 0
  <2> HIDE DEF q
  <2> QED BY ONLY Zenon, <1>2, Quotient, s \in Nat \ {0}
<1>4. CASE is_lower_buddy(b, s)
  <2>1. q % 2 = 0 /\ Buddy(b, s) = b + s
    BY <1>4 DEF is_lower_buddy, Buddy
  <2> DEFINE r == q \div 2
  <2>2. r \in Int /\ q = r * 2
    BY <1>1, <2>1
  <2>3. b = r * (2 * s) /\ 2 * s \in Nat \ {0}
    BY <1>1, <2>2
  <2>4. b % (2 * s) = 0
    BY ONLY Zenon, <2>2, <2>3, Quotient
  <2>5. (q + 1) % 2 # 0
    BY <1>1, <2>1
  <2>6. Buddy(b + s, s) = (b + s) - s
    BY <1>3, <2>5 DEF Buddy, is_lower_buddy
  <2> QED
    BY <1>3, <1>4, <2>1, <2>4, <2>6
<1>5. CASE ~is_lower_buddy(b, s)
  <2>1. q % 2 = 1 /\ Buddy(b, s) = b - s
    BY <1>1, <1>5 DEF is_lower_buddy, Buddy
  <2> DEFINE r == (q - 1) \div 2
  <2>2. r \in Int /\ q - 1 = r * 2
    BY <1>1, <2>1
  <2>3. b - s = r * (2 * s) /\ 2 * s \in Nat \ {0}
    BY <1>2, <2>2
  <2>4. (b - s) % (2 * s) = 0
    BY ONLY Zenon, <2>2, <2>3, Quotient
  <2>5. (q - 1) % 2 = 0
    BY <1>1, <2>1
  <2>6. Buddy(b - s, s) = (b - s) + s
    BY <1>3, <2>5 DEF Buddy, is_lower_buddy
  <2> QED
    BY <1>3, <1>5, <2>1, <2>4, <2>6
<1> QED
  BY <1>4, <1>5

\* The halves of an aligned block are aligned, and buddies of each other.
LEMMA Halves ==
  ASSUME NEW b \in Int, NEW s \in Nat \ {0}, b % (2 * s) = 0
  PROVE  b % s = 0 /\ (b + s) % s = 0 /\ Buddy(b, s) = b + s /\ Buddy(b + s, s) = b
<1> DEFINE q == b \div (2 * s)
<1>1. q \in Int /\ b = q * (2 * s)
  BY Multiples
<1>2. b = (2 * q) * s /\ b + s = (2 * q + 1) * s
  BY <1>1
<1>3. b % s = 0 /\ (b + s) % s = 0 /\ b \div s = 2 * q
  <2>1. 2 * q \in Int /\ 2 * q + 1 \in Int
    BY <1>1
  <2> HIDE DEF q
  <2> QED
    BY ONLY <1>2, <2>1, Quotient, s \in Nat \ {0}
<1>4. is_lower_buddy(b, s)
  BY <1>1, <1>3 DEF is_lower_buddy
<1> QED
  BY <1>3, <1>4, Buddies

(***************************************************************************)
(* The geometry of the arena.                                              *)
(***************************************************************************)
G == Granularities(FirstArena)
Sz(g) == BlockSize(FirstArena, g)
top == log2(arena_size_pow2(FirstArena))
bottom == log2(smlst_block)

\* The block sizes are the powers of two from the smallest block up to the
\* one that encloses the arena, each the double of the next granularity's.
LEMMA Geometry ==
  /\ top \in Exponents /\ bottom \in Exponents /\ bottom <= top
  /\ arena_size_pow2(FirstArena) = 2^top /\ smlst_block = 2^bottom
  /\ G = 0..(top - bottom) /\ 0 \in G
  /\ FirstArena.size \in Nat /\ FirstArena.base \in Int /\ FirstArena.size <= 2^top
<1>1. PICK k \in Exponents : smlst_block = 2^k
  BY SmallestBlock
<1>2. smlst_block = 2^bottom /\ bottom \in Exponents
  BY <1>1, Log2Pow DEF bottom
<1> DEFINE Above(n) == IsNextPow2(n, FirstArena.size)
           p == CHOOSE n \in Exponents : Above(n)
<1>3. p \in Exponents /\ Above(p)
  <2>1. \E n \in Exponents : Above(n)
    BY ArenaArguments
  <2> HIDE DEF Above
  <2> QED
    BY <2>1
<1>4. arena_size_pow2(FirstArena) = 2^p
  BY DEF arena_size_pow2, next_pow2
<1>5. FirstArena.size <= 2^p
  BY <1>3 DEF IsNextPow2
<1> HIDE DEF p, Above
<1>6. top = p
  BY <1>3, <1>4, Log2Pow DEF top
<1>7. FirstArena.size \in Nat /\ FirstArena.base \in Int
  BY ArenaArguments
<1>8. bottom <= top
  <2>1. top \in 0..WordBits /\ bottom \in 0..WordBits
    BY <1>2, <1>3, <1>6, PowersOfTwo DEF Exponents
  <2>2. 2^bottom <= FirstArena.size
    BY <1>2, ArenaArguments
  <2>3. 2^top \in Nat \ {0} /\ 2^bottom \in Nat \ {0}
    BY <2>1, PowersOfTwo
  <2>4. ~(top < bottom)
    <3>1. SUFFICES ASSUME top < bottom PROVE FALSE
      OBVIOUS
    <3>2. 2 * 2^top <= 2^bottom
      BY <2>1, <3>1, PowMono
    <3> QED
      BY <1>5, <1>6, <1>7, <2>2, <2>3, <3>2
  <2> QED
    BY <2>1, <2>4
<1>9. G = 0..(top - bottom)
  BY DEF G, Granularities, top, bottom
<1> QED
  BY <1>2, <1>3, <1>4, <1>5, <1>6, <1>7, <1>8, <1>9, PowersOfTwo DEF Exponents

Blk(g) == ArenaBlocks(FirstArena, g)
Off(g, b) == bitmap_offset(FirstArena, b, Sz(g))

\* A power of two between the smallest block and the arena is a block size.
LEMMA PowSize ==
  ASSUME NEW n \in Exponents, bottom <= n, n <= top
  PROVE  top - n \in G /\ Sz(top - n) = 2^n /\ block_granularity(FirstArena, 2^n) = top - n
<1> DEFINE g == top - n
<1>1. /\ g \in G /\ g \in 0..WordBits /\ top \in 0..WordBits /\ n \in 0..WordBits
      /\ g <= top /\ top - g = n /\ n <= top
  BY Geometry, PowersOfTwo DEF Exponents
<1> HIDE DEF g
<1>2. 2^top = 2^n * 2^g /\ 2^g \in Nat \ {0} /\ 2^n \in Nat
  BY <1>1, PowSplit, PowersOfTwo
<1>3. 2^top \div 2^g = 2^n
  BY <1>2, Quotient
<1>4. Sz(g) = 2^n
  BY <1>3, Geometry DEF Sz, BlockSize
<1>5. block_granularity(FirstArena, 2^n) = top - n
  BY Log2Pow, Geometry DEF block_granularity
<1> QED
  BY <1>1, <1>4, <1>5 DEF g

\* The block sizes, by granularity.
LEMMA Sizes ==
  ASSUME NEW g \in G
  PROVE  /\ g \in Nat /\ top - g \in Exponents /\ bottom <= top - g /\ top - g <= top
         /\ Sz(g) = 2^(top - g) /\ Sz(g) \in Nat \ {0} /\ smlst_block <= Sz(g)
         /\ Sz(g) % smlst_block = 0
         /\ block_granularity(FirstArena, Sz(g)) = g
         /\ g + 1 \in G => Sz(g) = 2 * Sz(g + 1)
<1> DEFINE n == top - g
<1>1. /\ n \in Exponents /\ bottom <= n /\ n <= top /\ top - n = g /\ g \in Nat
      /\ n \in 0..WordBits /\ bottom \in 0..WordBits /\ bottom \in Exponents /\ top \in Int
  BY Geometry, PowersOfTwo DEF Exponents
<1> HIDE DEF n
<1>2. Sz(g) = 2^n /\ block_granularity(FirstArena, Sz(g)) = g
  BY <1>1, PowSize
<1>3. 2^n \in Nat \ {0} /\ 2^bottom \in Nat \ {0}
  BY <1>1, PowersOfTwo
<1>4. 2^bottom <= 2^n
  BY <1>1, <1>3, PowMono
<1>5. 2^n % 2^bottom = 0
  <2> DEFINE v == 2^n
  <2>1. v % 2^n = 0 /\ v \in Int
    BY <1>3
  <2> HIDE DEF v
  <2>2. v % 2^bottom = 0
    BY <1>1, <2>1, PowDivides
  <2> QED
    BY <2>2 DEF v
<1>6. ASSUME g + 1 \in G
      PROVE  Sz(g) = 2 * Sz(g + 1)
  <2> DEFINE m == n - 1
  <2>1. m \in Exponents /\ bottom <= m /\ m <= top /\ top - m = g + 1 /\ m + 1 = n
    BY <1>1, <1>6, Geometry, PowersOfTwo DEF Exponents
  <2> HIDE DEF m
  <2>2. Sz(g + 1) = 2^m
    BY <2>1, PowSize
  <2> QED
    BY <1>2, <2>1, <2>2, PowSucc
<1> QED
  BY <1>1, <1>2, <1>3, <1>4, <1>5, <1>6, Geometry DEF n

\* Different granularities have different block sizes.
LEMMA SizeInjective ==
  ASSUME NEW g \in G, NEW h \in G, Sz(g) = Sz(h)
  PROVE  g = h
<1>1. block_granularity(FirstArena, Sz(g)) = g /\ block_granularity(FirstArena, Sz(h)) = h
  BY Sizes
<1> QED
  BY <1>1

\* A block size is a multiple of the pairs of every smaller one.
LEMMA SizeMultiple ==
  ASSUME NEW g \in G, NEW h \in G, g < h
  PROVE  \E k \in Nat \ {0} : Sz(g) = k * (2 * Sz(h))
<1> DEFINE n == top - g
           m == top - h
<1>1. Sz(g) = 2^n /\ Sz(h) = 2^m /\ n \in Exponents /\ m \in Exponents /\ g \in Nat /\ h \in Nat
  BY Sizes
<1>2. n \in 0..WordBits /\ m + 1 \in 0..WordBits /\ m + 1 <= n /\ n - (m + 1) \in 0..WordBits
  BY <1>1, Geometry, PowersOfTwo DEF Exponents
<1> HIDE DEF n, m
<1>3. 2^n = 2^(n - (m + 1)) * 2^(m + 1)
  BY <1>2, PowSplit
<1>4. 2^(m + 1) = 2 * 2^m /\ 2^(n - (m + 1)) \in Nat \ {0}
  BY <1>1, <1>2, PowSucc, PowersOfTwo
<1> DEFINE k == 2^(n - (m + 1))
<1>5. k \in Nat \ {0} /\ Sz(g) = k * (2 * Sz(h))
  BY Zenon, <1>1, <1>3, <1>4
<1> HIDE DEF k
<1> QED
  BY <1>5

\* Of two aligned blocks that share an address the smaller lies in the larger.
LEMMA BlocksNest ==
  ASSUME NEW x \in Int, NEW y \in Int, NEW c \in Int, NEW s \in Nat \ {0}, NEW k \in Nat \ {0}, NEW t,
         t = k * s, x % s = 0, y % t = 0, x <= c, c < x + s, y <= c, c < y + t
  PROVE  y <= x /\ x + s <= y + t
<1>0. t \in Nat \ {0}
  OBVIOUS
<1> DEFINE q == x \div s
           r == y \div t
           m == r * k
<1>1. x = q * s /\ q \in Int /\ y = r * t /\ r \in Int
  BY <1>0, Multiples, Zenon
<1> HIDE DEF q, r
<1>2. m \in Int /\ y = m * s /\ y + t = (m + k) * s /\ x + s = (q + 1) * s
  BY <1>1
<1> HIDE DEF m
<1>3. m * s < (q + 1) * s /\ q * s < (m + k) * s
  BY <1>1, <1>2, <1>0
<1>4. \A i, j \in Int : i * s < j * s => i < j
  OBVIOUS
<1>5. m < q + 1 /\ q < m + k
  BY <1>1, <1>2, <1>3, <1>4
<1>6. \A i, j \in Int : i <= j => i * s <= j * s
  OBVIOUS
<1>7. m * s <= q * s /\ (q + 1) * s <= (m + k) * s
  BY <1>1, <1>2, <1>5, <1>6
<1> QED
  BY <1>1, <1>2, <1>7

\* Membership of ArenaBlocks without its set constructor.
LEMMA Blocks ==
  ASSUME NEW g \in G, NEW b
  PROVE  b \in Blk(g) <=> /\ b \in Int /\ b % Sz(g) = 0
                          /\ FirstArena.base <= b /\ b + Sz(g) <= FirstArena.base + FirstArena.size
                          /\ ~(b <= 0 /\ 0 < b + Sz(g))
<1>1. Sz(g) \in Nat /\ FirstArena.base \in Int /\ FirstArena.size \in Nat
  BY Sizes, Geometry
<1> QED
  BY <1>1 DEF Blk, ArenaBlocks, Sz

\* layout_to_size gives a power of two that is at least the smallest block,
\* the size of the layout and its alignment.
LEMMA LayoutSize ==
  ASSUME NEW layout \in Layouts
  PROVE  \E n \in Exponents :
           /\ layout_to_size(layout) = 2^n /\ bottom <= n
           /\ layout.size <= 2^n
           /\ \E m \in 0..n : layout.align = 2^m
<1>1. PICK a \in Exponents : layout.align = 2^a
  BY LayoutArguments
<1> DEFINE Above(n) == IsNextPow2(n, layout.size)
           p == CHOOSE n \in Exponents : Above(n)
<1>2. p \in Exponents /\ Above(p)
  <2>1. \E n \in Exponents : Above(n)
    BY LayoutArguments
  <2> HIDE DEF Above
  <2> QED
    BY <2>1
<1>3. next_pow2(layout.size) = 2^p
  BY DEF next_pow2
<1>4. layout.size <= 2^p /\ layout.size \in Nat
  BY <1>2, LayoutArguments DEF IsNextPow2
<1> HIDE DEF p, Above
<1>5. bottom \in Exponents /\ smlst_block = 2^bottom
  BY Geometry
<1> DEFINE sizes == {2^p, 2^a, 2^bottom}
           s == CHOOSE s \in sizes : \A t \in sizes : t <= s
<1>6. layout_to_size(layout) = s
  BY <1>1, <1>3, <1>5 DEF layout_to_size
<1>7. 2^p \in Nat \ {0} /\ 2^a \in Nat \ {0} /\ 2^bottom \in Nat \ {0}
  BY <1>1, <1>2, <1>5, PowSucc
<1>8. s \in sizes /\ \A t \in sizes : t <= s
  <2>1. \E u \in sizes : \A t \in sizes : t <= u
    BY <1>7
  <2> HIDE DEF sizes
  <2> QED
    BY <2>1
<1> HIDE DEF s
<1>9. PICK n \in Exponents : s = 2^n
  BY <1>1, <1>2, <1>5, <1>8
<1>10. 2^p <= 2^n /\ 2^a <= 2^n /\ 2^bottom <= 2^n /\ 2^n \in Nat
  BY <1>8, <1>9, <1>7, PowSucc
<1>11. a <= n /\ bottom <= n
  <2>1. n \in 0..WordBits /\ a \in 0..WordBits /\ bottom \in 0..WordBits
    BY <1>1, <1>5, <1>9, PowersOfTwo DEF Exponents
  <2>2. ASSUME NEW k \in 0..WordBits, 2^k <= 2^n, 2^k \in Nat \ {0}
        PROVE  ~(n < k)
    <3>1. SUFFICES ASSUME n < k PROVE FALSE
      OBVIOUS
    <3>2. 2 * 2^n <= 2^k
      BY <2>1, <3>1, PowMono
    <3> QED
      BY <1>10, <2>2, <3>2
  <2> QED
    BY <1>7, <1>10, <2>1, <2>2
<1>12. layout.size <= 2^n
  BY <1>4, <1>7, <1>10
<1>13. a \in 0..n
  BY <1>1, <1>9, <1>11 DEF Exponents
<1> QED
  BY <1>1, <1>6, <1>9, <1>11, <1>12, <1>13

\* A request that fits the arena is for the block size of its granularity.
LEMMA LayoutBlock ==
  ASSUME NEW layout \in Layouts, layout_to_size(layout) <= FirstArena.size
  PROVE  LET g == block_granularity(FirstArena, layout_to_size(layout))
         IN  g \in G /\ layout_to_size(layout) = Sz(g)
<1>1. PICK n \in Exponents : layout_to_size(layout) = 2^n /\ bottom <= n
  BY LayoutSize
<1>2. n \in 0..WordBits /\ top \in 0..WordBits
  BY <1>1, Geometry, PowersOfTwo DEF Exponents
<1>3. 2^n <= 2^top /\ 2^n \in Nat \ {0} /\ 2^top \in Nat \ {0}
  BY <1>1, <1>2, Geometry, PowersOfTwo
<1>4. ~(top < n)
  <2>1. SUFFICES ASSUME top < n PROVE FALSE
    OBVIOUS
  <2>2. 2 * 2^top <= 2^n
    BY <1>2, <2>1, PowMono
  <2> QED
    BY <1>3, <2>2
<1>5. n <= top
  BY <1>2, <1>4
<1> QED
  BY <1>1, <1>5, PowSize

\* Both halves of a block of the arena are blocks of the arena.
LEMMA SplitBlock ==
  ASSUME NEW g \in G, g + 1 \in G, NEW b \in Blk(g)
  PROVE  /\ b \in Blk(g + 1) /\ b + Sz(g + 1) \in Blk(g + 1)
         /\ Buddy(b, Sz(g + 1)) = b + Sz(g + 1) /\ Buddy(b + Sz(g + 1), Sz(g + 1)) = b
<1> DEFINE s == Sz(g + 1)
<1>1. s \in Nat \ {0} /\ Sz(g) = 2 * s
  BY Sizes
<1>2. /\ b \in Int /\ b % (2 * s) = 0
      /\ FirstArena.base <= b /\ b + 2 * s <= FirstArena.base + FirstArena.size
      /\ ~(b <= 0 /\ 0 < b + 2 * s)
  BY <1>1, Blocks
<1> HIDE DEF s
<1>3. b % s = 0 /\ (b + s) % s = 0 /\ Buddy(b, s) = b + s /\ Buddy(b + s, s) = b
  BY <1>1, <1>2, Halves
<1>4. /\ b + s <= FirstArena.base + FirstArena.size /\ ~(b <= 0 /\ 0 < b + s)
      /\ b + s \in Int /\ FirstArena.base <= b + s
      /\ (b + s) + s <= FirstArena.base + FirstArena.size /\ ~(b + s <= 0 /\ 0 < (b + s) + s)
  BY <1>1, <1>2, Geometry
<1> QED
  BY <1>2, <1>3, <1>4, Blocks DEF s

\* Two buddies of the arena have a parent in the arena: dealloc never merges
\* beyond granularity 0.
LEMMA MergeBlock ==
  ASSUME NEW g \in G, NEW b \in Blk(g), Buddy(b, Sz(g)) \in Blk(g)
  PROVE  LET lower == IF is_lower_buddy(b, Sz(g)) THEN b ELSE Buddy(b, Sz(g))
             upper == IF is_lower_buddy(b, Sz(g)) THEN Buddy(b, Sz(g)) ELSE b
         IN  /\ upper = lower + Sz(g)
             /\ g # 0 /\ g - 1 \in G /\ Sz(g - 1) = 2 * Sz(g)
             /\ lower \in Blk(g - 1)
<1> DEFINE s == Sz(g)
           c == Buddy(b, s)
           lower == IF is_lower_buddy(b, s) THEN b ELSE c
           upper == IF is_lower_buddy(b, s) THEN c ELSE b
<1>1. s \in Nat \ {0} /\ g \in Nat
  BY Sizes
<1>2. /\ b \in Int /\ b % s = 0 /\ FirstArena.base <= b /\ b + s <= FirstArena.base + FirstArena.size
      /\ ~(b <= 0 /\ 0 < b + s)
  BY Blocks
<1>3. /\ FirstArena.base <= c /\ c + s <= FirstArena.base + FirstArena.size
      /\ ~(c <= 0 /\ 0 < c + s)
  BY Blocks
<1>4. upper = lower + s /\ lower % (2 * s) = 0 /\ lower \in Int
  BY <1>1, <1>2, Buddies
<1>5. /\ FirstArena.base <= lower /\ lower + 2 * s <= FirstArena.base + FirstArena.size
      /\ ~(lower <= 0 /\ 0 < lower + 2 * s)
  <2>1. \/ lower = b /\ c = b + s
        \/ lower = c /\ b = c + s
    BY <1>4
  <2> HIDE DEF c, lower
  <2>2. c \in Int
    BY <1>1, <1>2, <2>1, <1>4
  <2> QED
    BY SMTT(30), <1>1, <1>2, <1>3, <2>1, <2>2, Geometry
<1>6. g # 0
  <2>1. SUFFICES ASSUME g = 0 PROVE FALSE
    OBVIOUS
  <2>2. top - 0 = top
    BY Geometry DEF Exponents
  <2>3. FirstArena.size <= s
    BY <2>1, <2>2, Geometry, Sizes
  <2> HIDE DEF lower, s
  <2> QED
    BY SMTT(30), <1>1, <1>4, <1>5, <2>3, Geometry
<1>7. g - 1 \in G /\ Sz(g - 1) = 2 * s
  <2>1. g - 1 \in G /\ (g - 1) + 1 = g
    BY <1>1, <1>6, Geometry DEF Exponents
  <2> QED
    BY <2>1, Sizes
<1>8. lower \in Blk(g - 1)
  <2> HIDE DEF lower, s
  <2> QED
    BY <1>4, <1>5, <1>7, Blocks
<1> QED
  BY <1>4, <1>6, <1>7, <1>8

\* FlagsApart in terms of granularities.
LEMMA Flags ==
  ASSUME NEW g \in G, NEW h \in G, NEW b \in Blk(g), NEW c \in Blk(h)
  PROVE  Off(g, b) = Off(h, c) <=> g = h /\ c \in {b, Buddy(b, Sz(g))}
BY ArenaArguments DEF FlagsApart, G, Blk, Off, Sz

\* Buddies have one flag.
LEMMA BuddyFlag ==
  ASSUME NEW g \in G, NEW b \in Blk(g), NEW c \in Blk(g), c = Buddy(b, Sz(g))
  PROVE  Off(g, b) = Off(g, c)
BY Flags

(***************************************************************************)
(* Rounding to whole smallest blocks.                                      *)
(***************************************************************************)
LEMMA Rounding ==
  ASSUME NEW v \in Int, NEW u \in Nat \ {0}
  PROVE  /\ FloorTo(v, u) \in Int /\ FloorTo(v, u) % u = 0
         /\ FloorTo(v, u) <= v /\ v < FloorTo(v, u) + u
         /\ CeilTo(v, u) \in Int /\ CeilTo(v, u) % u = 0
         /\ v <= CeilTo(v, u) /\ CeilTo(v, u) < v + u
<1>1. ASSUME NEW w \in Int
      PROVE  FloorTo(w, u) \in Int /\ FloorTo(w, u) % u = 0 /\ FloorTo(w, u) <= w /\ w < FloorTo(w, u) + u
  <2> DEFINE q == w \div u
  <2>1. FloorTo(w, u) = q * u /\ q \in Int /\ w % u \in 0..(u - 1)
    BY DEF FloorTo
  <2>2. FloorTo(w, u) = w - (w % u)
    BY DEF FloorTo
  <2> HIDE DEF q
  <2>3. FloorTo(w, u) % u = 0
    BY Zenon, <2>1, Quotient
  <2> QED
    BY <2>1, <2>2, <2>3
<1>2. v + u - 1 \in Int
  OBVIOUS
<1>3. /\ CeilTo(v, u) \in Int /\ CeilTo(v, u) % u = 0
      /\ CeilTo(v, u) <= v + u - 1 /\ v + u - 1 < CeilTo(v, u) + u
  BY <1>1, <1>2 DEF CeilTo
<1> QED
  BY <1>1, <1>3

(***************************************************************************)
(* The books: avails, llists and bitmap agree.                             *)
(***************************************************************************)
BooksAgree ==
  /\ avails \subseteq G
  /\ llists \in [G -> SUBSET Int]
  /\ bitmap \subseteq Int
  /\ \A g \in G : llists[g] \subseteq Blk(g)
  /\ \A g \in G : g \in avails <=> llists[g] # {}
  /\ \A g \in G : \A b \in Blk(g) :
       Off(g, b) \in bitmap <=> ~(b \in llists[g] <=> Buddy(b, Sz(g)) \in llists[g])
  /\ \A g \in G : \A b \in Blk(g) :
       ~(b \in llists[g] /\ Buddy(b, Sz(g)) \in llists[g])

LEMMA BooksOfInv ==
  ASSUME TypeOK, AvailsAgree, BitmapAgrees, Coalesced, BlocksFit
  PROVE  BooksAgree /\ arena = FirstArena
BY DEF TypeOK, AvailsAgree, BitmapAgrees, Coalesced, BlocksFit, Listed,
       BooksAgree, G, Blk, Off, Sz

\* The offsets are integers, and a block shares its flag with its buddy.
LEMMA OffsetType ==
  ASSUME NEW g \in G, NEW b \in Blk(g)
  PROVE  /\ Off(g, b) \in Int /\ b \in Int
         /\ Buddy(b, Sz(g)) \in Int /\ Buddy(b, Sz(g)) # b
         /\ Buddy(Buddy(b, Sz(g)), Sz(g)) = b
<1> DEFINE s == Sz(g)
           P == arena_size_pow2(FirstArena)
<1>1. s \in Nat \ {0} /\ b \in Int /\ b % s = 0
  BY Sizes, Blocks
<1>2. P \in Int /\ FirstArena.base \in Int
  BY Geometry, PowSucc
<1>3. FloorTo(FirstArena.base, 2 * s) \in Int
  <2>1. 2 * s \in Nat \ {0}
    BY <1>1
  <2> QED
    BY ONLY Zenon, <1>2, <2>1, Rounding
<1> HIDE DEF s, P
<1>4. (P + (b - FloorTo(FirstArena.base, 2 * s))) \div (2 * s) \in Int
  BY <1>1, <1>2, <1>3
<1>5. Off(g, b) \in Int
  BY <1>4 DEF Off, bitmap_offset, s, P
<1>6. Buddy(b, s) \in {b + s, b - s}
  BY DEF Buddy
<1> QED
  BY <1>1, <1>5, <1>6, Buddies DEF s

\* add_block_next keeps the books in agreement, for a block of the arena
\* that is not listed and whose buddy is not listed.
LEMMA AddKeepsBooks ==
  ASSUME BooksAgree, NEW g \in G, NEW b \in Blk(g),
         b \notin llists[g], Buddy(b, Sz(g)) \notin llists[g],
         AddBlock(g, Off(g, b), b)
  PROVE  BooksAgree'
<1> USE DEF AddBlock
<1>1. /\ avails' \subseteq G /\ llists' \in [G -> SUBSET Int]
      /\ \A h \in G : llists'[h] = IF h = g THEN llists[g] \cup {b} ELSE llists[h]
  BY OffsetType DEF BooksAgree
<1>2. bitmap' \subseteq Int
  <2>1. Off(g, b) \in Int
    BY OffsetType
  <2> QED
    BY Zenon, <2>1 DEF BooksAgree, ToggleBitflag
<1>3. \A h \in G : llists'[h] \subseteq Blk(h)
  BY <1>1 DEF BooksAgree
<1>4. \A h \in G : h \in avails' <=> llists'[h] # {}
  BY <1>1 DEF BooksAgree
<1>5. Off(g, b) \notin bitmap
  BY DEF BooksAgree
<1>6. bitmap' = bitmap \cup {Off(g, b)}
  BY <1>5 DEF ToggleBitflag
<1>7. ASSUME NEW h \in G, NEW c \in Blk(h)
      PROVE  /\ Off(h, c) \in bitmap' <=> ~(c \in llists'[h] <=> Buddy(c, Sz(h)) \in llists'[h])
             /\ ~(c \in llists'[h] /\ Buddy(c, Sz(h)) \in llists'[h])
  <2>1. Off(g, b) = Off(h, c) <=> g = h /\ c \in {b, Buddy(b, Sz(g))}
    BY Flags
  <2>2. /\ Off(h, c) \in bitmap <=> ~(c \in llists[h] <=> Buddy(c, Sz(h)) \in llists[h])
        /\ ~(c \in llists[h] /\ Buddy(c, Sz(h)) \in llists[h])
    BY DEF BooksAgree
  <2>3. CASE h = g /\ c \in {b, Buddy(b, Sz(g))}
    <3>1. {c, Buddy(c, Sz(h))} = {b, Buddy(b, Sz(g))} /\ b # Buddy(b, Sz(g))
      BY <2>3, OffsetType
    <3>2. Off(h, c) \in bitmap'
      BY <1>6, <2>1, <2>3
    <3> QED
      BY <1>1, <2>3, <3>1, <3>2
  <2>4. CASE h = g /\ c \notin {b, Buddy(b, Sz(g))}
    <3>1. c # b /\ Buddy(c, Sz(h)) # b
      BY <2>4, OffsetType
    <3> QED
      BY <1>1, <1>6, <2>1, <2>2, <2>4, <3>1
  <2>5. CASE h # g
    BY <1>1, <1>6, <2>1, <2>2, <2>5
  <2> QED
    BY <2>3, <2>4, <2>5
<1> QED
  BY <1>1, <1>2, <1>3, <1>4, <1>7 DEF BooksAgree

\* remove_block_next and remove_block keep the books in agreement, for a
\* block that is listed.
LEMMA RemoveKeepsBooks ==
  ASSUME BooksAgree, NEW g \in G, NEW b \in llists[g], NEW off, off = Off(g, b),
         RemoveBlock(g, off, b)
  PROVE  BooksAgree'
<1> USE DEF RemoveBlock
<1>1. /\ avails' \subseteq G /\ llists' \in [G -> SUBSET Int]
      /\ \A h \in G : llists'[h] = IF h = g THEN llists[g] \ {b} ELSE llists[h]
      /\ b \in Blk(g)
  BY DEF BooksAgree
<1>2. bitmap' \subseteq Int
  BY Zenon, <1>1, OffsetType DEF BooksAgree, ToggleBitflag
<1>3. \A h \in G : llists'[h] \subseteq Blk(h)
  BY <1>1 DEF BooksAgree
<1>4. \A h \in G : h \in avails' <=> llists'[h] # {}
  BY <1>1 DEF BooksAgree
<1>5. Off(g, b) \in bitmap /\ Buddy(b, Sz(g)) \notin llists[g]
  BY <1>1 DEF BooksAgree
<1>6. bitmap' = bitmap \ {Off(g, b)}
  BY <1>5 DEF ToggleBitflag
<1>7. ASSUME NEW h \in G, NEW c \in Blk(h)
      PROVE  /\ Off(h, c) \in bitmap' <=> ~(c \in llists'[h] <=> Buddy(c, Sz(h)) \in llists'[h])
             /\ ~(c \in llists'[h] /\ Buddy(c, Sz(h)) \in llists'[h])
  <2>1. Off(g, b) = Off(h, c) <=> g = h /\ c \in {b, Buddy(b, Sz(g))}
    BY <1>1, Flags
  <2>2. /\ Off(h, c) \in bitmap <=> ~(c \in llists[h] <=> Buddy(c, Sz(h)) \in llists[h])
        /\ ~(c \in llists[h] /\ Buddy(c, Sz(h)) \in llists[h])
    BY DEF BooksAgree
  <2>3. CASE h = g /\ c \in {b, Buddy(b, Sz(g))}
    <3>1. {c, Buddy(c, Sz(h))} = {b, Buddy(b, Sz(g))} /\ b # Buddy(b, Sz(g))
      BY <1>1, <2>3, OffsetType
    <3>2. Off(h, c) \notin bitmap'
      BY <1>6, <2>1, <2>3
    <3> QED
      BY <1>1, <1>5, <2>3, <3>1, <3>2
  <2>4. CASE h = g /\ c \notin {b, Buddy(b, Sz(g))}
    <3>1. c # b /\ Buddy(c, Sz(h)) # b
      BY <1>1, <2>4, OffsetType
    <3> QED
      BY <1>1, <1>6, <2>1, <2>2, <2>4, <3>1
  <2>5. CASE h # g
    BY <1>1, <1>6, <2>1, <2>2, <2>5
  <2> QED
    BY <2>3, <2>4, <2>5
<1> QED
  BY <1>1, <1>2, <1>3, <1>4, <1>7 DEF BooksAgree

(***************************************************************************)
(* Spans of memory and their owners.                                       *)
(***************************************************************************)
IsSpan(s) == s.lo \in Int /\ s.hi \in Int /\ s.lo < s.hi

Disjoint(S) == \A s, t \in S : s # t => Apart(s, t)

\* A part of a span is apart from whatever the span is apart from.
LEMMA PartApart ==
  ASSUME NEW S, Disjoint(S), \A s \in S : IsSpan(s),
         NEW o \in S, NEW n, IsSpan(n), o.lo <= n.lo, n.hi <= o.hi
  PROVE  \A t \in S \ {o} : Apart(n, t)
BY DEF Disjoint, Apart, IsSpan

\* So is the union of two neighbours.
LEMMA UnionApart ==
  ASSUME NEW S, Disjoint(S), \A s \in S : IsSpan(s),
         NEW o \in S, NEW p \in S, o.hi = p.lo, o # p,
         NEW n, IsSpan(n), n.lo = o.lo, n.hi = p.hi
  PROVE  \A t \in S \ {o, p} : Apart(n, t)
BY DEF Disjoint, Apart, IsSpan

(***************************************************************************)
(* The invariant, by what the actions change.                              *)
(***************************************************************************)
Locals ==
  /\ held \subseteq [ptr : Int, layout : Layouts]
  /\ pending \subseteq Regions
  /\ pc \in {"idle", "merge", "split", "release"}
  /\ cur \in Block
  /\ want = NoWant \/ \E layout \in Layouts :
                        want = [size |-> layout_to_size(layout), layout |-> layout]
  /\ rel \in [on : BOOLEAN, base : Int, acme : Int, asc : BOOLEAN]
  /\ todo \subseteq [lo : Int, hi : Int]
  /\ err \in Nat

HeldFit == \A h \in held : \E g \in G : layout_to_size(h.layout) = Sz(g) /\ h.ptr \in Blk(g)

HeldUnique == \A h, k \in held : h.ptr = k.ptr => h = k

HandFits ==
  pc \in {"merge", "split"} =>
    cur.granularity \in G /\ cur.size = Sz(cur.granularity) /\ cur.base \in Blk(cur.granularity)

WantFits ==
  pc = "split" =>
    /\ want.layout \in Layouts /\ want.size = layout_to_size(want.layout)
    /\ \E g \in G : want.size = Sz(g) /\ cur.granularity <= g

Parts ==
  /\ arena = FirstArena /\ BooksAgree /\ Locals
  /\ HeldFit /\ HeldUnique /\ HandFits /\ WantFits
  /\ ReleaseFits /\ Disjoint(Spans)

LEMMA PartsOfInv == MethodsInv => Parts
<1> SUFFICES ASSUME MethodsInv PROVE Parts
  OBVIOUS
<1>1. BooksAgree /\ arena = FirstArena
  BY BooksOfInv DEF MethodsInv
<1>2. Locals
  BY DEF MethodsInv, TypeOK, NeverPanics, Locals
<1>3. HeldFit /\ HandFits /\ WantFits
  BY <1>1 DEF MethodsInv, BlocksFit, HeldFit, HandFits, WantFits, G, Sz, Blk
<1>4. HeldUnique /\ Disjoint(Spans) /\ ReleaseFits
  BY DEF MethodsInv, NoOverlap, HeldUnique, Disjoint
<1> QED
  BY <1>1, <1>2, <1>3, <1>4 DEF Parts

LEMMA InvOfParts == Parts => MethodsInv
<1> SUFFICES ASSUME Parts PROVE MethodsInv
  OBVIOUS
<1> USE DEF Parts
<1>1. TypeOK /\ NeverPanics
  BY DEF Locals, BooksAgree, TypeOK, NeverPanics, G
<1>2. AvailsAgree
  BY DEF BooksAgree, AvailsAgree, G
<1>3. BitmapAgrees /\ Coalesced
  BY DEF BooksAgree, BitmapAgrees, Coalesced, Listed, G, Sz, Blk, Off
<1>4. BlocksFit
  BY DEF BooksAgree, HeldFit, HandFits, WantFits, BlocksFit, G, Sz, Blk
<1>5. NoOverlap
  BY DEF HeldUnique, Disjoint, NoOverlap
<1> QED
  BY <1>1, <1>2, <1>3, <1>4, <1>5 DEF MethodsInv

\* The families of spans by owner.
LEMMA Families ==
  ASSUME Parts
  PROVE  /\ \A s \in FreeSpans : IsSpan(s) /\ s.who = "free"
         /\ \A s \in HeldSpans : IsSpan(s) /\ s.who = "held"
         /\ \A s \in HandSpans : IsSpan(s) /\ s.who = "hand"
         /\ \A s \in RelSpans : IsSpan(s) /\ s.who = "release"
         /\ \A s \in PendingSpans : IsSpan(s) /\ s.who = "pending"
         /\ \A s \in NestedSpans : IsSpan(s) /\ s.who = "nested"
         /\ \A s \in Spans : IsSpan(s)
         /\ Disjoint(Spans)
<1>0. BooksAgree /\ arena = FirstArena /\ MethodsInv
  BY InvOfParts DEF Parts
<1>1. ASSUME NEW s \in FreeSpans
      PROVE  IsSpan(s) /\ s.who = "free"
  <2>1. PICK g \in G : \E b \in llists[g] : s = Span("free", b, b + Sz(g))
    BY <1>0 DEF FreeSpans, G, Sz
  <2>2. PICK b \in llists[g] : s = Span("free", b, b + Sz(g))
    BY <2>1
  <2>3. b \in Int /\ Sz(g) \in Nat \ {0}
    BY <1>0, Sizes DEF BooksAgree
  <2> QED
    BY <2>2, <2>3 DEF Span, IsSpan
<1>2. ASSUME NEW s \in HeldSpans
      PROVE  IsSpan(s) /\ s.who = "held"
  <2>1. PICK h \in held : s = Span("held", h.ptr, h.ptr + layout_to_size(h.layout))
    BY DEF HeldSpans
  <2>2. h.ptr \in Int
    BY <1>0 DEF MethodsInv, TypeOK
  <2>3. PICK g \in G : layout_to_size(h.layout) = Sz(g)
    BY <1>0 DEF MethodsInv, BlocksFit, G, Sz
  <2>4. layout_to_size(h.layout) \in Nat \ {0}
    BY <2>3, Sizes
  <2> QED
    BY <2>1, <2>2, <2>4 DEF Span, IsSpan
<1>3. ASSUME NEW s \in HandSpans
      PROVE  IsSpan(s) /\ s.who = "hand"
  <2>1. pc \in {"merge", "split"} /\ s = Span("hand", cur.base, cur.base + cur.size)
    BY DEF HandSpans
  <2>2. cur.granularity \in G /\ cur.size = Sz(cur.granularity) /\ cur.base \in Int
    BY <1>0, <2>1 DEF MethodsInv, BlocksFit, TypeOK, Block, G, Sz
  <2>3. cur.size \in Nat \ {0}
    BY <2>2, Sizes
  <2> QED
    BY <2>1, <2>2, <2>3 DEF Span, IsSpan
<1>4. ASSUME NEW s \in RelSpans
      PROVE  IsSpan(s) /\ s.who = "release"
  BY <1>0 DEF RelSpans, MethodsInv, TypeOK, Span, IsSpan
<1>5. \A r \in pending \cup todo : r.lo \in Int /\ r.hi \in Int
  BY <1>0 DEF MethodsInv, ReleaseFits, RegionFits
<1>6. ASSUME NEW s \in PendingSpans
      PROVE  IsSpan(s) /\ s.who = "pending"
  BY <1>5 DEF PendingSpans, Span, IsSpan
<1>7. ASSUME NEW s \in NestedSpans
      PROVE  IsSpan(s) /\ s.who = "nested"
  BY <1>5 DEF NestedSpans, Span, IsSpan
<1>8. Disjoint(Spans)
  BY DEF Parts
<1> QED
  BY <1>1, <1>2, <1>3, <1>4, <1>6, <1>7, <1>8 DEF Spans, Given

(***************************************************************************)
(* How the families of spans change with the books and the callers.        *)
(***************************************************************************)
FreeSpan(g, b) == Span("free", b, b + Sz(g))
HeldSpan(ptr, layout) == Span("held", ptr, ptr + layout_to_size(layout))

LEMMA FreeMember ==
  ASSUME arena = FirstArena
  PROVE  \A s : s \in FreeSpans <=> \E g \in G : \E b \in llists[g] : s = FreeSpan(g, b)
BY DEF FreeSpans, FreeSpan, G, Sz

LEMMA FreeMemberNext ==
  ASSUME arena' = FirstArena
  PROVE  \A s : s \in FreeSpans' <=> \E g \in G : \E b \in llists'[g] : s = FreeSpan(g, b)
BY DEF FreeSpans, FreeSpan, G, Sz

LEMMA FreeKept ==
  ASSUME arena = FirstArena, arena' = FirstArena, llists' = llists
  PROVE  FreeSpans' = FreeSpans
BY DEF FreeSpans

LEMMA FreeAdded ==
  ASSUME Parts, arena' = FirstArena, NEW g \in G, NEW b, NEW off, AddBlock(g, off, b)
  PROVE  FreeSpans' \subseteq FreeSpans \cup {FreeSpan(g, b)}
<1>1. \A h \in G : llists'[h] \subseteq IF h = g THEN llists[g] \cup {b} ELSE llists[h]
  BY DEF AddBlock, Parts, BooksAgree
<1> QED
  BY <1>1, FreeMember, FreeMemberNext DEF Parts

LEMMA FreeRemoved ==
  ASSUME Parts, arena' = FirstArena, NEW g \in G, NEW b \in llists[g], NEW off,
         RemoveBlock(g, off, b)
  PROVE  /\ FreeSpan(g, b) \in FreeSpans
         /\ FreeSpans' \subseteq FreeSpans \ {FreeSpan(g, b)}
<1>1. \A h \in G : llists'[h] = IF h = g THEN llists[g] \ {b} ELSE llists[h]
  BY DEF RemoveBlock, Parts, BooksAgree
<1>2. FreeSpan(g, b) \in FreeSpans
  BY FreeMember DEF Parts
<1>3. ASSUME NEW s \in FreeSpans'
      PROVE  s \in FreeSpans \ {FreeSpan(g, b)}
  <2>0. PICK h \in G : \E c \in llists'[h] : s = FreeSpan(h, c)
    BY FreeMemberNext
  <2>1. PICK c \in llists'[h] : s = FreeSpan(h, c)
    BY <2>0
  <2>2. c \in llists[h] /\ ~(h = g /\ c = b)
    BY <1>1, <2>1
  <2>3. s \in FreeSpans
    BY <2>1, <2>2, FreeMember DEF Parts
  <2>4. s # FreeSpan(g, b)
    <3>1. SUFFICES ASSUME s = FreeSpan(g, b) PROVE FALSE
      OBVIOUS
    <3>2. c = b /\ c + Sz(h) = b + Sz(g)
      BY <2>1, <3>1 DEF FreeSpan, Span
    <3>3. c \in Int /\ Sz(h) \in Nat /\ Sz(g) \in Nat
      BY <2>2, Sizes DEF Parts, BooksAgree
    <3>4. Sz(h) = Sz(g)
      BY <3>2, <3>3
    <3> QED
      BY <2>2, <3>2, <3>4, SizeInjective
  <2> QED
    BY <2>3, <2>4
<1> QED
  BY <1>2, <1>3

LEMMA HeldAdded ==
  ASSUME NEW ptr, NEW layout, held' = held \cup {[ptr |-> ptr, layout |-> layout]}
  PROVE  HeldSpans' \subseteq HeldSpans \cup {HeldSpan(ptr, layout)}
BY DEF HeldSpans, HeldSpan

LEMMA HeldRemoved ==
  ASSUME Parts, NEW h \in held, held' = held \ {h}
  PROVE  /\ HeldSpan(h.ptr, h.layout) \in HeldSpans
         /\ HeldSpans' \subseteq HeldSpans \ {HeldSpan(h.ptr, h.layout)}
<1>1. HeldSpan(h.ptr, h.layout) \in HeldSpans
  BY DEF HeldSpans, HeldSpan
<1>2. ASSUME NEW s \in HeldSpans'
      PROVE  s \in HeldSpans \ {HeldSpan(h.ptr, h.layout)}
  <2>1. PICK k \in held : k # h /\ s = HeldSpan(k.ptr, k.layout)
    BY DEF HeldSpans, HeldSpan
  <2>2. k.ptr # h.ptr
    BY <2>1 DEF Parts, HeldUnique
  <2> QED
    BY <2>1, <2>2 DEF HeldSpans, HeldSpan, Span
<1> QED
  BY <1>1, <1>2

HandSpan(base, size) == Span("hand", base, base + size)

\* What is free, held or in hand is among the spans.
LEMMA Members ==
  FreeSpans \subseteq Spans /\ HeldSpans \subseteq Spans /\ HandSpans \subseteq Spans
BY Zenon DEF Spans, Given

\* The families that an action leaves alone.
LEMMA Kept ==
  /\ held' = held => HeldSpans' = HeldSpans
  /\ pc' = pc /\ cur' = cur => HandSpans' = HandSpans
  /\ rel' = rel => RelSpans' = RelSpans
  /\ pending' = pending => PendingSpans' = PendingSpans
  /\ todo' = todo => NestedSpans' = NestedSpans
  /\ pc \in {"merge", "split"} => HandSpans = {HandSpan(cur.base, cur.size)}
  /\ pc \notin {"merge", "split"} => HandSpans = {}
  /\ pc' \in {"merge", "split"} => HandSpans' = {HandSpan(cur'.base, cur'.size)}
  /\ pc' \notin {"merge", "split"} => HandSpans' = {}
BY DEF HeldSpans, HandSpans, RelSpans, PendingSpans, NestedSpans, HandSpan

\* One span changes hands, whole or in part.
LEMMA Handover ==
  ASSUME Parts, NEW o \in Spans, NEW n, IsSpan(n), o.lo <= n.lo, n.hi <= o.hi,
         Spans' \subseteq (Spans \ {o}) \cup {n}
  PROVE  Disjoint(Spans')
<1>1. Disjoint(Spans) /\ \A s \in Spans : IsSpan(s)
  BY Families
<1>2. \A t \in Spans \ {o} : Apart(n, t)
  BY <1>1, PartApart
<1> QED
  BY <1>1, <1>2 DEF Disjoint, Apart

\* A pointer that alloc takes from a list is not held.
LEMMA FreshPointer ==
  ASSUME Parts, NEW o \in Spans, o.who # "held", NEW h \in held
  PROVE  h.ptr # o.lo
<1>1. HeldSpan(h.ptr, h.layout) \in HeldSpans
  BY DEF HeldSpans, HeldSpan
<1>2. IsSpan(HeldSpan(h.ptr, h.layout)) /\ HeldSpan(h.ptr, h.layout).who = "held"
  BY <1>1, Families
<1>3. HeldSpan(h.ptr, h.layout) \in Spans /\ HeldSpan(h.ptr, h.layout) # o
  BY <1>1, <1>2 DEF Spans, Given
<1>4. Apart(HeldSpan(h.ptr, h.layout), o) /\ IsSpan(o)
  BY <1>3, Families DEF Disjoint
<1>5. HeldSpan(h.ptr, h.layout).lo = h.ptr
  BY DEF HeldSpan, Span
<1> QED
  BY <1>2, <1>4, <1>5 DEF IsSpan, Apart

\* Memory in somebody's hands is on no list.
LEMMA NotListed ==
  ASSUME Parts, NEW o \in Spans, o.who # "free",
         NEW g \in G, NEW c \in Int, o.lo <= c, c < o.hi
  PROVE  c \notin llists[g]
<1>1. SUFFICES ASSUME c \in llists[g] PROVE FALSE
  OBVIOUS
<1> DEFINE f == FreeSpan(g, c)
<1>2. f \in FreeSpans
  BY <1>1, FreeMember DEF Parts
<1>3. f.who = "free" /\ f.lo = c /\ f.hi = c + Sz(g) /\ Sz(g) \in Nat \ {0}
  BY Sizes DEF FreeSpan, Span
<1>4. f \in Spans /\ f # o
  BY <1>2, <1>3 DEF Spans, Given
<1>5. Apart(f, o) /\ IsSpan(o)
  BY <1>4, Families DEF Disjoint
<1> QED
  BY <1>3, <1>5 DEF Apart, IsSpan

\* A span is divided between two owners.
LEMMA Division ==
  ASSUME Parts, NEW o \in Spans, NEW m, NEW n, IsSpan(m), IsSpan(n),
         o.lo <= m.lo, m.hi <= n.lo, n.hi <= o.hi,
         Spans' \subseteq (Spans \ {o}) \cup {m, n}
  PROVE  Disjoint(Spans')
<1>1. Disjoint(Spans) /\ IsSpan(o) /\ \A s \in Spans : IsSpan(s)
  BY Families
<1>2. o.lo <= n.lo /\ m.hi <= o.hi
  BY <1>1 DEF IsSpan
<1>3. \A t \in Spans \ {o} : Apart(m, t) /\ Apart(n, t)
  BY <1>1, <1>2, PartApart
<1>4. Apart(m, n) /\ Apart(n, m)
  BY DEF Apart
<1> QED
  BY <1>1, <1>3, <1>4 DEF Disjoint, Apart

(***************************************************************************)
(* alloc, dealloc and shrink: one lemma per action.                        *)
(***************************************************************************)
LEMMA StepAllocExact ==
  ASSUME Parts, NEW layout \in Layouts, AllocExact(layout)
  PROVE  Parts'
<1> DEFINE size == layout_to_size(layout)
           g == block_granularity(FirstArena, size)
<1>0. arena = FirstArena /\ arena' = FirstArena /\ pc = "idle"
  BY DEF Parts, AllocExact
<1>1. g \in G /\ size = Sz(g)
  BY <1>0, LayoutBlock DEF AllocExact
<1>2. PICK base \in llists[g] :
        /\ RemoveBlock(g, bitmap_offset(arena, base, size), base)
        /\ held' = held \cup {[ptr |-> base, layout |-> layout]}
  BY <1>0 DEF AllocExact
<1>3. UNCHANGED <<arena, pending, pc, cur, want, rel, todo>> /\ err' = 0
  BY DEF AllocExact
<1>4. bitmap_offset(arena, base, size) = Off(g, base)
  BY <1>0, <1>1 DEF Off
<1> HIDE DEF g, size
<1>5. BooksAgree'
  BY <1>1, <1>2, <1>4, RemoveKeepsBooks DEF Parts
<1>6. base \in Blk(g) /\ base \in Int
  BY <1>1, <1>2 DEF Parts, BooksAgree
<1> DEFINE o == FreeSpan(g, base)
           n == HeldSpan(base, layout)
<1>7. o \in FreeSpans /\ FreeSpans' \subseteq FreeSpans \ {o}
  BY <1>0, <1>1, <1>2, FreeRemoved
<1>8. HeldSpans' \subseteq HeldSpans \cup {n}
  BY <1>2, HeldAdded
<1>9. /\ o.who = "free" /\ o.lo = base /\ o.hi = base + Sz(g)
      /\ n.lo = base /\ n.hi = base + Sz(g)
  BY <1>1 DEF FreeSpan, HeldSpan, Span, size
<1>10. o \in Spans /\ IsSpan(o) /\ IsSpan(n)
  BY <1>7, <1>9, Families DEF Spans, Given, IsSpan
<1>11. Disjoint(Spans')
  <2> HIDE DEF o, n
  <2>1. Spans' \subseteq (Spans \ {o}) \cup {n}
    BY <1>3, <1>7, <1>8, <1>9, Kept, Families DEF Spans, Given
  <2> QED
    BY <1>6, <1>9, <1>10, <2>1, Handover DEF IsSpan
<1>12. HeldUnique'
  <2>1. \A h \in held : h.ptr # base
    BY <1>9, <1>10, FreshPointer
  <2> QED
    BY <1>2, <2>1 DEF Parts, HeldUnique
<1>13. HeldFit'
  <2>1. layout_to_size(layout) = Sz(g)
    BY <1>1 DEF size
  <2>2. \A h \in held' : h \in held \/ (h.ptr = base /\ h.layout = layout)
    BY <1>2
  <2>3. HeldFit
    BY DEF Parts
  <2> QED
    BY ONLY <1>1, <1>6, <2>1, <2>2, <2>3 DEF HeldFit
<1>14. Locals'
  BY <1>2, <1>3, <1>6 DEF Parts, Locals
<1>15. HandFits' /\ WantFits' /\ ReleaseFits'
  BY <1>3, <1>0 DEF Parts, HandFits, WantFits, ReleaseFits
<1> QED
  BY <1>0, <1>5, <1>11, <1>12, <1>13, <1>14, <1>15 DEF Parts

LEMMA StepAllocLarger ==
  ASSUME Parts, NEW layout \in Layouts, AllocLarger(layout)
  PROVE  Parts'
<1> DEFINE size == layout_to_size(layout)
           g == block_granularity(FirstArena, size)
<1>0. arena = FirstArena /\ arena' = FirstArena /\ pc = "idle"
  BY DEF Parts, AllocLarger, TakeLarger
<1>1. g \in G /\ size = Sz(g)
  BY <1>0, LayoutBlock DEF AllocLarger, TakeLarger
<1>2. PICK lgr \in avails :
        /\ lgr < g
        /\ \E base \in llists[lgr] :
              /\ RemoveBlock(lgr, bitmap_offset(arena, base, BlockSize(arena, lgr)), base)
              /\ cur' = [base |-> base, size |-> BlockSize(arena, lgr), granularity |-> lgr]
  BY <1>0 DEF AllocLarger, TakeLarger
<1>3. /\ UNCHANGED <<arena, held, pending, rel, todo>> /\ err' = 0
      /\ pc' = "split" /\ want' = [size |-> size, layout |-> layout]
  BY DEF AllocLarger, TakeLarger
<1>4. lgr \in G /\ lgr \in Int /\ g \in Int /\ BlockSize(arena, lgr) = Sz(lgr)
  BY <1>0, <1>1, <1>2, Sizes DEF Parts, BooksAgree, Sz
<1>5. PICK base \in llists[lgr] :
        /\ RemoveBlock(lgr, Off(lgr, base), base)
        /\ cur' = [base |-> base, size |-> Sz(lgr), granularity |-> lgr]
  BY <1>0, <1>2, <1>4 DEF Off
<1> HIDE DEF g, size
<1>6. BooksAgree'
  BY <1>4, <1>5, RemoveKeepsBooks, Zenon DEF Parts
<1>7. base \in Blk(lgr) /\ base \in Int /\ Sz(lgr) \in Nat
  BY <1>4, <1>5, Sizes DEF Parts, BooksAgree
<1> DEFINE o == FreeSpan(lgr, base)
           n == HandSpan(base, Sz(lgr))
<1>8. o \in FreeSpans /\ FreeSpans' \subseteq FreeSpans \ {o}
  BY <1>0, <1>4, <1>5, FreeRemoved, Zenon
<1>9. o.lo = base /\ o.hi = base + Sz(lgr) /\ n.lo = base /\ n.hi = base + Sz(lgr) /\ o.who = "free"
  BY DEF FreeSpan, HandSpan, Span
<1>10. o \in Spans /\ IsSpan(n)
  BY <1>8, <1>9, Families DEF Spans, Given, IsSpan
<1>11. HandSpans = {} /\ HandSpans' = {n}
  BY <1>0, <1>3, <1>5, Kept
<1>12. Disjoint(Spans')
  <2> HIDE DEF o, n
  <2>1. Spans' \subseteq (Spans \ {o}) \cup {n}
    BY <1>3, <1>8, <1>9, <1>11, Kept, Families DEF Spans, Given
  <2> QED
    BY <1>7, <1>9, <1>10, <2>1, Handover DEF IsSpan
<1>13. HeldUnique' /\ HeldFit'
  BY <1>3 DEF Parts, HeldUnique, HeldFit
<1>14. Locals'
  BY <1>3, <1>4, <1>5, <1>7 DEF Parts, Locals, Block, size
<1>15. HandFits' /\ WantFits'
  <2>1. cur'.base = base /\ cur'.size = Sz(lgr) /\ cur'.granularity = lgr
    BY <1>5, BlockFields, Zenon
  <2>2. want'.size = size /\ want'.layout = layout
    BY <1>3, WantFields, Zenon
  <2>3. lgr <= g
    BY ONLY <1>2, <1>4
  <2> QED
    BY <1>1, <1>3, <1>4, <1>7, <2>1, <2>2, <2>3, Zenon DEF HandFits, WantFits, size
<1>16. ReleaseFits'
  BY <1>0, <1>3 DEF Parts, ReleaseFits
<1> QED
  BY <1>0, <1>6, <1>12, <1>13, <1>14, <1>15, <1>16 DEF Parts

LEMMA StepAllocErr ==
  ASSUME Parts, NEW layout \in Layouts, AllocErr(layout)
  PROVE  Parts'
<1>1. UNCHANGED <<arena, avails, llists, bitmap, held, pending, pc, cur, want, rel, todo>>
  BY DEF AllocErr, books
<1>2. err' \in Nat
  <2>1. PICK n \in Exponents : layout_to_size(layout) = 2^n
    BY LayoutSize
  <2> QED
    BY <2>1, PowSucc DEF AllocErr
<1>3. BooksAgree'
  BY <1>1 DEF Parts, BooksAgree
<1>4. Locals'
  BY <1>1, <1>2 DEF Parts, Locals
<1>5. HeldFit' /\ HeldUnique' /\ HandFits' /\ WantFits' /\ ReleaseFits'
  BY <1>1 DEF Parts, HeldFit, HeldUnique, HandFits, WantFits, ReleaseFits
<1>6. Spans' = Spans
  BY <1>1, FreeKept, Kept DEF Parts, Spans, Given
<1> QED
  BY <1>1, <1>3, <1>4, <1>5, <1>6 DEF Parts

LEMMA StepSplit ==
  ASSUME Parts, Split
  PROVE  Parts'
<1> DEFINE g == cur.granularity
           s == Sz(g + 1)
           b == cur.base
<1>0. arena = FirstArena /\ arena' = FirstArena /\ pc = "split" /\ pc' = "split"
  BY DEF Parts, Split
<1>1. g \in G /\ cur.size = Sz(g) /\ b \in Blk(g) /\ b \in Int
  BY <1>0 DEF Parts, HandFits, Locals, Block
<1>2. PICK w \in G : want.size = Sz(w) /\ g <= w
  BY <1>0 DEF Parts, WantFits
<1>3. g < w
  BY <1>0, <1>2, Sizes DEF Split
<1>4. g + 1 \in G /\ g + 1 <= w /\ g \in Int
  BY <1>1, <1>2, <1>3, Geometry DEF Exponents
<1>5. s \in Nat \ {0} /\ cur.size = 2 * s /\ cur.size \div 2 = s
  BY <1>1, <1>4, Sizes
<1>6. /\ b \in Blk(g + 1) /\ b + s \in Blk(g + 1)
      /\ Buddy(b, s) = b + s /\ Buddy(b + s, s) = b
  BY <1>1, <1>4, SplitBlock
<1>7. /\ AddBlock(g + 1, Off(g + 1, b + s), b + s)
      /\ cur' = [base |-> b, size |-> s, granularity |-> g + 1]
      /\ UNCHANGED <<arena, held, pending, pc, want, rel, todo, err>>
  BY <1>0, <1>5 DEF Split, Off
<1> DEFINE o == HandSpan(b, 2 * s)
           m == HandSpan(b, s)
           n == FreeSpan(g + 1, b + s)
<1>8. /\ o.who = "hand" /\ o.lo = b /\ o.hi = b + 2 * s
      /\ m.lo = b /\ m.hi = b + s /\ n.lo = b + s /\ n.hi = (b + s) + s
  BY DEF HandSpan, FreeSpan, Span
<1>9. HandSpans = {o} /\ HandSpans' = {m}
  BY <1>0, <1>5, <1>7, Kept
<1>10. o \in Spans /\ IsSpan(m) /\ IsSpan(n)
  <2>1. o \in Spans
    BY <1>9, Members, Zenon
  <2>2. b \in Int
    BY <1>1
  <2> HIDE DEF b, s, o, m, n
  <2> QED
    BY <1>5, <1>8, <2>1, <2>2 DEF IsSpan
<1> HIDE DEF g, s, b, o, m, n
<1>11. b \notin llists[g + 1] /\ b + s \notin llists[g + 1]
  <2>1. b + s \in Int /\ o.lo <= b /\ b < o.hi /\ o.lo <= b + s /\ b + s < o.hi
    BY <1>1, <1>5, <1>8
  <2> QED
    BY <1>1, <1>4, <1>8, <1>10, <2>1, NotListed
<1>12. BooksAgree'
  BY <1>4, <1>6, <1>7, <1>11, AddKeepsBooks DEF Parts, s
<1>13. Disjoint(Spans')
  <2>1. FreeSpans' \subseteq FreeSpans \cup {n}
    BY <1>0, <1>4, <1>7, FreeAdded DEF n
  <2>2. Spans' \subseteq (Spans \ {o}) \cup {m, n}
    BY <1>7, <1>8, <1>9, <2>1, Kept, Families DEF Spans, Given
  <2>3. o.lo <= m.lo /\ m.hi <= n.lo /\ n.hi <= o.hi
    BY <1>1, <1>5, <1>8
  <2> QED
    BY <1>10, <2>2, <2>3, Division
<1>14. HeldUnique' /\ HeldFit'
  BY <1>7 DEF Parts, HeldUnique, HeldFit
<1>15. Locals'
  BY <1>1, <1>4, <1>5, <1>7 DEF Parts, Locals, Block
<1>16. HandFits' /\ WantFits'
  BY <1>0, <1>2, <1>4, <1>6, <1>7 DEF Parts, HandFits, WantFits, s
<1>17. ReleaseFits'
  BY <1>7 DEF Parts, ReleaseFits
<1> QED
  BY <1>0, <1>12, <1>13, <1>14, <1>15, <1>16, <1>17 DEF Parts

LEMMA StepSplitDone ==
  ASSUME Parts, SplitDone
  PROVE  Parts'
<1> DEFINE g == cur.granularity
           b == cur.base
<1>0. arena = FirstArena /\ arena' = FirstArena /\ pc = "split" /\ pc' = "idle"
  BY DEF Parts, SplitDone
<1>1. g \in G /\ cur.size = Sz(g) /\ b \in Blk(g) /\ b \in Int /\ Sz(g) \in Nat \ {0}
  BY <1>0, Sizes DEF Parts, HandFits, Locals, Block
<1>2. PICK w \in G : want.size = Sz(w) /\ g <= w
  BY <1>0 DEF Parts, WantFits
<1>3. g = w
  BY <1>0, <1>1, <1>2, Sizes DEF SplitDone
<1>4. want.layout \in Layouts /\ layout_to_size(want.layout) = Sz(g)
  BY <1>0, <1>2, <1>3 DEF Parts, WantFits
<1>5. /\ held' = held \cup {[ptr |-> b, layout |-> want.layout]}
      /\ cur' = NoBlock /\ want' = NoWant
      /\ UNCHANGED <<arena, avails, llists, bitmap, pending, rel, todo, err>>
  BY DEF SplitDone, books
<1> DEFINE o == HandSpan(b, Sz(g))
           n == HeldSpan(b, want.layout)
<1>6. o.who = "hand" /\ o.lo = b /\ o.hi = b + Sz(g) /\ n.lo = b /\ n.hi = b + Sz(g)
  BY <1>4 DEF HandSpan, HeldSpan, Span
<1>7. HandSpans = {o} /\ HandSpans' = {}
  BY <1>0, <1>1, Kept
<1>8. o \in Spans /\ IsSpan(n)
  BY <1>1, <1>6, <1>7 DEF Spans, Given, IsSpan
<1> HIDE DEF g, b, o, n
<1>9. BooksAgree'
  BY <1>5 DEF Parts, BooksAgree
<1>10. Disjoint(Spans')
  <2>1. HeldSpans' \subseteq HeldSpans \cup {n}
    BY <1>5, HeldAdded DEF n
  <2>2. Spans' \subseteq (Spans \ {o}) \cup {n}
    BY <1>0, <1>5, <1>6, <1>7, <2>1, Kept, FreeKept, Families DEF Spans, Given
  <2> QED
    BY <1>1, <1>6, <1>8, <2>2, Handover DEF IsSpan
<1>11. HeldUnique'
  <2>1. \A h \in held : h.ptr # b
    BY <1>6, <1>8, FreshPointer
  <2> QED
    BY <1>5, <2>1 DEF Parts, HeldUnique
<1>12. HeldFit'
  BY <1>1, <1>4, <1>5 DEF Parts, HeldFit
<1>13. Locals'
  <2>1. held' \subseteq [ptr : Int, layout : Layouts]
    <3>1. [ptr |-> b, layout |-> want.layout] \in [ptr : Int, layout : Layouts]
      BY ONLY <1>1, <1>4
    <3> QED
      BY <1>5, <3>1, Zenon DEF Parts, Locals
  <2>2. cur' \in Block
    BY <1>5, NoBlockTyped, Zenon
  <2> QED
    BY <1>0, <1>5, <2>1, <2>2, Zenon DEF Parts, Locals
<1>14. HandFits' /\ WantFits' /\ ReleaseFits'
  BY <1>0, <1>5 DEF Parts, HandFits, WantFits, ReleaseFits
<1> QED
  BY <1>0, <1>9, <1>10, <1>11, <1>12, <1>13, <1>14 DEF Parts

\* A caller's block comes into the hands of a method.
LEMMA TakeHeld ==
  ASSUME Parts, NEW h \in held, pc = "idle", held' = held \ {h},
         NEW s, s = layout_to_size(h.layout),
         cur' = [base |-> h.ptr, size |-> s, granularity |-> block_granularity(arena, s)],
         pc' \in {"merge", "split"},
         UNCHANGED <<arena, avails, llists, bitmap, pending, rel, todo>>
  PROVE  /\ arena' = FirstArena /\ BooksAgree' /\ HeldFit' /\ HeldUnique' /\ HandFits'
         /\ ReleaseFits' /\ Disjoint(Spans')
         /\ cur' \in Block /\ s \in Nat /\ block_granularity(arena, s) \in G
         /\ Sz(block_granularity(arena, s)) = s
<1>1. PICK g \in G : s = Sz(g) /\ h.ptr \in Blk(g)
  BY DEF Parts, HeldFit
<1>2. block_granularity(arena, s) = g /\ Sz(g) \in Nat \ {0} /\ h.ptr \in Int /\ g \in Int
  <2>1. h.ptr \in Int
    BY <1>1, Blocks
  <2>2. Sz(g) \in Nat \ {0} /\ g \in Nat /\ block_granularity(FirstArena, Sz(g)) = g
    BY <1>1, Sizes
  <2> QED
    BY <1>1, <2>1, <2>2 DEF Parts
<1> DEFINE o == HeldSpan(h.ptr, h.layout)
           n == HandSpan(h.ptr, s)
<1>3. o.who = "held" /\ o.lo = h.ptr /\ o.hi = h.ptr + s /\ n.lo = h.ptr /\ n.hi = h.ptr + s
  BY DEF HandSpan, HeldSpan, Span
<1>4. o \in HeldSpans /\ HeldSpans' \subseteq HeldSpans \ {o}
  BY HeldRemoved
<1>5. HandSpans = {} /\ HandSpans' = {n}
  BY Kept
<1>6. o \in Spans /\ IsSpan(n)
  <2>1. o \in Spans
    BY <1>4, Members, Zenon
  <2> HIDE DEF o, n
  <2> QED
    BY <1>1, <1>2, <1>3, <2>1 DEF IsSpan
<1> HIDE DEF o, n
<1>7. Disjoint(Spans')
  <2>1. Spans' \subseteq (Spans \ {o}) \cup {n}
    BY <1>3, <1>4, <1>5, Kept, FreeKept, Families DEF Parts, Spans, Given
  <2> QED
    BY <1>1, <1>2, <1>3, <1>6, <2>1, Handover DEF IsSpan
<1>8. BooksAgree' /\ HeldFit' /\ HeldUnique'
  BY DEF Parts, BooksAgree, HeldFit, HeldUnique
<1>9. HandFits' /\ cur' \in Block
  BY <1>1, <1>2 DEF HandFits, Block
<1>10. ReleaseFits'
  BY DEF Parts, ReleaseFits
<1> QED
  BY <1>1, <1>2, <1>7, <1>8, <1>9, <1>10 DEF Parts

LEMMA StepDealloc ==
  ASSUME Parts, NEW h \in held, Dealloc(h)
  PROVE  Parts'
<1>1. /\ pc = "idle" /\ held' = held \ {h} /\ pc' = "merge" /\ err' = 0
      /\ cur' = [base |-> h.ptr, size |-> layout_to_size(h.layout),
                 granularity |-> block_granularity(arena, layout_to_size(h.layout))]
      /\ UNCHANGED <<arena, avails, llists, bitmap, pending, want, rel, todo>>
  BY DEF Dealloc, books
<1>2. /\ arena' = FirstArena /\ BooksAgree' /\ HeldFit' /\ HeldUnique' /\ HandFits'
      /\ ReleaseFits' /\ Disjoint(Spans') /\ cur' \in Block
  BY <1>1, TakeHeld
<1>3. Locals' /\ WantFits'
  BY <1>1, <1>2 DEF Parts, Locals, WantFits
<1> QED
  BY <1>2, <1>3 DEF Parts

LEMMA StepShrink ==
  ASSUME Parts, NEW h \in held, NEW layout \in Layouts, Shrink(h, layout)
  PROVE  Parts'
<1> DEFINE old_size == layout_to_size(h.layout)
           new_size == layout_to_size(layout)
<1>0. /\ pc = "idle" /\ err' = 0
      /\ UNCHANGED <<arena, avails, llists, bitmap, pending, rel, todo>>
  BY DEF Shrink, books
<1>1. CASE new_size = old_size /\ held' = (held \ {h}) \cup {[ptr |-> h.ptr, layout |-> layout]}
           /\ UNCHANGED <<pc, cur, want>>
  <2>1. HeldSpans' \subseteq HeldSpans
    BY <1>1 DEF HeldSpans
  <2>2. Spans' \subseteq Spans
    BY <1>0, <1>1, <2>1, Kept, FreeKept DEF Parts, Spans, Given
  <2>3. Disjoint(Spans')
    BY <2>2 DEF Parts, Disjoint
  <2>4. BooksAgree' /\ ReleaseFits' /\ HandFits' /\ WantFits'
    BY <1>0, <1>1 DEF Parts, BooksAgree, ReleaseFits, HandFits, WantFits
  <2>5. HeldUnique' /\ HeldFit'
    BY <1>1 DEF Parts, HeldUnique, HeldFit
  <2>6. Locals'
    BY <1>0, <1>1 DEF Parts, Locals
  <2> QED
    BY <1>0, <2>3, <2>4, <2>5, <2>6 DEF Parts
<1>2. CASE /\ new_size < old_size /\ held' = held \ {h} /\ pc' = "split"
           /\ cur' = [base |-> h.ptr, size |-> old_size,
                      granularity |-> block_granularity(arena, old_size)]
           /\ want' = [size |-> new_size, layout |-> layout]
  <2>1. /\ arena' = FirstArena /\ BooksAgree' /\ HeldFit' /\ HeldUnique' /\ HandFits'
        /\ ReleaseFits' /\ Disjoint(Spans') /\ cur' \in Block
        /\ old_size \in Nat /\ block_granularity(arena, old_size) \in G
        /\ Sz(block_granularity(arena, old_size)) = old_size
    BY <1>0, <1>2, TakeHeld
  <2>2. Locals'
    BY <1>0, <1>2, <2>1 DEF Parts, Locals
  <2>3. WantFits'
    <3> DEFINE g == block_granularity(arena, old_size)
               w == block_granularity(FirstArena, new_size)
    <3>1. g \in G /\ old_size = Sz(g)
      BY <2>1
    <3>2. old_size <= FirstArena.size /\ FirstArena.size \in Nat
      <4>1. PICK k \in G : old_size = Sz(k) /\ h.ptr \in Blk(k)
        BY DEF Parts, HeldFit
      <4> QED
        BY SMTT(30), <2>1, <4>1, Blocks, Geometry
    <3>3. new_size \in Nat
      <4>1. PICK n \in Exponents : new_size = 2^n
        BY LayoutSize
      <4> QED
        BY <4>1, PowSucc
    <3>4. w \in G /\ new_size = Sz(w)
      <4>1. new_size < old_size /\ old_size \in Nat
        BY <1>2, <2>1
      <4>2. new_size <= FirstArena.size
        <5> HIDE DEF new_size, old_size
        <5> QED
          BY ONLY <3>2, <3>3, <4>1
      <4> QED
        BY <4>2, LayoutBlock
    <3> HIDE DEF g, w, old_size, new_size
    <3>5. top - w \in 0..WordBits /\ top - g \in 0..WordBits /\ top - w < top - g
      <4>1. Sz(w) = 2^(top - w) /\ Sz(g) = 2^(top - g) /\ top - w \in Exponents /\ top - g \in Exponents
        BY <3>1, <3>4, Sizes
      <4>2. top - w \in 0..WordBits /\ top - g \in 0..WordBits
        BY <4>1, PowersOfTwo DEF Exponents
      <4> QED
        BY <1>2, <3>1, <3>4, <4>1, <4>2, PowLess
    <3>6. g <= w
      BY <3>1, <3>4, <3>5, Geometry DEF Exponents
    <3> QED
      BY <1>2, <3>4, <3>6 DEF WantFits, g, new_size
  <2> QED
    BY <2>1, <2>2, <2>3 DEF Parts
<1> QED
  BY <1>1, <1>2 DEF Shrink

LEMMA StepMerge ==
  ASSUME Parts, Merge
  PROVE  Parts'
<1> DEFINE g == cur.granularity
           s == Sz(g)
           b == cur.base
           c == Buddy(b, s)
           lower == IF is_lower_buddy(b, s) THEN b ELSE c
           upper == IF is_lower_buddy(b, s) THEN c ELSE b
<1>0. arena = FirstArena /\ arena' = FirstArena /\ pc = "merge" /\ pc' = "merge"
  BY DEF Parts, Merge
<1>1. g \in G /\ cur.size = s /\ b \in Blk(g) /\ b \in Int /\ s \in Nat \ {0}
  BY <1>0, Sizes DEF Parts, HandFits, Locals, Block
<1>2. /\ Off(g, b) \in bitmap
      /\ RemoveBlock(g, Off(g, b), c)
      /\ cur' = [base |-> lower, size |-> 2 * s, granularity |-> g - 1]
      /\ UNCHANGED <<arena, held, pending, pc, want, rel, todo, err>>
  BY <1>0, <1>1 DEF Merge, Off
<1> DEFINE o == HandSpan(b, s)
           f == FreeSpan(g, c)
           n == HandSpan(lower, 2 * s)
<1>3. HandSpans = {o} /\ HandSpans' = {n}
  BY <1>0, <1>1, <1>2, Kept
<1>4. /\ o.who = "hand" /\ o.lo = b /\ o.hi = b + s /\ n.lo = lower /\ n.hi = lower + 2 * s
      /\ f.who = "free" /\ f.lo = c /\ f.hi = c + s
  BY DEF HandSpan, FreeSpan, Span
<1>5. o \in Spans
  BY <1>3, Members, Zenon
<1>6. b \notin llists[g]
  <2>1. o.lo <= b /\ b < o.hi
    BY <1>1, <1>4
  <2> QED
    BY <1>1, <1>4, <1>5, <2>1, NotListed, Zenon
<1>7. c \in llists[g] /\ c \in Blk(g)
  BY <1>1, <1>2, <1>6 DEF Parts, BooksAgree
<1>8. /\ upper = lower + s
      /\ g # 0 /\ g - 1 \in G /\ Sz(g - 1) = 2 * s
      /\ lower \in Blk(g - 1)
  BY <1>1, <1>7, MergeBlock
<1>9. /\ c \in Int /\ lower \in Int /\ g - 1 \in Int /\ 2 * s \in Nat
      /\ (lower = b /\ upper = c) \/ (lower = c /\ upper = b)
  <2>1. (lower = b /\ upper = c) \/ (lower = c /\ upper = b)
    OBVIOUS
  <2>2. c \in Int /\ g \in Int
    BY <1>1, <1>7, Blocks, Geometry DEF Exponents
  <2> HIDE DEF c, s, g, lower, upper
  <2> QED
    BY <1>1, <2>1, <2>2
<1>10. Off(g, b) = Off(g, c)
  <2>1. c = Buddy(b, Sz(g))
    OBVIOUS
  <2> HIDE DEF c, g, b
  <2> QED
    BY <1>1, <1>7, <2>1, BuddyFlag, Zenon
<1>11. BooksAgree'
  BY <1>1, <1>2, <1>7, <1>10, RemoveKeepsBooks, Zenon DEF Parts
<1>12. f \in FreeSpans /\ FreeSpans' \subseteq FreeSpans \ {f}
  BY <1>0, <1>1, <1>2, <1>7, FreeRemoved
<1>13. f \in Spans
  BY <1>12 DEF Spans, Given
<1>14. \/ o.lo = lower /\ f.hi = lower + 2 * s /\ o.hi = f.lo
       \/ f.lo = lower /\ o.hi = lower + 2 * s /\ f.hi = o.lo
  <2> HIDE DEF b, c, s, lower, upper, o, f
  <2>1. \/ lower = b /\ c = b + s
        \/ lower = c /\ b = c + s
    BY <1>8, <1>9
  <2> QED
    BY <1>1, <1>4, <1>9, <2>1
<1> HIDE DEF g, s, b, c, lower, upper, o, f, n
<1>15. IsSpan(n)
  BY <1>1, <1>4, <1>9 DEF IsSpan
<1>16. Disjoint(Spans')
  <2>1. Spans' \subseteq (Spans \ {o, f}) \cup {n}
    BY ZenonT(30), <1>2, <1>3, <1>4, <1>12, Kept, Families DEF Spans, Given
  <2>2. Disjoint(Spans) /\ \A t \in Spans : IsSpan(t)
    BY Families
  <2>3. o # f
    BY <1>4
  <2>4. \A t \in Spans \ {o, f} : Apart(n, t)
    <3>1. CASE o.lo = lower /\ f.hi = lower + 2 * s /\ o.hi = f.lo
      BY <1>4, <1>5, <1>13, <1>15, <2>2, <2>3, <3>1, UnionApart
    <3>2. CASE f.lo = lower /\ o.hi = lower + 2 * s /\ f.hi = o.lo
      <4>1. \A t \in Spans \ {f, o} : Apart(n, t)
        BY <1>4, <1>5, <1>13, <1>15, <2>2, <2>3, <3>2, UnionApart
      <4> QED
        BY <4>1
    <3> QED
      BY <1>14, <3>1, <3>2
  <2> QED
    BY SMTT(30), <2>1, <2>2, <2>4 DEF Disjoint, Apart
<1>17. HeldUnique' /\ HeldFit' /\ ReleaseFits'
  BY <1>2 DEF Parts, HeldUnique, HeldFit, ReleaseFits
<1>18. Locals'
  BY <1>2, <1>9 DEF Parts, Locals, Block
<1>19. HandFits' /\ WantFits'
  BY <1>0, <1>2, <1>8 DEF HandFits, WantFits
<1> QED
  BY <1>0, <1>11, <1>16, <1>17, <1>18, <1>19 DEF Parts

LEMMA StepMergeDone ==
  ASSUME Parts, MergeDone
  PROVE  Parts'
<1> DEFINE g == cur.granularity
           s == Sz(g)
           b == cur.base
<1>0. arena = FirstArena /\ arena' = FirstArena /\ pc = "merge"
  BY DEF Parts, MergeDone
<1>1. g \in G /\ cur.size = s /\ b \in Blk(g) /\ b \in Int /\ s \in Nat \ {0}
  BY <1>0, Sizes DEF Parts, HandFits, Locals, Block
<1>2. /\ Off(g, b) \notin bitmap
      /\ AddBlock(g, Off(g, b), b)
      /\ cur' = NoBlock
      /\ pc' = IF rel.on THEN "release" ELSE "idle"
      /\ UNCHANGED <<arena, held, pending, want, rel, todo, err>>
  BY <1>0, <1>1 DEF MergeDone, Off
<1> DEFINE o == HandSpan(b, s)
           n == FreeSpan(g, b)
<1>3. HandSpans = {o} /\ HandSpans' = {}
  BY <1>0, <1>1, <1>2, Kept
<1>4. o.who = "hand" /\ o.lo = b /\ o.hi = b + s /\ n.lo = b /\ n.hi = b + s
  BY DEF HandSpan, FreeSpan, Span
<1>5. o \in Spans /\ IsSpan(n)
  BY SMTT(30), <1>1, <1>3, <1>4 DEF Spans, Given, IsSpan
<1>6. b \notin llists[g]
  <2>1. o.lo <= b /\ b < o.hi
    BY <1>1, <1>4
  <2> QED
    BY <1>1, <1>4, <1>5, <2>1, NotListed, Zenon
<1>7. Buddy(b, s) \notin llists[g]
  BY <1>1, <1>2, <1>6 DEF Parts, BooksAgree
<1>8. BooksAgree'
  BY <1>1, <1>2, <1>6, <1>7, AddKeepsBooks DEF Parts
<1>9. FreeSpans' \subseteq FreeSpans \cup {n}
  BY <1>0, <1>1, <1>2, FreeAdded
<1> HIDE DEF g, s, b, o, n
<1>10. Disjoint(Spans')
  <2>1. Spans' \subseteq (Spans \ {o}) \cup {n}
    BY <1>2, <1>3, <1>4, <1>9, Kept, Families DEF Spans, Given
  <2> QED
    BY <1>1, <1>4, <1>5, <2>1, Handover DEF IsSpan
<1>11. HeldUnique' /\ HeldFit'
  BY <1>2 DEF Parts, HeldUnique, HeldFit
<1>12. Locals'
  BY <1>2 DEF Parts, Locals, Block, NoBlock
<1>13. HandFits' /\ WantFits'
  BY <1>2 DEF HandFits, WantFits
<1>14. ReleaseFits'
  BY <1>0, <1>2 DEF Parts, ReleaseFits
<1> QED
  BY <1>0, <1>8, <1>10, <1>11, <1>12, <1>13, <1>14 DEF Parts
=============================================================================
