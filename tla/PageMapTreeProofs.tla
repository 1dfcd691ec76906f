------------------------- MODULE PageMapTreeProofs --------------------------
(***************************************************************************)
(* Proofs about the tables of PageMap, for any number of levels, entries   *)
(* and frames and any requests: they form a tree, every table has its part *)
(* of the address space, and so have the running loops.                    *)
(***************************************************************************)
EXTENDS PageMap, WellFoundedInduction, TLAPS

(***************************************************************************)
(* Numbers: the slots of a region, and the sizes of pages.                 *)
(***************************************************************************)

\* A set of naturals that is not empty has a least element: what the arguments
\* by induction over the levels and over the running loops come down to.
LEMMA LeastNumber ==
  ASSUME NEW S, S \subseteq Nat, S # {}
  PROVE  \E x \in S : \A y \in S : x <= y
<1> DEFINE R == OpToRel(<, Nat)
<1>1. IsWellFoundedOn(R, Nat)
  BY NatLessThanWellFounded, Zenon
<1>2. \A x, y \in Nat : x < y => <<x, y>> \in R
  BY DEF OpToRel
<1> HIDE DEF R
<1>3. PICK x \in S : \A y \in S : ~(<<y, x>> \in R)
  BY <1>1, WFMin, Zenon
<1>4. \A y \in S : ~(y < x)
  BY <1>2, <1>3, Zenon
<1> QED
  BY <1>4

LEMMA TimesLess ==
  ASSUME NEW a \in Int, NEW b \in Int, NEW s \in Nat \ {0}, a * s < b * s
  PROVE  a < b
<1> SUFFICES ASSUME b <= a PROVE FALSE
  OBVIOUS
<1>1. (a - b) * s >= 0
  OBVIOUS
<1> QED
  BY <1>1

\* The fields of an entry that leads to another table.
LEMMA BranchFields ==
  ASSUME NEW e, NEW f, e = [kind |-> "branch", frame |-> f]
  PROVE  e.kind = "branch" /\ e.frame = f
OBVIOUS

LEMMA Remainder ==
  ASSUME NEW F \in Nat \ {0}, NEW k \in Nat, NEW j \in 0..(F - 1)
  PROVE  (F * k + j) % F = j
<1> DEFINE q == F * k + j
           d == q \div F
           r == q % F
<1>1. q \in Nat
  OBVIOUS
<1> HIDE DEF q
<1>2. d \in Nat /\ r \in 0..(F - 1) /\ q = F * d + r
  BY <1>1
<1> HIDE DEF d, r
<1>3. d * F < (k + 1) * F /\ k * F < (d + 1) * F
  BY <1>2 DEF q
<1>4. d = k
  BY <1>2, <1>3, TimesLess
<1> QED
  BY <1>2, <1>4 DEF q, r

LEMMA Multiple ==
  ASSUME NEW d \in Nat \ {0}, NEW a \in Nat, NEW b \in Nat, a % d = 0, b % d = 0
  PROVE  /\ (a + b) % d = 0
         /\ b < a + d => b <= a
<1> DEFINE x == a \div d
           y == b \div d
<1>1. x \in Nat /\ y \in Nat /\ a = d * x /\ b = d * y
  OBVIOUS
<1> HIDE DEF x, y
<1>2. (a + b) % d = 0
  <2> DEFINE z == x + y
  <2>1. z \in Nat /\ a + b = d * z + 0
    BY <1>1
  <2> HIDE DEF z
  <2>2. 0 \in 0..(d - 1)
    OBVIOUS
  <2>3. (d * z + 0) % d = 0
    BY <2>1, <2>2, Remainder, Zenon
  <2> QED
    BY <2>1, <2>3
<1>3. ASSUME b < a + d PROVE b <= a
  <2>1. y * d < (x + 1) * d
    BY <1>1, <1>3
  <2>2. y < x + 1
    BY <1>1, <2>1, TimesLess
  <2>3. (x - y) * d >= 0
    BY <1>1, <2>2
  <2> QED
    BY <1>1, <2>3
<1> QED
  BY <1>2, <1>3

\* A region of F slots of s bytes: the slot of an address of the region.
LEMMA Slot ==
  ASSUME NEW B \in Nat, NEW s \in Nat \ {0}, NEW F \in Nat \ {0}, NEW p \in Nat,
         B % (F * s) = 0, B <= p, p < B + F * s
  PROVE  /\ (p \div s) % F \in 0..(F - 1)
         /\ B + ((p \div s) % F) * s <= p
         /\ p < B + ((p \div s) % F) * s + s
<1> DEFINE q == p \div s
           w == F * s
           k == B \div w
<1>1. w \in Nat \ {0}
  OBVIOUS
<1>2. q \in Nat /\ q * s <= p /\ p < q * s + s
  OBVIOUS
<1> HIDE DEF w
<1>3. k \in Nat /\ B = w * k
  BY <1>1 DEF w
<1> HIDE DEF q, k
<1> DEFINE m == F * k
<1>4. m \in Nat /\ B = m * s
  BY <1>3 DEF w
<1>5. m * s < (q + 1) * s /\ q * s < (m + F) * s
  BY <1>2, <1>4
<1> DEFINE j == q - m
<1>6. j \in 0..(F - 1) /\ q = m + j
  <2> HIDE DEF m
  <2>1. m < q + 1 /\ q < m + F
    BY <1>2, <1>4, <1>5, TimesLess
  <2> QED
    BY <1>2, <1>4, <2>1
<1> HIDE DEF j
<1>7. q % F = j
  BY <1>3, <1>6, Remainder
<1>8. B + j * s <= p /\ p < B + j * s + s
  <2>1. q * s = m * s + j * s
    BY <1>4, <1>6
  <2> QED
    BY <1>2, <1>4, <2>1
<1> QED
  BY <1>6, <1>7, <1>8 DEF q

\* The slots are apart.
LEMMA SlotsApart ==
  ASSUME NEW B \in Nat, NEW s \in Nat \ {0}, NEW p \in Nat, NEW i \in Nat, NEW j \in Nat,
         B + i * s <= p, p < B + i * s + s, B + j * s <= p, p < B + j * s + s
  PROVE  i = j
<1>1. i * s < (j + 1) * s /\ j * s < (i + 1) * s
  OBVIOUS
<1> QED
  BY <1>1, TimesLess

\* The sizes of pages: each level has pages Fanout times as large.
LEMMA PageSizes ==
  /\ page_size(1) = PTE_SIZE
  /\ \A l \in 1..(PML4_LVL + 1) : page_size(l) \in Nat \ {0} /\ page_size(l) % PTE_SIZE = 0
  /\ \A l \in Levels : page_size(l + 1) = Fanout * page_size(l)
<1>1. page_size(1) = PTE_SIZE
  <2>1. 1 - 1 = 0
    OBVIOUS
  <2>2. PTE_SIZE * 1 = PTE_SIZE
    BY PageMapArguments
  <2> QED
    BY Zenon, <2>1, <2>2, PowersOfFanout DEF page_size
<1>2. ASSUME NEW l \in 1..(PML4_LVL + 1)
      PROVE  page_size(l) \in Nat \ {0} /\ page_size(l) % PTE_SIZE = 0
  <2> DEFINE n == l - 1
             f == Fanout^n
  <2>1. n \in 0..PML4_LVL
    BY PageMapArguments
  <2>2. f \in Nat \ {0}
    BY <2>1, PowersOfFanout
  <2>3. page_size(l) = PTE_SIZE * f
    BY DEF page_size
  <2> HIDE DEF f
  <2>4. PTE_SIZE * f \in Nat \ {0}
    BY <2>2, PageMapArguments
  <2>5. (PTE_SIZE * f) % PTE_SIZE = 0
    <3>1. (PTE_SIZE * f + 0) % PTE_SIZE = 0
      BY <2>2, Remainder, PageMapArguments
    <3> QED
      BY <2>4, <3>1
  <2> QED
    BY <2>3, <2>4, <2>5
<1>3. ASSUME NEW l \in Levels
      PROVE  page_size(l + 1) = Fanout * page_size(l)
  <2> DEFINE f == Fanout^(l - 1)
  <2>1. l \in 1..PML4_LVL /\ (l - 1) \in 0..PML4_LVL /\ (l + 1) - 1 = l
    BY PageMapArguments DEF Levels
  <2>2. Fanout^l = Fanout * f /\ f \in Nat
    BY <2>1, PowersOfFanout
  <2>3. page_size(l + 1) = PTE_SIZE * Fanout^l
    BY Zenon, <2>1 DEF page_size
  <2>4. page_size(l) = PTE_SIZE * f
    BY DEF page_size
  <2> HIDE DEF f
  <2>5. PTE_SIZE * (Fanout * f) = Fanout * (PTE_SIZE * f)
    BY <2>2, PageMapArguments
  <2> QED
    BY Zenon, <2>2, <2>3, <2>4, <2>5
<1> QED
  BY <1>1, <1>2, <1>3

\* The part of the address space that a table translates.
Region == [lvl : Levels, base : Nat]
Aligned(r) == r.base % page_size(r.lvl + 1) = 0
Acme(r) == r.base + page_size(r.lvl + 1)
Within(r, p) == r.base <= p /\ p < Acme(r)
SubRegion(r, i) == [lvl |-> r.lvl - 1, base |-> r.base + i * page_size(r.lvl)]

\* The entry that an address of a table's region is looked up in.
LEMMA Lookup ==
  ASSUME NEW r \in Region, Aligned(r), NEW p \in Nat, Within(r, p)
  PROVE  /\ table_index(p, r.lvl) \in Indices
         /\ r.base + table_index(p, r.lvl) * page_size(r.lvl) <= p
         /\ p < r.base + table_index(p, r.lvl) * page_size(r.lvl) + page_size(r.lvl)
<1> DEFINE s == page_size(r.lvl)
<1>1. r.lvl \in Levels /\ r.base \in Nat /\ r.lvl \in 1..(PML4_LVL + 1)
  BY PageMapArguments DEF Region, Levels
<1>2. s \in Nat \ {0} /\ page_size(r.lvl + 1) = Fanout * s
  BY <1>1, PageSizes
<1>3. r.base % (Fanout * s) = 0 /\ r.base <= p /\ p < r.base + Fanout * s
  BY <1>2 DEF Aligned, Within, Acme
<1>4. table_index(p, r.lvl) = (p \div s) % Fanout
  BY DEF table_index
<1> HIDE DEF s
<1>5. /\ (p \div s) % Fanout \in 0..(Fanout - 1)
      /\ r.base + ((p \div s) % Fanout) * s <= p
      /\ p < r.base + ((p \div s) % Fanout) * s + s
  BY <1>1, <1>2, <1>3, Slot, PageMapArguments, Zenon
<1> QED
  BY <1>4, <1>5 DEF s, Indices

\* An entry's part of a region, as a region of the level below.
LEMMA SubRegions ==
  ASSUME NEW r \in Region, Aligned(r), NEW i \in Indices
  PROVE  /\ r.lvl > 1 => SubRegion(r, i) \in Region /\ Aligned(SubRegion(r, i))
         /\ SubRegion(r, i).lvl = r.lvl - 1
         /\ SubRegion(r, i).base = r.base + i * page_size(r.lvl)
         /\ Acme(SubRegion(r, i)) = r.base + i * page_size(r.lvl) + page_size(r.lvl)
         /\ r.base + i * page_size(r.lvl) \in Nat
         /\ (r.base + i * page_size(r.lvl)) % page_size(r.lvl) = 0
         /\ r.base + i * page_size(r.lvl) + page_size(r.lvl) <= Acme(r)
<1> DEFINE s == page_size(r.lvl)
           b == r.base + i * page_size(r.lvl)
<1>1. r.lvl \in Levels /\ r.base \in Nat /\ r.lvl \in 1..(PML4_LVL + 1)
  BY PageMapArguments DEF Region, Levels
<1>2. s \in Nat \ {0} /\ page_size(r.lvl + 1) = Fanout * s
  BY <1>1, PageSizes
<1>3. r.base % (Fanout * s) = 0 /\ Acme(r) = r.base + Fanout * s
  BY <1>2 DEF Aligned, Acme
<1>4. b = r.base + i * s /\ i \in Nat /\ i + 1 <= Fanout /\ Fanout \in Nat \ {0}
  BY PageMapArguments DEF Indices
<1>5. SubRegion(r, i).lvl = r.lvl - 1 /\ SubRegion(r, i).base = b
  BY DEF SubRegion
<1>6. (r.lvl - 1) + 1 = r.lvl
  BY <1>1, PageMapArguments DEF Levels
<1>7. Acme(SubRegion(r, i)) = b + s
  BY Zenon, <1>5, <1>6 DEF Acme
<1>8. Aligned(SubRegion(r, i)) <=> b % s = 0
  BY Zenon, <1>5, <1>6 DEF Aligned
<1>9. b \in Nat
  <2> HIDE DEF s, b
  <2> QED
    BY <1>1, <1>2, <1>4
<1>10. r.lvl > 1 => SubRegion(r, i) \in Region
  <2> HIDE DEF s, b
  <2>1. r.lvl > 1 => r.lvl - 1 \in Levels
    BY <1>1, PageMapArguments DEF Levels
  <2> QED
    BY <1>5, <1>9, <2>1 DEF SubRegion, Region
<1>11. b % s = 0
  <2> HIDE DEF s, b
  <2> DEFINE w == Fanout * s
             k == r.base \div w
             m == Fanout * k + i
  <2>1. w \in Nat \ {0}
    BY <1>2, <1>4
  <2> HIDE DEF w
  <2>2. k \in Nat /\ r.base = w * k
    BY <1>1, <1>3, <2>1 DEF w
  <2> HIDE DEF k
  <2>3. m \in Nat /\ b = s * m
    BY <1>2, <1>4, <2>2 DEF w
  <2> HIDE DEF m
  <2>4. (s * m + 0) % s = 0
    BY <1>2, <2>3, Remainder
  <2> QED
    BY <1>2, <2>3, <2>4
<1>12. b + s <= Acme(r)
  <2> HIDE DEF s, b
  <2>1. (i + 1) * s <= Fanout * s
    <3>1. (Fanout - (i + 1)) * s >= 0
      BY <1>2, <1>4
    <3> QED
      BY <1>2, <1>4, <3>1
  <2> QED
    BY <1>1, <1>2, <1>3, <1>4, <2>1
<1> QED
  BY <1>5, <1>7, <1>8, <1>9, <1>10, <1>11, <1>12

\* An address of an entry's part is looked up in that entry.
LEMMA LookupIs ==
  ASSUME NEW r \in Region, Aligned(r), NEW p \in Nat, NEW i \in Indices,
         r.base + i * page_size(r.lvl) <= p, p < r.base + i * page_size(r.lvl) + page_size(r.lvl)
  PROVE  Within(r, p) /\ table_index(p, r.lvl) = i
<1> DEFINE s == page_size(r.lvl)
           j == table_index(p, r.lvl)
<1>1. s \in Nat \ {0} /\ r.base \in Nat /\ i \in Nat /\ i * s \in Nat
  BY PageSizes, PageMapArguments DEF Region, Levels, Indices
<1>2. Within(r, p)
  <2>1. r.base + i * s + s <= Acme(r) /\ r.base <= r.base + i * s
    BY <1>1, SubRegions
  <2>2. Acme(r) \in Nat
    BY PageSizes, PageMapArguments DEF Region, Levels, Acme
  <2> HIDE DEF s
  <2> QED
    BY <1>1, <2>1, <2>2 DEF Within, s
<1>3. j \in Indices /\ r.base + j * s <= p /\ p < r.base + j * s + s
  BY <1>2, Lookup
<1>4. j \in Nat
  BY <1>3, PageMapArguments DEF Indices
<1> HIDE DEF s, j
<1>5. r.base + i * s <= p /\ p < r.base + i * s + s
  BY DEF s
<1>6. i = j
  BY <1>1, <1>3, <1>4, <1>5, SlotsApart
<1> QED
  BY <1>2, <1>6 DEF j

(***************************************************************************)
(* The tables are a tree.                                                  *)
(***************************************************************************)

\* The tables hold entries, and only for frames that were given out.
Sound ==
  /\ fresh \in 0..MaxFrames
  /\ tables = [t \in DOMAIN tables |-> tables[t]]
  /\ DOMAIN tables \subseteq 0..fresh
  /\ \A t \in DOMAIN tables : tables[t] \in [Indices -> [kind : {"none", "leaf", "branch"}, frame : 0..fresh]]

IInv == Sound /\ TreeShaped

\* A use of a frame, without the set constructor.
LEMMA UsesMember ==
  /\ \A f, t, i : <<t, i>> \in Uses(f) <=> t \in DOMAIN tables /\ i \in Indices /\ tables[t][i].frame = f
  /\ \A f : \A u \in Uses(f) : \E t \in DOMAIN tables, i \in Indices : u = <<t, i>>
BY DEF Uses

LEMMA UsesMemberNext ==
  /\ \A f, t, i : <<t, i>> \in Uses(f)' <=> t \in DOMAIN tables' /\ i \in Indices /\ tables'[t][i].frame = f
  /\ \A f : \A u \in Uses(f)' : \E t \in DOMAIN tables', i \in Indices : u = <<t, i>>
BY DEF Uses, Indices

\* One entry is written, with a frame that was not in use, and a new table is
\* empty: the tree stays a tree.
OneWritten(table, index) ==
  \A t \in DOMAIN tables', i \in Indices :
    \/ t \in DOMAIN tables /\ tables'[t][i] = tables[t][i]
    \/ t = table /\ i = index /\ tables'[t][i].frame = fresh + 1
    \/ tables'[t][i].frame = 0

LEMMA OneEntry ==
  ASSUME IInv, fresh' = fresh + 1, NEW table, NEW index, OneWritten(table, index)
  PROVE  TreeShaped'
<1> USE DEF OneWritten
<1>1. fresh \in Nat /\ \A t \in DOMAIN tables, i \in Indices : tables[t][i].frame \in 0..fresh
  BY DEF IInv, Sound
<1> SUFFICES ASSUME NEW f \in 1..(fresh + 1), NEW u \in Uses(f)', NEW v \in Uses(f)'
             PROVE  u = v
  BY DEF TreeShaped
<1>2. PICK t \in DOMAIN tables', i \in Indices : u = <<t, i>> /\ tables'[t][i].frame = f
  BY UsesMemberNext
<1>3. PICK s \in DOMAIN tables', j \in Indices : v = <<s, j>> /\ tables'[s][j].frame = f
  BY UsesMemberNext
<1>4. f # 0
  BY <1>1
<1>5. CASE f = fresh + 1
  <2>1. ~(t \in DOMAIN tables /\ tables'[t][i] = tables[t][i])
    BY <1>1, <1>2, <1>5
  <2>2. ~(s \in DOMAIN tables /\ tables'[s][j] = tables[s][j])
    BY <1>1, <1>3, <1>5
  <2> QED
    BY <1>2, <1>3, <1>4, <2>1, <2>2
<1>6. CASE f # fresh + 1
  <2>1. t \in DOMAIN tables /\ tables[t][i].frame = f
    BY <1>2, <1>4, <1>6
  <2>2. s \in DOMAIN tables /\ tables[s][j].frame = f
    BY <1>3, <1>4, <1>6
  <2>3. u \in Uses(f) /\ v \in Uses(f) /\ f \in 1..fresh
    BY <1>1, <1>2, <1>3, <1>6, <2>1, <2>2, UsesMember
  <2> QED
    BY <2>3 DEF IInv, TreeShaped
<1> QED
  BY <1>5, <1>6

\* The tables after an entry with a new frame is written.
Put(table, index, kind) ==
  [tables EXCEPT ![table][index] = [kind |-> kind, frame |-> fresh + 1]]

LEMMA Written ==
  ASSUME Sound, fresh < MaxFrames, NEW table, NEW index, NEW kind \in {"leaf", "branch"},
         NEW after, after = Put(table, index, kind)
  PROVE  /\ DOMAIN after = DOMAIN tables
         /\ after = [t \in DOMAIN tables |-> after[t]]
         /\ \A t \in DOMAIN tables :
              after[t] \in [Indices -> [kind : {"none", "leaf", "branch"}, frame : 0..(fresh + 1)]]
         /\ \A t \in DOMAIN tables, i \in Indices :
              \/ after[t][i] = tables[t][i]
              \/ t = table /\ i = index /\ after[t][i].frame = fresh + 1
         /\ table \in DOMAIN tables /\ index \in Indices =>
              after[table][index] = [kind |-> kind, frame |-> fresh + 1]
         /\ \A t \in DOMAIN tables, i \in Indices : (t = table /\ i = index) \/ after[t][i] = tables[t][i]
<1> DEFINE e == [kind |-> kind, frame |-> fresh + 1]
<1>1. fresh \in Nat /\ fresh + 1 \in 0..(fresh + 1)
  BY PageMapArguments DEF Sound
<1>2. e \in [kind : {"none", "leaf", "branch"}, frame : 0..(fresh + 1)] /\ e.frame = fresh + 1
  BY <1>1
<1>3. after = [tables EXCEPT ![table] = [tables[table] EXCEPT ![index] = e]]
  BY DEF Put
<1> HIDE DEF e
<1>4. /\ DOMAIN after = DOMAIN tables /\ after = [t \in DOMAIN tables |-> after[t]]
      /\ \A t \in DOMAIN tables :
           after[t] = IF t = table THEN [tables[table] EXCEPT ![index] = e] ELSE tables[t]
  BY <1>3, Zenon DEF Sound
<1>5. \A t \in DOMAIN tables :
        tables[t] \in [Indices -> [kind : {"none", "leaf", "branch"}, frame : 0..(fresh + 1)]]
  BY <1>1 DEF Sound
<1>6. \A t \in DOMAIN tables :
        after[t] \in [Indices -> [kind : {"none", "leaf", "branch"}, frame : 0..(fresh + 1)]]
  <2> SUFFICES ASSUME NEW t \in DOMAIN tables
               PROVE  after[t] \in [Indices -> [kind : {"none", "leaf", "branch"}, frame : 0..(fresh + 1)]]
    OBVIOUS
  <2> DEFINE E == [kind : {"none", "leaf", "branch"}, frame : 0..(fresh + 1)]
  <2>1. e \in E /\ tables[t] \in [Indices -> E]
    BY <1>2, <1>5
  <2> HIDE DEF E
  <2>2. after[t] \in [Indices -> E]
    BY <1>4, <2>1
  <2> QED
    BY <2>2 DEF E
<1>7. \A t \in DOMAIN tables, i \in Indices :
        \/ after[t][i] = tables[t][i]
        \/ t = table /\ i = index /\ after[t][i].frame = fresh + 1
  <2> SUFFICES ASSUME NEW t \in DOMAIN tables, NEW i \in Indices
               PROVE  \/ after[t][i] = tables[t][i]
                      \/ t = table /\ i = index /\ after[t][i].frame = fresh + 1
    OBVIOUS
  <2>1. DOMAIN tables[t] = Indices
    BY <1>5
  <2> QED
    BY <1>2, <1>4, <2>1
<1>8. /\ table \in DOMAIN tables /\ index \in Indices => after[table][index] = e
      /\ \A t \in DOMAIN tables, i \in Indices : (t = table /\ i = index) \/ after[t][i] = tables[t][i]
  <2>1. \A t \in DOMAIN tables : DOMAIN tables[t] = Indices
    BY <1>5
  <2> QED
    BY <1>4, <2>1
<1> QED
  BY <1>4, <1>6, <1>7, <1>8 DEF e

LEMMA MapLeafKeeps ==
  ASSUME IInv, MapLeaf
  PROVE  IInv'
<1>1. CASE UNCHANGED <<tables, fresh>>
  BY <1>1 DEF IInv, Sound, TreeShaped, Uses
<1> DEFINE table == Top.table
           index == Index
<1> HIDE DEF table, index
<1>2. CASE /\ fresh < MaxFrames /\ fresh' = fresh + 1
           /\ tables' = [tables EXCEPT ![table][index] = [kind |-> "leaf", frame |-> fresh + 1]]
  <2> DEFINE after == Put(table, index, "leaf")
  <2>0. /\ DOMAIN after = DOMAIN tables
        /\ after = [t \in DOMAIN tables |-> after[t]]
        /\ \A t \in DOMAIN tables :
             after[t] \in [Indices -> [kind : {"none", "leaf", "branch"}, frame : 0..(fresh + 1)]]
        /\ \A t \in DOMAIN tables, i \in Indices :
             \/ after[t][i] = tables[t][i]
             \/ t = table /\ i = index /\ after[t][i].frame = fresh + 1
    BY <1>2, Written DEF IInv
  <2>1. tables' = after
    BY <1>2 DEF Put
  <2> HIDE DEF after
  <2>2. Sound'
    <3>1. DOMAIN tables' = DOMAIN tables /\ tables' = [t \in DOMAIN tables' |-> tables'[t]]
      BY <2>0, <2>1
    <3>2. fresh' \in 0..MaxFrames /\ DOMAIN tables \subseteq 0..fresh'
      BY <1>2, PageMapArguments DEF IInv, Sound
    <3>3. \A t \in DOMAIN tables' :
            tables'[t] \in [Indices -> [kind : {"none", "leaf", "branch"}, frame : 0..fresh']]
      BY <1>2, <2>0, <2>1, <3>1, Zenon
    <3> QED
      BY <3>1, <3>2, <3>3 DEF Sound, Indices
  <2>3. OneWritten(table, index)
    BY <2>0, <2>1 DEF OneWritten
  <2>4. TreeShaped'
    BY <1>2, <2>3, OneEntry
  <2> QED
    BY <2>2, <2>4 DEF IInv
<1> QED
  BY <1>1, <1>2 DEF MapLeaf, OutOfFrames, table, index

LEMMA MapBranchKeeps ==
  ASSUME IInv, MapBranch
  PROVE  IInv'
<1>1. CASE UNCHANGED <<tables, fresh>>
  BY <1>1 DEF IInv, Sound, TreeShaped, Uses
<1> DEFINE table == Top.table
           index == Index
<1> HIDE DEF table, index
<1> DEFINE after == Put(table, index, "branch")
           new == fresh + 1
<1>2. CASE /\ fresh < MaxFrames /\ fresh' = fresh + 1
           /\ tables' = [t \in (DOMAIN tables) \cup {new} |-> IF t = new THEN EmptyTable ELSE after[t]]
  <2>1. /\ DOMAIN after = DOMAIN tables
        /\ \A t \in DOMAIN tables :
             after[t] \in [Indices -> [kind : {"none", "leaf", "branch"}, frame : 0..new]]
        /\ \A t \in DOMAIN tables, i \in Indices :
             \/ after[t][i] = tables[t][i]
             \/ t = table /\ i = index /\ after[t][i].frame = new
    BY <1>2, Written DEF IInv
  <2>2. new \in Nat /\ new \notin DOMAIN tables /\ new \in 0..MaxFrames /\ DOMAIN tables \subseteq 0..new
    BY <1>2, PageMapArguments DEF IInv, Sound
  <2> HIDE DEF after
  <2>3. /\ DOMAIN tables' = (DOMAIN tables) \cup {new}
        /\ tables' = [t \in DOMAIN tables' |-> tables'[t]]
        /\ tables'[new] = EmptyTable
        /\ \A t \in DOMAIN tables : tables'[t] = after[t]
    BY <1>2, <2>2
  <2>4. /\ EmptyTable \in [Indices -> [kind : {"none", "leaf", "branch"}, frame : 0..new]]
        /\ \A i \in Indices : EmptyTable[i].frame = 0
    BY <2>2 DEF EmptyTable, Absent
  <2>5. Sound'
    BY <1>2, <2>1, <2>2, <2>3, <2>4 DEF Sound, Indices
  <2>6. OneWritten(table, index)
    BY <2>1, <2>2, <2>3, <2>4 DEF OneWritten
  <2>7. TreeShaped'
    BY <1>2, <2>6, OneEntry
  <2> QED
    BY <2>5, <2>7 DEF IInv
<1> QED
  BY <1>1, <1>2 DEF MapBranch, OutOfFrames, Put, table, index

LEMMA TreeStep ==
  ASSUME IInv, [Next]_vars
  PROVE  IInv'
<1>1. CASE UNCHANGED <<tables, fresh>>
  BY <1>1 DEF IInv, Sound, TreeShaped, Uses
<1> QED
  BY <1>1, MapLeafKeeps, MapBranchKeeps DEF Next, Step, Map, Return, Stopped, vars

LEMMA TreeInit ==
  ASSUME Init
  PROVE  IInv
<1>1. tables = [t \in {0} |-> EmptyTable] /\ fresh = 0
  BY DEF Init
<1>2. EmptyTable \in [Indices -> [kind : {"none", "leaf", "branch"}, frame : 0..0]]
  BY DEF EmptyTable, Absent
<1>3. Sound
  BY <1>1, <1>2, PageMapArguments DEF Sound
<1> QED
  BY <1>1, <1>3 DEF IInv, TreeShaped

\* Whatever is mapped, over whatever was mapped before, and wherever a call
\* stops for want of frames: map_offset and alloc_phys never let two entries
\* point at one frame, and no frame is both a table and a page.
THEOREM TablesStayATree == Spec => []TreeShaped
<1>1. IInv => TreeShaped
  BY DEF IInv
<1> QED
  BY <1>1, TreeInit, TreeStep, PTL DEF Spec

(***************************************************************************)
(* The walk.  A definition by recursion means what it says once a function *)
(* that satisfies its equation is shown to exist.                          *)
(***************************************************************************)

WalkBody(tbl, laddr, W, l) ==
  IF l = PML4_LVL THEN tbl[0][table_index(laddr, l)]
  ELSE IF W[l + 1].kind = "branch" THEN tbl[W[l + 1].frame][table_index(laddr, l)]
  ELSE W[l + 1]

WalksDownTo(tbl, laddr, m) ==
  \E W : /\ W = [l \in Levels |-> W[l]]
         /\ \A l \in m..PML4_LVL : W[l] = WalkBody(tbl, laddr, W, l)

LEMMA WalkExists ==
  ASSUME NEW tbl, NEW laddr
  PROVE  WalksDownTo(tbl, laddr, 1)
<1> DEFINE S == {k \in 0..(PML4_LVL - 1) : ~WalksDownTo(tbl, laddr, PML4_LVL - k)}
<1>0. PML4_LVL \in Nat /\ PML4_LVL > 1
  BY PageMapArguments
<1>1. SUFFICES S = {}
  <2>1. PML4_LVL - 1 \in 0..(PML4_LVL - 1) /\ PML4_LVL - (PML4_LVL - 1) = 1
    BY <1>0
  <2> QED
    BY Zenon, <1>1, <2>1
<1> SUFFICES ASSUME S # {} PROVE FALSE
  OBVIOUS
<1>2. PICK k \in S : \A j \in S : k <= j
  <2>1. S \subseteq Nat
    OBVIOUS
  <2> QED
    BY <2>1, LeastNumber, Zenon
<1> DEFINE m == PML4_LVL - k
<1>3. k \in 0..(PML4_LVL - 1) /\ ~WalksDownTo(tbl, laddr, m)
  BY <1>2
<1>4. m \in Levels /\ (k > 0 => m + 1 \in Levels)
  BY <1>0, <1>3 DEF Levels
<1>5. \E W : /\ W = [l \in Levels |-> W[l]]
             /\ \A l \in (m + 1)..PML4_LVL : W[l] = WalkBody(tbl, laddr, W, l)
  <2>1. CASE k = 0
    <3> DEFINE V == [l \in Levels |-> 0]
    <3>1. V = [l \in Levels |-> V[l]] /\ (m + 1)..PML4_LVL = {}
      BY <1>0, <2>1
    <3> QED
      BY <3>1, Zenon
  <2>2. CASE k > 0
    <3>1. k - 1 \in 0..(PML4_LVL - 1) /\ ~(k <= k - 1) /\ PML4_LVL - (k - 1) = m + 1
      BY <1>0, <1>3, <2>2
    <3>2. WalksDownTo(tbl, laddr, PML4_LVL - (k - 1))
      BY <1>2, <3>1
    <3>3. WalksDownTo(tbl, laddr, m + 1)
      BY Zenon, <3>1, <3>2
    <3> QED
      BY <3>3 DEF WalksDownTo
  <2> QED
    BY <1>3, <2>1, <2>2
<1> HIDE DEF m
<1>6. PICK W : /\ W = [l \in Levels |-> W[l]]
               /\ \A l \in (m + 1)..PML4_LVL : W[l] = WalkBody(tbl, laddr, W, l)
  BY <1>5
<1> DEFINE e == WalkBody(tbl, laddr, W, m)
           V == [l \in Levels |-> IF l = m THEN e ELSE W[l]]
<1> HIDE DEF e
<1>7. V = [l \in Levels |-> V[l]] /\ V[m] = e /\ \A l \in Levels : l # m => V[l] = W[l]
  BY <1>4
<1> HIDE DEF V
<1>8. ASSUME NEW l \in m..PML4_LVL
      PROVE  V[l] = WalkBody(tbl, laddr, V, l)
  <2>1. l \in Levels /\ l + 1 # m /\ (l # PML4_LVL => l + 1 \in Levels) /\ (l # m => l \in (m + 1)..PML4_LVL)
    BY <1>0, <1>4 DEF Levels
  <2>2. l # PML4_LVL => V[l + 1] = W[l + 1]
    BY <1>7, <2>1
  <2>3. WalkBody(tbl, laddr, V, l) = WalkBody(tbl, laddr, W, l)
    BY <2>2 DEF WalkBody
  <2>4. V[l] = WalkBody(tbl, laddr, W, l)
    BY <1>6, <1>7, <2>1 DEF e
  <2> QED
    BY <2>3, <2>4
<1>9. WalksDownTo(tbl, laddr, m)
  BY <1>7, <1>8 DEF WalksDownTo
<1> QED
  BY <1>3, <1>9 DEF m

\* What the walk reads at each level.
LEMMA WalkReads ==
  ASSUME NEW tbl, NEW laddr
  PROVE  /\ Walk(tbl, laddr)[PML4_LVL] = tbl[0][table_index(laddr, PML4_LVL)]
         /\ \A l \in 1..(PML4_LVL - 1) :
              Walk(tbl, laddr)[l] = IF Walk(tbl, laddr)[l + 1].kind = "branch"
                                    THEN tbl[Walk(tbl, laddr)[l + 1].frame][table_index(laddr, l)]
                                    ELSE Walk(tbl, laddr)[l + 1]
<1> DEFINE V == Walk(tbl, laddr)
<1>0. PML4_LVL \in Nat /\ PML4_LVL > 1
  BY PageMapArguments
<1>1. PICK W : W = [l \in Levels |-> W[l]] /\ \A l \in 1..PML4_LVL : W[l] = WalkBody(tbl, laddr, W, l)
  BY WalkExists DEF WalksDownTo
<1>2. W = [l \in Levels |-> WalkBody(tbl, laddr, W, l)]
  BY <1>1 DEF Levels
<1>3. V = [l \in Levels |-> WalkBody(tbl, laddr, V, l)]
  BY <1>2, Zenon DEF Walk, WalkBody
<1> HIDE DEF V
<1>4. \A l \in Levels : V[l] = WalkBody(tbl, laddr, V, l)
  BY <1>3
<1>5. PML4_LVL \in Levels /\ \A l \in 1..(PML4_LVL - 1) : l \in Levels /\ l # PML4_LVL
  BY <1>0 DEF Levels
<1> QED
  BY <1>4, <1>5 DEF V, WalkBody

\* Induction over the levels, from the root down.
LEMMA DownTheLevels ==
  ASSUME NEW S, PML4_LVL \in S, \A l \in 1..(PML4_LVL - 1) : l + 1 \in S => l \in S
  PROVE  \A l \in Levels : l \in S
<1> DEFINE T == {k \in 0..(PML4_LVL - 1) : PML4_LVL - k \notin S}
<1>0. PML4_LVL \in Nat /\ PML4_LVL > 1
  BY PageMapArguments
<1>1. T = {}
  <2> SUFFICES ASSUME T # {} PROVE FALSE
    OBVIOUS
  <2>1. T \subseteq Nat
    OBVIOUS
  <2>2. PICK k \in T : \A j \in T : k <= j
    BY <2>1, LeastNumber, Zenon
  <2>3. k \in 0..(PML4_LVL - 1) /\ PML4_LVL - k \notin S
    BY <2>2
  <2>4. k # 0
    BY <1>0, <2>3
  <2>5. k - 1 \in 0..(PML4_LVL - 1) /\ ~(k <= k - 1)
    BY <1>0, <2>3, <2>4
  <2>6. PML4_LVL - (k - 1) \in S
    BY <2>2, <2>5
  <2>7. PML4_LVL - (k - 1) = (PML4_LVL - k) + 1 /\ PML4_LVL - k \in 1..(PML4_LVL - 1)
    BY <1>0, <2>3, <2>4
  <2> QED
    BY <2>3, <2>6, <2>7
<1>2. ASSUME NEW l \in Levels PROVE l \in S
  <2> DEFINE k == PML4_LVL - l
  <2>1. k \in 0..(PML4_LVL - 1) /\ PML4_LVL - k = l
    BY <1>0 DEF Levels
  <2> QED
    BY <1>1, <2>1
<1> QED
  BY <1>2

\* The walk looks into the table t at level l.
LooksInto(tbl, p, l, t) ==
  IF l = PML4_LVL THEN t = 0
  ELSE Walk(tbl, p)[l + 1].kind = "branch" /\ t = Walk(tbl, p)[l + 1].frame

LEMMA Looks ==
  ASSUME NEW tbl, NEW p, NEW l \in Levels
  PROVE  /\ \A t : LooksInto(tbl, p, l, t) => Walk(tbl, p)[l] = tbl[t][table_index(p, l)]
         /\ (\A t : ~LooksInto(tbl, p, l, t)) =>
              /\ l # PML4_LVL
              /\ Walk(tbl, p)[l] = Walk(tbl, p)[l + 1]
              /\ Walk(tbl, p)[l].kind # "branch"
<1>1. l # PML4_LVL => l \in 1..(PML4_LVL - 1)
  BY PageMapArguments DEF Levels
<1> QED
  BY <1>1, WalkReads DEF LooksInto

\* Every table has its place in the address space: the root has all of it, and
\* a table below has the part of the entry that leads to it.
TablesPlaced(tbl, place) ==
  /\ 0 \in DOMAIN tbl
  /\ place \in [DOMAIN tbl -> Region]
  /\ place[0] = [lvl |-> PML4_LVL, base |-> 0]
  /\ \A t \in DOMAIN tbl : Aligned(place[t])
  /\ \A t \in DOMAIN tbl, i \in Indices : tbl[t][i].kind = "branch" =>
       /\ place[t].lvl > 1
       /\ tbl[t][i].frame \in DOMAIN tbl
       /\ place[tbl[t][i].frame] = SubRegion(place[t], i)

AddressSpace == 0..(page_size(PML4_LVL + 1) - 1)

\* The walk of an address looks only into tables whose place it lies in.
LEMMA WalkStaysInPlace ==
  ASSUME NEW tbl, NEW place, TablesPlaced(tbl, place), NEW p \in AddressSpace,
         NEW l \in Levels, NEW t, LooksInto(tbl, p, l, t)
  PROVE  /\ t \in DOMAIN tbl /\ place[t] \in Region /\ Aligned(place[t])
         /\ place[t].lvl = l /\ Within(place[t], p)
<1> DEFINE InPlace(u, m) == u \in DOMAIN tbl /\ place[u].lvl = m /\ Within(place[u], p)
           S == {m \in Levels : \A u : LooksInto(tbl, p, m, u) => InPlace(u, m)}
<1>0. PML4_LVL \in Nat /\ PML4_LVL > 1 /\ PML4_LVL \in Levels /\ p \in Nat
  BY PageMapArguments DEF Levels, AddressSpace
<1>1. PML4_LVL \in S
  <2>1. place[0].lvl = PML4_LVL /\ place[0].base = 0
    BY DEF TablesPlaced
  <2>2. page_size(PML4_LVL + 1) \in Nat
    BY <1>0, PageSizes
  <2>3. Within(place[0], p)
    BY <1>0, <2>1, <2>2 DEF Within, Acme, AddressSpace
  <2> QED
    BY <1>0, <2>1, <2>3 DEF TablesPlaced, LooksInto
<1>2. ASSUME NEW m \in 1..(PML4_LVL - 1), m + 1 \in S
      PROVE  m \in S
  <2>1. m \in Levels /\ m + 1 \in Levels /\ m # PML4_LVL /\ (m + 1) - 1 = m
    BY <1>0 DEF Levels
  <2> SUFFICES ASSUME NEW u, LooksInto(tbl, p, m, u)
               PROVE  InPlace(u, m)
    BY <2>1
  <2> DEFINE e == Walk(tbl, p)[m + 1]
             i == table_index(p, m + 1)
  <2>2. e.kind = "branch" /\ u = e.frame
    BY <2>1 DEF LooksInto
  <2>3. PICK v : LooksInto(tbl, p, m + 1, v)
    BY <2>1, <2>2, Looks
  <2>4. e = tbl[v][i] /\ v \in DOMAIN tbl /\ place[v].lvl = m + 1 /\ Within(place[v], p)
    BY <1>2, <2>1, <2>3, Looks
  <2>5. place[v] \in Region /\ Aligned(place[v])
    BY <2>4 DEF TablesPlaced
  <2> HIDE DEF e, i
  <2>6. /\ i \in Indices
        /\ place[v].base + i * page_size(m + 1) <= p
        /\ p < place[v].base + i * page_size(m + 1) + page_size(m + 1)
    BY <1>0, <2>4, <2>5, Lookup DEF i
  <2>7. u \in DOMAIN tbl /\ place[u] = SubRegion(place[v], i)
    BY <2>2, <2>4, <2>6 DEF TablesPlaced
  <2>8. /\ place[u].lvl = m
        /\ place[u].base = place[v].base + i * page_size(m + 1)
        /\ Acme(place[u]) = place[v].base + i * page_size(m + 1) + page_size(m + 1)
    BY <2>1, <2>4, <2>5, <2>6, <2>7, SubRegions
  <2> QED
    BY <2>6, <2>7, <2>8 DEF Within
<1> HIDE DEF S
<1>3. l \in S
  BY <1>1, <1>2, DownTheLevels
<1>4. InPlace(t, l)
  BY <1>3 DEF S
<1> QED
  BY <1>4 DEF TablesPlaced

\* Only the entry i of the table t is written, and p lies in its part.
OneChanged(tbl, after, t, i) ==
  \A u \in DOMAIN tbl, j \in Indices : (u = t /\ j = i) \/ after[u][j] = tbl[u][j]

Writes(tbl, after, place, t, i) ==
  TablesPlaced(tbl, place) /\ t \in DOMAIN tbl /\ i \in Indices /\ OneChanged(tbl, after, t, i)

InSlot(r, i, p) == r.base + i * page_size(r.lvl) <= p /\ p < r.base + i * page_size(r.lvl) + page_size(r.lvl)

ReadsEntry(tbl, place, p, l, t, i) == LooksInto(tbl, p, l, t) /\ place[t].lvl = l /\ InSlot(place[t], i, p)

SameAbove(tbl, after, p, l) == l # PML4_LVL => Walk(after, p)[l + 1] = Walk(tbl, p)[l + 1]

\* The walk finds the same at level l, before and after the entry is written,
\* when it did so one level up and does not read the entry here.
LEMMA ReadsTheSame ==
  ASSUME NEW tbl, NEW after, NEW place, NEW t, NEW i, Writes(tbl, after, place, t, i),
         NEW p \in AddressSpace, NEW l \in Levels,
         SameAbove(tbl, after, p, l), ~ReadsEntry(tbl, place, p, l, t, i)
  PROVE  Walk(after, p)[l] = Walk(tbl, p)[l]
<1> USE DEF Writes, ReadsEntry, SameAbove
<1>1. \A u : LooksInto(after, p, l, u) <=> LooksInto(tbl, p, l, u)
  BY DEF LooksInto
<1>2. CASE \A u : ~LooksInto(tbl, p, l, u)
  <2>1. l # PML4_LVL /\ Walk(tbl, p)[l] = Walk(tbl, p)[l + 1]
    BY <1>2, Looks
  <2>2. Walk(after, p)[l] = Walk(after, p)[l + 1]
    BY <1>1, <1>2, Looks
  <2> QED
    BY <2>1, <2>2
<1>3. ASSUME NEW u, LooksInto(tbl, p, l, u)
      PROVE  Walk(after, p)[l] = Walk(tbl, p)[l]
  <2> DEFINE j == table_index(p, l)
  <2>1. Walk(tbl, p)[l] = tbl[u][j] /\ Walk(after, p)[l] = after[u][j]
    BY <1>1, <1>3, Looks
  <2>2. u \in DOMAIN tbl /\ place[u] \in Region /\ Aligned(place[u]) /\ place[u].lvl = l /\ Within(place[u], p)
    BY <1>3, WalkStaysInPlace
  <2>3. p \in Nat
    BY PageSizes, PageMapArguments DEF AddressSpace
  <2> HIDE DEF j
  <2>4. j \in Indices /\ InSlot(place[u], j, p)
    BY <2>2, <2>3, Lookup DEF InSlot, j
  <2>5. ~(u = t /\ j = i)
    BY <1>3, <2>2, <2>4
  <2> QED
    BY <2>1, <2>2, <2>4, <2>5 DEF OneChanged
<1> QED
  BY <1>2, <1>3

\* An address outside of the entry's part is translated as before.
LEMMA OthersKept ==
  ASSUME NEW tbl, NEW after, NEW place, NEW t, NEW i, Writes(tbl, after, place, t, i),
         NEW p \in AddressSpace, ~InSlot(place[t], i, p)
  PROVE  Walk(after, p)[1] = Walk(tbl, p)[1]
<1> DEFINE S == {l \in Levels : Walk(after, p)[l] = Walk(tbl, p)[l]}
<1>0. PML4_LVL \in Levels /\ 1 \in Levels /\ \A l \in 1..(PML4_LVL - 1) : l \in Levels
  BY PageMapArguments DEF Levels
<1>1. ASSUME NEW l \in Levels, SameAbove(tbl, after, p, l)
      PROVE  l \in S
  <2>1. ~ReadsEntry(tbl, place, p, l, t, i)
    BY DEF ReadsEntry
  <2> QED
    BY <1>1, <2>1, ReadsTheSame
<1>2. PML4_LVL \in S /\ \A l \in 1..(PML4_LVL - 1) : l + 1 \in S => l \in S
  BY <1>0, <1>1 DEF SameAbove
<1> HIDE DEF S
<1>3. 1 \in S
  BY <1>0, <1>2, DownTheLevels
<1> QED
  BY <1>3 DEF S

\* A new and empty table where there was no entry changes no translation.
LEMMA EmptyTableKeeps ==
  ASSUME NEW tbl, NEW after, NEW place, NEW t, NEW i, Writes(tbl, after, place, t, i),
         NEW p \in AddressSpace, place[t].lvl > 1, tbl[t][i] = Absent,
         NEW new, after[t][i] = [kind |-> "branch", frame |-> new], after[new] = EmptyTable
  PROVE  Walk(after, p)[1] = Walk(tbl, p)[1]
<1> DEFINE Hanging(l) == /\ l = place[t].lvl /\ Walk(tbl, p)[l] = Absent
                         /\ Walk(after, p)[l].kind = "branch" /\ Walk(after, p)[l].frame = new
           S == {l \in Levels : Walk(after, p)[l] = Walk(tbl, p)[l] \/ Hanging(l)}
<1>0. PML4_LVL \in Levels /\ 1 \in Levels /\ \A l \in 1..(PML4_LVL - 1) : l \in Levels /\ l # PML4_LVL
  BY PageMapArguments DEF Levels
<1>1. ASSUME NEW l \in Levels, SameAbove(tbl, after, p, l)
      PROVE  l \in S
  <2>1. CASE ~ReadsEntry(tbl, place, p, l, t, i)
    BY <1>1, <2>1, ReadsTheSame
  <2>2. CASE ReadsEntry(tbl, place, p, l, t, i)
    <3> USE DEF ReadsEntry
    <3>1. LooksInto(after, p, l, t)
      BY <1>1, <2>2 DEF LooksInto, SameAbove
    <3>2. p \in Nat
      BY PageSizes, PageMapArguments DEF AddressSpace
    <3>3. table_index(p, l) = i
      BY <2>2, <3>2, LookupIs DEF Writes, TablesPlaced, InSlot
    <3>4. Walk(tbl, p)[l] = tbl[t][i] /\ Walk(after, p)[l] = after[t][i]
      <4>1. LooksInto(tbl, p, l, t) /\ l \in Levels
        BY <2>2
      <4> QED
        BY ONLY <3>1, <3>3, <4>1, Looks
    <3>5. /\ Walk(tbl, p)[l] = Absent
          /\ Walk(after, p)[l].kind = "branch" /\ Walk(after, p)[l].frame = new
      BY <3>4
    <3> QED
      BY <2>2, <3>5, Zenon
  <2> QED
    BY <2>1, <2>2
<1>2. PML4_LVL \in S
  BY <1>0, <1>1 DEF SameAbove
<1>3. ASSUME NEW l \in 1..(PML4_LVL - 1), l + 1 \in S PROVE l \in S
  <2>1. CASE Walk(after, p)[l + 1] = Walk(tbl, p)[l + 1]
    BY <1>0, <1>1, <2>1 DEF SameAbove
  <2>2. CASE Hanging(l + 1)
    <3>1. LooksInto(after, p, l, new) /\ \A u : ~LooksInto(tbl, p, l, u)
      BY <1>0, <2>2 DEF LooksInto, Absent
    <3>2. Walk(after, p)[l] = EmptyTable[table_index(p, l)]
      BY <1>0, <3>1, Looks
    <3>3. Walk(tbl, p)[l] = Absent
      <4>1. l \in Levels /\ Walk(tbl, p)[l + 1] = Absent
        BY <1>0, <2>2
      <4> QED
        BY ONLY <3>1, <4>1, Looks
    <3>4. table_index(p, l) \in Indices
      <4> DEFINE q == p \div page_size(l)
      <4>1. p \in Nat /\ page_size(l) \in Nat \ {0}
        BY <1>0, PageSizes, PageMapArguments DEF AddressSpace, Levels
      <4>2. q \in Nat
        BY <4>1
      <4> HIDE DEF q
      <4>3. q % Fanout \in Indices
        BY <4>2, PageMapArguments DEF Indices
      <4> QED
        BY <4>3 DEF table_index, q
    <3> QED
      BY <1>0, <3>2, <3>3, <3>4 DEF EmptyTable
  <2> QED
    BY <1>3, <2>1, <2>2
<1> HIDE DEF S
<1>4. 1 \in S
  BY <1>0, <1>2, <1>3, DownTheLevels
<1>5. ~(1 = place[t].lvl)
  OBVIOUS
<1> QED
  BY <1>4, <1>5 DEF S

(***************************************************************************)
(* The running loops.  State says what the variables hold; a placing of    *)
(* the tables places the loops as well.                                    *)
(***************************************************************************)

Call == [lvl : Levels, base : Nat, table : Nat, last : BOOLEAN]

State ==
  /\ IInv
  /\ \A t \in DOMAIN tables, i \in Indices : tables[t][i].kind = "none" => tables[t][i] = Absent
  /\ calls \in Seq(Call)
  /\ pc \in {"idle", "map", "panic", "astray"}
  /\ pc = "map" => calls # <<>>
  /\ pc = "idle" => calls = <<>>
  /\ span \in [base : Nat, acme : Nat] /\ span.acme % PTE_SIZE = 0

\* A loop is at an address of its table's region, or has passed the last entry.
CallPlaced(place, s, c) ==
  /\ c.table \in DOMAIN place /\ c.lvl = place[c.table].lvl
  /\ c.base % PTE_SIZE = 0 /\ s.base <= c.base
  /\ IF c.last THEN Acme(place[c.table]) <= c.base ELSE Within(place[c.table], c.base)

LeadsTo(tbl, t, f) == \E i \in Indices : tbl[t][i].kind = "branch" /\ tbl[t][i].frame = f

\* The loops go down from the root, one level at a time, and an entry of each
\* leads to the table of the next.
CallsPlaced(place) ==
  /\ calls # <<>> => calls[Len(calls)].table = 0
  /\ \A n \in 1..Len(calls) : calls[n].lvl = PML4_LVL - Len(calls) + n /\ CallPlaced(place, span, calls[n])
  /\ \A n \in 2..Len(calls) : LeadsTo(tables, calls[n].table, calls[n - 1].table)

\* Of a well placed span, everything below the innermost loop is mapped: a
\* loop starts an entry at its beginning, but for the first, and a loop ends
\* no earlier than the one around it goes on.
Smooth(place) ==
  /\ \A n \in 1..Len(calls) :
       \/ calls[n].base % page_size(calls[n].lvl) = 0
       \/ calls[n].base = span.base
       \/ span.acme <= calls[n].base
  /\ \A n \in 2..Len(calls) :
       \/ calls[n].base <= Acme(place[calls[n - 1].table])
       \/ span.acme <= Acme(place[calls[n - 1].table])
  /\ pc = "map" => \A p \in PagesOf(span) : p < Top.base => Translate(p).kind = "leaf"

Placed(place) ==
  /\ TablesPlaced(tables, place)
  /\ CallsPlaced(place)
  /\ WellPlaced(span) => Smooth(place)

\* The calls that are over have mapped their spans.
EarlierCovered ==
  pc \in {"idle", "map"} =>
    \A r \in mapped : \/ WellPlaced(SpanOf(r)) => Covers(SpanOf(r))
                      \/ pc = "map" /\ span = SpanOf(r)

MapInv == State /\ (\E place : Placed(place)) /\ EarlierCovered

LEMMA PageAddresses ==
  \A p \in Pages : p \in AddressSpace /\ p \in Nat /\ p % PTE_SIZE = 0
<1> SUFFICES ASSUME NEW p \in Pages
             PROVE  p \in AddressSpace /\ p \in Nat /\ p % PTE_SIZE = 0
  OBVIOUS
<1> DEFINE f == Fanout^PML4_LVL
<1>0. PTE_SIZE \in Nat \ {0} /\ PML4_LVL \in Nat /\ (PML4_LVL + 1) - 1 = PML4_LVL
  BY PageMapArguments
<1>1. page_size(PML4_LVL + 1) = PTE_SIZE * f
  BY Zenon, <1>0 DEF page_size
<1>2. f \in Nat \ {0}
  BY <1>0, PowersOfFanout
<1>3. PICK n \in 0..(f - 1) : p = PTE_SIZE * n
  BY DEF Pages
<1> HIDE DEF f
<1>4. p \in Nat /\ (PTE_SIZE * n + 0) % PTE_SIZE = 0 /\ PTE_SIZE * n + 0 = p
  BY <1>0, <1>2, <1>3, Remainder
<1>5. p < PTE_SIZE * f
  <2>1. (f - (n + 1)) * PTE_SIZE >= 0
    BY <1>0, <1>2, <1>3
  <2> QED
    BY <1>0, <1>2, <1>3, <2>1
<1>6. PTE_SIZE * f \in Nat
  BY <1>0, <1>2
<1> QED
  BY <1>1, <1>4, <1>5, <1>6 DEF AddressSpace

\* What holds of the innermost loop while it goes on.
AtEntry(place) ==
  /\ Top \in Call /\ Top = calls[1] /\ calls # <<>> /\ Len(calls) \in Nat \ {0}
  /\ Top.table \in DOMAIN tables /\ Top.lvl = place[Top.table].lvl
  /\ place[Top.table] \in Region /\ Aligned(place[Top.table])
  /\ Within(place[Top.table], Top.base)
  /\ Index \in Indices /\ InSlot(place[Top.table], Index, Top.base)
  /\ Top.base % PTE_SIZE = 0 /\ span.base <= Top.base /\ Top.base < span.acme

LEMMA EntryOfLoop ==
  ASSUME State, NEW place, TablesPlaced(tables, place), CallsPlaced(place), Looping
  PROVE  AtEntry(place)
<1>1. calls \in Seq(Call) /\ calls # <<>> /\ ~Top.last /\ Top.base < span.acme
  BY DEF State, Looping
<1>2. Len(calls) \in Nat \ {0} /\ Top = calls[1] /\ calls[1] \in Call
  BY <1>1 DEF Top
<1>3. 1 \in 1..Len(calls)
  BY <1>2
<1>4. CallPlaced(place, span, Top)
  BY <1>2, <1>3 DEF CallsPlaced
<1>5. place[Top.table] \in Region /\ Aligned(place[Top.table])
  BY <1>4 DEF CallPlaced, TablesPlaced
<1>6. Within(place[Top.table], Top.base) /\ Top.base \in Nat
  BY <1>1, <1>2, <1>4 DEF CallPlaced, Call
<1>7. Index \in Indices /\ InSlot(place[Top.table], Index, Top.base)
  BY <1>4, <1>5, <1>6, Lookup DEF CallPlaced, Index, InSlot
<1> QED
  BY <1>1, <1>2, <1>4, <1>5, <1>6, <1>7 DEF AtEntry, CallPlaced, TablesPlaced

\* A page starts where the loop is, and all of it is in the span.
LEMMA LeafInSpan ==
  ASSUME State, NEW place, AtEntry(place), IsLeaf
  PROVE  /\ Top.base = place[Top.table].base + Index * page_size(Top.lvl)
         /\ Top.base + page_size(Top.lvl) <= span.acme
         /\ \A p \in Nat : InSlot(place[Top.table], Index, p) =>
                             /\ span.base <= p /\ p < span.acme
                             /\ Top.base <= p /\ p < Top.base + page_size(Top.lvl)
<1> DEFINE s == page_size(Top.lvl)
           b == place[Top.table].base + Index * page_size(Top.lvl)
           base == Top.base
           acme == span.acme
           d == PTE_SIZE
<1>1. base \in Nat /\ acme \in Nat /\ span.base \in Nat /\ d \in Nat \ {0} /\ Top.lvl \in Levels
  BY PageMapArguments DEF State, AtEntry, Call
<1>2. s \in Nat \ {0} /\ s % d = 0
  BY <1>1, PageSizes, PageMapArguments DEF Levels
<1>3. base % d = 0 /\ acme % d = 0 /\ span.base <= base /\ base < acme
  BY DEF State, AtEntry
<1>4. base % s = 0 /\ base + s < acme + d
  BY <1>1, <1>2, <1>3, PageSizes DEF IsLeaf
<1>5. b \in Nat /\ b % s = 0
  BY SubRegions DEF AtEntry
<1>6. b <= base /\ base < b + s
  BY DEF AtEntry, InSlot
<1>7. \A p : InSlot(place[Top.table], Index, p) <=> b <= p /\ p < b + s
  BY DEF AtEntry, InSlot
<1> HIDE DEF s, b, base, acme, d
<1>8. base = b
  <2>1. base < b + s => base <= b
    BY ONLY <1>1, <1>2, <1>4, <1>5, Multiple
  <2> QED
    BY ONLY <1>1, <1>5, <1>6, <2>1
<1>9. (base + s) % d = 0 /\ base + s \in Nat
  <2>1. s \in Nat
    BY <1>2
  <2>2. (base + s) % d = 0
    BY <1>1, <1>2, <1>3, <2>1, Multiple, Zenon
  <2> QED
    BY <1>1, <2>1, <2>2
<1>10. base + s <= acme
  BY <1>1, <1>3, <1>4, <1>9, Multiple
<1>11. \A p \in Nat : InSlot(place[Top.table], Index, p) =>
                        /\ span.base <= p /\ p < acme
                        /\ base <= p /\ p < base + s
  BY <1>1, <1>2, <1>3, <1>7, <1>8, <1>10
<1> QED
  BY <1>8, <1>10, <1>11 DEF s, b, base, acme

(***************************************************************************)
(* The steps, one by one.                                                  *)
(***************************************************************************)

LeafStep ==
  /\ Looping /\ IsLeaf /\ fresh < MaxFrames /\ fresh' = fresh + 1
  /\ tables' = Put(Top.table, Index, "leaf")
  /\ calls' = <<Advance>> \o Tail(calls)
  /\ UNCHANGED <<span, mapped, pc>>

NewTableStep ==
  /\ Looping /\ ~IsLeaf /\ EntryAt.kind = "none" /\ fresh < MaxFrames /\ fresh' = fresh + 1
  /\ tables' = [t \in (DOMAIN tables) \cup {fresh + 1} |->
                  IF t = fresh + 1 THEN EmptyTable ELSE Put(Top.table, Index, "branch")[t]]
  /\ Descend(fresh + 1)
  /\ UNCHANGED <<span, mapped, pc>>

FollowStep ==
  /\ Looping /\ ~IsLeaf /\ EntryAt.kind = "branch"
  /\ Descend(EntryAt.frame)
  /\ UNCHANGED <<tables, fresh, span, mapped, pc>>

HaltStep ==
  /\ pc' \in {"panic", "astray"}
  /\ UNCHANGED <<tables, fresh, calls, span, mapped>>

LEMMA Steps ==
  ASSUME [Next]_vars
  PROVE  \/ \E r \in Requests : Map(r)
         \/ LeafStep \/ NewTableStep \/ FollowStep \/ HaltStep \/ Return
         \/ UNCHANGED vars
<1>1. CASE MapLeaf
  BY <1>1 DEF MapLeaf, OutOfFrames, LeafStep, HaltStep, Put
<1>2. CASE MapBranch
  BY <1>2 DEF MapBranch, OutOfFrames, NewTableStep, FollowStep, HaltStep, Put
<1> QED
  BY <1>1, <1>2 DEF Next, Step, Stopped

LEMMA LeafWrites ==
  ASSUME State, NEW place, TablesPlaced(tables, place), AtEntry(place), LeafStep
  PROVE  /\ DOMAIN tables' = DOMAIN tables
         /\ Writes(tables, tables', place, Top.table, Index)
         /\ tables'[Top.table][Index] = [kind |-> "leaf", frame |-> fresh + 1]
<1> DEFINE t == Top.table
           i == Index
           after == Put(t, i, "leaf")
<1>1. t \in DOMAIN tables /\ i \in Indices
  BY DEF AtEntry
<1>2. tables' = after /\ fresh < MaxFrames /\ Sound
  BY DEF LeafStep, State, IInv
<1> HIDE DEF t, i
<1>3. /\ DOMAIN after = DOMAIN tables
      /\ after[t][i] = [kind |-> "leaf", frame |-> fresh + 1]
      /\ \A u \in DOMAIN tables, j \in Indices : (u = t /\ j = i) \/ after[u][j] = tables[u][j]
  BY <1>1, <1>2, Written
<1> HIDE DEF after
<1> QED
  BY <1>1, <1>2, <1>3 DEF Writes, OneChanged, t, i

LEMMA NewTableWrites ==
  ASSUME State, NEW place, TablesPlaced(tables, place), AtEntry(place), NewTableStep
  PROVE  /\ DOMAIN tables' = (DOMAIN tables) \cup {fresh + 1} /\ fresh + 1 \notin DOMAIN tables
         /\ Writes(tables, tables', place, Top.table, Index)
         /\ tables'[Top.table][Index] = [kind |-> "branch", frame |-> fresh + 1]
         /\ tables'[fresh + 1] = EmptyTable
         /\ tables[Top.table][Index] = Absent /\ place[Top.table].lvl > 1
<1> DEFINE t == Top.table
           i == Index
           new == fresh + 1
           after == Put(t, i, "branch")
<1>1. t \in DOMAIN tables /\ i \in Indices
  BY DEF AtEntry
<1>2. /\ tables' = [u \in (DOMAIN tables) \cup {new} |-> IF u = new THEN EmptyTable ELSE after[u]]
      /\ fresh < MaxFrames /\ Sound
  BY DEF NewTableStep, State, IInv
<1>3. new \notin DOMAIN tables
  BY <1>2, PageMapArguments DEF Sound
<1>4. tables[t][i] = Absent
  BY <1>1 DEF NewTableStep, State, EntryAt
<1>5. place[t].lvl > 1
  BY DEF NewTableStep, IsLeaf, AtEntry, Region, Levels
<1> HIDE DEF t, i
<1>6. /\ DOMAIN after = DOMAIN tables
      /\ after[t][i] = [kind |-> "branch", frame |-> fresh + 1]
      /\ \A u \in DOMAIN tables, j \in Indices : (u = t /\ j = i) \/ after[u][j] = tables[u][j]
  BY <1>1, <1>2, Written
<1> HIDE DEF after, new
<1>7. /\ DOMAIN tables' = (DOMAIN tables) \cup {new}
      /\ tables'[new] = EmptyTable
      /\ \A u \in DOMAIN tables : tables'[u] = after[u]
  BY <1>2, <1>3
<1>8. Writes(tables, tables', place, t, i)
  BY <1>1, <1>6, <1>7 DEF Writes, OneChanged
<1>9. tables'[t][i] = [kind |-> "branch", frame |-> fresh + 1]
  BY <1>1, <1>6, <1>7
<1> QED
  BY <1>3, <1>4, <1>5, <1>7, <1>8, <1>9 DEF t, i, new

\* The stack of loops, when its top is replaced, when one is pushed, popped.
LEMMA TopReplaced ==
  ASSUME NEW s \in Seq(Call), s # <<>>, NEW c \in Call
  PROVE  /\ <<c>> \o Tail(s) \in Seq(Call) /\ <<c>> \o Tail(s) # <<>>
         /\ Len(<<c>> \o Tail(s)) = Len(s)
         /\ (<<c>> \o Tail(s))[1] = c
         /\ \A n \in 2..Len(s) : (<<c>> \o Tail(s))[n] = s[n]
<1>1. Tail(s) \in Seq(Call) /\ Len(Tail(s)) = Len(s) - 1 /\ Len(s) \in Nat \ {0}
  OBVIOUS
<1>2. \A n \in 1..(Len(s) - 1) : Tail(s)[n] = s[n + 1]
  OBVIOUS
<1> DEFINE r == Tail(s)
<1> HIDE DEF r
<1>3. /\ <<c>> \o r \in Seq(Call) /\ Len(<<c>> \o r) = Len(s) /\ (<<c>> \o r)[1] = c
      /\ \A n \in 2..Len(s) : (<<c>> \o r)[n] = r[n - 1]
  BY <1>1 DEF r
<1>4. \A n \in 2..Len(s) : r[n - 1] = s[n]
  BY <1>1, <1>2 DEF r
<1>5. <<c>> \o r # <<>>
  BY <1>1, <1>3
<1> QED
  BY <1>3, <1>4, <1>5 DEF r

LEMMA TopPushed ==
  ASSUME NEW s \in Seq(Call), s # <<>>, NEW c \in Call, NEW d \in Call
  PROVE  /\ <<d, c>> \o Tail(s) \in Seq(Call) /\ <<d, c>> \o Tail(s) # <<>>
         /\ Len(<<d, c>> \o Tail(s)) = Len(s) + 1
         /\ (<<d, c>> \o Tail(s))[1] = d
         /\ (<<d, c>> \o Tail(s))[2] = c
         /\ \A n \in 3..(Len(s) + 1) : (<<d, c>> \o Tail(s))[n] = s[n - 1]
<1>1. Tail(s) \in Seq(Call) /\ Len(Tail(s)) = Len(s) - 1 /\ Len(s) \in Nat \ {0}
  OBVIOUS
<1>2. \A n \in 1..(Len(s) - 1) : Tail(s)[n] = s[n + 1]
  OBVIOUS
<1> DEFINE r == Tail(s)
<1> HIDE DEF r
<1>3. /\ <<d, c>> \o r \in Seq(Call) /\ Len(<<d, c>> \o r) = Len(s) + 1
      /\ (<<d, c>> \o r)[1] = d /\ (<<d, c>> \o r)[2] = c
      /\ \A n \in 3..(Len(s) + 1) : (<<d, c>> \o r)[n] = r[n - 2]
  BY <1>1 DEF r
<1>4. \A n \in 3..(Len(s) + 1) : r[n - 2] = s[n - 1]
  BY <1>1, <1>2 DEF r
<1>5. <<d, c>> \o r # <<>>
  BY <1>1, <1>3
<1> QED
  BY <1>3, <1>4, <1>5 DEF r

\* The end of a round leaves the loop in its place.
LEMMA AdvancePlaced ==
  ASSUME State, NEW place, TablesPlaced(tables, place), AtEntry(place)
  PROVE  /\ Advance \in Call /\ Advance.lvl = Top.lvl /\ Advance.table = Top.table
         /\ Advance.base = Top.base + page_size(Top.lvl)
         /\ CallPlaced(place, span, Advance)
<1> DEFINE s == page_size(Top.lvl)
           r == place[Top.table]
           i == Index
<1>1. /\ Top \in Call /\ Top.lvl \in Levels /\ Top.base \in Nat /\ r \in Region /\ r.base \in Nat
      /\ r.lvl = Top.lvl /\ i \in Nat /\ i <= Fanout - 1 /\ Fanout \in Nat /\ i \in Indices
  BY PageMapArguments DEF AtEntry, Call, Region, Indices
<1>2. s \in Nat \ {0} /\ s % PTE_SIZE = 0 /\ page_size(Top.lvl + 1) = Fanout * s /\ Top.base + s \in Nat
  BY <1>1, PageSizes, PageMapArguments DEF Levels
<1>3. /\ Advance \in Call /\ Advance.lvl = Top.lvl /\ Advance.table = Top.table
      /\ Advance.base = Top.base + s /\ Advance.last = (i = Fanout - 1)
  BY <1>1, <1>2, Zenon DEF Advance, Call
<1>4. r.base + i * s <= Top.base /\ Top.base < r.base + i * s + s /\ Acme(r) = r.base + Fanout * s
  BY <1>1, <1>2 DEF AtEntry, InSlot, Acme
<1>5. Top.base % PTE_SIZE = 0 /\ span.base <= Top.base /\ span.base \in Nat /\ PTE_SIZE \in Nat \ {0}
  BY PageMapArguments DEF AtEntry, State
<1>6. Advance.table \in DOMAIN place /\ Advance.lvl = place[Advance.table].lvl
  BY <1>3 DEF AtEntry, TablesPlaced
<1>7. Advance.base % PTE_SIZE = 0 /\ span.base <= Advance.base
  <2> HIDE DEF s
  <2>1. s \in Nat
    BY <1>2
  <2>2. (Top.base + s) % PTE_SIZE = 0
    BY <1>1, <1>2, <1>5, <2>1, Multiple
  <2> QED
    BY <1>1, <1>3, <1>5, <2>1, <2>2
<1>8. IF Advance.last THEN Acme(place[Advance.table]) <= Advance.base
      ELSE Within(place[Advance.table], Advance.base)
  <2>0. place[Advance.table] = r
    BY <1>3
  <2> HIDE DEF s, r, i
  <2>1. CASE i = Fanout - 1
    <3>1. Fanout * s = i * s + s
      BY <1>1, <1>2, <2>1
    <3>2. i * s \in Nat
      BY <1>1, <1>2
    <3>3. Acme(r) <= Advance.base
      BY <1>1, <1>2, <1>3, <1>4, <3>1, <3>2
    <3> QED
      BY <1>3, <2>0, <2>1, <3>3, Zenon
  <2>2. CASE i # Fanout - 1
    <3>1. (Fanout - (i + 2)) * s >= 0
      BY <1>1, <1>2, <2>2
    <3>2. i * s \in Nat /\ i * s + s + s <= Fanout * s
      BY <1>1, <1>2, <3>1
    <3>3. Within(r, Advance.base)
      BY <1>1, <1>2, <1>3, <1>4, <3>2 DEF Within
    <3> QED
      BY <1>3, <2>0, <2>2, <3>3, Zenon
  <2> QED
    BY <2>1, <2>2
<1> QED
  BY <1>3, <1>6, <1>7, <1>8 DEF CallPlaced

\* The loops of a stack are at different levels, so in different tables.
LEMMA LoopsApart ==
  ASSUME State, NEW place, CallsPlaced(place), NEW n \in 2..Len(calls)
  PROVE  calls[n].table # calls[1].table /\ calls[n].table \in DOMAIN place
<1>1. n \in 1..Len(calls) /\ 1 \in 1..Len(calls) /\ n # 1 /\ Len(calls) \in Nat /\ PML4_LVL \in Nat
  BY PageMapArguments DEF State
<1>2. /\ calls[n].lvl = PML4_LVL - Len(calls) + n /\ CallPlaced(place, span, calls[n])
      /\ calls[1].lvl = PML4_LVL - Len(calls) + 1 /\ CallPlaced(place, span, calls[1])
  BY <1>1 DEF CallsPlaced
<1>3. calls[n].lvl # calls[1].lvl
  BY <1>1, <1>2
<1> QED
  BY <1>2, <1>3 DEF CallPlaced

LEMMA LeafKeepsCalls ==
  ASSUME State, NEW place, TablesPlaced(tables, place), CallsPlaced(place), LeafStep
  PROVE  CallsPlaced(place)'
<1>1. AtEntry(place)
  BY EntryOfLoop DEF LeafStep
<1>2. Writes(tables, tables', place, Top.table, Index)
  BY <1>1, LeafWrites
<1>3. /\ Advance \in Call /\ Advance.lvl = Top.lvl /\ Advance.table = Top.table
      /\ CallPlaced(place, span, Advance)
  BY <1>1, AdvancePlaced
<1> DEFINE m == Len(calls)
<1>4. calls \in Seq(Call) /\ calls # <<>> /\ Top = calls[1] /\ m \in Nat \ {0}
  BY <1>1 DEF State, AtEntry
<1>5. /\ Len(calls') = m /\ calls'[1] = Advance
      /\ \A n \in 2..m : calls'[n] = calls[n]
  BY <1>3, <1>4, TopReplaced DEF LeafStep
<1> HIDE DEF m
<1>6. span' = span
  BY DEF LeafStep
<1>7. \A n \in 1..m : calls'[n].lvl = calls[n].lvl /\ calls'[n].table = calls[n].table
  BY <1>3, <1>4, <1>5
<1>8. \A n \in 1..m : n = 1 \/ n \in 2..m
  BY <1>4
<1>9. \A n \in 1..m : calls'[n].lvl = PML4_LVL - m + n /\ CallPlaced(place, span, calls'[n])
  BY <1>3, <1>5, <1>7, <1>8 DEF CallsPlaced, m
<1>10. ASSUME NEW n \in 2..m
       PROVE  LeadsTo(tables', calls'[n].table, calls'[n - 1].table)
  <2>1. n \in 1..m /\ n - 1 \in 1..m
    BY <1>4
  <2>2. calls[n].table # Top.table /\ calls[n].table \in DOMAIN tables
    BY <1>4, LoopsApart DEF m, TablesPlaced
  <2>3. LeadsTo(tables, calls[n].table, calls[n - 1].table)
    BY DEF CallsPlaced, m
  <2>4. LeadsTo(tables', calls[n].table, calls[n - 1].table)
    BY <1>2, <2>2, <2>3 DEF LeadsTo, Writes, OneChanged
  <2> QED
    BY <1>7, <2>1, <2>4
<1>11. calls'[m].table = 0
  BY <1>4, <1>7 DEF CallsPlaced, m
<1> QED
  BY <1>5, <1>6, <1>9, <1>10, <1>11 DEF CallsPlaced, LeadsTo, Indices

\* What the tables and their placing are after a step that goes down to f.
GoesDownTo(place, after, f) ==
  /\ DOMAIN place \subseteq DOMAIN after
  /\ \A t \in DOMAIN place : after[t] = place[t]
  /\ f \in DOMAIN after /\ f \in Nat /\ Top.lvl > 1
  /\ after[f] = SubRegion(place[Top.table], Index)
  /\ LeadsTo(tables', Top.table, f)
  /\ \A t \in DOMAIN tables, i \in Indices :
       tables[t][i].kind = "branch" => tables'[t][i] = tables[t][i]

\* The loop that a step goes down to.
Inner(f) == [lvl |-> Top.lvl - 1, base |-> Top.base, table |-> f, last |-> FALSE]

LEMMA StackGoesDown ==
  ASSUME State, NEW place, TablesPlaced(tables, place), AtEntry(place), NEW f \in Nat,
         Top.lvl > 1, Descend(f)
  PROVE  /\ Inner(f) \in Call /\ Advance \in Call
         /\ calls' \in Seq(Call) /\ calls' # <<>> /\ Len(calls') = Len(calls) + 1
         /\ calls'[1] = Inner(f) /\ calls'[2] = Advance
         /\ \A n \in 3..(Len(calls) + 1) : calls'[n] = calls[n - 1]
<1>1. calls \in Seq(Call) /\ calls # <<>> /\ Top \in Call
  BY DEF State, AtEntry
<1>2. Top.lvl - 1 \in Levels
  BY <1>1, PageMapArguments DEF Call, Levels
<1>3. Inner(f) \in Call
  BY <1>1, <1>2 DEF Inner, Call
<1>4. Advance \in Call
  BY AdvancePlaced
<1>5. calls' = <<Inner(f), Advance>> \o Tail(calls)
  BY DEF Descend, Inner
<1> QED
  BY <1>1, <1>3, <1>4, <1>5, TopPushed

LEMMA DescendKeepsCalls ==
  ASSUME State, NEW place, TablesPlaced(tables, place), CallsPlaced(place), AtEntry(place),
         NEW after, NEW f, GoesDownTo(place, after, f), Descend(f), span' = span
  PROVE  CallsPlaced(after)'
<1> DEFINE m == Len(calls)
           r == place[Top.table]
           c == Inner(f)
<1>1. /\ calls \in Seq(Call) /\ calls # <<>> /\ Top = calls[1] /\ m \in Nat \ {0}
      /\ Top \in Call /\ r \in Region /\ Aligned(r) /\ Index \in Indices /\ InSlot(r, Index, Top.base)
      /\ r.lvl = Top.lvl /\ Top.lvl > 1 /\ f \in Nat
  BY DEF State, AtEntry, GoesDownTo
<1>2. /\ Advance.lvl = Top.lvl /\ Advance.table = Top.table
      /\ CallPlaced(place, span, Advance)
  BY AdvancePlaced
<1>3. /\ Len(calls') = m + 1 /\ calls'[1] = c /\ calls'[2] = Advance
      /\ \A n \in 3..(m + 1) : calls'[n] = calls[n - 1]
  BY <1>1, StackGoesDown
<1> HIDE DEF m
<1>4. \A d : CallPlaced(place, span, d) => CallPlaced(after, span, d)
  BY DEF CallPlaced, GoesDownTo
<1>5. CallPlaced(after, span, c)
  <2>1. c.lvl = Top.lvl - 1 /\ c.base = Top.base /\ c.table = f /\ c.last = FALSE
    BY DEF Inner
  <2>2. /\ after[f].lvl = Top.lvl - 1
        /\ after[f].base = r.base + Index * page_size(r.lvl)
        /\ Acme(after[f]) = r.base + Index * page_size(r.lvl) + page_size(r.lvl)
    <3>1. after[f] = SubRegion(r, Index)
      BY Zenon DEF GoesDownTo
    <3> HIDE DEF r
    <3> QED
      BY ONLY <1>1, <3>1, SubRegions
  <2>3. Within(after[f], Top.base)
    BY <1>1, <2>2 DEF Within, InSlot
  <2> HIDE DEF c
  <2> QED
    BY <2>1, <2>2, <2>3 DEF CallPlaced, GoesDownTo, AtEntry
<1>6. \A n \in 1..m : calls'[n + 1].lvl = calls[n].lvl /\ calls'[n + 1].table = calls[n].table
  <2> SUFFICES ASSUME NEW n \in 1..m
               PROVE  calls'[n + 1].lvl = calls[n].lvl /\ calls'[n + 1].table = calls[n].table
    OBVIOUS
  <2>1. CASE n = 1
    BY <1>1, <1>2, <1>3, <2>1
  <2>2. CASE n # 1
    <3>1. n + 1 \in 3..(m + 1) /\ (n + 1) - 1 = n
      BY ONLY n \in 1..m, <1>1, <2>2
    <3> QED
      BY <1>3, <3>1
  <2> QED
    BY <2>1, <2>2
<1>7. \A n \in 1..(m + 1) : CallPlaced(after, span, calls'[n])
  <2> SUFFICES ASSUME NEW n \in 1..(m + 1)
               PROVE  CallPlaced(after, span, calls'[n])
    OBVIOUS
  <2>1. CASE n = 1
    BY <1>3, <1>5, <2>1
  <2>2. CASE n = 2
    BY <1>2, <1>3, <1>4, <2>2
  <2>3. CASE n # 1 /\ n # 2
    <3>1. n \in 3..(m + 1) /\ n - 1 \in 1..m
      BY <1>1, <2>3
    <3>2. CallPlaced(place, span, calls[n - 1])
      BY <3>1 DEF CallsPlaced, m
    <3> QED
      BY <1>3, <1>4, <3>1, <3>2
  <2> QED
    BY <2>1, <2>2, <2>3
<1>8. \A n \in 1..(m + 1) : calls'[n].lvl = PML4_LVL - (m + 1) + n
  <2> SUFFICES ASSUME NEW n \in 1..(m + 1)
               PROVE  calls'[n].lvl = PML4_LVL - (m + 1) + n
    OBVIOUS
  <2>0. PML4_LVL \in Nat /\ 1 \in 1..m
    BY <1>1, PageMapArguments
  <2>1. CASE n = 1
    <3>1. Top.lvl = PML4_LVL - m + 1
      BY <1>1, <2>0 DEF CallsPlaced, m
    <3>2. calls'[1].lvl = Top.lvl - 1
      BY <1>3 DEF Inner
    <3> QED
      BY ONLY <1>1, <2>0, <2>1, <3>1, <3>2
  <2>2. CASE n # 1
    <3>1. n - 1 \in 1..m /\ (n - 1) + 1 = n
      BY ONLY n \in 1..(m + 1), <1>1, <2>2
    <3>2. calls[n - 1].lvl = PML4_LVL - m + (n - 1)
      BY <3>1 DEF CallsPlaced, m
    <3>3. calls'[n].lvl = calls[n - 1].lvl
      BY <1>6, <3>1
    <3> QED
      BY <1>1, <2>0, <3>2, <3>3
  <2> QED
    BY <2>1, <2>2
<1>9. ASSUME NEW n \in 2..(m + 1)
      PROVE  LeadsTo(tables', calls'[n].table, calls'[n - 1].table)
  <2>1. CASE n = 2
    <3>1. calls'[2].table = Top.table /\ calls'[2 - 1].table = f
      BY <1>2, <1>3 DEF Inner
    <3> QED
      BY <2>1, <3>1 DEF GoesDownTo
  <2>2. CASE n # 2
    <3>1. n - 1 \in 2..m /\ n - 1 \in 1..m /\ n - 2 \in 1..m /\ (n - 1) + 1 = n /\ (n - 2) + 1 = n - 1
          /\ (n - 1) - 1 = n - 2
      BY <1>1, <2>2
    <3>2. calls'[n].table = calls[n - 1].table /\ calls'[n - 1].table = calls[n - 2].table
      BY <1>6, <3>1
    <3>3. LeadsTo(tables, calls[n - 1].table, calls[n - 2].table)
      BY <3>1 DEF CallsPlaced, m
    <3>4. calls[n - 1].table \in DOMAIN tables
      BY <3>1 DEF CallsPlaced, CallPlaced, TablesPlaced, m
    <3>5. LeadsTo(tables', calls[n - 1].table, calls[n - 2].table)
      BY <3>3, <3>4 DEF LeadsTo, GoesDownTo
    <3> QED
      BY <3>2, <3>5
  <2> QED
    BY <2>1, <2>2
<1>10. calls'[m + 1].table = 0
  <2>1. m \in 1..m
    BY <1>1
  <2> QED
    BY <1>1, <1>6, <2>1 DEF CallsPlaced, m
<1> QED
  BY <1>3, <1>7, <1>8, <1>9, <1>10 DEF CallsPlaced, LeadsTo, Indices

LEMMA LeafKeepsPlaces ==
  ASSUME State, NEW place, TablesPlaced(tables, place), AtEntry(place), LeafStep
  PROVE  TablesPlaced(tables', place)
<1>1. /\ DOMAIN tables' = DOMAIN tables
      /\ Writes(tables, tables', place, Top.table, Index)
      /\ tables'[Top.table][Index].kind = "leaf"
  BY LeafWrites
<1>2. \A t \in DOMAIN tables, i \in Indices :
        tables'[t][i].kind = "branch" => tables'[t][i] = tables[t][i]
  BY ONLY <1>1 DEF Writes, OneChanged
<1> QED
  BY ONLY TablesPlaced(tables, place), <1>1, <1>2 DEF TablesPlaced

LEMMA NewTablePlaced ==
  ASSUME State, NEW place, TablesPlaced(tables, place), AtEntry(place), NewTableStep
  PROVE  \E after : GoesDownTo(place, after, fresh + 1) /\ TablesPlaced(tables', after)
<1> DEFINE new == fresh + 1
           r == place[Top.table]
           q == SubRegion(r, Index)
           after == [t \in (DOMAIN tables) \cup {new} |-> IF t = new THEN q ELSE place[t]]
<1>1. /\ DOMAIN tables' = (DOMAIN tables) \cup {new} /\ new \notin DOMAIN tables
      /\ Writes(tables, tables', place, Top.table, Index)
      /\ tables'[Top.table][Index] = [kind |-> "branch", frame |-> new]
      /\ tables'[new] = EmptyTable
      /\ tables[Top.table][Index] = Absent /\ r.lvl > 1
  BY NewTableWrites
<1>2. r \in Region /\ Aligned(r) /\ Index \in Indices /\ Top.table \in DOMAIN tables /\ Top.lvl = r.lvl
  BY DEF AtEntry
<1>3. q \in Region /\ Aligned(q)
  BY <1>1, <1>2, SubRegions
<1>4. new \in Nat
  BY PageMapArguments DEF State, IInv, Sound
<1> HIDE DEF q, new, r
<1>5. /\ after \in [(DOMAIN tables) \cup {new} -> Region] /\ after[new] = q
      /\ \A t \in DOMAIN tables : after[t] = place[t]
      /\ DOMAIN after = (DOMAIN tables) \cup {new}
  BY <1>1, <1>3, Zenon DEF TablesPlaced
<1> HIDE DEF after
<1>6. \A i \in Indices : tables'[new][i].kind = "none"
  BY ONLY <1>1, SMTT(30) DEF EmptyTable, Absent
<1>7. \A t \in DOMAIN tables, i \in Indices :
        \/ tables'[t][i] = tables[t][i]
        \/ t = Top.table /\ i = Index
  BY <1>1 DEF Writes, OneChanged
<1>8. GoesDownTo(place, after, new)
  <2>1. DOMAIN place = DOMAIN tables
    BY DEF TablesPlaced
  <2>2. LeadsTo(tables', Top.table, new)
    <3>1. tables'[Top.table][Index].kind = "branch" /\ tables'[Top.table][Index].frame = new
      BY ONLY <1>1, BranchFields, Zenon
    <3> QED
      BY ONLY <1>2, <3>1, Zenon DEF LeadsTo
  <2>3. \A t \in DOMAIN tables, i \in Indices :
          tables[t][i].kind = "branch" => tables'[t][i] = tables[t][i]
    BY ONLY <1>1, <1>7 DEF Absent
  <2> QED
    BY <1>1, <1>2, <1>4, <1>5, <2>1, <2>2, <2>3 DEF GoesDownTo, q, r
<1>9. TablesPlaced(tables', after)
  <2>1. 0 \in DOMAIN tables' /\ after[0] = [lvl |-> PML4_LVL, base |-> 0]
    BY <1>1, <1>5 DEF TablesPlaced
  <2>2. \A t \in DOMAIN tables' : Aligned(after[t])
    BY <1>1, <1>3, <1>5 DEF TablesPlaced
  <2>3. ASSUME NEW t \in DOMAIN tables', NEW i \in Indices, tables'[t][i].kind = "branch"
        PROVE  /\ after[t].lvl > 1 /\ tables'[t][i].frame \in DOMAIN tables'
               /\ after[tables'[t][i].frame] = SubRegion(after[t], i)
    <3>1. t \in DOMAIN tables
      BY <1>1, <1>6, <2>3, Zenon
    <3>2. CASE tables'[t][i] = tables[t][i]
      <4>1. tables[t][i].kind = "branch" /\ after[t] = place[t]
        BY ONLY <1>5, <2>3, <3>1, <3>2, Zenon
      <4>2. /\ place[t].lvl > 1 /\ tables[t][i].frame \in DOMAIN tables
            /\ place[tables[t][i].frame] = SubRegion(place[t], i)
        BY <3>1, <4>1, Zenon DEF TablesPlaced
      <4> QED
        BY ONLY <1>1, <1>5, <3>2, <4>1, <4>2, Zenon
    <3>3. CASE t = Top.table /\ i = Index
      <4>1. tables'[t][i].frame = new
        BY ONLY <1>1, <3>3, BranchFields, Zenon
      <4>2. after[t] = r /\ i = Index
        BY ONLY <1>2, <1>5, <3>3, Zenon DEF r
      <4> QED
        BY ONLY <1>1, <1>5, <4>1, <4>2, Zenon DEF q
    <3> QED
      BY <1>7, <3>1, <3>2, <3>3
  <2> QED
    BY <1>1, <1>5, <2>1, <2>2, <2>3 DEF TablesPlaced
<1> QED
  BY <1>8, <1>9 DEF new

LEMMA FollowGoesDown ==
  ASSUME State, NEW place, TablesPlaced(tables, place), AtEntry(place), FollowStep
  PROVE  GoesDownTo(place, place, EntryAt.frame)
<1> DEFINE e == tables[Top.table][Index]
<1>1. /\ Top.table \in DOMAIN tables /\ Index \in Indices /\ e.kind = "branch" /\ EntryAt = e
      /\ tables' = tables /\ Top.lvl = place[Top.table].lvl
  BY DEF FollowStep, EntryAt, AtEntry
<1>2. place[Top.table].lvl > 1 /\ e.frame \in DOMAIN tables /\ place[e.frame] = SubRegion(place[Top.table], Index)
  BY <1>1 DEF TablesPlaced
<1>3. e.frame \in Nat /\ DOMAIN place = DOMAIN tables
  BY <1>2, PageMapArguments DEF State, IInv, Sound, TablesPlaced
<1>4. LeadsTo(tables', Top.table, e.frame)
  BY <1>1 DEF LeadsTo
<1> HIDE DEF e
<1> QED
  BY <1>1, <1>2, <1>3, <1>4 DEF GoesDownTo

LEMMA ReturnKeepsCalls ==
  ASSUME State, NEW place, CallsPlaced(place), Return
  PROVE  /\ calls' \in Seq(Call) /\ Len(calls) \in Nat \ {0} /\ Len(calls') = Len(calls) - 1
         /\ \A n \in 1..(Len(calls) - 1) : calls'[n] = calls[n + 1]
         /\ (calls' = <<>>) <=> (Len(calls) = 1)
         /\ CallsPlaced(place)'
<1> DEFINE m == Len(calls)
<1>1. calls \in Seq(Call) /\ calls # <<>> /\ calls' = Tail(calls) /\ tables' = tables
  BY DEF State, Return
<1>2. /\ calls' \in Seq(Call) /\ m \in Nat \ {0} /\ Len(calls') = m - 1
      /\ \A n \in 1..(m - 1) : calls'[n] = calls[n + 1]
  BY <1>1
<1>3. (calls' = <<>>) <=> (m = 1)
  BY <1>2
<1>4. span' = span \/ m = 1
  BY DEF Return
<1>5. CallsPlaced(place)'
  <2>1. CASE m = 1
    BY <1>2, <1>3, <2>1 DEF CallsPlaced
  <2>2. CASE m # 1
    <3>1. PML4_LVL \in Nat /\ \A n \in 1..(m - 1) : n + 1 \in 1..m
      BY <1>2, PageMapArguments
    <3>2. \A n \in 1..(m - 1) : calls'[n].lvl = PML4_LVL - (m - 1) + n /\ CallPlaced(place, span, calls'[n])
      <4> SUFFICES ASSUME NEW n \in 1..(m - 1)
                   PROVE  calls'[n].lvl = PML4_LVL - (m - 1) + n /\ CallPlaced(place, span, calls'[n])
        OBVIOUS
      <4>1. calls[n + 1].lvl = PML4_LVL - m + (n + 1) /\ CallPlaced(place, span, calls[n + 1])
        BY <3>1 DEF CallsPlaced
      <4> QED
        BY <1>2, <3>1, <4>1
    <3>3. ASSUME NEW n \in 2..(m - 1)
          PROVE  LeadsTo(tables, calls'[n].table, calls'[n - 1].table)
      <4>1. n + 1 \in 2..m /\ n \in 1..(m - 1) /\ n - 1 \in 1..(m - 1) /\ (n + 1) - 1 = n /\ (n - 1) + 1 = n
        BY <1>2
      <4>2. LeadsTo(tables, calls[n + 1].table, calls[n].table)
        BY <4>1 DEF CallsPlaced
      <4> QED
        BY <1>2, <4>1, <4>2
    <3>4. calls'[m - 1].table = 0
      <4>1. m - 1 \in 1..(m - 1) /\ (m - 1) + 1 = m
        BY <1>2, <2>2
      <4> QED
        BY <1>1, <1>2, <4>1 DEF CallsPlaced
    <3> HIDE DEF m
    <3> QED
      BY <1>1, <1>2, <1>4, <2>2, <3>2, <3>3, <3>4, Zenon DEF CallsPlaced, LeadsTo, Indices
  <2> QED
    BY <2>1, <2>2
<1> QED
  BY <1>2, <1>3, <1>5
=============================================================================
