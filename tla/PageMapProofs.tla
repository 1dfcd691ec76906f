--------------------------- MODULE PageMapProofs ----------------------------
(***************************************************************************)
(* Proofs about what PageMap's map does to translations: nothing outside   *)
(* its span, and in the end all of its span when that is well placed.      *)
(***************************************************************************)
EXTENDS PageMapTreeProofs

\* What the whole part of a quotient of two natural numbers is.
LEMMA Quotients ==
  ASSUME NEW a \in Nat, NEW d \in Nat \ {0}
  PROVE  a \div d \in Nat /\ d * (a \div d) <= a /\ a < d * (a \div d) + d
OBVIOUS

(***************************************************************************)
(* What a page that is written translates.                                 *)
(***************************************************************************)

\* The walk of an address of a running loop's table does look into the table.
LEMMA LoopReached ==
  ASSUME State, NEW place, TablesPlaced(tables, place), CallsPlaced(place),
         NEW n \in 1..Len(calls), NEW p \in AddressSpace, Within(place[calls[n].table], p)
  PROVE  LooksInto(tables, p, calls[n].lvl, calls[n].table)
<1> DEFINE m == Len(calls)
           Reached(j) == Within(place[calls[j].table], p) => LooksInto(tables, p, calls[j].lvl, calls[j].table)
           S == {k \in 0..(m - 1) : ~Reached(m - k)}
<1>0. m \in Nat \ {0} /\ p \in Nat /\ PML4_LVL \in Nat /\ calls # <<>>
  BY PageSizes, PageMapArguments DEF State, AddressSpace
<1>1. Reached(m)
  <2>1. m \in 1..m
    BY <1>0
  <2>2. calls[m].table = 0 /\ calls[m].lvl = PML4_LVL - m + m
    BY <1>0, <2>1 DEF CallsPlaced
  <2>3. calls[m].lvl = PML4_LVL
    BY <1>0, <2>2
  <2> QED
    BY <2>2, <2>3 DEF LooksInto
<1>2. ASSUME NEW j \in 1..(m - 1), Reached(j + 1)
      PROVE  Reached(j)
  <2> SUFFICES ASSUME Within(place[calls[j].table], p)
               PROVE  LooksInto(tables, p, calls[j].lvl, calls[j].table)
    OBVIOUS
  <2> DEFINE u == calls[j + 1].table
             l == calls[j + 1].lvl
             t == calls[j].table
  <2>1. j \in 1..m /\ j + 1 \in 1..m /\ j + 1 \in 2..m /\ (j + 1) - 1 = j
    BY <1>0
  <2>2. PICK i \in Indices : tables[u][i].kind = "branch" /\ tables[u][i].frame = t
    BY <2>1, Zenon DEF CallsPlaced, LeadsTo
  <2>3. u \in DOMAIN tables /\ place[u] \in Region /\ Aligned(place[u]) /\ place[u].lvl = l
    BY <2>1 DEF CallsPlaced, CallPlaced, TablesPlaced
  <2>4. place[t] = SubRegion(place[u], i)
    BY <2>2, <2>3 DEF TablesPlaced
  <2>5. InSlot(place[u], i, p)
    BY <2>3, <2>4, SubRegions DEF Within, InSlot
  <2>6. Within(place[u], p) /\ table_index(p, l) = i
    BY <1>0, <2>3, <2>5, LookupIs DEF InSlot
  <2>7. LooksInto(tables, p, l, u)
    BY <1>2, <2>6
  <2>8. l \in Levels
    BY <2>3 DEF Region
  <2>9. Walk(tables, p)[l] = tables[u][i]
    BY <2>6, <2>7, <2>8, Looks
  <2>10. calls[j].lvl # PML4_LVL /\ calls[j].lvl + 1 = l
    <3>1. calls[j].lvl = PML4_LVL - m + j /\ l = PML4_LVL - m + (j + 1)
      BY <2>1 DEF CallsPlaced
    <3> QED
      BY <1>0, <3>1
  <2> QED
    BY <2>2, <2>9, <2>10 DEF LooksInto
<1> HIDE DEF Reached
<1>3. S = {}
  <2> SUFFICES ASSUME S # {} PROVE FALSE
    OBVIOUS
  <2>1. S \subseteq Nat
    OBVIOUS
  <2>2. PICK k \in S : \A j \in S : k <= j
    BY <2>1, LeastNumber, Zenon
  <2>3. k \in 0..(m - 1) /\ ~Reached(m - k)
    BY <2>2
  <2>4. k # 0
    BY <1>0, <1>1, <2>3
  <2>5. k - 1 \in 0..(m - 1) /\ ~(k <= k - 1)
    BY <1>0, <2>3, <2>4
  <2>6. Reached(m - (k - 1))
    BY <2>2, <2>5, Zenon
  <2>7. m - (k - 1) = (m - k) + 1 /\ m - k \in 1..(m - 1)
    BY <1>0, <2>3, <2>4
  <2> QED
    BY <1>2, <2>3, <2>6, <2>7
<1>4. m - n \in 0..(m - 1) /\ m - (m - n) = n
  BY <1>0
<1>5. Reached(n)
  BY <1>3, <1>4, Zenon
<1> QED
  BY <1>5 DEF Reached

\* A page is found by the walks that look into its table.
LEMMA LeafFound ==
  ASSUME NEW tbl, NEW after, NEW place, NEW t, NEW i, Writes(tbl, after, place, t, i),
         NEW p \in AddressSpace, InSlot(place[t], i, p), LooksInto(tbl, p, place[t].lvl, t),
         after[t][i].kind = "leaf"
  PROVE  Walk(after, p)[1].kind = "leaf"
<1> DEFINE L == place[t].lvl
           S == {l \in Levels : IF l > L THEN Walk(after, p)[l] = Walk(tbl, p)[l]
                                ELSE Walk(after, p)[l].kind = "leaf"}
<1>0. /\ PML4_LVL \in Levels /\ 1 \in Levels /\ L \in Levels /\ p \in Nat
      /\ \A l \in 1..(PML4_LVL - 1) : l \in Levels /\ l # PML4_LVL
      /\ \A l \in Levels : l \in Nat /\ l >= 1 /\ l <= PML4_LVL
  BY PageSizes, PageMapArguments DEF Writes, TablesPlaced, Region, Levels, AddressSpace
<1>1. ASSUME NEW l \in Levels, l >= L, SameAbove(tbl, after, p, l)
      PROVE  l \in S
  <2>1. CASE l > L
    <3>1. ~ReadsEntry(tbl, place, p, l, t, i)
      BY <1>0, <2>1 DEF ReadsEntry
    <3>2. Walk(after, p)[l] = Walk(tbl, p)[l]
      BY <1>1, <3>1, ReadsTheSame
    <3> QED
      BY <2>1, <3>2
  <2>2. CASE l = L
    <3>1. LooksInto(after, p, l, t)
      BY <1>1, <2>2 DEF LooksInto, SameAbove
    <3>2. table_index(p, l) = i
      BY <1>0, <2>2, LookupIs DEF Writes, TablesPlaced, InSlot
    <3>3. Walk(after, p)[l].kind = "leaf"
      BY <3>1, <3>2, Looks
    <3> QED
      BY <1>0, <2>2, <3>3
  <2> QED
    BY <1>0, <1>1, <2>1, <2>2
<1>2. PML4_LVL \in S
  <2>1. PML4_LVL >= L
    BY <1>0
  <2> QED
    BY <1>0, <1>1, <2>1 DEF SameAbove
<1>3. ASSUME NEW l \in 1..(PML4_LVL - 1), l + 1 \in S PROVE l \in S
  <2>1. CASE l + 1 > L
    <3>1. l >= L
      BY <1>0, <2>1
    <3>2. Walk(after, p)[l + 1] = Walk(tbl, p)[l + 1]
      BY <1>3, <2>1
    <3> QED
      BY <1>0, <1>1, <3>1, <3>2 DEF SameAbove
  <2>2. CASE ~(l + 1 > L)
    <3>1. Walk(after, p)[l + 1].kind = "leaf"
      BY <1>3, <2>2
    <3>2. \A u : ~LooksInto(after, p, l, u)
      BY <1>0, <3>1 DEF LooksInto
    <3>3. Walk(after, p)[l].kind = "leaf"
      BY <1>0, <3>1, <3>2, Looks
    <3>4. ~(l > L)
      BY <1>0, <2>2
    <3> QED
      BY <1>0, <3>3, <3>4
  <2> QED
    BY <2>1, <2>2
<1> HIDE DEF S
<1>4. 1 \in S
  BY <1>0, <1>2, <1>3, DownTheLevels
<1>5. ~(1 > L)
  BY <1>0
<1> QED
  BY <1>4, <1>5 DEF S

\* A page that is written: in its part all is translated, elsewhere nothing changes.
LEMMA LeafTranslates ==
  ASSUME State, NEW place, TablesPlaced(tables, place), CallsPlaced(place), LeafStep,
         NEW p \in AddressSpace
  PROVE  IF InSlot(place[Top.table], Index, p) THEN Translate(p)'.kind = "leaf"
         ELSE Translate(p)' = Translate(p)
<1> DEFINE t == Top.table
           i == Index
<1>1. AtEntry(place)
  BY EntryOfLoop DEF LeafStep
<1>2. Writes(tables, tables', place, t, i) /\ tables'[t][i].kind = "leaf"
  BY <1>1, LeafWrites
<1>3. Translate(p) = Walk(tables, p)[1] /\ Translate(p)' = Walk(tables', p)[1]
  BY DEF Translate
<1>4. CASE ~InSlot(place[t], i, p)
  <2> HIDE DEF t, i
  <2>1. Walk(tables', p)[1] = Walk(tables, p)[1]
    BY <1>2, <1>4, OthersKept
  <2> QED
    BY <1>3, <1>4, <2>1 DEF t, i
<1>5. CASE InSlot(place[t], i, p)
  <2>1. p \in Nat
    BY PageSizes, PageMapArguments DEF AddressSpace
  <2>2. Within(place[t], p) /\ t = calls[1].table /\ Top.lvl = calls[1].lvl /\ Top.lvl = place[t].lvl /\ 1 \in 1..Len(calls)
    BY <1>1, <1>5, <2>1, LookupIs DEF AtEntry, InSlot
  <2>3. LooksInto(tables, p, place[t].lvl, t)
    BY <2>2, LoopReached, Zenon
  <2> HIDE DEF t, i
  <2>4. Walk(tables', p)[1].kind = "leaf"
    BY <1>2, <1>5, <2>3, LeafFound
  <2> QED
    BY <1>3, <1>5, <2>4 DEF t, i
<1> QED
  BY <1>4, <1>5

\* A new table translates nothing yet.
LEMMA NewTableTranslates ==
  ASSUME State, NEW place, TablesPlaced(tables, place), AtEntry(place), NewTableStep,
         NEW p \in AddressSpace
  PROVE  Translate(p)' = Translate(p)
<1> DEFINE t == Top.table
           i == Index
           new == fresh + 1
<1>1. /\ Writes(tables, tables', place, t, i) /\ tables'[t][i] = [kind |-> "branch", frame |-> new]
      /\ tables'[new] = EmptyTable /\ tables[t][i] = Absent /\ place[t].lvl > 1
  BY NewTableWrites
<1>2. Translate(p) = Walk(tables, p)[1] /\ Translate(p)' = Walk(tables', p)[1]
  BY DEF Translate
<1> HIDE DEF t, i, new
<1>3. Walk(tables', p)[1] = Walk(tables, p)[1]
  BY <1>1, EmptyTableKeeps
<1> QED
  BY <1>2, <1>3

(***************************************************************************)
(* The invariant.                                                          *)
(***************************************************************************)

\* The span of a request is made of whole pages, and not empty.
LEMMA SpanOfRequest ==
  ASSUME NEW r \in Requests
  PROVE  /\ SpanOf(r) \in [base : Nat, acme : Nat]
         /\ SpanOf(r).base % PTE_SIZE = 0 /\ SpanOf(r).acme % PTE_SIZE = 0
         /\ SpanOf(r).base < SpanOf(r).acme /\ SpanOf(r).acme <= page_size(PML4_LVL + 1)
<1> DEFINE d == PTE_SIZE
           b == r.base - (r.base % d)
           z == r.size + d - 1
           a == z - (z % d)
<1>1. d \in Nat \ {0} /\ r.base \in Nat /\ r.size \in Nat \ {0} /\ z \in Nat /\ z >= d
  BY PageMapArguments
<1>2. SpanOf(r) = [base |-> b, acme |-> b + a]
  BY DEF SpanOf
<1> HIDE DEF z
<1>3. /\ b = d * (r.base \div d) /\ r.base \div d \in Nat
      /\ a = d * (z \div d) /\ z \div d \in Nat
  BY <1>1
<1>4. \A k \in Nat : d * k \in Nat /\ (d * k) % d = 0
  <2> SUFFICES ASSUME NEW k \in Nat PROVE d * k \in Nat /\ (d * k) % d = 0
    OBVIOUS
  <2>1. 0 \in 0..(d - 1) /\ d * k \in Nat
    BY <1>1
  <2>2. (d * k + 0) % d = 0
    BY <1>1, <2>1, Remainder
  <2> QED
    BY <2>1, <2>2
<1>5. b \in Nat /\ b % d = 0 /\ a \in Nat /\ a % d = 0
  BY <1>3, <1>4
<1>6. a > 0
  BY <1>1
<1> HIDE DEF a, b, d
<1>7. (b + a) % d = 0 /\ b + a \in Nat
  <2>1. (b + a) % d = 0
    BY <1>1, <1>5, Multiple
  <2> QED
    BY <1>5, <2>1
<1>8. SpanOf(r).base = b /\ SpanOf(r).acme = b + a /\ SpanOf(r) \in [base : Nat, acme : Nat]
  BY <1>2, <1>5, <1>7
<1> QED
  BY <1>5, <1>6, <1>7, <1>8, SpansInTable DEF d

LEMMA MapStarts ==
  ASSUME State, NEW place, TablesPlaced(tables, place), NEW r \in Requests, Map(r)
  PROVE  /\ calls' \in Seq(Call) /\ Len(calls') = 1 /\ calls' # <<>>
         /\ calls'[1].base = SpanOf(r).base /\ Top'.base = SpanOf(r).base
         /\ CallsPlaced(place)'
<1> DEFINE s == SpanOf(r)
           c == [lvl |-> PML4_LVL, base |-> s.base, table |-> 0, last |-> FALSE]
<1>1. /\ s \in [base : Nat, acme : Nat] /\ s.base % PTE_SIZE = 0
      /\ s.base < s.acme /\ s.acme <= page_size(PML4_LVL + 1)
  BY SpanOfRequest
<1>2. span' = s /\ calls' = <<c>> /\ tables' = tables
  BY DEF Map
<1> HIDE DEF s
<1>3. PML4_LVL \in Levels /\ PML4_LVL \in Nat /\ page_size(PML4_LVL + 1) \in Nat
  BY PageSizes, PageMapArguments DEF Levels
<1>4. c \in Call
  BY <1>1, <1>3 DEF Call
<1>5. calls' \in Seq(Call) /\ Len(calls') = 1 /\ calls'[1] = c /\ calls' # <<>>
  BY <1>2, <1>4
<1>6. place[0].lvl = PML4_LVL /\ place[0].base = 0 /\ 0 \in DOMAIN place
  BY DEF TablesPlaced
<1>7. CallPlaced(place, s, c)
  BY <1>1, <1>3, <1>6 DEF CallPlaced, Within, Acme
<1>8. c.table = 0 /\ c.lvl = PML4_LVL - 1 + 1
  BY <1>3
<1> HIDE DEF c
<1>9. \A n \in 1..1 : n = 1
  OBVIOUS
<1>10. 2..1 = {}
  OBVIOUS
<1>11. CallsPlaced(place)'
  BY <1>2, <1>5, <1>7, <1>8, <1>9, <1>10 DEF CallsPlaced
<1>12. Top' = c /\ c.base = s.base
  BY <1>5 DEF Top, c
<1> QED
  BY <1>5, <1>11, <1>12 DEF s

\* The variables keep their types over every step.
LEMMA StateKept ==
  ASSUME State, NEW place, TablesPlaced(tables, place), CallsPlaced(place), [Next]_vars
  PROVE  State'
<1>1. IInv'
  BY TreeStep DEF State
<1>2. CASE \E r \in Requests : Map(r)
  <2>1. PICK r \in Requests : Map(r)
    BY <1>2
  <2>2. calls' \in Seq(Call) /\ calls' # <<>>
    BY <2>1, MapStarts
  <2>3. SpanOf(r) \in [base : Nat, acme : Nat] /\ SpanOf(r).acme % PTE_SIZE = 0
    BY SpanOfRequest
  <2> QED
    BY <1>1, <2>1, <2>2, <2>3 DEF State, Map, Indices
<1>3. CASE LeafStep
  <2>1. AtEntry(place)
    BY <1>3, EntryOfLoop DEF LeafStep
  <2>2. /\ DOMAIN tables' = DOMAIN tables
        /\ Writes(tables, tables', place, Top.table, Index)
        /\ tables'[Top.table][Index].kind = "leaf"
    BY <1>3, <2>1, LeafWrites
  <2>3. calls' \in Seq(Call) /\ calls' # <<>>
    BY <1>3, <2>1, AdvancePlaced, TopReplaced DEF LeafStep, State, AtEntry
  <2>4. \A t \in DOMAIN tables', i \in Indices : tables'[t][i].kind = "none" => tables'[t][i] = Absent
    BY <2>2 DEF State, Writes, OneChanged
  <2> QED
    BY <1>1, <1>3, <2>3, <2>4 DEF State, LeafStep, Looping, Indices
<1>4. CASE NewTableStep
  <2>1. AtEntry(place)
    BY <1>4, EntryOfLoop DEF NewTableStep
  <2>2. /\ DOMAIN tables' = (DOMAIN tables) \cup {fresh + 1}
        /\ Writes(tables, tables', place, Top.table, Index)
        /\ tables'[Top.table][Index].kind = "branch"
        /\ tables'[fresh + 1] = EmptyTable /\ place[Top.table].lvl > 1
    BY <1>4, <2>1, NewTableWrites
  <2>3. fresh + 1 \in Nat /\ Top.lvl > 1
    BY <2>1, <2>2, PageMapArguments DEF State, IInv, Sound, AtEntry
  <2>4. calls' \in Seq(Call) /\ calls' # <<>>
    BY <1>4, <2>1, <2>3, StackGoesDown DEF NewTableStep
  <2>5. \A i \in Indices : EmptyTable[i] = Absent
    BY DEF EmptyTable
  <2>6. \A t \in DOMAIN tables', i \in Indices : tables'[t][i].kind = "none" => tables'[t][i] = Absent
    BY <2>2, <2>5 DEF State, Writes, OneChanged
  <2> QED
    BY <1>1, <1>4, <2>4, <2>6, Zenon DEF State, NewTableStep, Looping, Indices
<1>5. CASE FollowStep
  <2>1. AtEntry(place)
    BY <1>5, EntryOfLoop DEF FollowStep
  <2>2. GoesDownTo(place, place, EntryAt.frame)
    BY <1>5, <2>1, FollowGoesDown
  <2>3. calls' \in Seq(Call) /\ calls' # <<>>
    BY <1>5, <2>1, <2>2, StackGoesDown DEF FollowStep, GoesDownTo
  <2> QED
    BY <1>1, <1>5, <2>3 DEF State, FollowStep, Looping, Indices
<1>6. CASE Return
  <2>1. calls' \in Seq(Call) /\ ((calls' = <<>>) <=> (Len(calls) = 1))
    BY <1>6, ReturnKeepsCalls
  <2>2. NoSpan \in [base : Nat, acme : Nat] /\ NoSpan.acme % PTE_SIZE = 0
    BY PageMapArguments DEF NoSpan
  <2> QED
    BY <1>1, <1>6, <2>1, <2>2 DEF State, Return, Indices
<1>7. CASE HaltStep \/ UNCHANGED vars
  BY <1>1, <1>7 DEF State, HaltStep, vars, Indices
<1> QED
  BY <1>2, <1>3, <1>4, <1>5, <1>6, <1>7, Steps

(***************************************************************************)
(* Well placed spans are mapped.                                           *)
(***************************************************************************)

\* A well placed span, where a loop goes down: the loop starts the entry at
\* its beginning, or the rest of the span is in the entry.
LEMMA EntryStart ==
  ASSUME State, NEW place, AtEntry(place), WellPlaced(span), Smooth(place)
  PROVE  LET s == page_size(Top.lvl)
             b == place[Top.table].base + Index * s
         IN  \/ Top.base = b /\ Top.base % s = 0
             \/ Top.base = span.base /\ span.acme <= b + s
<1> DEFINE s == page_size(Top.lvl)
           b == place[Top.table].base + Index * s
           base == Top.base
           acme == span.acme
<1>1. base \in Nat /\ acme \in Nat /\ Top.lvl \in Levels /\ base < acme /\ 1 \in 1..Len(calls) /\ Top = calls[1]
  BY DEF State, AtEntry, Call
<1>2. s \in Nat \ {0}
  <2>1. Top.lvl \in 1..(PML4_LVL + 1)
    BY <1>1, PageMapArguments DEF Levels
  <2> QED
    BY <2>1, PageSizes
<1>3. b \in Nat /\ b % s = 0
  BY SubRegions DEF AtEntry
<1>4. b <= base /\ base < b + s
  BY DEF AtEntry, InSlot
<1>5. base % s = 0 \/ base = span.base
  BY <1>1 DEF Smooth
<1>6. base % s = 0 \/ (base = span.base /\ base \div s = (acme - 1) \div s)
  BY <1>1, <1>5 DEF WellPlaced
<1> HIDE DEF s, b, base, acme
<1>7. CASE base % s = 0
  <2>1. base <= b
    BY <1>1, <1>2, <1>3, <1>4, <1>7, Multiple, Zenon
  <2>2. base = b
    BY <1>1, <1>3, <1>4, <2>1
  <2> QED
    BY <1>7, <2>2 DEF s, b, base
<1>8. CASE base = span.base /\ base \div s = (acme - 1) \div s
  <2> DEFINE e == acme - 1
             k == b \div s
             q == base \div s
  <2>1. e \in Nat
    BY <1>1
  <2> HIDE DEF e
  <2>2. k \in Nat /\ b = s * k
    BY <1>2, <1>3
  <2>3. q \in Nat /\ s * q <= base /\ q = e \div s
    <3>1. base \div s \in Nat /\ s * (base \div s) <= base
      BY <1>1, <1>2, Quotients, Zenon
    <3> QED
      BY <1>8, <3>1, Zenon DEF e
  <2>4. e < s * q + s
    <3>1. e < s * (e \div s) + s
      BY <1>2, <2>1, Quotients, Zenon
    <3> HIDE DEF q
    <3> QED
      BY <2>3, <3>1
  <2> HIDE DEF q, k
  <2>5. q * s < (k + 1) * s
    BY <1>1, <1>2, <1>4, <2>2, <2>3
  <2>6. q < k + 1
    BY <1>2, <2>2, <2>3, <2>5, TimesLess
  <2>7. (k - q) * s >= 0
    BY <1>2, <2>2, <2>3, <2>6
  <2>8. s * q <= b
    BY <1>2, <2>2, <2>3, <2>7
  <2>9. s * q \in Nat
    BY <1>2, <2>3
  <2>10. acme <= b + s
    BY <1>1, <1>2, <1>3, <2>1, <2>4, <2>8, <2>9 DEF e
  <2> QED
    BY <1>8, <2>10 DEF s, b, base, acme
<1> QED
  BY <1>6, <1>7, <1>8

\* What is at the start of a page is at the start of one of the level below.
LEMMA StartBelow ==
  ASSUME NEW l \in Levels, l > 1, NEW a \in Nat, a % page_size(l) = 0
  PROVE  a % page_size(l - 1) = 0
<1> DEFINE s == page_size(l - 1)
           w == page_size(l)
<1>1. l - 1 \in Levels /\ (l - 1) + 1 = l /\ l - 1 \in 1..(PML4_LVL + 1) /\ Fanout \in Nat \ {0}
  BY PageMapArguments DEF Levels
<1>2. s \in Nat \ {0} /\ w = Fanout * s
  BY Zenon, <1>1, PageSizes
<1>3. a % w = 0
  OBVIOUS
<1> HIDE DEF s, w
<1>4. w \in Nat \ {0}
  BY <1>1, <1>2
<1> DEFINE k == a \div w
           z == Fanout * k
<1>5. k \in Nat /\ a = w * k
  BY <1>3, <1>4
<1> HIDE DEF k
<1>6. z \in Nat /\ a = s * z + 0 /\ 0 \in 0..(s - 1)
  BY <1>1, <1>2, <1>5
<1> HIDE DEF z
<1>7. a % s = 0
  BY <1>2, <1>6, Remainder
<1> QED
  BY <1>7 DEF s

LEMMA LeafKeepsSmooth ==
  ASSUME State, NEW place, TablesPlaced(tables, place), CallsPlaced(place),
         WellPlaced(span), Smooth(place), LeafStep
  PROVE  Smooth(place)'
<1> DEFINE m == Len(calls)
           s == page_size(Top.lvl)
           base == Top.base
<1>1. AtEntry(place)
  BY EntryOfLoop DEF LeafStep
<1>2. Advance \in Call /\ Advance.lvl = Top.lvl /\ Advance.table = Top.table /\ Advance.base = base + s
  BY <1>1, AdvancePlaced
<1>3. calls \in Seq(Call) /\ calls # <<>> /\ Top = calls[1] /\ m \in Nat \ {0} /\ span' = span /\ pc' = pc
  BY <1>1 DEF State, AtEntry, LeafStep
<1>4. /\ Len(calls') = m /\ calls'[1] = Advance /\ calls' \in Seq(Call) /\ calls' # <<>>
      /\ \A n \in 2..m : calls'[n] = calls[n]
  BY <1>2, <1>3, TopReplaced DEF LeafStep
<1>5. Top' = Advance
  BY <1>4 DEF Top
<1>6. base \in Nat /\ s \in Nat \ {0} /\ base % s = 0 /\ (base + s) % s = 0
  <2>1. base \in Nat /\ Top.lvl \in Levels
    BY <1>1 DEF AtEntry, Call
  <2>2. s \in Nat \ {0}
    BY <2>1, PageSizes, PageMapArguments DEF Levels
  <2>3. base = place[Top.table].base + Index * s
    BY <1>1, LeafInSpan DEF LeafStep
  <2>4. base % s = 0
    <3>1. place[Top.table] \in Region /\ Aligned(place[Top.table]) /\ Index \in Indices
          /\ place[Top.table].lvl = Top.lvl
      BY <1>1, Zenon DEF AtEntry
    <3>2. (place[Top.table].base + Index * page_size(place[Top.table].lvl)) % page_size(place[Top.table].lvl) = 0
      BY <3>1, SubRegions, Zenon
    <3> QED
      BY <2>3, <3>1, <3>2, Zenon
  <2> HIDE DEF s, base
  <2>5. s \in Nat /\ s % s = 0
    BY <2>2
  <2>6. (base + s) % s = 0
    BY <2>1, <2>2, <2>4, <2>5, Multiple, Zenon
  <2> QED
    BY <2>1, <2>2, <2>4, <2>6
<1>7. \A n \in 1..m : \/ calls'[n].base % page_size(calls'[n].lvl) = 0
                      \/ calls'[n].base = span.base \/ span.acme <= calls'[n].base
  <2> SUFFICES ASSUME NEW n \in 1..m
               PROVE  \/ calls'[n].base % page_size(calls'[n].lvl) = 0
                      \/ calls'[n].base = span.base \/ span.acme <= calls'[n].base
    OBVIOUS
  <2>1. CASE n = 1
    BY <1>2, <1>4, <1>6, <2>1
  <2>2. CASE n # 1
    BY <1>3, <1>4, <2>2 DEF Smooth
  <2> QED
    BY <2>1, <2>2
<1>8. \A n \in 2..m : \/ calls'[n].base <= Acme(place[calls'[n - 1].table])
                      \/ span.acme <= Acme(place[calls'[n - 1].table])
  <2> SUFFICES ASSUME NEW n \in 2..m
               PROVE  calls'[n] = calls[n] /\ calls'[n - 1].table = calls[n - 1].table
    BY DEF Smooth
  <2>1. CASE n = 2
    BY <1>2, <1>3, <1>4, <2>1
  <2>2. CASE n # 2
    <3>1. n - 1 \in 2..m
      BY <1>3, <2>2
    <3> QED
      BY <1>4, <3>1
  <2> QED
    BY <2>1, <2>2
<1>9. ASSUME NEW p \in PagesOf(span), p < base + s
      PROVE  Translate(p)'.kind = "leaf"
  <2>1. p \in AddressSpace /\ p \in Nat
    BY PageAddresses DEF PagesOf
  <2>2. CASE p < base
    <3>1. Translate(p).kind = "leaf"
      BY <2>2 DEF Smooth, LeafStep, Looping
    <3> QED
      BY <2>1, <3>1, LeafTranslates
  <2>3. CASE base <= p
    <3>1. base = place[Top.table].base + Index * s /\ Top.lvl = place[Top.table].lvl
      BY <1>1, LeafInSpan DEF LeafStep, AtEntry
    <3>2. InSlot(place[Top.table], Index, p)
      BY <1>9, <2>3, <3>1 DEF InSlot
    <3> QED
      BY <2>1, <3>2, LeafTranslates
  <2> QED
    BY <1>6, <2>1, <2>2, <2>3
<1>10. PagesOf(span') = PagesOf(span)
  BY <1>3
<1> QED
  BY <1>2, <1>3, <1>4, <1>5, <1>7, <1>8, <1>9, <1>10 DEF Smooth

LEMMA DescendKeepsSmooth ==
  ASSUME State, NEW place, TablesPlaced(tables, place), CallsPlaced(place), AtEntry(place),
         WellPlaced(span), Smooth(place), NEW after, NEW f, GoesDownTo(place, after, f), Descend(f),
         span' = span, pc' = pc, pc = "map",
         \A p \in AddressSpace : Translate(p)' = Translate(p)
  PROVE  Smooth(after)'
<1> DEFINE m == Len(calls)
           s == page_size(Top.lvl)
           r == place[Top.table]
           b == r.base + Index * s
           base == Top.base
           acme == span.acme
<1>1. /\ m \in Nat \ {0} /\ Top = calls[1] /\ Top.lvl > 1 /\ Top.lvl \in Levels /\ f \in Nat
      /\ base \in Nat /\ acme \in Nat /\ base < acme /\ r \in Region /\ Aligned(r) /\ r.lvl = Top.lvl
      /\ Index \in Indices
  BY DEF State, AtEntry, Call, GoesDownTo
<1>2. Advance.lvl = Top.lvl /\ Advance.table = Top.table /\ Advance.base = base + s
  BY AdvancePlaced
<1>3. /\ Len(calls') = m + 1 /\ calls'[1] = Inner(f) /\ calls'[2] = Advance
      /\ calls' \in Seq(Call) /\ calls' # <<>>
      /\ \A n \in 3..(m + 1) : calls'[n] = calls[n - 1]
  BY <1>1, StackGoesDown
<1>4. Inner(f).base = base /\ Inner(f).lvl = Top.lvl - 1 /\ Inner(f).table = f
  BY DEF Inner
<1>5. Top'.base = base
  BY <1>3, <1>4 DEF Top
<1>6. (base = b /\ base % s = 0) \/ (base = span.base /\ acme <= b + s)
  BY EntryStart
<1>7. s \in Nat \ {0} /\ b \in Nat /\ Acme(after[f]) = b + s
  <2>1. Top.lvl \in 1..(PML4_LVL + 1)
    BY <1>1, PageMapArguments DEF Levels
  <2>2. b \in Nat /\ Acme(SubRegion(r, Index)) = b + s
    BY <1>1, SubRegions
  <2> QED
    BY <2>1, <2>2, PageSizes DEF GoesDownTo
<1>8. b <= base
  BY DEF AtEntry, InSlot
<1> HIDE DEF m
<1>9. ASSUME NEW n \in 1..(m + 1)
      PROVE  \/ calls'[n].base % page_size(calls'[n].lvl) = 0
             \/ calls'[n].base = span.base \/ acme <= calls'[n].base
  <2>1. CASE n = 1
    <3>1. base % s = 0 => base % page_size(Top.lvl - 1) = 0
      BY <1>1, StartBelow
    <3> QED
      BY <1>3, <1>4, <1>6, <2>1, <3>1
  <2>2. CASE n = 2
    <3>1. calls'[n].base = base + s /\ calls'[n].lvl = Top.lvl
      BY <1>2, <1>3, <2>2
    <3> HIDE DEF base, b, acme
    <3>2. CASE base % s = 0
      <4>1. s \in Nat /\ s % s = 0
        BY <1>7
      <4>2. (base + s) % s = 0
        BY <1>1, <1>7, <3>2, <4>1, Multiple
      <4> QED
        BY <3>1, <4>2
    <3>3. CASE acme <= b + s
      BY <1>1, <1>7, <1>8, <3>1, <3>3
    <3> QED
      BY <1>6, <3>2, <3>3
  <2>3. CASE n # 1 /\ n # 2
    <3>1. n \in 3..(m + 1) /\ n - 1 \in 1..m
      BY <1>1, <2>3
    <3>2. calls'[n] = calls[n - 1]
      BY <1>3, <3>1
    <3>3. \/ calls[n - 1].base % page_size(calls[n - 1].lvl) = 0
          \/ calls[n - 1].base = span.base \/ acme <= calls[n - 1].base
      BY <3>1 DEF Smooth, m
    <3> QED
      BY <3>2, <3>3
  <2> QED
    BY <2>1, <2>2, <2>3
<1>10. ASSUME NEW n \in 2..(m + 1)
       PROVE  \/ calls'[n].base <= Acme(after[calls'[n - 1].table])
              \/ acme <= Acme(after[calls'[n - 1].table])
  <2>1. CASE n = 2
    <3>1. calls'[n].base = base + s /\ calls'[n - 1].table = f
      BY <1>2, <1>3, <1>4, <2>1
    <3> HIDE DEF base, b, acme, s
    <3> QED
      BY <1>1, <1>6, <1>7, <3>1
  <2>2. CASE n # 2
    <3>1. n \in 3..(m + 1) /\ n - 1 \in 2..m /\ n - 2 \in 1..m /\ (n - 1) - 1 = n - 2
      BY <1>1, <2>2
    <3>2. calls'[n] = calls[n - 1]
      BY <1>3, <3>1
    <3>3. calls'[n - 1].table = calls[n - 2].table
      <4>1. CASE n = 3
        BY <1>1, <1>2, <1>3, <4>1
      <4>2. CASE n # 3
        <5>1. n - 1 \in 3..(m + 1)
          BY <1>1, <3>1, <4>2
        <5> QED
          BY <1>3, <3>1, <5>1
      <4> QED
        BY <4>1, <4>2
    <3>4. after[calls[n - 2].table] = place[calls[n - 2].table]
      BY <3>1 DEF GoesDownTo, CallsPlaced, CallPlaced, m
    <3>5. \/ calls[n - 1].base <= Acme(place[calls[n - 2].table])
          \/ acme <= Acme(place[calls[n - 2].table])
      BY <3>1 DEF Smooth, m
    <3> QED
      BY <3>2, <3>3, <3>4, <3>5
  <2> QED
    BY <2>1, <2>2
<1>11. ASSUME NEW p \in PagesOf(span), p < base
       PROVE  Translate(p)'.kind = "leaf"
  <2>1. p \in AddressSpace
    BY PageAddresses DEF PagesOf
  <2>2. Translate(p).kind = "leaf"
    BY <1>11 DEF Smooth
  <2> QED
    BY <2>1, <2>2
<1>12. PagesOf(span') = PagesOf(span)
  OBVIOUS
<1> HIDE DEF base
<1> QED
  BY <1>3, <1>5, <1>9, <1>10, <1>11, <1>12 DEF Smooth

\* When a loop is over, what its table can translate of the span is mapped.
LEMMA LoopDone ==
  ASSUME State, NEW place, TablesPlaced(tables, place), CallsPlaced(place), Smooth(place),
         pc = "map", ~Looping, NEW p \in PagesOf(span), p < Acme(place[Top.table])
  PROVE  Translate(p).kind = "leaf"
<1>1. calls # <<>> /\ calls \in Seq(Call)
  BY DEF State
<1>2. Top = calls[1] /\ 1 \in 1..Len(calls) /\ Top \in Call
  BY <1>1 DEF Top
<1>3. CallPlaced(place, span, Top)
  BY <1>2 DEF CallsPlaced
<1>4. Top.last \/ ~(Top.base < span.acme)
  BY <1>1 DEF Looping
<1>5. p \in Nat /\ p < span.acme /\ span.acme \in Nat /\ Top.base \in Nat
  BY <1>2, PageAddresses DEF PagesOf, State, Call
<1>6. place[Top.table] \in Region
  BY <1>3 DEF CallPlaced, TablesPlaced
<1>7. Acme(place[Top.table]) \in Nat
  BY <1>6, PageSizes, PageMapArguments DEF Acme, Region, Levels
<1>8. p < Top.base
  BY <1>3, <1>4, <1>5, <1>7 DEF CallPlaced
<1> QED
  BY <1>8 DEF Smooth

LEMMA ReturnKeepsSmooth ==
  ASSUME State, NEW place, TablesPlaced(tables, place), CallsPlaced(place), Smooth(place),
         Return, Len(calls) # 1
  PROVE  Smooth(place)'
<1> DEFINE m == Len(calls)
<1>1. /\ calls' \in Seq(Call) /\ m \in Nat \ {0} /\ Len(calls') = m - 1 /\ calls' # <<>>
      /\ \A n \in 1..(m - 1) : calls'[n] = calls[n + 1]
  BY ReturnKeepsCalls
<1>2. span' = span /\ pc' = "map" /\ pc = "map" /\ ~Looping /\ tables' = tables
  BY DEF Return
<1>3. Top' = calls[2] /\ 2 \in 2..m /\ 2 \in 1..m /\ calls[2] \in Call
  <2>1. 1 \in 1..(m - 1) /\ 2 \in 1..m
    BY <1>1
  <2>2. Top' = calls'[1]
    BY <1>1 DEF Top
  <2> QED
    BY <1>1, <2>1, <2>2 DEF State
<1> HIDE DEF m
<1>4. ASSUME NEW n \in 1..(m - 1)
      PROVE  \/ calls'[n].base % page_size(calls'[n].lvl) = 0
             \/ calls'[n].base = span.base \/ span.acme <= calls'[n].base
  <2>1. n + 1 \in 1..m /\ calls'[n] = calls[n + 1]
    BY <1>1
  <2>2. \/ calls[n + 1].base % page_size(calls[n + 1].lvl) = 0
        \/ calls[n + 1].base = span.base \/ span.acme <= calls[n + 1].base
    BY <2>1 DEF Smooth, m
  <2> QED
    BY <2>1, <2>2
<1>5. ASSUME NEW n \in 2..(m - 1)
      PROVE  \/ calls'[n].base <= Acme(place[calls'[n - 1].table])
             \/ span.acme <= Acme(place[calls'[n - 1].table])
  <2>1. n + 1 \in 2..m /\ n - 1 \in 1..(m - 1) /\ n \in 1..(m - 1) /\ (n + 1) - 1 = n /\ (n - 1) + 1 = n
    BY <1>1
  <2>2. calls'[n] = calls[n + 1] /\ calls'[n - 1] = calls[n]
    BY <1>1, <2>1
  <2>3. \/ calls[n + 1].base <= Acme(place[calls[n].table])
        \/ span.acme <= Acme(place[calls[n].table])
    BY <2>1 DEF Smooth, m
  <2> QED
    BY <2>2, <2>3
<1>6. ASSUME NEW p \in PagesOf(span), p < calls[2].base
      PROVE  Translate(p).kind = "leaf"
  <2>1. Top = calls[1] /\ 1 \in 1..m
    BY <1>1 DEF Top, State, m
  <2>2. calls[2].base <= Acme(place[Top.table]) \/ span.acme <= Acme(place[Top.table])
    <3>1. 2 - 1 = 1
      OBVIOUS
    <3> QED
      BY <1>3, <2>1, <3>1 DEF Smooth, m
  <2>3. p \in Nat /\ p < span.acme /\ span.acme \in Nat /\ calls[2].base \in Nat
    BY <1>3, PageAddresses DEF PagesOf, State, Call
  <2>4. place[Top.table] \in Region
    BY <2>1 DEF CallsPlaced, CallPlaced, TablesPlaced, m
  <2>5. Acme(place[Top.table]) \in Nat
    BY <2>4, PageSizes, PageMapArguments DEF Acme, Region, Levels
  <2>6. p < Acme(place[Top.table])
    BY <1>6, <2>2, <2>3, <2>5
  <2> QED
    BY <1>2, <2>6, LoopDone
<1>7. \A p : Translate(p)' = Translate(p)
  BY <1>2 DEF Translate
<1> QED
  BY <1>1, <1>2, <1>3, <1>4, <1>5, <1>6, <1>7 DEF Smooth

\* Every step: a placing of the tables and of the loops remains, outside of
\* the span no translation changes, and what is mapped stays mapped.
LEMMA StepKeepsPlaced ==
  ASSUME State, NEW place, Placed(place), [Next]_vars
  PROVE  /\ \E after : Placed(after)'
         /\ \A p \in Pages : Translate(p).kind = "leaf" => Translate(p)'.kind = "leaf"
         /\ \A p \in Pages \ PagesOf(span) : Translate(p)' = Translate(p)
<1>0. /\ TablesPlaced(tables, place) /\ CallsPlaced(place)
      /\ WellPlaced(span) => Smooth(place)
      /\ \A p \in Pages : p \in AddressSpace /\ p \in Nat
  BY PageAddresses DEF Placed
<1>1. CASE tables' = tables /\ \E after : Placed(after)'
  <2>1. \A p \in Pages : Translate(p)' = Translate(p)
    BY <1>1 DEF Translate
  <2> QED
    BY <1>1, <2>1
<1>2. CASE \E r \in Requests : Map(r)
  <2>1. PICK r \in Requests : Map(r)
    BY <1>2
  <2>2. /\ calls' \in Seq(Call) /\ Len(calls') = 1 /\ CallsPlaced(place)'
        /\ calls'[1].base = SpanOf(r).base /\ Top'.base = SpanOf(r).base
    BY <1>0, <2>1, MapStarts
  <2>3. tables' = tables /\ span' = SpanOf(r) /\ pc' = "map"
    BY <2>1 DEF Map
  <2>4. SpanOf(r) \in [base : Nat, acme : Nat]
    BY SpanOfRequest
  <2>5. Smooth(place)'
    <3>1. \A p \in PagesOf(span') : ~(p < Top'.base)
      BY <1>0, <2>2, <2>3, <2>4 DEF PagesOf
    <3>2. \A n \in 1..1 : n = 1
      OBVIOUS
    <3>3. 2..1 = {}
      OBVIOUS
    <3> QED
      BY <2>2, <2>3, <3>1, <3>2, <3>3 DEF Smooth
  <2>6. Placed(place)'
    BY <1>0, <2>2, <2>3, <2>5 DEF Placed
  <2> QED
    BY <1>1, <2>3, <2>6
<1>3. CASE LeafStep
  <2>1. AtEntry(place)
    BY <1>0, <1>3, EntryOfLoop DEF LeafStep
  <2>2. TablesPlaced(tables', place) /\ CallsPlaced(place)'
    BY <1>0, <1>3, <2>1, LeafKeepsPlaces, LeafKeepsCalls
  <2>3. WellPlaced(span)' => Smooth(place)'
    <3>1. WellPlaced(span)' => WellPlaced(span)
      BY <1>3 DEF LeafStep, WellPlaced, Levels, page_size
    <3> QED
      BY <1>0, <1>3, <3>1, LeafKeepsSmooth
  <2>4. Placed(place)'
    BY <2>2, <2>3 DEF Placed
  <2>5. \A p \in Pages : IF InSlot(place[Top.table], Index, p) THEN Translate(p)'.kind = "leaf"
                         ELSE Translate(p)' = Translate(p)
    BY <1>0, <1>3, LeafTranslates
  <2>6. \A p \in Pages : InSlot(place[Top.table], Index, p) => p \in PagesOf(span)
    BY <1>0, <1>3, <2>1, LeafInSpan DEF LeafStep, PagesOf
  <2>7. \A p \in Pages \ PagesOf(span) : Translate(p)' = Translate(p)
    BY <2>5, <2>6
  <2>8. \A p \in Pages : Translate(p).kind = "leaf" => Translate(p)'.kind = "leaf"
    BY <2>5
  <2> QED
    BY <2>4, <2>7, <2>8
<1>4. CASE NewTableStep
  <2>1. AtEntry(place)
    BY <1>0, <1>4, EntryOfLoop DEF NewTableStep
  <2>2. PICK after : GoesDownTo(place, after, fresh + 1) /\ TablesPlaced(tables', after)
    BY <1>0, <1>4, <2>1, NewTablePlaced
  <2>3. Descend(fresh + 1) /\ span' = span /\ pc' = pc /\ pc = "map"
    BY <1>4 DEF NewTableStep, Looping
  <2>4. CallsPlaced(after)'
    BY <1>0, <2>1, <2>2, <2>3, DescendKeepsCalls
  <2>5. \A p \in AddressSpace : Translate(p)' = Translate(p)
    BY <1>0, <1>4, <2>1, NewTableTranslates
  <2>6. WellPlaced(span)' => Smooth(after)'
    <3>1. WellPlaced(span)' => WellPlaced(span)
      BY <2>3 DEF WellPlaced, Levels, page_size
    <3> QED
      BY <1>0, <2>1, <2>2, <2>3, <2>5, <3>1, DescendKeepsSmooth
  <2>7. Placed(after)'
    BY <2>2, <2>4, <2>6 DEF Placed
  <2> QED
    BY <1>0, <2>5, <2>7
<1>5. CASE FollowStep
  <2>1. AtEntry(place)
    BY <1>0, <1>5, EntryOfLoop DEF FollowStep
  <2>2. GoesDownTo(place, place, EntryAt.frame)
    BY <1>0, <1>5, <2>1, FollowGoesDown
  <2>3. Descend(EntryAt.frame) /\ span' = span /\ pc' = pc /\ pc = "map" /\ tables' = tables
    BY <1>5 DEF FollowStep, Looping
  <2>4. CallsPlaced(place)'
    BY <1>0, <2>1, <2>2, <2>3, DescendKeepsCalls
  <2>5. \A p \in AddressSpace : Translate(p)' = Translate(p)
    BY <2>3 DEF Translate
  <2>6. WellPlaced(span)' => Smooth(place)'
    <3>1. WellPlaced(span)' => WellPlaced(span)
      BY <2>3 DEF WellPlaced, Levels, page_size
    <3> QED
      BY <1>0, <2>1, <2>2, <2>3, <2>5, <3>1, DescendKeepsSmooth
  <2>7. Placed(place)'
    BY <1>0, <2>3, <2>4, <2>6 DEF Placed
  <2> QED
    BY <1>1, <2>3, <2>7
<1>6. CASE Return
  <2>1. CallsPlaced(place)' /\ tables' = tables /\ ((calls' = <<>>) <=> (Len(calls) = 1))
    BY <1>0, <1>6, ReturnKeepsCalls DEF Return
  <2>2. WellPlaced(span)' => Smooth(place)'
    <3>1. CASE Len(calls) = 1
      <4>1. calls' = <<>> /\ Len(calls') = 0 /\ pc' # "map"
        BY <1>6, <2>1, <3>1 DEF Return
      <4> QED
        BY <4>1 DEF Smooth
    <3>2. CASE Len(calls) # 1
      <4>1. WellPlaced(span)' => WellPlaced(span)
        BY <1>6, <3>2 DEF Return, WellPlaced, Levels, page_size
      <4> QED
        BY <1>0, <1>6, <3>2, <4>1, ReturnKeepsSmooth
    <3> QED
      BY <3>1, <3>2
  <2>3. Placed(place)'
    BY <1>0, <2>1, <2>2 DEF Placed
  <2> QED
    BY <1>1, <2>1, <2>3
<1>7. CASE HaltStep \/ UNCHANGED vars
  <2>1. /\ tables' = tables /\ calls' = calls /\ span' = span
        /\ pc' \in {"panic", "astray"} \/ pc' = pc
    BY <1>7 DEF HaltStep, vars
  <2>2. CallsPlaced(place)'
    BY <1>0, <2>1 DEF CallsPlaced, LeadsTo, Indices
  <2>3. WellPlaced(span)' => Smooth(place)'
    <3>1. WellPlaced(span)' => WellPlaced(span)
      BY <2>1 DEF WellPlaced, Levels, page_size
    <3>2. \A p : Translate(p)' = Translate(p)
      BY <2>1 DEF Translate
    <3>3. Top' = Top /\ PagesOf(span') = PagesOf(span)
      BY <2>1 DEF Top
    <3> QED
      BY <1>0, <2>1, <3>1, <3>2, <3>3 DEF Smooth
  <2>4. Placed(place)'
    BY <1>0, <2>1, <2>2, <2>3 DEF Placed
  <2> QED
    BY <1>1, <2>1, <2>4
<1> QED
  BY <1>2, <1>3, <1>4, <1>5, <1>6, <1>7, Steps

\* The call that returns has mapped its span, when that is well placed.
LEMMA EarlierKept ==
  ASSUME State, NEW place, Placed(place), EarlierCovered, [Next]_vars
  PROVE  EarlierCovered'
<1>0. /\ TablesPlaced(tables, place) /\ CallsPlaced(place)
      /\ WellPlaced(span) => Smooth(place)
  BY DEF Placed
<1>1. \A p \in Pages : Translate(p).kind = "leaf" => Translate(p)'.kind = "leaf"
  BY StepKeepsPlaced
<1>2. \A s : Covers(s) => \A p \in PagesOf(s) : Translate(p)'.kind = "leaf"
  BY <1>1 DEF Covers, PagesOf
<1> DEFINE Done(r) == WellPlaced(SpanOf(r)) => \A p \in PagesOf(SpanOf(r)) : Translate(p)'.kind = "leaf"
<1>3. \A r : (WellPlaced(SpanOf(r)) => Covers(SpanOf(r))) => Done(r)
  BY <1>2
<1>4. SUFFICES ASSUME pc' \in {"idle", "map"}, NEW r \in mapped'
               PROVE  Done(r) \/ (pc' = "map" /\ span' = SpanOf(r))
  BY Zenon DEF EarlierCovered, Covers, PagesOf, Pages, WellPlaced, Levels, page_size, SpanOf
<1> HIDE DEF Done
<1>5. CASE \E q \in Requests : Map(q)
  <2>1. PICK q \in Requests : Map(q)
    BY <1>5
  <2>2. pc = "idle" /\ pc' = "map" /\ mapped' = mapped \cup {q} /\ span' = SpanOf(q)
    BY <2>1 DEF Map
  <2>3. CASE r \in mapped
    BY <1>3, <2>2, <2>3 DEF EarlierCovered
  <2> QED
    BY <2>2, <2>3
<1>6. CASE UNCHANGED <<pc, span, mapped>>
  <2>1. pc \in {"idle", "map"} /\ r \in mapped
    BY <1>4, <1>6
  <2>2. (WellPlaced(SpanOf(r)) => Covers(SpanOf(r))) \/ (pc = "map" /\ span = SpanOf(r))
    BY <2>1 DEF EarlierCovered
  <2> QED
    BY <1>3, <1>6, <2>2
<1>7. CASE Return
  <2>1. pc = "map" /\ mapped' = mapped /\ tables' = tables /\ ~Looping
    BY <1>7 DEF Return
  <2>2. (WellPlaced(SpanOf(r)) => Covers(SpanOf(r))) \/ span = SpanOf(r)
    BY <1>4, <2>1 DEF EarlierCovered
  <2>3. CASE span # SpanOf(r)
    BY <1>3, <2>2, <2>3
  <2>4. CASE span = SpanOf(r) /\ Len(calls) # 1
    BY <1>7, <2>4 DEF Return
  <2>5. CASE span = SpanOf(r) /\ Len(calls) = 1
    <3>1. Top.table = 0 /\ place[0].lvl = PML4_LVL /\ place[0].base = 0
      <4>1. calls # <<>> /\ Top = calls[1]
        BY <2>1 DEF State, Top
      <4> QED
        BY <1>0, <2>5, <4>1, SMTT(30) DEF CallsPlaced, TablesPlaced
    <3>2. ASSUME WellPlaced(span), NEW p \in PagesOf(span)
          PROVE  Translate(p)'.kind = "leaf"
      <4>1. p \in AddressSpace /\ p \in Pages /\ page_size(PML4_LVL + 1) \in Nat
        BY PageAddresses, PageSizes, PageMapArguments DEF PagesOf
      <4>2. p < Acme(place[Top.table])
        BY <3>1, <4>1 DEF Acme, AddressSpace
      <4>3. Translate(p).kind = "leaf"
        BY <1>0, <2>1, <3>2, <4>2, LoopDone
      <4> QED
        BY <1>1, <4>1, <4>3
    <3> QED
      BY <2>5, <3>2 DEF Done
  <2> QED
    BY <2>3, <2>4, <2>5
<1> QED
  BY <1>4, <1>5, <1>6, <1>7, Steps DEF LeafStep, NewTableStep, FollowStep, HaltStep, vars

LEMMA MapInvInit ==
  ASSUME Init
  PROVE  MapInv
<1>1. tables = [t \in {0} |-> EmptyTable] /\ calls = <<>> /\ span = NoSpan /\ mapped = {} /\ pc = "idle"
  BY DEF Init
<1>2. IInv
  BY TreeInit
<1>3. \A i \in Indices : tables[0][i] = Absent
  BY <1>1 DEF EmptyTable
<1>4. calls \in Seq(Call) /\ Len(calls) = 0
  BY <1>1
<1>5. NoSpan \in [base : Nat, acme : Nat] /\ NoSpan.acme % PTE_SIZE = 0
  BY PageMapArguments DEF NoSpan
<1>6. State
  BY <1>1, <1>2, <1>3, <1>4, <1>5 DEF State
<1> DEFINE r == [lvl |-> PML4_LVL, base |-> 0]
           place == [t \in {0} |-> r]
<1>7. r \in Region /\ r.base = 0 /\ r.lvl = PML4_LVL
  BY PageMapArguments DEF Region, Levels
<1>8. Aligned(r)
  BY <1>7, PageSizes, PageMapArguments DEF Aligned
<1>9. TablesPlaced(tables, place)
  <2>1. DOMAIN tables = {0} /\ place \in [{0} -> Region] /\ place[0] = r
    BY <1>1, <1>7
  <2>2. \A i \in Indices : tables[0][i].kind # "branch"
    BY <1>3 DEF Absent
  <2> HIDE DEF place
  <2> QED
    BY <1>8, <2>1, <2>2 DEF TablesPlaced
<1> HIDE DEF place
<1>10. CallsPlaced(place) /\ Smooth(place)
  BY <1>1, <1>4 DEF CallsPlaced, Smooth
<1>11. Placed(place)
  BY <1>9, <1>10 DEF Placed
<1>12. EarlierCovered
  BY <1>1 DEF EarlierCovered
<1> QED
  BY <1>6, <1>11, <1>12 DEF MapInv

LEMMA MapInvStep ==
  ASSUME MapInv, [Next]_vars
  PROVE  /\ MapInv'
         /\ \A p \in Pages \ PagesOf(span) : Translate(p)' = Translate(p)
<1>1. State /\ EarlierCovered
  BY DEF MapInv
<1>2. PICK place : Placed(place)
  BY DEF MapInv
<1>3. State'
  BY <1>1, <1>2, StateKept DEF Placed
<1>4. /\ \E after : Placed(after)'
      /\ \A p \in Pages \ PagesOf(span) : Translate(p)' = Translate(p)
  BY <1>1, <1>2, StepKeepsPlaced
<1>5. EarlierCovered'
  BY <1>1, <1>2, EarlierKept
<1>6. MapInv'
  BY <1>3, <1>4, <1>5 DEF MapInv
<1> QED
  BY <1>4, <1>6

\* For any number of levels and entries, any frames and any spans that the root
\* table contains: no step of map_offset changes the translation of an address
\* outside of the span that map was called with, in whatever order entries are
\* written and wherever a call stops for want of frames.
THEOREM MapChangesOnlyItsSpan == Spec => OnlySpanChanges
<1>1. MapInv /\ [Next]_vars => [\A p \in Pages \ PagesOf(span) : Translate(p)' = Translate(p)]_vars
  BY MapInvStep
<1>2. MapInv /\ [Next]_vars => MapInv'
  BY MapInvStep
<1>3. Init => MapInv
  BY MapInvInit
<1> QED
  BY <1>1, <1>2, <1>3, PTL DEF Spec, OnlySpanChanges

\* When map has returned, every address of every span that it was called with
\* and that is well placed is translated to a page: map_offset leaves no hole
\* in it, whatever was mapped before, and no later call takes a page away.
THEOREM WellPlacedSpansMapped == Spec => []WellPlacedMapped
<1>1. MapInv => WellPlacedMapped
  BY DEF MapInv, EarlierCovered, WellPlacedMapped
<1>2. MapInv /\ [Next]_vars => MapInv'
  BY MapInvStep
<1>3. Init => MapInv
  BY MapInvInit
<1> QED
  BY <1>1, <1>2, <1>3, PTL DEF Spec
=============================================================================
