---------------------------- MODULE MemoryProofs ----------------------------
(***************************************************************************)
(* Proofs about two components of Parts.  MemorySetup, for any map of the  *)
(* loader, any sizes of pages and of the allocator's status, and any       *)
(* length of a table: on a map that fits, setup hands out no memory twice  *)
(* and maps all that it gives the allocator.  SetupInv says where the      *)
(* pages and ranges come from, TablesInv what the tables hold.  BitCopy,   *)
(* for slices of any length: the bits that are asked for are copied.       *)
(***************************************************************************)
EXTENDS MemorySetup, BitCopy, TLAPS

(***************************************************************************)
(* Rounding to pages.                                                      *)
(***************************************************************************)
IsPages(m) == \E q \in Int : m = q * PTE_SIZE

LEMMA PageSize == PTE_SIZE \in Nat \ {0}
BY MemoryAssumption

LEMMA PagesDown ==
  ASSUME NEW a \in Nat
  PROVE  /\ RoundDown(a) \in Nat /\ IsPages(RoundDown(a))
         /\ RoundDown(a) <= a /\ a < RoundDown(a) + PTE_SIZE
<1> DEFINE q == a \div PTE_SIZE
<1>1. q \in Nat /\ a % PTE_SIZE \in 0..(PTE_SIZE - 1)
  BY PageSize
<1>2. RoundDown(a) = q * PTE_SIZE /\ RoundDown(a) = a - (a % PTE_SIZE)
  BY PageSize DEF RoundDown
<1> HIDE DEF q
<1>3. IsPages(RoundDown(a))
  BY <1>1, <1>2 DEF IsPages
<1>4. q * PTE_SIZE \in Nat
  BY <1>1, PageSize
<1> QED
  BY <1>1, <1>2, <1>3, <1>4, PageSize

LEMMA PagesUp ==
  ASSUME NEW a \in Nat
  PROVE  /\ RoundUp(a) \in Nat /\ IsPages(RoundUp(a))
         /\ a <= RoundUp(a) /\ RoundUp(a) < a + PTE_SIZE
<1>1. a + PTE_SIZE - 1 \in Nat
  BY PageSize
<1>2. RoundUp(a) = RoundDown(a + PTE_SIZE - 1)
  BY DEF RoundUp, RoundDown
<1> QED
  BY <1>1, <1>2, PagesDown, PageSize

\* The pages of the allocator's status.
LEMMA StatusPages ==
  RoundUp(StatusBytes) \in Int /\ IsPages(RoundUp(StatusBytes)) /\ StatusBytes <= RoundUp(StatusBytes)
<1>1. StatusBytes \in Nat
  BY MemoryAssumption
<1> QED
  BY <1>1, PagesUp

LEMMA WholePages ==
  ASSUME NEW m \in Int, NEW n \in Int, IsPages(m), IsPages(n), m < n + PTE_SIZE
  PROVE  m <= n
<1>1. PICK q \in Int : m = q * PTE_SIZE
  BY DEF IsPages
<1>2. PICK r \in Int : n = r * PTE_SIZE
  BY DEF IsPages
<1>3. CASE q <= r
  BY <1>1, <1>2, <1>3, PageSize
<1>4. CASE r + 1 <= q
  <2>1. (r + 1) * PTE_SIZE <= q * PTE_SIZE
    BY <1>4, PageSize
  <2>2. (r + 1) * PTE_SIZE = r * PTE_SIZE + PTE_SIZE
    BY PageSize
  <2> QED
    BY <1>1, <1>2, <2>1, <2>2, PageSize
<1> QED
  BY <1>3, <1>4

LEMMA PagesAdd ==
  ASSUME NEW m \in Int, NEW n \in Int, IsPages(m), IsPages(n)
  PROVE  IsPages(m + n)
<1>1. PICK q \in Int : m = q * PTE_SIZE
  BY DEF IsPages
<1>2. PICK r \in Int : n = r * PTE_SIZE
  BY DEF IsPages
<1>3. m + n = (q + r) * PTE_SIZE /\ q + r \in Int
  BY <1>1, <1>2, PageSize
<1> QED
  BY <1>3 DEF IsPages

LEMMA PagesRemainder ==
  ASSUME NEW m \in Int
  PROVE  IsPages(m) <=> m % PTE_SIZE = 0
<1>1. ASSUME m % PTE_SIZE = 0 PROVE IsPages(m)
  <2>1. m = (m \div PTE_SIZE) * PTE_SIZE /\ m \div PTE_SIZE \in Int
    BY <1>1, PageSize
  <2> QED
    BY <2>1 DEF IsPages
<1>2. ASSUME NEW q \in Int, m = q * PTE_SIZE PROVE m % PTE_SIZE = 0
  <2>1. (q * PTE_SIZE) % PTE_SIZE = 0
    BY PageSize
  <2> QED
    BY <1>2, <2>1
<1> QED
  BY <1>1, <1>2 DEF IsPages

\* One, two and three pages.
LEMMA PagesFew == IsPages(PTE_SIZE) /\ IsPages(2 * PTE_SIZE) /\ IsPages(3 * PTE_SIZE)
<1>1. PTE_SIZE = 1 * PTE_SIZE
  BY PageSize
<1> QED
  BY <1>1 DEF IsPages

(***************************************************************************)
(* The invariant.                                                          *)
(***************************************************************************)
MemEntry == [ptr : Nat, size : Nat, type : 0 .. 3, answers : BOOLEAN]
Region == [lo : Nat, hi : Nat]

\* The places of setup from the first page it takes, in their order.
Later == {"pml4", "last pdpt", "link", "keep", "offset", "cr3", "talloc", "release", "done"}

SetupType ==
  /\ setup \in [at : {"probe", "measure", "panic", "astray"} \cup Later, i : Nat \ {0}, map : MemoryMaps,
                unchecked : Unchecked, hi : Nat, lgst : MemEntry, offset : Nat, frames : Seq(Nat),
                given : Seq(Region), cr3 : Nat]
  /\ mmap \in Seq(MemEntry) /\ Len(mmap) = Len(setup.map)

\* mmap_available_iter takes entries out and changes nothing else.
MapKept ==
  \A j \in 1 .. Len(mmap) :
    /\ mmap[j].ptr = setup.map[j].ptr /\ mmap[j].size = setup.map[j].size
    /\ IsFree(mmap[j]) => mmap[j] = setup.map[j]
    /\ IsFree(mmap[j]) /\ (setup.at = "probe" => j < setup.i) => mmap[j].answers

Measured ==
  setup.at \in Later =>
    /\ \E l \in Available : setup.lgst = mmap[l]
    /\ \A j \in Available : mmap[j].ptr + mmap[j].size <= setup.hi

\* The k-th page that page_getter returns.
PageOf(k) == setup.lgst.ptr + RoundUp(setup.lgst.ptr) + (k - 1) * PTE_SIZE

HasFrames(n) ==
  /\ Len(setup.frames) = n
  /\ setup.offset = RoundUp(setup.lgst.ptr) + n * PTE_SIZE
  /\ \A k \in 1 .. n : setup.frames[k] = PageOf(k)

FramesFit ==
  /\ setup.at = "pml4" => HasFrames(0)
  /\ setup.at = "last pdpt" => HasFrames(1)
  /\ setup.at \in {"link", "keep", "offset"} => HasFrames(2)
  /\ setup.at \in {"cr3", "talloc", "release", "done"} => HasFrames(3)

\* Memory that the allocator has got: from the largest block behind the pages
\* of setup, or from another entry below the i-th.
InLargest(g) == PageOf(4) <= g.lo /\ g.hi <= setup.lgst.ptr + setup.lgst.size
FromEntry(g, i) ==
  \E j \in Available : /\ j < i /\ mmap[j].ptr # setup.lgst.ptr
                       /\ mmap[j].ptr <= g.lo /\ g.hi <= mmap[j].ptr + mmap[j].size
Aside(g, h) == g.hi <= h.lo \/ h.hi <= g.lo

GivenOk(given, i) ==
  /\ \A k \in 1 .. Len(given) : InLargest(given[k]) \/ FromEntry(given[k], i)
  /\ \A k, m \in 1 .. Len(given) : k # m => Aside(given[k], given[m])

GivenFit ==
  /\ setup.at \in Later \ {"release", "done"} => Len(setup.given) = 0
  /\ setup.at \in {"release", "done"} => GivenOk(setup.given, setup.i)

PanicsUnfit == setup.at \in {"panic", "astray"} => Available = {} \/ ~Fits

\* Nothing is taken or given before the map is measured.
Early == setup.at \in {"probe", "measure"} => Len(setup.frames) = 0 /\ Len(setup.given) = 0

SetupInv == SetupType /\ MapKept /\ Early /\ Measured /\ FramesFit /\ GivenFit /\ PanicsUnfit

\* The entries have their types, their order and lie apart.
LEMMA EntriesApart ==
  ASSUME SetupType, MapKept
  PROVE  /\ DOMAIN mmap = 1 .. Len(mmap) /\ Len(mmap) \in Nat
         /\ \A j \in 1 .. Len(mmap) : mmap[j] \in MemEntry
         /\ \A j, k \in 1 .. Len(mmap) : j < k => mmap[j].ptr + mmap[j].size <= mmap[k].ptr
<1>1. /\ DOMAIN mmap = 1 .. Len(mmap) /\ Len(mmap) \in Nat
      /\ \A j \in 1 .. Len(mmap) : mmap[j] \in MemEntry
  BY DEF SetupType
<1>2. setup.map \in MemoryMaps /\ Len(setup.map) = Len(mmap)
  BY DEF SetupType
<1>3. DOMAIN setup.map = 1 .. Len(mmap)
  BY <1>2, MemoryAssumption
<1>4. \A j, k \in 1 .. Len(mmap) : j < k => setup.map[j].ptr + setup.map[j].size <= setup.map[k].ptr
  BY <1>2, <1>3, MemoryAssumption, Zenon
<1> QED
  BY <1>1, <1>4 DEF MapKept

LEMMA SetupStarts == MemoryInit => SetupInv
<1> SUFFICES ASSUME MemoryInit PROVE SetupInv
  OBVIOUS
<1>1. /\ mmap \in MemoryMaps /\ mmap \in Seq(MemEntry)
  BY MemoryAssumption DEF MemoryInit, MemEntry
<1>2. PICK unchecked \in Unchecked :
        setup = [at |-> "probe", i |-> 1, map |-> mmap, unchecked |-> unchecked, hi |-> 0, lgst |-> NoBlock,
                 offset |-> 0, frames |-> <<>>, given |-> <<>>, cr3 |-> Loader.pml4]
  BY DEF MemoryInit
<1>3. NoBlock \in MemEntry
  BY DEF NoBlock, MemEntry, MMAP_USED
<1>4. SetupType
  <2>1. Loader.pml4 \in Nat /\ <<>> \in Seq(Nat) /\ <<>> \in Seq(Region)
    BY MemoryAssumption
  <2> QED
    BY <1>1, <1>2, <1>3, <2>1 DEF SetupType
<1>5. MapKept
  BY <1>1, <1>2 DEF MapKept
<1> QED
  BY <1>2, <1>4, <1>5 DEF SetupInv, Early, Measured, FramesFit, GivenFit, PanicsUnfit, Later

LEMMA ProbeKeeps ==
  ASSUME SetupInv, probe
  PROVE  SetupInv'
<1>1. SetupType /\ MapKept /\ setup.at = "probe"
  BY DEF SetupInv, probe
<1>2. /\ DOMAIN mmap = 1 .. Len(mmap) /\ Len(mmap) \in Nat
      /\ \A j \in 1 .. Len(mmap) : mmap[j] \in MemEntry
  BY <1>1, EntriesApart
<1>3. CASE setup.i > Len(mmap)
  <2>1. setup' = [setup EXCEPT !.at = "measure"] /\ mmap' = mmap
    BY <1>3 DEF probe, Goes
  <2>2. SetupType'
    BY <1>1, <2>1 DEF SetupType
  <2>3. /\ setup'.at = "measure" /\ setup'.map = setup.map
        /\ setup'.frames = setup.frames /\ setup'.given = setup.given
    BY <1>1, <2>1 DEF SetupType
  <2>4. setup.i \in Nat
    BY <1>1 DEF SetupType
  <2>5. \A j \in 1 .. Len(mmap) : j < setup.i
    BY <1>2, <1>3, <2>4
  <2>6. MapKept'
    BY <1>1, <2>1, <2>3, <2>5 DEF MapKept
  <2> QED
    BY <1>1, <2>2, <2>3, <2>6 DEF SetupInv, Early, Measured, FramesFit, GivenFit, PanicsUnfit, Later
<1>4. CASE ~(setup.i > Len(mmap))
  <2> DEFINE i == setup.i
             t == IF IsFree(mmap[i]) /\ ~mmap[i].answers THEN mmap[i].type - 1 ELSE mmap[i].type
             e == [mmap[i] EXCEPT !.type = t]
  <2>1. i \in 1 .. Len(mmap) /\ i \in Nat
    BY <1>1, <1>2, <1>4 DEF SetupType
  <2>2. setup' = [setup EXCEPT !.i = i + 1] /\ mmap' = [mmap EXCEPT ![i] = e]
    BY <1>4 DEF probe
  <2>3. mmap[i] \in MemEntry /\ mmap[i].type \in 0 .. 3
    BY <1>2, <2>1 DEF MemEntry
  <2>4. e \in MemEntry /\ e.ptr = mmap[i].ptr /\ e.size = mmap[i].size /\ e.answers = mmap[i].answers
    BY <2>3 DEF MemEntry, IsFree
  <2>5. IsFree(e) => e = mmap[i] /\ e.answers
    <3>1. CASE IsFree(mmap[i]) /\ ~mmap[i].answers
      <4>1. e.type = mmap[i].type - 1 /\ mmap[i].type % 2 = 1
        BY <2>3, <3>1 DEF MemEntry, IsFree
      <4>2. e.type % 2 # 1
        BY <2>3, <4>1
      <4> QED
        BY <4>2 DEF IsFree
    <3>2. CASE ~(IsFree(mmap[i]) /\ ~mmap[i].answers)
      <4>1. e = mmap[i]
        BY <2>3, <3>2 DEF MemEntry
      <4> QED
        BY <3>2, <4>1
    <3> QED
      BY <3>1, <3>2
  <2> HIDE DEF e
  <2>6. /\ setup'.at = "probe" /\ setup'.i = i + 1 /\ setup'.map = setup.map
        /\ setup'.frames = setup.frames /\ setup'.given = setup.given
        /\ mmap' \in Seq(MemEntry) /\ Len(mmap') = Len(mmap)
        /\ mmap'[i] = e /\ \A j \in 1 .. Len(mmap) : j # i => mmap'[j] = mmap[j]
    BY <1>1, <1>2, <2>1, <2>2, <2>4 DEF SetupType
  <2>7. SetupType'
    <3>1. i + 1 \in Nat \ {0}
      BY <2>1
    <3>2. setup' \in [at : {"probe", "measure", "panic", "astray"} \cup Later, i : Nat \ {0}, map : MemoryMaps,
                       unchecked : Unchecked, hi : Nat, lgst : MemEntry, offset : Nat, frames : Seq(Nat),
                       given : Seq(Region), cr3 : Nat]
      BY <1>1, <2>2, <3>1, Zenon DEF SetupType
    <3> QED
      BY <1>1, <2>6, <3>2 DEF SetupType
  <2>8. MapKept'
    <3> SUFFICES ASSUME NEW j \in 1 .. Len(mmap)
                 PROVE  /\ mmap'[j].ptr = setup.map[j].ptr /\ mmap'[j].size = setup.map[j].size
                        /\ IsFree(mmap'[j]) => mmap'[j] = setup.map[j]
                        /\ IsFree(mmap'[j]) /\ j < i + 1 => mmap'[j].answers
      BY <2>6 DEF MapKept, IsFree
    <3>1. CASE j = i
      BY <1>1, <2>1, <2>4, <2>5, <2>6, <3>1 DEF MapKept
    <3>2. CASE j # i
      <4>1. j < i + 1 => j < i
        BY <2>1, <3>2
      <4> QED
        BY <1>1, <2>6, <3>2, <4>1 DEF MapKept
    <3> QED
      BY <3>1, <3>2
  <2> QED
    BY <1>1, <2>6, <2>7, <2>8 DEF SetupInv, Early, Measured, FramesFit, GivenFit, PanicsUnfit, Later
<1> QED
  BY <1>3, <1>4

\* What stays as it is once the map is measured.
LEMMA Onward ==
  ASSUME SetupInv, setup.at \in Later, mmap' = mmap, SetupType', setup'.at # "probe",
         setup'.map = setup.map, setup'.hi = setup.hi, setup'.lgst = setup.lgst
  PROVE  /\ MapKept' /\ Measured' /\ Available' = Available /\ (Fits' <=> Fits)
         /\ \A k \in Nat : PageOf(k)' = PageOf(k)
<1>1. Available' = Available
  BY DEF Available, IsFree
<1>2. MapKept'
  <2>1. MapKept /\ setup.at # "probe"
    BY Zenon DEF SetupInv, Later
  <2> QED
    BY <2>1 DEF MapKept, IsFree
<1>3. Measured'
  BY <1>1 DEF SetupInv, Measured
<1>4. Fits' <=> Fits
  BY <1>1 DEF Fits
<1> QED
  BY <1>1, <1>2, <1>3, <1>4 DEF PageOf

LEMMA MeasureKeeps ==
  ASSUME SetupInv, measure
  PROVE  SetupInv'
<1>1. SetupType /\ MapKept /\ setup.at = "measure" /\ mmap' = mmap
  BY Zenon DEF SetupInv, measure
<1>2. /\ DOMAIN mmap = 1 .. Len(mmap) /\ Len(mmap) \in Nat
      /\ \A j \in 1 .. Len(mmap) : mmap[j] \in MemEntry
      /\ \A j, k \in 1 .. Len(mmap) : j < k => mmap[j].ptr + mmap[j].size <= mmap[k].ptr
  BY <1>1, EntriesApart
<1>3. Available' = Available /\ Available \subseteq 1 .. Len(mmap)
  BY <1>1, <1>2 DEF Available, IsFree
<1>4. CASE Available = {} /\ Goes("panic")
  <2>1. setup' = [setup EXCEPT !.at = "panic"]
    BY <1>4 DEF Goes
  <2>2. SetupType' /\ setup'.at = "panic" /\ setup'.map = setup.map
    BY <1>1, <2>1 DEF SetupType
  <2>3. MapKept'
    BY <1>1, <2>2 DEF MapKept
  <2> QED
    BY <1>3, <1>4, <2>2, <2>3, Zenon DEF SetupInv, Early, Measured, FramesFit, GivenFit, PanicsUnfit, Later
<1>5. ASSUME NEW last \in Available, NEW lgst \in Available, IsLast(last),
             setup' = [setup EXCEPT !.at = "pml4",
                          !.hi = mmap[last].ptr + mmap[last].size,
                          !.lgst = mmap[lgst],
                          !.offset = RoundUp(mmap[lgst].ptr)]
      PROVE  SetupInv'
  <2> DEFINE top == mmap[last].ptr + mmap[last].size
             up == RoundUp(mmap[lgst].ptr)
  <2>1. mmap[lgst] \in MemEntry /\ mmap[last] \in MemEntry
    BY <1>2, <1>3
  <2>2. top \in Nat /\ up \in Nat
    <3>1. mmap[lgst].ptr \in Nat /\ mmap[last].ptr \in Nat /\ mmap[last].size \in Nat
      BY <2>1 DEF MemEntry
    <3> QED
      BY <3>1, PagesUp
  <2> HIDE DEF top, up
  <2>3. setup' = [setup EXCEPT !.at = "pml4", !.hi = top, !.lgst = mmap[lgst], !.offset = up]
    BY <1>5 DEF top, up
  <2>4. SetupType'
    BY <1>1, <2>1, <2>2, <2>3, Zenon DEF SetupType, Later
  <2>5. /\ setup'.at = "pml4" /\ setup'.hi = top /\ setup'.lgst = mmap[lgst] /\ setup'.offset = up
        /\ setup'.map = setup.map /\ setup'.frames = setup.frames /\ setup'.given = setup.given
    BY <1>1, <2>3 DEF SetupType
  <2>6. MapKept'
    BY <1>1, <2>5 DEF MapKept
  <2>7. Measured'
    <3>1. ASSUME NEW j \in Available PROVE mmap[j].ptr + mmap[j].size <= top
      <4>1. j \in 1 .. Len(mmap) /\ last \in 1 .. Len(mmap) /\ (j = last \/ j < last)
        BY <1>2, <1>3, <1>5 DEF IsLast
      <4>2. /\ mmap[j].ptr \in Nat /\ mmap[j].size \in Nat
            /\ mmap[last].ptr \in Nat /\ mmap[last].size \in Nat
        BY <1>2, <4>1 DEF MemEntry
      <4> QED
        BY <1>2, <4>1, <4>2 DEF top
    <3> QED
      BY <1>1, <1>3, <2>5, <3>1 DEF Measured
  <2>8. FramesFit' /\ GivenFit'
    <3>1. Len(setup.frames) = 0 /\ Len(setup.given) = 0
      BY <1>1 DEF SetupInv, Early
    <3>2. up = up + 0 * PTE_SIZE
      BY <2>2, PageSize
    <3>3. HasFrames(0)'
      BY <2>5, <3>1, <3>2 DEF HasFrames, up
    <3> QED
      BY <2>5, <3>1, <3>3 DEF FramesFit, GivenFit
  <2> QED
    BY <2>4, <2>5, <2>6, <2>7, <2>8 DEF SetupInv, PanicsUnfit, Early
<1> QED
  BY <1>4, <1>5, Zenon DEF measure

\* What page_getter returns lies behind what it returned before.
LEMMA TakePage ==
  ASSUME SetupType, NEW n \in 0 .. 2, NEW m, m = n + 1, HasFrames(n), NEW place \in {"panic"} \cup Later,
         setup' = GotPage([setup EXCEPT !.at = place]), mmap' = mmap
  PROVE  /\ SetupType' /\ HasFrames(m)' /\ page = PageOf(m)
         /\ setup'.at = place /\ setup'.map = setup.map /\ setup'.hi = setup.hi
         /\ setup'.lgst = setup.lgst /\ setup'.given = setup.given /\ setup'.cr3 = setup.cr3
<1> DEFINE fs == Append(setup.frames, page)
           off == setup.offset + PTE_SIZE
<1>1. /\ setup.frames \in Seq(Nat) /\ setup.offset \in Nat /\ setup.lgst.ptr \in Nat /\ page \in Nat
  BY DEF SetupType, MemEntry, page
<1>2. fs \in Seq(Nat) /\ off \in Nat
  BY <1>1, PageSize
<1>3. Len(fs) = n + 1 /\ (\A k \in 1 .. n : fs[k] = setup.frames[k]) /\ fs[n + 1] = page
  BY <1>1 DEF HasFrames
<1>4. RoundUp(setup.lgst.ptr) \in Nat /\ n * PTE_SIZE \in Nat
  BY <1>1, PagesUp, PageSize
<1>5. page = PageOf(n + 1)
  <2>1. (n + 1) - 1 = n
    OBVIOUS
  <2> QED
    BY <1>1, <1>4, <2>1 DEF page, PageOf, HasFrames
<1>6. off = RoundUp(setup.lgst.ptr) + (n + 1) * PTE_SIZE
  <2>1. (n + 1) * PTE_SIZE = n * PTE_SIZE + PTE_SIZE
    BY PageSize
  <2> QED
    BY <1>4, <2>1, PageSize DEF HasFrames
<1>7. setup' = [setup EXCEPT !.at = place, !.offset = off, !.frames = fs]
  BY DEF GotPage, SetupType
<1> HIDE DEF fs, off
<1>8. SetupType'
  BY <1>2, <1>7, Zenon DEF SetupType
<1>9. /\ setup'.at = place /\ setup'.map = setup.map /\ setup'.hi = setup.hi
      /\ setup'.lgst = setup.lgst /\ setup'.given = setup.given /\ setup'.cr3 = setup.cr3
      /\ setup'.offset = off /\ setup'.frames = fs
  BY <1>7, Zenon DEF SetupType
<1>10. \A k \in 1 .. n + 1 : fs[k] = PageOf(k)
  BY <1>3, <1>5 DEF HasFrames
<1>11. HasFrames(m)'
  BY <1>3, <1>6, <1>9, <1>10, Zenon DEF HasFrames, PageOf
<1> QED
  BY <1>5, <1>8, <1>9, <1>11

LEMMA PagesKeep ==
  ASSUME SetupInv, new_pml4 \/ map_offset
  PROVE  SetupInv'
<1>1. setup.at \in Later /\ SetupType /\ mmap' = mmap
  BY Zenon DEF SetupInv, Later, new_pml4, map_offset
<1>2. CASE new_pml4
  <2>1. HasFrames(0) /\ setup' = GotPage([setup EXCEPT !.at = "last pdpt"]) /\ Len(setup.given) = 0
    BY <1>2, Zenon DEF SetupInv, FramesFit, GivenFit, Later, new_pml4
  <2>2. "last pdpt" \in Later /\ 0 \in 0 .. 2 /\ 1 = 0 + 1
    BY DEF Later
  <2>3. /\ SetupType' /\ HasFrames(1)'
        /\ setup'.at = "last pdpt" /\ setup'.map = setup.map /\ setup'.hi = setup.hi
        /\ setup'.lgst = setup.lgst /\ setup'.given = setup.given
    BY Zenon, <1>1, <2>1, <2>2, TakePage
  <2>4. MapKept' /\ Measured'
    BY <1>1, <2>3, Onward, Zenon
  <2> QED
    BY <2>1, <2>3, <2>4, Zenon DEF SetupInv, Early, FramesFit, GivenFit, PanicsUnfit
<1>3. CASE map_offset
  <2>1. HasFrames(2) /\ setup' = GotPage([setup EXCEPT !.at = "cr3"]) /\ Len(setup.given) = 0
    BY <1>3 DEF SetupInv, FramesFit, GivenFit, Later, map_offset
  <2>2. "cr3" \in Later /\ 2 \in 0 .. 2 /\ 3 = 2 + 1
    BY DEF Later
  <2>3. /\ SetupType' /\ HasFrames(3)'
        /\ setup'.at = "cr3" /\ setup'.map = setup.map /\ setup'.hi = setup.hi
        /\ setup'.lgst = setup.lgst /\ setup'.given = setup.given
    BY Zenon, <1>1, <2>1, <2>2, TakePage
  <2>4. MapKept' /\ Measured'
    BY <1>1, <2>3, Onward
  <2> QED
    BY <2>1, <2>3, <2>4, Zenon DEF SetupInv, Early, FramesFit, GivenFit, PanicsUnfit
<1> QED
  BY <1>2, <1>3

\* In a map that fits the largest block starts with a page, and has room.
LEMMA FitsRoom ==
  ASSUME SetupType, Fits
  PROVE  /\ setup.lgst.ptr \in Nat /\ setup.lgst.size \in Nat
         /\ PageOf(1) = setup.lgst.ptr + setup.lgst.ptr
         /\ PageOf(2) = PageOf(1) + PTE_SIZE /\ PageOf(3) = PageOf(1) + 2 * PTE_SIZE
         /\ PageOf(4) = PageOf(1) + 3 * PTE_SIZE
         /\ IsPages(PageOf(2)) /\ IsPages(PageOf(4)) /\ PageOf(1) \in Nat
         /\ PageOf(4) + RoundUp(StatusBytes) <= setup.lgst.ptr + setup.lgst.size
<1> DEFINE ptr == setup.lgst.ptr
           size == setup.lgst.size
<1>1. ptr \in Nat /\ size \in Nat /\ StatusBytes \in Nat
  BY MemoryAssumption DEF SetupType, MemEntry
<1>2. ptr % PTE_SIZE = 0 /\ size >= ptr + 3 * PTE_SIZE + RoundUp(StatusBytes)
  BY DEF Fits
<1> HIDE DEF ptr, size
<1>3. IsPages(ptr)
  BY <1>1, <1>2, PagesRemainder
<1>4. RoundUp(ptr) = ptr
  <2>1. RoundUp(ptr) \in Nat /\ IsPages(RoundUp(ptr)) /\ ptr <= RoundUp(ptr) /\ RoundUp(ptr) < ptr + PTE_SIZE
    BY <1>1, PagesUp
  <2>2. RoundUp(ptr) <= ptr
    BY <1>1, <1>3, <2>1, WholePages
  <2> QED
    BY <1>1, <2>1, <2>2
<1>5. \A k \in Nat : PageOf(k) = ptr + ptr + (k - 1) * PTE_SIZE
  BY <1>4 DEF PageOf, ptr
<1>6. /\ PageOf(1) = ptr + ptr /\ PageOf(2) = ptr + ptr + PTE_SIZE
      /\ PageOf(3) = ptr + ptr + 2 * PTE_SIZE /\ PageOf(4) = ptr + ptr + 3 * PTE_SIZE
  BY <1>1, <1>5, PageSize
<1>7. IsPages(PageOf(2)) /\ IsPages(PageOf(4))
  <2>1. IsPages(ptr + ptr) /\ ptr + ptr \in Int /\ PTE_SIZE \in Int /\ 3 * PTE_SIZE \in Int
    BY <1>1, <1>3, PagesAdd, PageSize
  <2> QED
    BY <1>6, <2>1, PagesAdd, PagesFew
<1>8. RoundUp(StatusBytes) \in Nat
  BY <1>1, PagesUp
<1>9. PageOf(4) + RoundUp(StatusBytes) <= ptr + size
  BY <1>1, <1>2, <1>6, <1>8, PageSize
<1>10. PageOf(1) \in Nat /\ PageOf(2) = PageOf(1) + PTE_SIZE /\ PageOf(3) = PageOf(1) + 2 * PTE_SIZE
       /\ PageOf(4) = PageOf(1) + 3 * PTE_SIZE
  BY <1>1, <1>6, PageSize
<1> QED
  BY <1>1, <1>6, <1>7, <1>9, <1>10 DEF ptr, size

LEMMA LastPdptKeeps ==
  ASSUME SetupInv, new_last_pdpt
  PROVE  SetupInv'
<1> DEFINE place == IF page % PTE_SIZE = 0 THEN "link" ELSE "panic"
<1>1. setup.at \in Later /\ SetupType /\ mmap' = mmap
  BY Zenon DEF SetupInv, Later, new_last_pdpt
<1>2. HasFrames(1) /\ setup' = GotPage([setup EXCEPT !.at = place]) /\ Len(setup.given) = 0
  BY Zenon DEF SetupInv, FramesFit, GivenFit, Later, new_last_pdpt
<1>3. place \in {"panic"} \cup Later /\ place \in {"panic", "link"} /\ 1 \in 0 .. 2 /\ 2 = 1 + 1
  BY DEF Later
<1> HIDE DEF place
<1>4. /\ SetupType' /\ HasFrames(2)' /\ page = PageOf(2)
      /\ setup'.at = place /\ setup'.map = setup.map /\ setup'.hi = setup.hi
      /\ setup'.lgst = setup.lgst /\ setup'.given = setup.given
  BY Zenon, <1>1, <1>2, <1>3, TakePage
<1>5. place # "probe"
  BY <1>3
<1>6. MapKept' /\ (Fits' <=> Fits) /\ Measured'
  BY <1>1, <1>4, <1>5, Onward
<1>7. PanicsUnfit'
  <2>1. Fits => IsPages(page) /\ page \in Int
    BY <1>1, <1>4, FitsRoom, PageSize
  <2>2. Fits => place = "link"
    BY <2>1, PagesRemainder DEF place
  <2> QED
    BY <1>4, <1>6, <2>2 DEF PanicsUnfit
<1> QED
  BY <1>2, <1>3, <1>4, <1>6, <1>7, Zenon DEF SetupInv, Early, FramesFit, GivenFit, Later

LEMMA PlacesKeep ==
  ASSUME SetupInv, link \/ keep_mappings \/ set_cr3
  PROVE  SetupInv'
<1>1. setup.at \in Later /\ SetupType /\ mmap' = mmap /\ Len(setup.given) = 0
  BY Zenon DEF SetupInv, Later, GivenFit, link, keep_mappings, set_cr3
<1>2. CASE link \/ keep_mappings
  <2> DEFINE place == IF link THEN "keep" ELSE "offset"
  <2>1. HasFrames(2) /\ setup' = [setup EXCEPT !.at = place]
    BY <1>2, Zenon DEF SetupInv, FramesFit, link, keep_mappings, Goes
  <2>2. place \in {"keep", "offset"}
    OBVIOUS
  <2> HIDE DEF place
  <2>3. /\ setup'.at = place /\ setup'.map = setup.map /\ setup'.hi = setup.hi
        /\ setup'.lgst = setup.lgst /\ setup'.given = setup.given
        /\ setup'.frames = setup.frames /\ setup'.offset = setup.offset
    BY <1>1, <2>1 DEF SetupType
  <2>4. SetupType'
    BY <1>1, <2>1, <2>2, Zenon DEF SetupType, Later
  <2>5. MapKept' /\ Measured' /\ place # "probe"
    BY <1>1, <2>2, <2>3, <2>4, Onward
  <2>6. HasFrames(2)'
    BY <2>1, <2>3 DEF HasFrames, PageOf
  <2> QED
    BY <1>1, <2>2, <2>3, <2>4, <2>5, <2>6, Zenon DEF SetupInv, Early, FramesFit, GivenFit, PanicsUnfit
<1>3. CASE set_cr3
  <2>1. HasFrames(3) /\ setup' = [setup EXCEPT !.cr3 = pml4, !.at = "talloc"]
    BY <1>3 DEF SetupInv, FramesFit, set_cr3
  <2>2. pml4 \in Nat
    <3>1. setup.frames \in Seq(Nat) /\ Len(setup.frames) = 3
      BY <1>1, <2>1 DEF SetupType, HasFrames
    <3> QED
      BY <3>1 DEF pml4
  <2>3. /\ setup'.at = "talloc" /\ setup'.map = setup.map /\ setup'.hi = setup.hi
        /\ setup'.lgst = setup.lgst /\ setup'.given = setup.given
        /\ setup'.frames = setup.frames /\ setup'.offset = setup.offset
    BY <1>1, <2>1 DEF SetupType
  <2>4. SetupType'
    BY <1>1, <2>1, <2>2, Zenon DEF SetupType, Later
  <2>5. MapKept' /\ Measured'
    BY <1>1, <2>3, <2>4, Onward
  <2>6. HasFrames(3)'
    BY <2>1, <2>3 DEF HasFrames, PageOf
  <2> QED
    BY <1>1, <2>3, <2>4, <2>5, <2>6, Zenon DEF SetupInv, Early, FramesFit, GivenFit, PanicsUnfit
<1> QED
  BY <1>2, <1>3

\* What release does with a range: it crosses, or some of it is given.
Outcome(s, t, lo, hi, g) ==
  \/ RoundUp(lo) > RoundDown(hi) /\ t = [s EXCEPT !.at = "panic"]
  \/ RoundUp(lo) <= RoundDown(hi) /\ t = s
  \/ RoundUp(lo) <= RoundDown(hi) /\ t = [s EXCEPT !.given = Append(s.given, g)]

LEMMA ReleasedCases ==
  ASSUME NEW s, NEW lo \in Nat, NEW hi \in Nat, NEW g, g = [lo |-> RoundUp(lo), hi |-> RoundDown(hi)]
  PROVE  /\ g \in Region /\ lo <= g.lo /\ g.hi <= hi
         /\ Outcome(s, Released(s, lo, hi), lo, hi, g)
<1>1. RoundUp(lo) \in Nat /\ lo <= RoundUp(lo) /\ RoundDown(hi) \in Nat /\ RoundDown(hi) <= hi
  BY PagesUp, PagesDown
<1> USE DEF Region
<1>2. \/ RoundUp(lo) > RoundDown(hi)
      \/ RoundUp(lo) = RoundDown(hi)
      \/ RoundUp(lo) < RoundDown(hi)
  BY <1>1
<1>3. CASE RoundUp(lo) > RoundDown(hi)
  BY <1>1, <1>3 DEF Released, Outcome
<1>4. CASE RoundUp(lo) = RoundDown(hi)
  <2>1. ~(RoundUp(lo) > RoundDown(hi)) /\ RoundUp(lo) <= RoundDown(hi)
    BY <1>1, <1>4
  <2> QED
    BY <1>1, <1>4, <2>1 DEF Released, Outcome
<1>5. CASE RoundUp(lo) < RoundDown(hi)
  <2>1. ~(RoundUp(lo) > RoundDown(hi)) /\ ~(RoundUp(lo) = RoundDown(hi)) /\ RoundUp(lo) <= RoundDown(hi)
    BY <1>1, <1>5
  <2> QED
    BY <1>1, <2>1 DEF Released, Outcome
<1> QED
  BY <1>2, <1>3, <1>4, <1>5

\* One more region that comes from its own place and is aside of the others.
LEMMA GiveMore ==
  ASSUME NEW gs \in Seq(Region), NEW g \in Region, NEW i \in Nat, NEW n \in Nat, i <= n,
         SetupType, MapKept, GivenOk(gs, i), InLargest(g) \/ FromEntry(g, n),
         \A k \in 1 .. Len(gs) : Aside(gs[k], g)
  PROVE  GivenOk(Append(gs, g), n)
<1> DEFINE more == Append(gs, g)
<1>1. /\ Len(more) = Len(gs) + 1 /\ Len(gs) \in Nat
      /\ more[Len(gs) + 1] = g /\ \A k \in 1 .. Len(gs) : more[k] = gs[k]
  OBVIOUS
<1> HIDE DEF more
<1>2. \A k \in 1 .. Len(gs) : InLargest(gs[k]) \/ FromEntry(gs[k], n)
  <2>1. Available \subseteq Nat
    BY EntriesApart DEF Available
  <2>2. \A j \in Available : j < i => j < n
    BY <2>1
  <2>3. \A h : FromEntry(h, i) => FromEntry(h, n)
    BY <2>2 DEF FromEntry
  <2> QED
    BY <2>3 DEF GivenOk
<1>3. \A k \in 1 .. Len(more) : k \in 1 .. Len(gs) \/ k = Len(gs) + 1
  BY <1>1
<1>4. \A k \in 1 .. Len(more) : InLargest(more[k]) \/ FromEntry(more[k], n)
  BY <1>1, <1>2, <1>3
<1>5. ASSUME NEW k \in 1 .. Len(more), NEW m \in 1 .. Len(more), k # m
      PROVE  Aside(more[k], more[m])
  <2>1. CASE k \in 1 .. Len(gs) /\ m \in 1 .. Len(gs)
    BY <1>1, <1>5, <2>1 DEF GivenOk
  <2>2. CASE k = Len(gs) + 1
    <3>1. m \in 1 .. Len(gs)
      BY <1>3, <1>5, <2>2
    <3> QED
      BY <1>1, <2>2, <3>1 DEF Aside
  <2>3. CASE m = Len(gs) + 1
    <3>1. k \in 1 .. Len(gs)
      BY <1>3, <1>5, <2>3
    <3> QED
      BY <1>1, <2>3, <3>1 DEF Aside
  <2> QED
    BY <1>3, <2>1, <2>2, <2>3
<1> QED
  BY <1>4, <1>5 DEF GivenOk, more

\* A state with the same map and the same largest block.
LEMMA GivenNext ==
  ASSUME mmap' = mmap, setup'.lgst = setup.lgst, NEW gs, NEW n, setup'.given = gs, setup'.i = n,
         GivenOk(gs, n)
  PROVE  GivenOk(setup.given, setup.i)'
<1>1. Available' = Available
  BY DEF Available, IsFree
<1>2. \A g : InLargest(g) <=> InLargest(g)'
  BY DEF InLargest, PageOf
<1>3. \A g : FromEntry(g, n) <=> FromEntry(g, n)'
  BY <1>1 DEF FromEntry
<1>4. \A k \in 1 .. Len(gs) : InLargest(gs[k])' \/ FromEntry(gs[k], n)'
  BY <1>2, <1>3 DEF GivenOk
<1> QED
  BY <1>4 DEF GivenOk, InLargest, FromEntry, Aside

\* The steps that give memory to the allocator, up to what they give.
LEMMA EndKeeps ==
  ASSUME SetupInv, setup.at \in {"talloc", "release"}, mmap' = mmap, SetupType',
         setup'.at \in {"release", "done", "panic", "astray"},
         setup'.map = setup.map, setup'.hi = setup.hi, setup'.lgst = setup.lgst,
         setup'.frames = setup.frames, setup'.offset = setup.offset,
         NEW gs, NEW n, setup'.given = gs, setup'.i = n,
         setup'.at \in {"release", "done"} => GivenOk(gs, n),
         setup'.at \in {"panic", "astray"} => ~Fits
  PROVE  SetupInv'
<1>1. setup.at \in Later /\ setup'.at # "probe" /\ HasFrames(3)
  BY Zenon DEF Later, SetupInv, FramesFit
<1>2. MapKept' /\ Measured' /\ (Fits' <=> Fits)
  BY <1>1, Onward
<1>3. HasFrames(3)'
  BY <1>1 DEF HasFrames, PageOf
<1>4. GivenFit'
  BY GivenNext, Zenon DEF GivenFit, Later
<1> QED
  BY <1>2, <1>3, <1>4, Zenon DEF SetupInv, Early, FramesFit, PanicsUnfit

LEMMA TallocKeeps ==
  ASSUME SetupInv, talloc_new
  PROVE  SetupInv'
<1> DEFINE lg == setup.lgst
           len == lg.size - setup.offset
           s == [setup EXCEPT !.at = "release", !.i = 1]
           lo == page + StatusBytes
           hi == page + len
           g == [lo |-> RoundUp(lo), hi |-> RoundDown(hi)]
<1>1. SetupType /\ HasFrames(3) /\ setup.at = "talloc" /\ mmap' = mmap /\ Len(setup.given) = 0 /\ MapKept
  BY DEF SetupInv, FramesFit, GivenFit, Later, talloc_new
<1>2. /\ setup.offset \in Nat /\ lg.ptr \in Nat /\ lg.size \in Nat /\ StatusBytes \in Nat
      /\ setup.given \in Seq(Region)
  <2>1. setup.offset \in Nat /\ lg \in MemEntry /\ setup.given \in Seq(Region)
    BY <1>1 DEF SetupType
  <2> HIDE DEF lg
  <2>2. lg.ptr \in Nat /\ lg.size \in Nat
    BY <2>1 DEF MemEntry
  <2> QED
    BY <2>1, <2>2, MemoryAssumption
<1>3. page = PageOf(4) /\ page \in Nat /\ hi = lg.ptr + lg.size /\ len \in Int /\ lo \in Nat /\ hi \in Nat
  <2>1. RoundUp(lg.ptr) \in Nat
    BY <1>2, PagesUp, Zenon
  <2>2. PageOf(4) = lg.ptr + RoundUp(lg.ptr) + 3 * PTE_SIZE
    BY <1>2, <2>1, PageSize DEF PageOf
  <2>3. setup.offset = RoundUp(lg.ptr) + 3 * PTE_SIZE
    BY <1>1 DEF HasFrames
  <2>4. page = lg.ptr + setup.offset
    BY DEF page
  <2>5. page = PageOf(4) /\ page \in Nat
    <3> DEFINE up == RoundUp(lg.ptr)
               p == PageOf(4)
               o == setup.offset
               a == lg.ptr
    <3>1. up \in Nat /\ p = a + up + 3 * PTE_SIZE /\ o = up + 3 * PTE_SIZE /\ page = a + o /\ a \in Nat
      BY <1>2, <2>1, <2>2, <2>3, <2>4
    <3> HIDE DEF up, p, o, a
    <3>2. page = p /\ page \in Nat
      BY ONLY <3>1, PageSize
    <3> QED
      BY <3>2 DEF p
  <2>6. len \in Int /\ hi = lg.ptr + lg.size
    BY <1>2, <2>4
  <2>7. lg.ptr + lg.size \in Nat /\ page + StatusBytes \in Nat
    <3> HIDE DEF lg
    <3> QED
      BY ONLY <1>2, <2>5
  <2> QED
    BY Zenon, <2>5, <2>6, <2>7
<1>4. Fits => /\ RoundUp(StatusBytes) \in Nat /\ StatusBytes <= RoundUp(StatusBytes)
              /\ page + RoundUp(StatusBytes) <= hi /\ IsPages(page)
  BY <1>1, <1>2, <1>3, FitsRoom, PagesUp
<1>5. Fits => ~(len < 0) /\ ~(len < StatusBytes)
  <2> SUFFICES ASSUME Fits PROVE ~(len < 0) /\ ~(len < StatusBytes)
    OBVIOUS
  <2> DEFINE up == RoundUp(StatusBytes)
             l == len
  <2>1. /\ up \in Nat /\ StatusBytes \in Nat /\ StatusBytes <= up /\ page + up <= page + l
        /\ page \in Nat /\ l \in Int
    BY Zenon, <1>2, <1>3, <1>4
  <2> HIDE DEF up, l
  <2>2. ~(l < 0) /\ ~(l < StatusBytes)
    BY ONLY <2>1
  <2> QED
    BY <2>2 DEF l
<1>6. setup' = IF len < 0 /\ ~setup.unchecked THEN [setup EXCEPT !.at = "panic"]
               ELSE IF len < StatusBytes THEN [setup EXCEPT !.at = "astray"]
               ELSE Released(s, lo, hi)
  BY DEF talloc_new
<1>7. Fits => RoundUp(lo) <= RoundDown(hi)
  <2> SUFFICES ASSUME Fits PROVE RoundUp(lo) <= RoundDown(hi)
    OBVIOUS
  <2> DEFINE m == page + RoundUp(StatusBytes)
  <2>1. m \in Nat /\ IsPages(m) /\ lo <= m /\ m <= hi
    <3>1. IsPages(RoundUp(StatusBytes)) /\ IsPages(page) /\ page \in Int /\ RoundUp(StatusBytes) \in Int
      <4>1. IsPages(RoundUp(StatusBytes)) /\ RoundUp(StatusBytes) \in Int
        BY ONLY StatusPages
      <4>2. IsPages(page) /\ page \in Nat
        BY Zenon, <1>3, <1>4
      <4> QED
        BY ONLY <4>1, <4>2
    <3>2. IsPages(m)
      BY <3>1, PagesAdd
    <3>3. lo <= m /\ m <= hi /\ m \in Nat
      <4> DEFINE up == RoundUp(StatusBytes)
      <4>1. up \in Nat /\ StatusBytes <= up /\ page + up <= hi /\ page \in Nat
        BY Zenon, <1>3, <1>4
      <4> HIDE DEF hi, up
      <4>2. page + StatusBytes <= page + up /\ page + up \in Nat
        BY <1>2, <4>1
      <4> QED
        BY <4>1, <4>2 DEF up
    <3> QED
      BY <3>2, <3>3
  <2> HIDE DEF m, lo, hi
  <2>2. RoundUp(lo) \in Nat /\ IsPages(RoundUp(lo)) /\ RoundUp(lo) < lo + PTE_SIZE
    BY <1>3, PagesUp
  <2>3. RoundDown(hi) \in Nat /\ IsPages(RoundDown(hi)) /\ hi < RoundDown(hi) + PTE_SIZE
    BY <1>3, PagesDown
  <2>4. RoundUp(lo) <= m
    <3>1. RoundUp(lo) < m + PTE_SIZE
      BY <1>3, <2>1, <2>2, PageSize
    <3> QED
      BY <2>1, <2>2, <3>1, WholePages
  <2>5. m <= RoundDown(hi)
    <3>1. m < RoundDown(hi) + PTE_SIZE
      BY <1>3, <2>1, <2>3, PageSize
    <3> QED
      BY <2>1, <2>3, <3>1, WholePages
  <2> QED
    BY <2>1, <2>2, <2>3, <2>4, <2>5
<1>8. ASSUME NEW place \in {"panic", "astray"}, setup' = [setup EXCEPT !.at = place], ~Fits
      PROVE  SetupInv'
  <2>1. /\ setup'.at = place /\ setup'.map = setup.map /\ setup'.hi = setup.hi /\ setup'.lgst = setup.lgst
        /\ setup'.frames = setup.frames /\ setup'.offset = setup.offset
        /\ setup'.given = setup.given /\ setup'.i = setup.i
    BY <1>1, <1>8 DEF SetupType
  <2>2. SetupType'
    BY <1>1, <1>8 DEF SetupType
  <2> QED
    BY <1>1, <1>8, <2>1, <2>2, EndKeeps
<1>9. ASSUME NEW given \in Seq(Region), GivenOk(given, 1),
             setup' = [setup EXCEPT !.at = "release", !.i = 1, !.given = given]
      PROVE  SetupInv'
  <2>1. /\ setup'.at = "release" /\ setup'.map = setup.map /\ setup'.hi = setup.hi /\ setup'.lgst = setup.lgst
        /\ setup'.frames = setup.frames /\ setup'.offset = setup.offset
        /\ setup'.given = given /\ setup'.i = 1
    BY <1>1, <1>9 DEF SetupType
  <2>2. SetupType'
    <3>1. "release" \in Later /\ 1 \in Nat \ {0}
      BY DEF Later
    <3> QED
      BY <1>1, <1>9, <2>1, <3>1, Zenon DEF SetupType
  <2> QED
    BY <1>1, <1>9, <2>1, <2>2, EndKeeps
<1>10. CASE setup' = Released(s, lo, hi)
  <2>1. GivenOk(setup.given, 1)
    BY <1>1 DEF GivenOk
  <2> HIDE DEF lo, hi, len, s
  <2>2. /\ g \in Region /\ lo <= g.lo /\ g.hi <= hi
        /\ \/ RoundUp(lo) > RoundDown(hi) /\ setup' = [s EXCEPT !.at = "panic"]
           \/ RoundUp(lo) <= RoundDown(hi) /\ setup' = s
           \/ RoundUp(lo) <= RoundDown(hi) /\ setup' = [s EXCEPT !.given = Append(s.given, g)]
    <3>1. g = [lo |-> RoundUp(lo), hi |-> RoundDown(hi)]
      OBVIOUS
    <3>2. lo \in Nat /\ hi \in Nat
      BY <1>3
    <3> HIDE DEF g
    <3>3. g \in Region /\ lo <= g.lo /\ g.hi <= hi /\ Outcome(s, Released(s, lo, hi), lo, hi, g)
      BY <3>1, <3>2, ReleasedCases
    <3> QED
      BY Zenon, <1>10, <3>3 DEF Outcome
  <2>3. InLargest(g)
    <3> HIDE DEF g
    <3>1. g.lo \in Nat /\ g.hi \in Nat
      BY <2>2 DEF Region
    <3> QED
      BY <1>2, <1>3, <2>2, <3>1 DEF InLargest, lo
  <2> HIDE DEF g
  <2>4. CASE RoundUp(lo) > RoundDown(hi) /\ setup' = [s EXCEPT !.at = "panic"]
    <3>1. ~Fits
      <4>1. RoundUp(lo) \in Nat /\ RoundDown(hi) \in Nat
        BY <1>3, PagesUp, PagesDown
      <4> QED
        BY <1>7, <2>4, <4>1
    <3>2. setup' = [setup EXCEPT !.at = "panic", !.i = 1]
      BY <1>1, <2>4, Zenon DEF s, SetupType
    <3>3. /\ setup'.at = "panic" /\ setup'.map = setup.map /\ setup'.hi = setup.hi /\ setup'.lgst = setup.lgst
          /\ setup'.frames = setup.frames /\ setup'.offset = setup.offset
          /\ setup'.given = setup.given /\ setup'.i = 1
      BY <1>1, <3>2 DEF SetupType
    <3>4. SetupType'
      <4>1. 1 \in Nat \ {0}
        OBVIOUS
      <4> QED
        BY <1>1, <3>2, <3>3, <4>1, Zenon DEF SetupType
    <3> QED
      BY <1>1, <3>1, <3>3, <3>4, EndKeeps
  <2>5. CASE setup' = s
    <3>1. setup' = [setup EXCEPT !.at = "release", !.i = 1, !.given = setup.given]
      BY <1>1, <2>5, Zenon DEF s, SetupType
    <3> QED
      BY <1>2, <1>9, <2>1, <3>1, Zenon
  <2>6. CASE setup' = [s EXCEPT !.given = Append(s.given, g)]
    <3>1. setup' = [setup EXCEPT !.at = "release", !.i = 1, !.given = Append(setup.given, g)]
      BY <1>1, <2>6 DEF s, SetupType
    <3>2. GivenOk(Append(setup.given, g), 1)
      <4>1. \A k \in 1 .. Len(setup.given) : Aside(setup.given[k], g)
        BY <1>1
      <4> QED
        BY <1>1, <1>2, <2>1, <2>2, <2>3, <4>1, GiveMore
    <3>3. Append(setup.given, g) \in Seq(Region)
      BY <1>2, <2>2
    <3> QED
      BY <1>9, <3>1, <3>2, <3>3, Zenon
  <2> QED
    BY <2>2, <2>4, <2>5, <2>6
<1> QED
  BY <1>5, <1>6, <1>8, <1>10

LEMMA GivenLater ==
  ASSUME NEW gs, NEW i \in Nat, NEW n \in Nat, i <= n, SetupType, MapKept, GivenOk(gs, i)
  PROVE  GivenOk(gs, n)
<1>1. Available \subseteq Nat
  BY EntriesApart DEF Available
<1>2. \A j \in Available : j < i => j < n
  BY <1>1
<1>3. \A h : FromEntry(h, i) => FromEntry(h, n)
  BY <1>2 DEF FromEntry
<1> QED
  BY <1>3 DEF GivenOk

LEMMA AtMost ==
  ASSUME NEW a \in Int, NEW b \in Int, NEW c \in Int, NEW d \in Int, a <= b, b <= c, c <= d
  PROVE  a <= d
OBVIOUS

\* A region of the entry that the loop is at is aside of all given before.
LEMMA EntryAside ==
  ASSUME SetupInv, setup.at = "release", setup.i \in Available, mmap[setup.i].ptr # setup.lgst.ptr,
         NEW g \in Region, mmap[setup.i].ptr <= g.lo, g.hi <= mmap[setup.i].ptr + mmap[setup.i].size
  PROVE  \A k \in 1 .. Len(setup.given) : Aside(setup.given[k], g)
<1> DEFINE e == mmap[setup.i]
           lg == setup.lgst
<1>1. SetupType /\ MapKept /\ GivenOk(setup.given, setup.i)
  BY DEF SetupInv, GivenFit
<1>2. PICK l \in Available : lg = mmap[l]
  BY DEF SetupInv, Measured, Later
<1>3. /\ \A j \in Available : mmap[j] \in MemEntry /\ j \in Nat
      /\ \A j, k \in Available : j < k => mmap[j].ptr + mmap[j].size <= mmap[k].ptr
  BY <1>1, EntriesApart DEF Available
<1>4. e.ptr \in Nat /\ e.size \in Nat /\ lg.ptr \in Nat /\ lg.size \in Nat /\ g.lo \in Nat /\ g.hi \in Nat
  BY <1>2, <1>3 DEF MemEntry, Region
<1>5. e.ptr + e.size <= lg.ptr \/ lg.ptr + lg.size <= e.ptr
  BY <1>2, <1>3
<1>6. lg.ptr <= PageOf(4) /\ PageOf(4) \in Nat
  <2>1. RoundUp(lg.ptr) \in Nat
    BY <1>4, PagesUp
  <2> QED
    BY <1>4, <2>1, PageSize DEF PageOf
<1> SUFFICES ASSUME NEW k \in 1 .. Len(setup.given) PROVE Aside(setup.given[k], g)
  OBVIOUS
<1> DEFINE h == setup.given[k]
<1>7. h \in Region
  BY <1>1 DEF SetupType
<1>8. h.lo \in Nat /\ h.hi \in Nat
  BY <1>7 DEF Region
<1>9. e.ptr <= g.lo /\ g.hi <= e.ptr + e.size /\ e.ptr + e.size \in Int /\ lg.ptr + lg.size \in Int
  <2>1. e.ptr <= g.lo /\ g.hi <= e.ptr + e.size
    OBVIOUS
  <2> HIDE DEF e, lg
  <2> QED
    BY ONLY <1>4, <2>1
<1>10. CASE InLargest(h)
  <2>1. PageOf(4) <= h.lo /\ h.hi <= lg.ptr + lg.size
    BY <1>10 DEF InLargest
  <2> HIDE DEF e, lg, h
  <2>2. CASE e.ptr + e.size <= lg.ptr
    <3>1. g.hi <= PageOf(4)
      BY <1>4, <1>6, <1>9, <2>2, AtMost
    <3>2. g.hi <= h.lo
      BY ONLY <1>4, <1>6, <1>8, <2>1, <3>1
    <3> QED
      BY <3>2 DEF Aside, h
  <2>3. CASE lg.ptr + lg.size <= e.ptr
    <3>1. h.hi <= g.lo
      BY <1>4, <1>8, <1>9, <2>1, <2>3, AtMost
    <3> QED
      BY <3>1 DEF Aside, h
  <2> QED
    BY <1>5, <2>2, <2>3
<1>11. CASE FromEntry(h, setup.i)
  <2>1. PICK j \in Available : j < setup.i /\ h.hi <= mmap[j].ptr + mmap[j].size
    BY <1>11 DEF FromEntry
  <2>2. mmap[j].ptr \in Nat /\ mmap[j].size \in Nat /\ mmap[j].ptr + mmap[j].size <= e.ptr
    BY <1>3, <2>1 DEF MemEntry
  <2> DEFINE end == mmap[j].ptr + mmap[j].size
  <2>3. end \in Int /\ h.hi <= end /\ end <= e.ptr
    BY <2>1, <2>2
  <2> HIDE DEF e, h, end
  <2>4. h.hi <= g.lo
    BY ONLY <1>4, <1>8, <1>9, <2>3
  <2> QED
    BY <2>4 DEF Aside, h
<1> QED
  BY <1>1, <1>10, <1>11 DEF GivenOk

\* On a map that fits release accepts every entry.
LEMMA EntryAccepted ==
  ASSUME SetupInv, setup.at = "release", setup.i \in Available, mmap[setup.i].ptr # setup.lgst.ptr, Fits
  PROVE  LET e == mmap[setup.i]
         IN  /\ ~(RoundUp(e.ptr) < PTE_SIZE) /\ ~(RoundDown(e.ptr + e.size) > PTE_SIZE + setup.hi)
             /\ RoundUp(e.ptr) <= RoundDown(e.ptr + e.size)
<1> DEFINE e == mmap[setup.i]
<1>1. SetupType /\ MapKept /\ e.ptr + e.size <= setup.hi
  BY DEF SetupInv, Measured, Later
<1>2. e \in MemEntry /\ setup.hi \in Nat
  BY <1>1, EntriesApart DEF Available, SetupType
<1>3. e.ptr \in Nat /\ e.size \in Nat /\ e.ptr + e.size \in Nat
  BY <1>2 DEF MemEntry
<1>4. e.ptr > 0 /\ RoundUp(e.ptr) <= RoundDown(e.ptr + e.size)
  BY DEF Fits
<1> HIDE DEF e
<1>5. RoundUp(e.ptr) \in Nat /\ IsPages(RoundUp(e.ptr)) /\ e.ptr <= RoundUp(e.ptr)
  BY <1>3, PagesUp
<1>6. ~(RoundUp(e.ptr) < PTE_SIZE)
  <2> SUFFICES ASSUME RoundUp(e.ptr) < PTE_SIZE PROVE FALSE
    OBVIOUS
  <2>1. 0 = 0 * PTE_SIZE /\ RoundUp(e.ptr) < 0 + PTE_SIZE
    BY <1>5, PageSize
  <2>2. IsPages(0)
    BY <2>1 DEF IsPages
  <2>3. RoundUp(e.ptr) <= 0
    BY <1>5, <2>1, <2>2, WholePages
  <2> QED
    BY <1>3, <1>4, <1>5, <2>3
<1>7. ~(RoundDown(e.ptr + e.size) > PTE_SIZE + setup.hi)
  <2>1. RoundDown(e.ptr + e.size) \in Nat /\ RoundDown(e.ptr + e.size) <= e.ptr + e.size
    BY <1>3, PagesDown
  <2> QED
    BY <1>1, <1>2, <1>3, <2>1, PageSize
<1> QED
  BY <1>4, <1>6, <1>7 DEF e

LEMMA ReleaseKeeps ==
  ASSUME SetupInv, release_entry
  PROVE  SetupInv'
<1> DEFINE i == setup.i
           e == mmap[i]
           s == [setup EXCEPT !.i = @ + 1]
           lo == e.ptr
           hi == e.ptr + e.size
           g == [lo |-> RoundUp(lo), hi |-> RoundDown(hi)]
<1>1. SetupType /\ MapKept /\ setup.at = "release" /\ mmap' = mmap /\ GivenOk(setup.given, i)
  BY DEF SetupInv, GivenFit, release_entry
<1>2. i \in Nat /\ i + 1 \in Nat \ {0} /\ i <= i + 1 /\ setup.given \in Seq(Region)
  BY <1>1 DEF SetupType
<1>3. setup' = IF i > Len(mmap) THEN [setup EXCEPT !.at = "done"]
               ELSE IF ~IsFree(e) \/ e.ptr = setup.lgst.ptr THEN s
               ELSE IF RoundUp(e.ptr) < PTE_SIZE \/ RoundDown(e.ptr + e.size) > PTE_SIZE + setup.hi
               THEN [setup EXCEPT !.at = "panic"]
               ELSE Released(s, lo, hi)
  BY DEF release_entry
<1>4. ASSUME NEW place \in {"done", "panic"}, setup' = [setup EXCEPT !.at = place],
             place = "panic" => ~Fits
      PROVE  SetupInv'
  <2>1. /\ setup'.at = place /\ setup'.map = setup.map /\ setup'.hi = setup.hi /\ setup'.lgst = setup.lgst
        /\ setup'.frames = setup.frames /\ setup'.offset = setup.offset
        /\ setup'.given = setup.given /\ setup'.i = i
    BY <1>1, <1>4 DEF SetupType
  <2>2. SetupType'
    BY <1>1, <1>4, <2>1, Zenon DEF SetupType, Later
  <2> QED
    BY <1>1, <1>4, <2>1, <2>2, EndKeeps
<1>5. ASSUME NEW given \in Seq(Region), GivenOk(given, i + 1),
             NEW place \in {"release", "panic"}, place = "panic" => ~Fits,
             setup' = [setup EXCEPT !.at = place, !.i = i + 1, !.given = given]
      PROVE  SetupInv'
  <2>1. /\ setup'.at = place /\ setup'.map = setup.map /\ setup'.hi = setup.hi /\ setup'.lgst = setup.lgst
        /\ setup'.frames = setup.frames /\ setup'.offset = setup.offset
        /\ setup'.given = given /\ setup'.i = i + 1
    BY <1>1, <1>5 DEF SetupType
  <2>2. SetupType'
    <3>1. "release" \in Later
      BY DEF Later
    <3> HIDE DEF i
    <3> QED
      BY <1>1, <1>2, <1>5, <2>1, <3>1, Zenon DEF SetupType
  <2> QED
    BY <1>1, <1>5, <2>1, <2>2, EndKeeps
<1>6. GivenOk(setup.given, i + 1)
  BY <1>1, <1>2, GivenLater
<1>7. s = [setup EXCEPT !.at = "release", !.i = i + 1, !.given = setup.given]
  BY <1>1, Zenon DEF SetupType
<1>8. CASE i > Len(mmap)
  BY <1>3, <1>4, <1>8
<1>9. CASE setup' = s
  BY <1>2, <1>5, <1>6, <1>7, <1>9, Zenon
<1>10. ASSUME ~(i > Len(mmap)), IsFree(e), e.ptr # setup.lgst.ptr
       PROVE  SetupInv'
  <2>1. i \in Available /\ e \in MemEntry
    <3>1. i \in 1 .. Len(mmap)
      BY <1>1, <1>10, EntriesApart DEF SetupType
    <3> QED
      BY <1>1, <1>10, <3>1, EntriesApart DEF Available
  <2>2. lo \in Nat /\ hi \in Nat
    BY <2>1 DEF MemEntry
  <2>3. Fits => /\ ~(RoundUp(e.ptr) < PTE_SIZE) /\ ~(RoundDown(e.ptr + e.size) > PTE_SIZE + setup.hi)
                /\ RoundUp(lo) <= RoundDown(hi)
    BY <1>1, <1>10, <2>1, EntryAccepted
  <2>4. CASE setup' = [setup EXCEPT !.at = "panic"] /\ ~Fits
    BY <1>4, <2>4
  <2>5. CASE setup' = Released(s, lo, hi)
    <3>1. g = [lo |-> RoundUp(lo), hi |-> RoundDown(hi)]
      OBVIOUS
    <3>2. e.ptr = lo /\ e.ptr + e.size = hi
      OBVIOUS
    <3>3. RoundUp(lo) \in Nat /\ RoundDown(hi) \in Nat
      BY <2>2, PagesUp, PagesDown
    <3> HIDE DEF g, lo, hi, s
    <3>4. g \in Region /\ lo <= g.lo /\ g.hi <= hi /\ Outcome(s, Released(s, lo, hi), lo, hi, g)
      BY <2>2, <3>1, ReleasedCases
    <3>5. \/ RoundUp(lo) > RoundDown(hi) /\ setup' = [s EXCEPT !.at = "panic"]
          \/ setup' = s
          \/ setup' = [s EXCEPT !.given = Append(s.given, g)]
      BY Zenon, <2>5, <3>4 DEF Outcome
    <3>6. CASE RoundUp(lo) > RoundDown(hi) /\ setup' = [s EXCEPT !.at = "panic"]
      <4>1. ~Fits
        BY <2>3, <3>3, <3>6
      <4>2. setup' = [setup EXCEPT !.at = "panic", !.i = i + 1, !.given = setup.given]
        BY <1>1, <3>6, Zenon DEF s, SetupType
      <4> QED
        BY <1>2, <1>5, <1>6, <4>1, <4>2, Zenon
    <3>7. CASE setup' = [s EXCEPT !.given = Append(s.given, g)]
      <4>1. setup' = [setup EXCEPT !.at = "release", !.i = i + 1, !.given = Append(setup.given, g)]
        BY <1>1, <3>7, Zenon DEF s, SetupType
      <4>2. \A k \in 1 .. Len(setup.given) : Aside(setup.given[k], g)
        BY <1>1, <1>10, <2>1, <3>2, <3>4, EntryAside
      <4>3. FromEntry(g, i + 1)
        BY <1>2, <1>10, <2>1, <3>2, <3>4 DEF FromEntry
      <4>4. GivenOk(Append(setup.given, g), i + 1)
        BY <1>1, <1>2, <3>4, <4>2, <4>3, GiveMore
      <4>5. Append(setup.given, g) \in Seq(Region)
        BY <1>2, <3>4
      <4> QED
        BY <1>5, <4>1, <4>4, <4>5, Zenon
    <3> QED
      BY <1>9, <3>5, <3>6, <3>7
  <2> QED
    BY <1>3, <1>10, <2>3, <2>4, <2>5
<1> QED
  BY <1>3, <1>8, <1>9, <1>10

\* An available entry is one that the loader calls free and that answers.
FreeEntries == {e \in Range(setup.map) : e.type \in {MMAP_FREE, MMAP_MMIO} /\ e.answers}

LEMMA AvailableIsFree ==
  ASSUME SetupInv, setup.at # "probe", NEW j \in Available
  PROVE  mmap[j] \in FreeEntries
<1>1. SetupType /\ MapKept
  BY DEF SetupInv
<1>2. j \in 1 .. Len(mmap) /\ IsFree(mmap[j]) /\ mmap[j] \in MemEntry
  BY <1>1, EntriesApart DEF Available
<1>3. mmap[j] = setup.map[j] /\ mmap[j].answers
  BY <1>1, <1>2 DEF MapKept
<1>4. mmap[j].type \in {MMAP_FREE, MMAP_MMIO}
  <2>1. mmap[j].type \in 0 .. 3 /\ mmap[j].type % 2 = 1
    BY <1>2 DEF MemEntry, IsFree
  <2> QED
    BY <2>1 DEF MMAP_FREE, MMAP_MMIO
<1>5. j \in DOMAIN setup.map
  <2>1. setup.map \in MemoryMaps /\ Len(setup.map) = Len(mmap)
    BY <1>1 DEF SetupType
  <2>2. DOMAIN setup.map = 1 .. Len(mmap)
    BY <2>1, MemoryAssumption
  <2> QED
    BY <1>2, <2>2
<1> QED
  BY <1>3, <1>4, <1>5 DEF FreeEntries, Range

\* The frames are the pages PageOf(1), PageOf(2) and PageOf(3), or some of them.
LEMMA FramesArePages ==
  ASSUME SetupInv, setup.at \in Later
  PROVE  \A k \in DOMAIN setup.frames : k \in 1 .. 3 /\ setup.frames[k] = PageOf(k)
<1>1. setup.frames \in Seq(Nat)
  BY DEF SetupInv, SetupType
<1>2. HasFrames(0) \/ HasFrames(1) \/ HasFrames(2) \/ HasFrames(3)
  BY Zenon DEF SetupInv, FramesFit, Later
<1>3. PICK n \in 0 .. 3 : HasFrames(n)
  BY <1>2
<1> QED
  BY <1>1, <1>3 DEF HasFrames

LEMMA InvApart == SetupInv => SetupKeepsApart
<1> SUFFICES ASSUME SetupInv, setup.at \notin {"absent", "probe", "measure"}, Available # {}, Fits
             PROVE  /\ setup.at \notin {"panic", "astray"}
                    /\ \A i, j \in DOMAIN setup.frames : i # j =>
                          Extent(setup.frames[i], PTE_SIZE) \cap Extent(setup.frames[j], PTE_SIZE) = {}
                    /\ \A i, j \in DOMAIN setup.given : i # j =>
                          (setup.given[i].lo .. setup.given[i].hi - 1) \cap (setup.given[j].lo .. setup.given[j].hi - 1) = {}
                    /\ \A i \in DOMAIN setup.frames, j \in DOMAIN setup.given :
                          Extent(setup.frames[i], PTE_SIZE) \cap (setup.given[j].lo .. setup.given[j].hi - 1) = {}
                    /\ \A i \in DOMAIN setup.frames : \E e \in FreeEntries :
                          Extent(setup.frames[i], PTE_SIZE) \subseteq Extent(e.ptr, e.size)
                    /\ \A i \in DOMAIN setup.given : \E e \in FreeEntries :
                          setup.given[i].lo .. setup.given[i].hi - 1 \subseteq Extent(e.ptr, e.size)
  BY Zenon DEF SetupKeepsApart, FreeEntries
<1> DEFINE lg == setup.lgst
           P == PTE_SIZE
           b == PageOf(1)
<1>1. setup.at \in Later /\ SetupType /\ MapKept
  BY DEF SetupInv, PanicsUnfit, SetupType
<1>2. PICK l \in Available : lg = mmap[l]
  BY <1>1 DEF SetupInv, Measured
<1>3. /\ \A j \in Available : mmap[j] \in MemEntry /\ j \in Nat
      /\ \A j, k \in Available : j < k => mmap[j].ptr + mmap[j].size <= mmap[k].ptr
  BY <1>1, EntriesApart DEF Available
<1>4. /\ lg.ptr \in Nat /\ lg.size \in Nat /\ b \in Nat /\ P \in Nat \ {0} /\ b = lg.ptr + lg.ptr
      /\ PageOf(2) = b + P /\ PageOf(3) = b + 2 * P /\ PageOf(4) = b + 3 * P
      /\ b + 3 * P <= lg.ptr + lg.size
  <2>1. RoundUp(StatusBytes) \in Nat
    BY MemoryAssumption, PagesUp
  <2>2. /\ lg.ptr \in Nat /\ lg.size \in Nat /\ b \in Nat /\ b = lg.ptr + lg.ptr
        /\ PageOf(2) = b + P /\ PageOf(3) = b + 2 * P /\ PageOf(4) = b + 3 * P
        /\ PageOf(4) + RoundUp(StatusBytes) <= lg.ptr + lg.size
    BY <1>1, FitsRoom
  <2>3. PageOf(4) \in Nat /\ PageOf(4) <= lg.ptr + lg.size
    BY <2>1, <2>2, PageSize
  <2> QED
    BY <2>2, <2>3, PageSize
<1>5. \A k \in DOMAIN setup.frames : k \in 1 .. 3 /\ setup.frames[k] = PageOf(k)
  BY <1>1, FramesArePages
<1> HIDE DEF lg, P, b
<1>6. ASSUME NEW k \in DOMAIN setup.frames
      PROVE  /\ setup.frames[k] \in Nat /\ lg.ptr <= setup.frames[k] /\ setup.frames[k] + P <= PageOf(4)
             /\ (k = 1 /\ setup.frames[k] = b) \/ (k = 2 /\ setup.frames[k] = b + P) \/ (k = 3 /\ setup.frames[k] = b + 2 * P)
  <2> DEFINE f == setup.frames[k]
             top == PageOf(4)
  <2>1. (k = 1 /\ f = b) \/ (k = 2 /\ f = b + P) \/ (k = 3 /\ f = b + 2 * P)
    <3>1. k \in 1 .. 3 /\ f = PageOf(k)
      BY <1>5
    <3> HIDE DEF f
    <3>2. k = 1 \/ k = 2 \/ k = 3
      BY <3>1
    <3>3. k = 1 => f = b
      BY ONLY <3>1 DEF b
    <3>4. k = 2 => f = b + P
      <4>1. k = 2 => f = PageOf(2)
        BY ONLY <3>1
      <4>2. PageOf(2) = b + P
        BY <1>4
      <4> QED
        BY ONLY <4>1, <4>2
    <3>5. k = 3 => f = b + 2 * P
      <4>1. k = 3 => f = PageOf(3)
        BY ONLY <3>1
      <4>2. PageOf(3) = b + 2 * P
        BY <1>4
      <4> QED
        BY ONLY <4>1, <4>2
    <3> QED
      BY ONLY <3>2, <3>3, <3>4, <3>5
  <2>2. top = b + 3 * P
    BY <1>4
  <2> HIDE DEF f, top
  <2>3. f \in Nat /\ lg.ptr <= f /\ f + P <= top
    BY <1>4, <2>1, <2>2
  <2> QED
    BY <2>1, <2>3 DEF f, top
<1>7. ASSUME NEW j \in DOMAIN setup.given
      PROVE  /\ setup.given[j].lo \in Nat /\ setup.given[j].hi \in Nat
             /\ InLargest(setup.given[j]) \/ FromEntry(setup.given[j], setup.i)
             /\ \A k \in DOMAIN setup.given : k # j => Aside(setup.given[j], setup.given[k])
  <2>1. setup.given \in Seq(Region) /\ DOMAIN setup.given = 1 .. Len(setup.given)
    BY <1>1 DEF SetupType
  <2>2. setup.at \in {"release", "done"}
    BY <1>1, <2>1 DEF SetupInv, GivenFit
  <2>3. GivenOk(setup.given, setup.i)
    BY <2>2 DEF SetupInv, GivenFit
  <2>4. setup.given[j] \in Region
    BY <2>1
  <2> QED
    BY <2>1, <2>3, <2>4, Zenon DEF GivenOk, Region
<1>8. ASSUME NEW i \in DOMAIN setup.frames, NEW j \in DOMAIN setup.frames, i # j
      PROVE  Extent(setup.frames[i], PTE_SIZE) \cap Extent(setup.frames[j], PTE_SIZE) = {}
  <2>1. setup.frames[i] + P <= setup.frames[j] \/ setup.frames[j] + P <= setup.frames[i]
    BY <1>4, <1>6, <1>8
  <2>2. setup.frames[i] \in Nat /\ setup.frames[j] \in Nat
    BY <1>6
  <2> QED
    BY <1>4, <2>1, <2>2 DEF Extent, P
<1>9. ASSUME NEW i \in DOMAIN setup.given, NEW j \in DOMAIN setup.given, i # j
      PROVE  (setup.given[i].lo .. setup.given[i].hi - 1) \cap (setup.given[j].lo .. setup.given[j].hi - 1) = {}
  BY <1>7, <1>9 DEF Aside
<1>10. ASSUME NEW j \in Available, mmap[j].ptr # lg.ptr
       PROVE  /\ mmap[j].ptr + mmap[j].size <= lg.ptr \/ lg.ptr + lg.size <= mmap[j].ptr
              /\ mmap[j].ptr \in Nat /\ mmap[j].size \in Nat
  BY <1>2, <1>3, <1>10 DEF MemEntry
<1>11. ASSUME NEW i \in DOMAIN setup.frames, NEW j \in DOMAIN setup.given
       PROVE  Extent(setup.frames[i], PTE_SIZE) \cap (setup.given[j].lo .. setup.given[j].hi - 1) = {}
  <2> DEFINE f == setup.frames[i]
             g == setup.given[j]
  <2>1. f \in Nat /\ lg.ptr <= f /\ f + P <= PageOf(4) /\ g.lo \in Nat /\ g.hi \in Nat
    BY <1>6, <1>7
  <2> HIDE DEF f, g
  <2>2. f + P <= g.lo \/ g.hi <= f
    <3>1. CASE InLargest(g)
      <4>1. PageOf(4) <= g.lo
        BY <3>1 DEF InLargest
      <4> QED
        BY <1>4, <2>1, <4>1
    <3>2. CASE FromEntry(g, setup.i)
      <4>1. PICK k \in Available : mmap[k].ptr # lg.ptr /\ mmap[k].ptr <= g.lo /\ g.hi <= mmap[k].ptr + mmap[k].size
        BY <3>2 DEF FromEntry, lg
      <4>2. /\ mmap[k].ptr + mmap[k].size <= lg.ptr \/ lg.ptr + lg.size <= mmap[k].ptr
            /\ mmap[k].ptr \in Nat /\ mmap[k].size \in Nat
        BY <1>10, <4>1
      <4> QED
        BY <1>4, <2>1, <4>1, <4>2
    <3> QED
      BY <1>7, <3>1, <3>2 DEF g
  <2> QED
    BY <1>4, <2>1, <2>2 DEF Extent, P, f, g
<1>12. ASSUME NEW i \in DOMAIN setup.frames
       PROVE  \E e \in FreeEntries : Extent(setup.frames[i], PTE_SIZE) \subseteq Extent(e.ptr, e.size)
  <2>1. setup.frames[i] \in Nat /\ lg.ptr <= setup.frames[i] /\ setup.frames[i] + P <= lg.ptr + lg.size
    BY <1>4, <1>6
  <2>2. Extent(setup.frames[i], PTE_SIZE) \subseteq Extent(lg.ptr, lg.size)
    BY <1>4, <2>1 DEF Extent, P
  <2>3. lg \in FreeEntries
    BY <1>1, <1>2, AvailableIsFree, Zenon DEF Later
  <2> QED
    BY <2>2, <2>3
<1>13. ASSUME NEW i \in DOMAIN setup.given
       PROVE  \E e \in FreeEntries : setup.given[i].lo .. setup.given[i].hi - 1 \subseteq Extent(e.ptr, e.size)
  <2> DEFINE g == setup.given[i]
  <2>1. g.lo \in Nat /\ g.hi \in Nat
    BY <1>7
  <2>2. PICK k \in Available : mmap[k].ptr <= g.lo /\ g.hi <= mmap[k].ptr + mmap[k].size
    <3>1. CASE InLargest(g)
      <4>1. PageOf(4) <= g.lo /\ g.hi <= lg.ptr + lg.size
        BY <3>1 DEF InLargest, lg
      <4> HIDE DEF g
      <4>2. lg.ptr <= g.lo
        BY <1>4, <2>1, <4>1
      <4> QED
        BY <1>2, <4>1, <4>2
    <3>2. CASE FromEntry(g, setup.i)
      BY <3>2 DEF FromEntry
    <3> QED
      BY <1>7, <3>1, <3>2
  <2>3. mmap[k].ptr \in Nat /\ mmap[k].size \in Nat
    BY <1>3 DEF MemEntry
  <2>4. g.lo .. g.hi - 1 \subseteq Extent(mmap[k].ptr, mmap[k].size)
    <3> HIDE DEF g
    <3> QED
      BY <2>1, <2>2, <2>3 DEF Extent
  <2>5. mmap[k] \in FreeEntries
    BY <1>1, AvailableIsFree, Zenon DEF Later
  <2> QED
    BY <2>4, <2>5
<1> QED
  BY <1>1, <1>8, <1>9, <1>11, <1>12, <1>13, Zenon DEF Later

LEMMA SetupStep == SetupInv /\ [MemoryNext]_setupVars => SetupInv'
<1> SUFFICES ASSUME SetupInv, [MemoryNext]_setupVars PROVE SetupInv'
  OBVIOUS
<1>1. CASE UNCHANGED setupVars
  <2>1. setup' = setup /\ mmap' = mmap
    BY <1>1 DEF setupVars
  <2>2. Available' = Available /\ (Fits => Fits') /\ (Fits' => Fits)
    BY <2>1 DEF Available, Fits
  <2>3. SetupType' /\ MapKept' /\ Early' /\ Measured' /\ PanicsUnfit'
    BY <2>1, <2>2 DEF SetupInv, SetupType, MapKept, Early, Measured, PanicsUnfit
  <2>4. FramesFit'
    BY <2>1, Zenon DEF SetupInv, FramesFit, HasFrames, PageOf
  <2>5. GivenFit'
    BY <2>1, <2>2 DEF SetupInv, GivenFit, GivenOk, InLargest, FromEntry, PageOf
  <2> QED
    BY <2>3, <2>4, <2>5 DEF SetupInv
<1>2. CASE setup_ended
  BY <1>1, <1>2 DEF setup_ended
<1> QED
  BY <1>1, <1>2, ProbeKeeps, MeasureKeeps, PagesKeep, LastPdptKeeps, PlacesKeep, TallocKeeps, ReleaseKeeps
  DEF MemoryNext

\* Every step of Mapper::setup keeps what the later ones rely on: how much of
\* the map is counted, which tables are taken, and what has been given away.
THEOREM SetupKeepsInv == MemorySpec => []SetupInv
BY SetupStarts, SetupStep, PTL DEF MemorySpec

\* Mapper::setup, for any map of the loader: when the map is one that it can
\* cope with, it does not panic, the three tables that it takes from the largest
\* block and the ranges that it gives the allocator are all apart, and each lies
\* in one entry that the loader calls free and that answered the probe.
THEOREM SetupHandsOutNothingTwice == MemorySpec => []SetupKeepsApart
BY SetupKeepsInv, InvApart, PTL

\* What the tables hold: the loader's stay as they are, and those of setup hold
\* what the steps so far put into them.
LoaderKept ==
  /\ {Loader.pml4, Loader.pdpt} \subseteq DOMAIN tables
  /\ tables[Loader.pml4][LastIndex] = Branch(Loader.pdpt)
  /\ tables[Loader.pdpt][LastIndex] = Branch(Loader.pd)

TablesType ==
  /\ tables = [t \in DOMAIN tables |-> tables[t]]
  /\ \A t \in DOMAIN tables : tables[t] = [i \in 0 .. LastIndex |-> tables[t][i]]

\* The table that maps memory at the offset.
OffsetTable == [i \in 0 .. LastIndex |-> IF i < OffsetEntries THEN Leaf(i * PDPTE_SIZE) ELSE NoEntry]

Ended == {"talloc", "release", "done"}

Built ==
  /\ setup.cr3 = IF setup.at \in Ended THEN PageOf(1) ELSE Loader.pml4
  /\ setup.at # "pml4" => PageOf(1) \in DOMAIN tables
  /\ setup.at \notin {"pml4", "last pdpt"} => PageOf(2) \in DOMAIN tables
  /\ setup.at \in {"keep", "offset", "cr3"} \cup Ended => tables[PageOf(1)][LastIndex] = Branch(PageOf(2))
  /\ setup.at \in {"offset", "cr3"} \cup Ended => tables[PageOf(2)][LastIndex] = Branch(Loader.pd)
  /\ setup.at \in {"cr3"} \cup Ended => tables[PageOf(1)][OFFSET_IDX] = Branch(PageOf(3)) /\ tables[PageOf(3)] = OffsetTable

TablesInv ==
  /\ TablesType
  /\ setup.at \in {"probe", "measure"} => LoaderKept /\ setup.cr3 = Loader.pml4
  /\ setup.at \in Later /\ Fits => LoaderKept /\ Built

LEMMA WithTableHolds ==
  ASSUME TablesType, NEW t, NEW c, c = [i \in 0 .. LastIndex |-> c[i]], tables' = WithTable(t, c)
  PROVE  /\ TablesType' /\ DOMAIN tables' = DOMAIN tables \cup {t} /\ tables'[t] = c
         /\ \A u \in DOMAIN tables : u # t => tables'[u] = tables[u]
<1>1. /\ DOMAIN tables' = DOMAIN tables \cup {t} /\ tables'[t] = c
      /\ \A u \in DOMAIN tables : u # t => tables'[u] = tables[u]
  BY DEF WithTable
<1>2. tables' = [u \in DOMAIN tables' |-> tables'[u]]
  BY DEF WithTable
<1>3. ASSUME NEW u \in DOMAIN tables'
      PROVE  tables'[u] = [i \in 0 .. LastIndex |-> tables'[u][i]]
  <2>1. CASE u = t
    BY <1>1, <2>1, Zenon
  <2>2. CASE u # t
    BY <1>1, <1>3, <2>2, Zenon DEF TablesType
  <2> QED
    BY <2>1, <2>2
<1>4. TablesType'
  BY <1>2, <1>3 DEF TablesType
<1> QED
  BY <1>1, <1>4

LEMMA StoreHolds ==
  ASSUME TablesType, NEW t, NEW k \in 0 .. LastIndex, NEW e, tables' = Store(t, k, e)
  PROVE  /\ TablesType' /\ DOMAIN tables' = DOMAIN tables
         /\ \A u \in DOMAIN tables : u # t => tables'[u] = tables[u]
         /\ t \in DOMAIN tables => /\ tables'[t][k] = e
                                   /\ \A m \in 0 .. LastIndex : m # k => tables'[t][m] = tables[t][m]
<1>1. /\ DOMAIN tables' = DOMAIN tables
      /\ \A u \in DOMAIN tables : u # t => tables'[u] = tables[u]
      /\ t \in DOMAIN tables => tables'[t] = [tables[t] EXCEPT ![k] = e]
  BY DEF Store
<1>2. tables' = [u \in DOMAIN tables' |-> tables'[u]]
  BY Zenon DEF Store
<1>3. t \in DOMAIN tables => DOMAIN tables[t] = 0 .. LastIndex
  BY DEF TablesType
<1>4. t \in DOMAIN tables => /\ tables'[t][k] = e
                             /\ \A m \in 0 .. LastIndex : m # k => tables'[t][m] = tables[t][m]
  BY <1>1, <1>3
<1>5. ASSUME NEW u \in DOMAIN tables'
      PROVE  tables'[u] = [i \in 0 .. LastIndex |-> tables'[u][i]]
  <2>1. CASE u = t
    BY <1>1, <1>3, <1>5, <2>1
  <2>2. CASE u # t
    BY <1>1, <1>5, <2>2 DEF TablesType
  <2> QED
    BY <2>1, <2>2
<1>6. TablesType'
  BY <1>2, <1>5 DEF TablesType
<1> QED
  BY <1>1, <1>4, <1>6

\* In a map that fits the pages of setup are three, and none holds a table of
\* the loader.
LEMMA PagesClear ==
  ASSUME SetupInv, setup.at \in Later, Fits
  PROVE  /\ PageOf(1) # PageOf(2) /\ PageOf(1) # PageOf(3) /\ PageOf(2) # PageOf(3)
         /\ \A t \in {Loader.pml4, Loader.pdpt} : t # PageOf(1) /\ t # PageOf(2) /\ t # PageOf(3)
<1> DEFINE lg == setup.lgst
           b == PageOf(1)
           P == PTE_SIZE
<1>1. SetupType /\ MapKept
  BY DEF SetupInv
<1>2. PICK l \in Available : lg = mmap[l]
  BY DEF SetupInv, Measured
<1>3. RoundUp(StatusBytes) \in Nat /\ P \in Nat \ {0}
  BY MemoryAssumption, PagesUp, PageSize, Zenon
<1>4. /\ lg.ptr \in Nat /\ lg.size \in Nat /\ b \in Nat /\ b = lg.ptr + lg.ptr
      /\ PageOf(2) = b + P /\ PageOf(3) = b + 2 * P /\ PageOf(4) = b + 3 * P
      /\ PageOf(4) + RoundUp(StatusBytes) <= lg.ptr + lg.size
  BY <1>1, FitsRoom
<1>5. ASSUME NEW t \in {Loader.pml4, Loader.pdpt}
      PROVE  t \in Nat /\ ~(lg.ptr <= t /\ t < lg.ptr + lg.size)
  <2>1. l \in 1 .. Len(mmap) /\ IsFree(mmap[l])
    BY <1>1, EntriesApart DEF Available
  <2>2. mmap[l] = setup.map[l] /\ IsFree(setup.map[l])
    BY <1>1, <2>1 DEF MapKept
  <2>3. setup.map \in MemoryMaps /\ Len(setup.map) = Len(mmap)
    BY <1>1 DEF SetupType
  <2>4. l \in DOMAIN setup.map
    BY <2>1, <2>3, MemoryAssumption
  <2>5. setup.map[l].type % 2 = 1
    BY <2>2 DEF IsFree
  <2>6. t \in Nat /\ ~(setup.map[l].ptr <= t /\ t < setup.map[l].ptr + setup.map[l].size)
    <3>1. \A i \in DOMAIN setup.map, u \in {Loader.pml4, Loader.pdpt} :
             setup.map[i].type % 2 = 1 => ~(setup.map[i].ptr <= u /\ u < setup.map[i].ptr + setup.map[i].size)
      BY Zenon, <2>3, MemoryAssumption
    <3>2. t \in Nat
      BY <1>5, MemoryAssumption
    <3> QED
      BY Zenon, <1>5, <2>4, <2>5, <3>1, <3>2
  <2> QED
    BY Zenon, <1>2, <2>2, <2>6
<1>6. /\ PageOf(2) \in Nat /\ PageOf(3) \in Nat
      /\ b < PageOf(2) /\ PageOf(2) < PageOf(3) /\ PageOf(3) < lg.ptr + lg.size /\ lg.ptr <= b
  <2> DEFINE p2 == PageOf(2)
             p3 == PageOf(3)
             p4 == PageOf(4)
             up == RoundUp(StatusBytes)
  <2> HIDE DEF lg, b, P, p2, p3, p4, up
  <2> QED
    BY <1>3, <1>4 DEF p2, p3, p4, up
<1> HIDE DEF lg, b
<1>7. PageOf(1) # PageOf(2) /\ PageOf(1) # PageOf(3) /\ PageOf(2) # PageOf(3)
  BY <1>4, <1>6 DEF b
<1>8. \A t \in {Loader.pml4, Loader.pdpt} : t # PageOf(1) /\ t # PageOf(2) /\ t # PageOf(3)
  <2> TAKE t \in {Loader.pml4, Loader.pdpt}
  <2>1. t \in Nat /\ ~(lg.ptr <= t /\ t < lg.ptr + lg.size)
    BY <1>5
  <2>2. \A p \in Nat : lg.ptr <= p /\ p < lg.ptr + lg.size => t # p
    BY <2>1
  <2>3. lg.ptr <= PageOf(2) /\ lg.ptr <= PageOf(3) /\ b < lg.ptr + lg.size /\ PageOf(2) < lg.ptr + lg.size
    BY <1>4, <1>6
  <2> QED
    BY <1>4, <1>6, <2>2, <2>3 DEF b
<1> QED
  BY <1>7, <1>8

\* What Fits and PageOf say depends on the largest block and the map only.
LEMMA SamePages ==
  ASSUME setup'.lgst = setup.lgst, mmap' = mmap
  PROVE  /\ PageOf(1)' = PageOf(1) /\ PageOf(2)' = PageOf(2) /\ PageOf(3)' = PageOf(3)
         /\ Fits' => Fits
<1>1. Available' = Available
  BY DEF Available
<1> QED
  BY <1>1 DEF PageOf, Fits

LEMMA TablesStart == MemoryInit => TablesInv
<1> SUFFICES ASSUME MemoryInit PROVE TablesInv
  OBVIOUS
<1>1. setup.at = "probe" /\ setup.cr3 = Loader.pml4
  BY DEF MemoryInit
<1>2. LastIndex \in 0 .. LastIndex /\ Loader.pml4 # Loader.pdpt
  BY MemoryAssumption
<1>3. /\ DOMAIN tables = {Loader.pml4, Loader.pdpt}
      /\ tables = [t \in DOMAIN tables |-> tables[t]]
      /\ tables[Loader.pml4] = [ZeroTable EXCEPT ![LastIndex] = Branch(Loader.pdpt)]
      /\ tables[Loader.pdpt] = [ZeroTable EXCEPT ![LastIndex] = Branch(Loader.pd)]
  BY <1>2 DEF MemoryInit
<1>4. TablesType /\ LoaderKept
  BY <1>2, <1>3, Zenon DEF TablesType, LoaderKept, ZeroTable
<1> QED
  BY <1>1, <1>4 DEF TablesInv, Later

\* The steps that leave the tables alone.
LEMMA TablesLeft ==
  ASSUME SetupInv, TablesInv, tables' = tables, mmap' = mmap, setup'.lgst = setup.lgst, setup'.hi = setup.hi,
         \/ setup.at = "cr3" /\ setup'.at = "talloc" /\ setup'.cr3 = pml4
         \/ setup.at \in Ended /\ setup'.at \in Ended \cup {"panic", "astray"} /\ setup'.cr3 = setup.cr3
  PROVE  TablesInv'
<1>1. setup.at \in Later /\ TablesType' /\ setup'.at \notin {"probe", "measure"}
  BY Zenon DEF TablesInv, TablesType, Later, Ended
<1>2. SUFFICES ASSUME setup'.at \in Later, Fits' PROVE LoaderKept' /\ Built'
  BY <1>1 DEF TablesInv
<1>3. /\ PageOf(1)' = PageOf(1) /\ PageOf(2)' = PageOf(2) /\ PageOf(3)' = PageOf(3) /\ Fits
  BY <1>2, SamePages
<1>4. LoaderKept /\ Built
  BY <1>1, <1>3 DEF TablesInv
<1>5. LoaderKept'
  BY <1>4 DEF LoaderKept
<1>6. OffsetTable' = OffsetTable
  BY DEF OffsetTable, OffsetEntries
<1>7. setup'.at \in Ended /\ setup.at \in {"cr3"} \cup Ended
  BY <1>2, Zenon DEF Later, Ended
<1>8. setup.at = "cr3" => pml4 = PageOf(1)
  BY DEF SetupInv, FramesFit, HasFrames, pml4
<1>9. setup'.cr3 = PageOf(1)
  BY <1>4, <1>7, <1>8, Zenon DEF Built, Ended
<1>10. /\ PageOf(1) \in DOMAIN tables /\ PageOf(2) \in DOMAIN tables
       /\ tables[PageOf(1)][LastIndex] = Branch(PageOf(2))
       /\ tables[PageOf(2)][LastIndex] = Branch(Loader.pd)
       /\ tables[PageOf(1)][OFFSET_IDX] = Branch(PageOf(3)) /\ tables[PageOf(3)] = OffsetTable
  BY <1>4, <1>7, Zenon DEF Built, Ended
<1> QED
  BY <1>3, <1>5, <1>6, <1>7, <1>9, <1>10, Zenon DEF Built

LEMMA TablesBefore ==
  ASSUME SetupInv, TablesInv, probe \/ measure
  PROVE  TablesInv'
<1>1. SetupType /\ tables' = tables /\ LoaderKept /\ setup.cr3 = Loader.pml4 /\ TablesType
  BY Zenon DEF SetupInv, TablesInv, probe, measure
<1>2. setup'.cr3 = setup.cr3 /\ setup'.at \in {"probe", "measure", "panic", "pml4"}
  BY <1>1, Zenon DEF SetupType, probe, measure, Goes
<1>3. LoaderKept' /\ TablesType'
  BY <1>1 DEF LoaderKept, TablesType
<1> QED
  BY <1>1, <1>2, <1>3, Zenon DEF TablesInv, Built, Ended, Later

\* A page that setup takes is none of the tables there are, so these stay.
LEMMA TablesTake ==
  ASSUME SetupInv, TablesInv, new_pml4 \/ new_last_pdpt
  PROVE  TablesInv'
<1>1. setup.at \in {"pml4", "last pdpt"} /\ setup.at \in Later /\ SetupType /\ mmap' = mmap
  BY Zenon DEF SetupInv, Later, new_pml4, new_last_pdpt
<1>2. PICK n \in 0 .. 2, m \in 1 .. 2 :
        HasFrames(n) /\ m = n + 1 /\ (setup.at = "pml4" => m = 1) /\ (setup.at = "last pdpt" => m = 2)
  <2>1. (setup.at = "pml4" => HasFrames(0)) /\ (setup.at = "last pdpt" => HasFrames(1))
    BY Zenon DEF SetupInv, FramesFit
  <2>2. 1 = 0 + 1 /\ 2 = 1 + 1 /\ 0 \in 0 .. 2 /\ 1 \in 0 .. 2 /\ 1 \in 1 .. 2 /\ 2 \in 1 .. 2
    OBVIOUS
  <2>3. CASE setup.at = "pml4"
    <3> USE <2>2
    <3> WITNESS 0 \in 0 .. 2, 1 \in 1 .. 2
    <3> QED
      BY <2>1, <2>2, <2>3
  <2>4. CASE setup.at = "last pdpt"
    <3> USE <2>2
    <3> WITNESS 1 \in 0 .. 2, 2 \in 1 .. 2
    <3> QED
      BY <2>1, <2>2, <2>4, Zenon
  <2> QED
    BY <1>1, <2>3, <2>4, Zenon
<1>3. \E p \in {"panic"} \cup Later : /\ setup' = GotPage([setup EXCEPT !.at = p])
                                      /\ setup.at = "pml4" => p = "last pdpt"
                                      /\ setup.at = "last pdpt" => p \in {"link", "panic"}
  BY Zenon DEF new_pml4, new_last_pdpt, Later
<1>4. PICK p \in {"panic"} \cup Later : /\ setup' = GotPage([setup EXCEPT !.at = p])
                                        /\ setup.at = "pml4" => p = "last pdpt"
                                        /\ setup.at = "last pdpt" => p \in {"link", "panic"}
  BY <1>3, Zenon
<1>5. tables' = WithTable(page, ZeroTable)
  BY Zenon DEF new_pml4, new_last_pdpt
<1>6. page = PageOf(m) /\ setup'.at = p /\ setup'.lgst = setup.lgst /\ setup'.cr3 = setup.cr3
  BY Zenon, <1>1, <1>2, <1>4, TakePage
<1>7. ZeroTable = [i \in 0 .. LastIndex |-> ZeroTable[i]]
  BY DEF ZeroTable
<1>8. TablesType
  BY DEF TablesInv
<1>9. /\ TablesType' /\ DOMAIN tables' = DOMAIN tables \cup {page}
      /\ \A u \in DOMAIN tables : u # page => tables'[u] = tables[u]
  BY Zenon, <1>5, <1>7, <1>8, WithTableHolds
<1>10. SUFFICES ASSUME setup'.at \in Later, Fits' PROVE LoaderKept' /\ Built'
  BY <1>1, <1>4, <1>6, <1>9, Zenon DEF TablesInv
<1>11. /\ PageOf(1)' = PageOf(1) /\ PageOf(2)' = PageOf(2) /\ PageOf(3)' = PageOf(3) /\ Fits
  BY <1>1, <1>6, <1>10, SamePages, Zenon
<1>12. LoaderKept /\ Built
  BY <1>1, <1>11, Zenon DEF TablesInv
<1>13. \A t \in {Loader.pml4, Loader.pdpt} : t # PageOf(1) /\ t # PageOf(2)
  BY <1>1, <1>11, PagesClear, Zenon
<1>14. (setup.at = "pml4" => page = PageOf(1)) /\ (setup.at = "last pdpt" => page = PageOf(2))
  BY <1>2, <1>6, Zenon
<1>15. LoaderKept'
  BY <1>1, <1>9, <1>12, <1>13, <1>14, Zenon DEF LoaderKept
<1>16. Built'
  <2>1. setup'.cr3 = Loader.pml4
    BY <1>1, <1>6, <1>12, Zenon DEF Built, Ended
  <2>2. setup'.at \in {"last pdpt", "link"}
    BY <1>1, <1>4, <1>6, <1>10, Zenon DEF Later
  <2>3. PageOf(1) \in DOMAIN tables'
    BY <1>1, <1>9, <1>12, <1>14, Zenon DEF Built
  <2>4. setup'.at = "link" => PageOf(2) \in DOMAIN tables'
    BY <1>1, <1>4, <1>6, <1>9, <1>14, Zenon
  <2> QED
    BY <1>11, <2>1, <2>2, <2>3, <2>4, Zenon DEF Built, Ended
<1> QED
  BY <1>15, <1>16

LEMMA TablesLink ==
  ASSUME SetupInv, TablesInv, link \/ keep_mappings
  PROVE  TablesInv'
<1> DEFINE old == tables[tables[setup.cr3][LastIndex].addr][LastIndex].addr
           t == IF setup.at = "link" THEN pml4 ELSE last_pdpt
           e == IF setup.at = "link" THEN Branch(last_pdpt) ELSE Branch(old)
<1>1. setup.at \in {"link", "keep"} /\ setup.at \in Later /\ SetupType /\ mmap' = mmap /\ TablesType
  BY Zenon DEF SetupInv, TablesInv, Later, link, keep_mappings
<1>2. HasFrames(2) /\ pml4 = PageOf(1) /\ last_pdpt = PageOf(2)
  <2>1. HasFrames(2)
    BY <1>1, Zenon DEF SetupInv, FramesFit
  <2> QED
    BY <2>1 DEF HasFrames, pml4, last_pdpt
<1>3. /\ setup'.at = IF setup.at = "link" THEN "keep" ELSE "offset"
      /\ setup'.lgst = setup.lgst /\ setup'.cr3 = setup.cr3
  BY <1>1 DEF link, keep_mappings, Goes, SetupType
<1>4. tables' = Store(t, LastIndex, e)
  BY DEF link, keep_mappings
<1>5. LastIndex \in 0 .. LastIndex /\ OFFSET_IDX \in 0 .. LastIndex /\ OFFSET_IDX # LastIndex
  BY MemoryAssumption
<1> HIDE DEF t, e
<1>6. /\ TablesType' /\ DOMAIN tables' = DOMAIN tables
      /\ \A u \in DOMAIN tables : u # t => tables'[u] = tables[u]
      /\ t \in DOMAIN tables => /\ tables'[t][LastIndex] = e
                                /\ \A m \in 0 .. LastIndex : m # LastIndex => tables'[t][m] = tables[t][m]
  BY Zenon, <1>1, <1>4, <1>5, StoreHolds
<1>7. SUFFICES ASSUME setup'.at \in Later, Fits' PROVE LoaderKept' /\ Built'
  BY <1>1, <1>3, <1>6 DEF TablesInv
<1>8. /\ PageOf(1)' = PageOf(1) /\ PageOf(2)' = PageOf(2) /\ PageOf(3)' = PageOf(3) /\ Fits
  BY <1>1, <1>3, <1>7, SamePages
<1>9. LoaderKept /\ Built
  BY <1>1, <1>8 DEF TablesInv
<1>10. /\ \A u \in {Loader.pml4, Loader.pdpt} : u # PageOf(1) /\ u # PageOf(2)
       /\ PageOf(1) # PageOf(2)
  BY <1>1, <1>8, PagesClear
<1>11. t \in {PageOf(1), PageOf(2)}
  BY <1>2 DEF t
<1>12. LoaderKept'
  BY <1>6, <1>9, <1>10, <1>11 DEF LoaderKept
<1>13. PageOf(1) \in DOMAIN tables /\ PageOf(2) \in DOMAIN tables /\ setup.cr3 = Loader.pml4
  BY <1>1, <1>9, Zenon DEF Built, Ended
<1>14. tables'[PageOf(1)][LastIndex] = Branch(PageOf(2))
  <2>1. CASE setup.at = "link"
    BY <1>2, <1>6, <1>13, <2>1 DEF t, e
  <2>2. CASE setup.at = "keep"
    BY <1>2, <1>6, <1>9, <1>10, <1>13, <2>2 DEF t, Built
  <2> QED
    BY <1>1, <2>1, <2>2
<1>15. setup.at = "keep" => tables'[PageOf(2)][LastIndex] = Branch(Loader.pd)
  <2>1. old = Loader.pd
    BY <1>9, <1>13 DEF LoaderKept, Branch
  <2> QED
    BY <1>2, <1>6, <1>13, <2>1 DEF t, e
<1>16. Built'
  <2>1. setup'.at \in {"keep", "offset"} /\ (setup'.at = "offset" => setup.at = "keep")
    BY <1>1, <1>3
  <2> QED
    BY <1>3, <1>6, <1>8, <1>13, <1>14, <1>15, <2>1 DEF Built, Ended
<1> QED
  BY <1>12, <1>16

LEMMA TablesOffset ==
  ASSUME SetupInv, TablesInv, map_offset
  PROVE  TablesInv'
<1> DEFINE tbl == WithTable(page, OffsetTable)
<1>1. setup.at = "offset" /\ setup.at \in Later /\ SetupType /\ mmap' = mmap /\ TablesType
  BY DEF SetupInv, TablesInv, Later, map_offset
<1>2. HasFrames(2) /\ pml4 = PageOf(1) /\ last_pdpt = PageOf(2)
  BY <1>1 DEF SetupInv, FramesFit, HasFrames, pml4, last_pdpt
<1>3. "cr3" \in Later /\ 2 \in 0 .. 2 /\ 3 = 2 + 1 /\ setup' = GotPage([setup EXCEPT !.at = "cr3"])
  BY DEF Later, map_offset
<1>4. /\ page = PageOf(3) /\ setup'.at = "cr3" /\ setup'.hi = setup.hi
      /\ setup'.lgst = setup.lgst /\ setup'.cr3 = setup.cr3
  BY Zenon, <1>1, <1>2, <1>3, TakePage
<1>5. tables' = [tbl EXCEPT ![pml4] = [@ EXCEPT ![OFFSET_IDX] = Branch(page)]]
  BY DEF map_offset, OffsetTable
<1>6. LastIndex \in 0 .. LastIndex /\ OFFSET_IDX \in 0 .. LastIndex /\ OFFSET_IDX # LastIndex
  BY MemoryAssumption
<1>7. /\ DOMAIN tbl = DOMAIN tables \cup {page} /\ tbl[page] = OffsetTable
      /\ \A u \in DOMAIN tables : u # page => tbl[u] = tables[u]
      /\ tbl = [u \in DOMAIN tbl |-> tbl[u]]
  BY DEF WithTable
<1>8. \A u \in DOMAIN tbl : tbl[u] = [i \in 0 .. LastIndex |-> tbl[u][i]]
  <2> TAKE u \in DOMAIN tbl
  <2>1. CASE u = page
    BY <1>7, <2>1, Zenon DEF OffsetTable
  <2>2. CASE u # page
    <3>1. u \in DOMAIN tables /\ tbl[u] = tables[u]
      BY <1>7, <2>2
    <3> QED
      BY <1>1, <3>1 DEF TablesType
  <2> QED
    BY <2>1, <2>2
<1> HIDE DEF tbl
<1>9. /\ DOMAIN tables' = DOMAIN tbl /\ tables' = [u \in DOMAIN tables' |-> tables'[u]]
      /\ \A u \in DOMAIN tbl : u # pml4 => tables'[u] = tbl[u]
      /\ pml4 \in DOMAIN tbl => tables'[pml4] = [tbl[pml4] EXCEPT ![OFFSET_IDX] = Branch(page)]
  BY <1>5, <1>7, Zenon
<1>10. \A u \in DOMAIN tbl : tables'[u] = [i \in 0 .. LastIndex |-> tables'[u][i]]
  <2> TAKE u \in DOMAIN tbl
  <2>1. CASE u = pml4
    <3>1. DOMAIN tbl[pml4] = 0 .. LastIndex
      BY <1>8, <2>1
    <3> QED
      BY <1>9, <2>1, <3>1
  <2>2. CASE u # pml4
    BY <1>8, <1>9, <2>2
  <2> QED
    BY <2>1, <2>2
<1>11. TablesType'
  BY <1>9, <1>10 DEF TablesType
<1>12. SUFFICES ASSUME setup'.at \in Later, Fits' PROVE LoaderKept' /\ Built'
  BY <1>4, <1>11 DEF TablesInv
<1>13. /\ PageOf(1)' = PageOf(1) /\ PageOf(2)' = PageOf(2) /\ PageOf(3)' = PageOf(3) /\ Fits
  BY <1>1, <1>4, <1>12, SamePages
<1>14. LoaderKept /\ Built
  BY <1>1, <1>13 DEF TablesInv
<1>15. /\ \A u \in {Loader.pml4, Loader.pdpt} : u # PageOf(1) /\ u # PageOf(2) /\ u # PageOf(3)
       /\ PageOf(1) # PageOf(2) /\ PageOf(1) # PageOf(3) /\ PageOf(2) # PageOf(3)
  BY <1>1, <1>13, PagesClear
<1>16. \A u \in DOMAIN tables : u # PageOf(1) /\ u # PageOf(3) => u \in DOMAIN tables' /\ tables'[u] = tables[u]
  BY <1>2, <1>4, <1>7, <1>9
<1>17. LoaderKept'
  BY <1>14, <1>15, <1>16 DEF LoaderKept
<1>18. /\ PageOf(1) \in DOMAIN tables /\ PageOf(2) \in DOMAIN tables /\ setup.cr3 = Loader.pml4
       /\ tables[PageOf(1)][LastIndex] = Branch(PageOf(2)) /\ tables[PageOf(2)][LastIndex] = Branch(Loader.pd)
  BY <1>1, <1>14 DEF Built, Ended
<1>19. tables'[PageOf(2)][LastIndex] = Branch(Loader.pd) /\ PageOf(2) \in DOMAIN tables'
  BY <1>15, <1>16, <1>18
<1>20. /\ tables'[PageOf(1)] = [tables[PageOf(1)] EXCEPT ![OFFSET_IDX] = Branch(PageOf(3))]
       /\ PageOf(1) \in DOMAIN tables' /\ tables'[PageOf(3)] = OffsetTable
  BY <1>2, <1>4, <1>7, <1>9, <1>15, <1>18
<1>21. tables'[PageOf(1)][OFFSET_IDX] = Branch(PageOf(3)) /\ tables'[PageOf(1)][LastIndex] = Branch(PageOf(2))
  <2>1. DOMAIN tables[PageOf(1)] = 0 .. LastIndex
    BY <1>1, <1>18 DEF TablesType
  <2> QED
    BY <1>6, <1>18, <1>20, <2>1
<1>22. OffsetTable' = OffsetTable
  BY <1>4 DEF OffsetTable, OffsetEntries
<1> QED
  BY <1>4, <1>13, <1>17, <1>18, <1>19, <1>20, <1>21, <1>22, Zenon DEF Built, Ended

LEMMA TablesStep == SetupInv /\ TablesInv /\ [MemoryNext]_setupVars => TablesInv'
<1> SUFFICES ASSUME SetupInv, TablesInv, [MemoryNext]_setupVars PROVE TablesInv'
  OBVIOUS
<1>1. SetupType
  BY DEF SetupInv
<1>2. CASE UNCHANGED setupVars
  <2>1. setup' = setup /\ mmap' = mmap /\ tables' = tables
    BY <1>2 DEF setupVars
  <2>2. Available' = Available /\ (Fits' => Fits)
    <3>1. Available' = Available
      BY <2>1 DEF Available, IsFree
    <3> QED
      BY <2>1, <3>1 DEF Fits
  <2>3. TablesType' /\ (LoaderKept => LoaderKept')
    BY <2>1 DEF TablesInv, TablesType, LoaderKept
  <2>4. Built => Built'
    BY <2>1, Zenon DEF Built, PageOf, OffsetTable, OffsetEntries
  <2> QED
    BY <2>1, <2>2, <2>3, <2>4 DEF TablesInv
<1>3. CASE set_cr3
  <2>1. /\ setup.at = "cr3" /\ setup'.at = "talloc" /\ setup'.cr3 = pml4 /\ setup'.lgst = setup.lgst
        /\ setup'.hi = setup.hi /\ mmap' = mmap /\ tables' = tables
    BY <1>1, <1>3 DEF set_cr3, SetupType
  <2> QED
    BY <2>1, TablesLeft
<1>4. CASE talloc_new
  <2>1. /\ setup.at \in Ended /\ setup'.at \in Ended \cup {"panic", "astray"} /\ setup'.cr3 = setup.cr3
        /\ setup'.lgst = setup.lgst /\ setup'.hi = setup.hi /\ mmap' = mmap /\ tables' = tables
    BY <1>1, <1>4 DEF talloc_new, Released, SetupType, Ended
  <2> QED
    BY <2>1, TablesLeft
<1>5. CASE release_entry
  <2>1. /\ setup.at \in Ended /\ setup'.at \in Ended \cup {"panic", "astray"} /\ setup'.cr3 = setup.cr3
        /\ setup'.lgst = setup.lgst /\ setup'.hi = setup.hi /\ mmap' = mmap /\ tables' = tables
    BY <1>1, <1>5 DEF release_entry, Released, SetupType, Ended
  <2> QED
    BY <2>1, TablesLeft
<1>6. CASE setup_ended
  BY <1>2, <1>6 DEF setup_ended
<1> QED
  BY <1>2, <1>3, <1>4, <1>5, <1>6, TablesBefore, TablesTake, TablesLink, TablesOffset DEF MemoryNext

\* The address a below hi lies in a huge page that map_offset maps.
LEMMA HugePageMapped ==
  ASSUME NEW D \in Nat \ {0}, NEW a \in Nat, NEW hi \in Nat, a < hi, NEW q, q = a \div D
  PROVE  /\ q \in Nat /\ q < (hi + D - 1) \div D /\ q * D = a - (a % D)
         /\ \A n \in Nat : a < n * D => q < n
<1> DEFINE top == hi + D - 1
           r == top \div D
<1>1. q \in Nat /\ a % D \in 0 .. D - 1 /\ q * D = a - (a % D)
  OBVIOUS
<1>2. top \in Nat
  OBVIOUS
<1>3. r \in Nat /\ top % D \in 0 .. D - 1 /\ r * D = top - (top % D)
  BY <1>2
<1>4. q * D <= a /\ hi <= r * D
  BY <1>1, <1>3
<1>5. \A n \in Nat : a < n * D => q < n
  <2> SUFFICES ASSUME NEW n \in Nat, a < n * D, n <= q PROVE FALSE
    BY <1>1
  <2>1. n * D <= q * D
    BY <1>1
  <2>2. n * D \in Nat /\ q * D \in Nat
    BY <1>1
  <2> QED
    BY <1>4, <2>1, <2>2
<1>6. q < r
  <2>1. r * D \in Nat
    BY <1>3
  <2>2. a < r * D
    BY <1>4, <2>1
  <2> QED
    BY <1>3, <1>5, <2>2
<1> QED
  BY <1>1, <1>5, <1>6

LEMMA InvMaps == SetupInv /\ TablesInv => SetupMapsAll
<1> SUFFICES ASSUME SetupInv, TablesInv, setup.at = "done", Fits
             PROVE  /\ HugePage(setup.cr3, LastIndex, LastIndex) = HugePage(Loader.pml4, LastIndex, LastIndex)
                    /\ \A g \in Range(setup.given) : \A a \in g.lo .. g.hi - 1 :
                          a < TableLen * PDPTE_SIZE =>
                            HugePage(setup.cr3, OFFSET_IDX, a \div PDPTE_SIZE) = Leaf(a - (a % PDPTE_SIZE))
  BY DEF SetupMapsAll
<1>1. SetupType /\ Measured /\ LoaderKept /\ Built /\ setup.at \in Later
  BY DEF SetupInv, TablesInv, Later
<1>2. /\ setup.cr3 = PageOf(1) /\ tables[PageOf(1)][LastIndex] = Branch(PageOf(2))
      /\ tables[PageOf(2)][LastIndex] = Branch(Loader.pd)
      /\ tables[PageOf(1)][OFFSET_IDX] = Branch(PageOf(3)) /\ tables[PageOf(3)] = OffsetTable
  BY <1>1 DEF Built, Ended
<1>3. HugePage(setup.cr3, LastIndex, LastIndex) = HugePage(Loader.pml4, LastIndex, LastIndex)
  BY <1>1, <1>2 DEF HugePage, LoaderKept, Branch
<1>4. ASSUME NEW g \in Range(setup.given), NEW a \in g.lo .. g.hi - 1, a < TableLen * PDPTE_SIZE
      PROVE  HugePage(setup.cr3, OFFSET_IDX, a \div PDPTE_SIZE) = Leaf(a - (a % PDPTE_SIZE))
  <2> DEFINE q == a \div PDPTE_SIZE
             hi == setup.hi
  <2>1. PICK k \in 1 .. Len(setup.given) : g = setup.given[k] /\ g \in Region
    <3>1. setup.given \in Seq(Region) /\ DOMAIN setup.given = 1 .. Len(setup.given)
      BY <1>1 DEF SetupType
    <3> QED
      BY <3>1 DEF Range
  <2>2. g.lo \in Nat /\ g.hi \in Nat /\ hi \in Nat
    <3>1. g.lo \in Nat /\ g.hi \in Nat
      BY ONLY <2>1 DEF Region
    <3>2. setup.hi \in Nat
      BY ONLY <1>1 DEF SetupType
    <3> QED
      BY <3>1, <3>2
  <2>3. PICK l \in Available : g.hi <= mmap[l].ptr + mmap[l].size
    <3>1. GivenOk(setup.given, setup.i)
      BY DEF SetupInv, GivenFit
    <3>2. InLargest(g) \/ FromEntry(g, setup.i)
      BY <2>1, <3>1 DEF GivenOk
    <3>3. PICK j \in Available : setup.lgst = mmap[j]
      BY <1>1 DEF Measured
    <3> QED
      BY <3>2, <3>3 DEF InLargest, FromEntry
  <2>4. mmap[l].ptr + mmap[l].size <= hi /\ mmap[l].ptr \in Nat /\ mmap[l].size \in Nat
    <3>1. mmap[l] \in MemEntry
      BY <1>1, EntriesApart DEF SetupInv, Available
    <3> QED
      BY <1>1, <3>1 DEF Measured, MemEntry
  <2>5. a \in Nat /\ a < hi
    <3> HIDE DEF hi
    <3> QED
      BY <1>4, <2>2, <2>3, <2>4
  <2>6. PDPTE_SIZE \in Nat \ {0} /\ LastIndex \in Nat /\ TableLen \in Nat /\ TableLen = LastIndex + 1
    BY MemoryAssumption DEF LastIndex
  <2>7. /\ q \in Nat /\ q < (hi + PDPTE_SIZE - 1) \div PDPTE_SIZE /\ q * PDPTE_SIZE = a - (a % PDPTE_SIZE)
        /\ \A n \in Nat : a < n * PDPTE_SIZE => q < n
    <3> HIDE DEF hi
    <3> QED
      BY <2>2, <2>5, <2>6, HugePageMapped, Zenon
  <2>8. q < OffsetEntries /\ q < TableLen
    BY <1>4, <2>6, <2>7 DEF OffsetEntries
  <2> HIDE DEF q
  <2>9. q \in 0 .. LastIndex
    BY <2>6, <2>7, <2>8
  <2>10. OffsetTable[q] = Leaf(q * PDPTE_SIZE)
    BY <2>8, <2>9 DEF OffsetTable
  <2>11. HugePage(setup.cr3, OFFSET_IDX, q) = OffsetTable[q]
    BY <1>2 DEF HugePage, Branch
  <2> QED
    BY <2>7, <2>10, <2>11 DEF q
<1> QED
  BY <1>3, <1>4

\* Mapper::setup, for any map of the loader that it can cope with: when it has
\* returned, CR3 leads to the loader's mappings of the last GiB, and at the
\* offset to every byte that the allocator was given.
THEOREM SetupMapsWhatItGives == MemorySpec => []SetupMapsAll
<1>1. MemoryInit => SetupInv /\ TablesInv
  BY SetupStarts, TablesStart
<1>2. SetupInv /\ TablesInv /\ [MemoryNext]_setupVars => (SetupInv /\ TablesInv)'
  BY SetupStep, TablesStep
<1> QED
  BY <1>1, <1>2, InvMaps, PTL DEF MemorySpec

(***************************************************************************)
(* BitCopy: up to the current byte the loop has copied, and it has kept    *)
(* what copy_end needs.                                                    *)
(***************************************************************************)

CopyType ==
  copy \in [at : {"start", "loop", "done", "panic"}, src : SUBSET Positions, dst : SUBSET Positions,
            old : SUBSET Positions, src_bit_index : Nat, dst_bit_index : Nat, bit_len : Nat, checks : BOOLEAN,
            src_index : Nat, dst_index : Nat, carry : SUBSET ONES, first_ext : SUBSET ONES, last_ext : SUBSET ONES]

\* The bit of the source that belongs at x of the destination.
Asked(x) == x - copy.dst_bit_index + copy.src_bit_index \in copy.src

\* The bytes between the first and dst_index are written, the carry holds what
\* comes next, and the rest is as it was.
Carried ==
  \A b \in 0 .. bit_align_offset - 1 :
    BITS * copy.dst_index + b >= copy.dst_bit_index => (b \in copy.carry <=> Asked(BITS * copy.dst_index + b))

Copied(dst, top) ==
  \A x \in Positions :
    /\ x < BITS * dst_index_base \/ x >= top => (x \in dst <=> x \in copy.old)
    /\ copy.dst_bit_index <= x /\ x < top => (x \in dst <=> Asked(x))

InStep ==
  /\ copy.dst_index - copy.src_index = dst_index_base - src_index_base - (IF diff_wraps THEN 1 ELSE 0)
  /\ copy.dst_index >= dst_index_base /\ copy.src_index <= src_index_acme + 1

Kept ==
  /\ copy.first_ext = {b \in ONES : BITS * dst_index_base + b \in copy.old /\ b < Align(copy.dst_bit_index)}
  /\ copy.last_ext = {b \in ONES : BITS * dst_index_base + b \in copy.old /\ b \notin Lowest(dst_end)}

InLoop ==
  /\ copy.bit_len > 0 /\ src_index_acme < SliceLen /\ dst_index_acme < SliceLen
  /\ copy.carry \subseteq 0 .. bit_align_offset - 1
  /\ InStep /\ Kept /\ Carried /\ Copied(copy.dst, BITS * copy.dst_index)

CopyInv ==
  /\ CopyType
  /\ copy.at = "start" => copy.dst = copy.old
  /\ copy.at = "loop" => InLoop
  /\ CopyExact

\* An index is the index of its byte and a place in the byte.
LEMMA ByteOfIndex ==
  ASSUME NEW m \in Nat
  PROVE  /\ m \div BITS \in Nat /\ Align(m) \in 0 .. 7 /\ m = 8 * (m \div BITS) + Align(m)
BY DEF Align, BITS

LEMMA RotateBits ==
  ASSUME NEW byte \in SUBSET ONES, NEW n \in 0 .. 7, NEW b \in ONES
  PROVE  /\ b >= n => (b \in rotate_left(byte, n) <=> b - n \in byte)
         /\ b < n => (b \in rotate_left(byte, n) <=> b - n + 8 \in byte)
<1>1. \A c \in 0 .. 7 : (c + n) % 8 = IF c + n < 8 THEN c + n ELSE c + n - 8
  OBVIOUS
<1>2. b \in 0 .. 7 /\ byte \subseteq 0 .. 7
  BY DEF ONES, BITS
<1>3. rotate_left(byte, n) = {(c + n) % 8 : c \in byte}
  BY DEF rotate_left, BITS
<1>4. ASSUME b >= n PROVE b \in rotate_left(byte, n) <=> b - n \in byte
  <2>1. b - n \in 0 .. 7 /\ ((b - n) + n) % 8 = b
    BY <1>1, <1>2, <1>4
  <2>2. ASSUME NEW c \in byte, (c + n) % 8 = b PROVE c = b - n
    BY <1>1, <1>2, <1>4, <2>2
  <2> QED
    BY <1>3, <2>1, <2>2, Zenon
<1>5. ASSUME b < n PROVE b \in rotate_left(byte, n) <=> b - n + 8 \in byte
  <2>1. b - n + 8 \in 0 .. 7 /\ ((b - n + 8) + n) % 8 = b
    BY <1>1, <1>2, <1>5
  <2>2. ASSUME NEW c \in byte, (c + n) % 8 = b PROVE c = b - n + 8
    BY <1>1, <1>2, <1>5, <2>2
  <2> QED
    BY <1>3, <2>1, <2>2
<1> QED
  BY <1>4, <1>5

\* Writing a byte of a slice.
LEMMA WriteByte ==
  ASSUME NEW slice \in SUBSET Positions, NEW i \in Nat, NEW byte \in SUBSET ONES, i < SliceLen
  PROVE  /\ WithByte(slice, i, byte) \subseteq Positions
         /\ \A x \in Positions : x \in WithByte(slice, i, byte) <=>
                IF 8 * i <= x /\ x < 8 * i + 8 THEN x - 8 * i \in byte ELSE x \in slice
<1>1. SliceLen \in Nat
  BY CopyAssumption
<1>2. \A x \in Int : x \in {8 * i + b : b \in 0 .. 7} <=> 8 * i <= x /\ x < 8 * i + 8
  <2> TAKE x \in Int
  <2>1. ASSUME 8 * i <= x, x < 8 * i + 8 PROVE x \in {8 * i + b : b \in 0 .. 7}
    <3>1. x - 8 * i \in 0 .. 7 /\ x = 8 * i + (x - 8 * i)
      BY <2>1
    <3> QED
      BY <3>1
  <2> QED
    BY <2>1
<1>3. \A x \in Int : x \in {8 * i + b : b \in byte} <=> x - 8 * i \in byte
  <2> TAKE x \in Int
  <2>1. byte \subseteq 0 .. 7
    BY DEF ONES, BITS
  <2>2. ASSUME x - 8 * i \in byte PROVE x \in {8 * i + b : b \in byte}
    <3>1. x = 8 * i + (x - 8 * i)
      OBVIOUS
    <3> QED
      BY <2>2, <3>1
  <2>3. ASSUME NEW b \in byte, x = 8 * i + b PROVE x - 8 * i \in byte
    <3>1. x - 8 * i = b
      BY <2>1, <2>3
    <3> QED
      BY <3>1
  <2> QED
    BY <2>2, <2>3
<1>4. WithByte(slice, i, byte) = (slice \ {8 * i + b : b \in 0 .. 7}) \cup {8 * i + b : b \in byte}
  BY DEF WithByte, ONES, BITS
<1>5. byte \subseteq 0 .. 7 /\ Positions = 0 .. 8 * SliceLen - 1
  BY DEF ONES, BITS, Positions
<1>6. {8 * i + b : b \in byte} \subseteq Positions
  BY <1>1, <1>5
<1>7. \A x \in Positions : x \in Int
  BY <1>5
<1>8. WithByte(slice, i, byte) \subseteq Positions
  BY <1>4, <1>6
<1>9. ASSUME NEW x \in Positions
      PROVE  x \in WithByte(slice, i, byte) <=>
                IF 8 * i <= x /\ x < 8 * i + 8 THEN x - 8 * i \in byte ELSE x \in slice
  <2>1. x \in WithByte(slice, i, byte) <=> (x \in slice /\ ~(8 * i <= x /\ x < 8 * i + 8)) \/ x - 8 * i \in byte
    BY <1>2, <1>3, <1>4, <1>7
  <2>2. x - 8 * i \in byte => 8 * i <= x /\ x < 8 * i + 8
    BY <1>5, <1>7
  <2> QED
    BY <2>1, <2>2
<1> QED
  BY <1>8, <1>9

\* The bits of a rotated byte of the source.
LEMMA RotatedByte ==
  ASSUME CopyType, NEW i \in Nat, NEW b \in ONES
  PROVE  /\ rol(i) \subseteq ONES /\ bit_align_offset \in 0 .. 7
         /\ b >= bit_align_offset => (b \in rol(i) <=> 8 * i + b - bit_align_offset \in copy.src)
         /\ b < bit_align_offset => (b \in rol(i) <=> 8 * i + b - bit_align_offset + 8 \in copy.src)
<1> DEFINE o == bit_align_offset
           byte == ByteAt(copy.src, i)
<1>1. o \in 0 .. 7 /\ b \in 0 .. 7
  <2>1. Align(copy.dst_bit_index) \in 0 .. 7 /\ Align(copy.src_bit_index) \in 0 .. 7
    BY ByteOfIndex DEF CopyType
  <2>2. \A m, n \in 0 .. 7 : (m - n) % 8 \in 0 .. 7
    OBVIOUS
  <2> QED
    BY <2>1, <2>2 DEF bit_align_offset, BITS, ONES
<1>2. byte \in SUBSET ONES /\ \A c \in 0 .. 7 : c \in byte <=> 8 * i + c \in copy.src
  BY DEF ByteAt, ONES, BITS
<1>3. rol(i) = rotate_left(byte, o)
  BY DEF rol
<1> HIDE DEF o, byte
<1>4. /\ b >= o => (b \in rol(i) <=> b - o \in byte)
      /\ b < o => (b \in rol(i) <=> b - o + 8 \in byte)
  BY <1>1, <1>2, <1>3, RotateBits
<1>5. rol(i) \subseteq ONES
  <2>1. \A c \in 0 .. 7 : (c + o) % 8 \in 0 .. 7
    BY <1>1
  <2> QED
    BY <1>2, <1>3, <2>1 DEF rotate_left, ONES, BITS
<1>6. b >= o => (b \in rol(i) <=> 8 * i + b - o \in copy.src)
  <2> SUFFICES ASSUME b >= o PROVE b \in rol(i) <=> 8 * i + b - o \in copy.src
    OBVIOUS
  <2>1. b - o \in 0 .. 7 /\ 8 * i + (b - o) = 8 * i + b - o
    BY <1>1
  <2> QED
    BY <1>2, <1>4, <2>1
<1>7. b < o => (b \in rol(i) <=> 8 * i + b - o + 8 \in copy.src)
  <2> SUFFICES ASSUME b < o PROVE b \in rol(i) <=> 8 * i + b - o + 8 \in copy.src
    OBVIOUS
  <2>1. b - o + 8 \in 0 .. 7 /\ 8 * i + (b - o + 8) = 8 * i + b - o + 8
    BY <1>1
  <2> QED
    BY <1>2, <1>4, <2>1
<1> QED
  BY <1>1, <1>5, <1>6, <1>7 DEF o

\* How the two slices lie to each other: the destination lies offset bits and
\* some bytes behind the source, one byte more when the difference wraps.
LEMMA Offsets ==
  ASSUME CopyType, NEW s, NEW d, NEW sb, NEW db, NEW sa, NEW da, NEW o, NEW w,
         s = copy.src_bit_index, d = copy.dst_bit_index, sb = src_index_base, db = dst_index_base,
         sa = Align(s), da = Align(d), o = bit_align_offset, w = IF diff_wraps THEN 1 ELSE 0
  PROVE  /\ s = 8 * sb + sa /\ d = 8 * db + da /\ sb \in Nat /\ db \in Nat /\ sa \in 0 .. 7 /\ da \in 0 .. 7
         /\ o \in 0 .. 7 /\ w \in 0 .. 1 /\ o = da - sa + 8 * w
         /\ w = 1 <=> da < sa
<1>1. s \in Nat /\ d \in Nat
  BY DEF CopyType
<1>2. /\ s = 8 * sb + sa /\ d = 8 * db + da /\ sb \in Nat /\ db \in Nat /\ sa \in 0 .. 7 /\ da \in 0 .. 7
  BY <1>1, ByteOfIndex DEF src_index_base, dst_index_base
<1>3. w \in 0 .. 1 /\ (w = 1 <=> da < sa)
  BY DEF diff_wraps
<1>4. o = (da - sa) % 8
  BY DEF bit_align_offset, BITS
<1>5. \A m, n \in 0 .. 7 : (m - n) % 8 = IF m < n THEN m - n + 8 ELSE m - n
  OBVIOUS
<1>6. o = da - sa + 8 * w /\ o \in 0 .. 7
  BY <1>2, <1>3, <1>4, <1>5
<1> QED
  BY <1>1, <1>2, <1>3, <1>6

\* The last bits of the slices, and of the places they are at.
LEMMA LastBits ==
  ASSUME CopyType, copy.bit_len > 0, NEW es, NEW ed, NEW sl, NEW dl, NEW de,
         es = copy.src_bit_index + copy.bit_len - 1, ed = copy.dst_bit_index + copy.bit_len - 1,
         sl = src_index_acme, dl = dst_index_acme, de = dst_end
  PROVE  /\ es \in Nat /\ ed \in Nat /\ sl \in Nat /\ dl \in Nat /\ de \in 0 .. 7
         /\ 8 * sl <= es /\ es < 8 * sl + 8 /\ 8 * dl <= ed /\ ed < 8 * dl + 8
         /\ ed = IF de = 0 THEN 8 * dl + 7 ELSE 8 * dl + de - 1
<1>1. es \in Nat /\ ed \in Nat /\ ed + 1 \in Nat /\ ed + 1 = copy.dst_bit_index + copy.bit_len
  BY DEF CopyType
<1>2. sl = es \div BITS /\ dl = ed \div BITS /\ de = Align(ed + 1)
  BY <1>1 DEF src_index_acme, dst_index_acme, dst_end
<1>3. /\ sl \in Nat /\ dl \in Nat /\ de \in 0 .. 7
      /\ 8 * sl <= es /\ es < 8 * sl + 8 /\ 8 * dl <= ed /\ ed < 8 * dl + 8
  <2>1. sl \in Nat /\ Align(es) \in 0 .. 7 /\ es = 8 * sl + Align(es)
    BY <1>1, <1>2, ByteOfIndex
  <2>2. dl \in Nat /\ Align(ed) \in 0 .. 7 /\ ed = 8 * dl + Align(ed)
    BY <1>1, <1>2, ByteOfIndex
  <2>3. de \in 0 .. 7
    BY <1>1, <1>2, ByteOfIndex
  <2> QED
    BY <2>1, <2>2, <2>3
<1>4. (ed + 1) \div BITS \in Nat /\ ed + 1 = 8 * ((ed + 1) \div BITS) + de
  BY <1>1, <1>2, ByteOfIndex
<1>5. ed = IF de = 0 THEN 8 * dl + 7 ELSE 8 * dl + de - 1
  BY <1>1, <1>3, <1>4
<1> QED
  BY <1>1, <1>3, <1>5

\* One turn of the loop: the byte that it writes and the carry that it leaves.
LEMMA LoopTurn ==
  ASSUME CopyType, InLoop, copy.src_index <= src_index_acme, NEW nd, NEW nc, NEW top,
         nd = WithByte(copy.dst, copy.dst_index, (rol(copy.src_index) \ bit_carry_mask) \cup copy.carry),
         nc = rol(copy.src_index) \cap bit_carry_mask, top = 8 * (copy.dst_index + 1)
  PROVE  /\ nd \subseteq Positions /\ nc \subseteq ONES /\ nc \subseteq 0 .. bit_align_offset - 1
         /\ Copied(nd, top)
         /\ \A b \in 0 .. bit_align_offset - 1 : top + b >= copy.dst_bit_index => (b \in nc <=> Asked(top + b))
<1> DEFINE s == copy.src_bit_index
           d == copy.dst_bit_index
           sb == src_index_base
           db == dst_index_base
           sa == Align(s)
           da == Align(d)
           o == bit_align_offset
           w == IF diff_wraps THEN 1 ELSE 0
           i == copy.src_index
           j == copy.dst_index
           es == s + copy.bit_len - 1
           ed == d + copy.bit_len - 1
           sl == src_index_acme
           dl == dst_index_acme
           fresh == (rol(i) \ bit_carry_mask) \cup copy.carry
<1>1. /\ s = 8 * sb + sa /\ d = 8 * db + da /\ sb \in Nat /\ db \in Nat /\ sa \in 0 .. 7 /\ da \in 0 .. 7
      /\ o \in 0 .. 7 /\ w \in 0 .. 1 /\ o = da - sa + 8 * w
  BY Offsets
<1>2. copy.bit_len > 0
  BY DEF InLoop
<1>3. /\ es \in Nat /\ ed \in Nat /\ sl \in Nat /\ dl \in Nat
      /\ 8 * sl <= es /\ es < 8 * sl + 8 /\ 8 * dl <= ed /\ ed < 8 * dl + 8
  BY <1>2, LastBits
<1>4. /\ i \in Nat /\ j \in Nat /\ copy.dst \in SUBSET Positions /\ copy.carry \in SUBSET ONES /\ s \in Nat /\ d \in Nat
      /\ copy.bit_len \in Nat
  BY DEF CopyType
<1>5. /\ j - i = db - sb - w /\ j >= db /\ i <= sl /\ dl < SliceLen /\ SliceLen \in Nat
      /\ copy.carry \subseteq 0 .. o - 1
  BY CopyAssumption DEF InLoop, InStep
<1>6. /\ Copied(copy.dst, 8 * j) /\ \A b \in 0 .. o - 1 : 8 * j + b >= d => (b \in copy.carry <=> Asked(8 * j + b))
  BY DEF InLoop, Carried, BITS
<1>7. ed = es + d - s
  BY <1>4
<1>8. bit_carry_mask = 0 .. o - 1
  BY DEF bit_carry_mask
<1>9. \A b \in 0 .. 7 : /\ rol(i) \subseteq ONES
                        /\ b >= o => (b \in rol(i) <=> 8 * i + b - o \in copy.src)
                        /\ b < o => (b \in rol(i) <=> 8 * i + b - o + 8 \in copy.src)
  BY <1>4, RotatedByte DEF ONES, BITS
<1>10. fresh \in SUBSET ONES /\ nc \subseteq ONES /\ nc \subseteq 0 .. o - 1
  <2>1. 0 \in 0 .. 7
    OBVIOUS
  <2>2. rol(i) \subseteq ONES
    BY <1>9, <2>1
  <2> QED
    BY <1>4, <1>8, <2>2
<1>11. \A b \in 0 .. 7 : b \in fresh <=> IF b >= o THEN b \in rol(i) ELSE b \in copy.carry
  BY <1>1, <1>5, <1>8
<1>12. nd = WithByte(copy.dst, j, fresh)
  OBVIOUS
<1>13. \A x \in Positions : x \in Int
  BY DEF Positions, BITS
<1>14. \A x \in Int : x - d + s = x - 8 * j + 8 * i - o
  BY <1>1, <1>4, <1>5
<1>15. \A x \in Int : Asked(x) <=> x - 8 * j + 8 * i - o \in copy.src
  BY <1>14 DEF Asked
<1> HIDE DEF s, d, sb, db, sa, da, o, w, i, j, es, ed, sl, dl, fresh
<1>16. j < SliceLen
  <2>1. d - s = 8 * (j - i) + o
    BY <1>1, <1>5
  <2>2. 8 * j <= ed
    BY <1>1, <1>3, <1>4, <1>5, <1>7, <2>1
  <2> QED
    BY <1>3, <1>4, <1>5, <2>2
<1>17. /\ nd \subseteq Positions
       /\ \A x \in Positions : x \in nd <=> IF 8 * j <= x /\ x < 8 * j + 8 THEN x - 8 * j \in fresh ELSE x \in copy.dst
  BY <1>4, <1>10, <1>12, <1>16, WriteByte
<1>18. Copied(nd, top)
  <2> SUFFICES ASSUME NEW x \in Positions
               PROVE  /\ x < 8 * db \/ x >= top => (x \in nd <=> x \in copy.old)
                      /\ d <= x /\ x < top => (x \in nd <=> Asked(x))
    BY DEF Copied, BITS, db, d
  <2>1. top = 8 * j + 8 /\ x \in Int
    BY <1>4, <1>13 DEF j
  <2>2. /\ x < 8 * db \/ x >= 8 * j => (x \in copy.dst <=> x \in copy.old)
        /\ d <= x /\ x < 8 * j => (x \in copy.dst <=> Asked(x))
    BY <1>6 DEF Copied, BITS, db, d
  <2>0. x \in nd <=> IF 8 * j <= x /\ x < 8 * j + 8 THEN x - 8 * j \in fresh ELSE x \in copy.dst
    BY <1>17, Zenon
  <2>3. x < 8 * db \/ x >= top => (x \in nd <=> x \in copy.old)
    <3>1. x < 8 * db \/ x >= top => ~(8 * j <= x /\ x < 8 * j + 8) /\ (x < 8 * db \/ x >= 8 * j)
      BY <1>1, <1>4, <1>5, <2>1
    <3> QED
      BY <2>0, <2>2, <3>1
  <2>4. ASSUME d <= x, x < 8 * j PROVE x \in nd <=> Asked(x)
    <3>1. ~(8 * j <= x)
      BY <1>4, <2>1, <2>4
    <3> QED
      BY <2>0, <2>2, <2>4, <3>1
  <2>5. ASSUME d <= x, 8 * j <= x, x < top PROVE x \in nd <=> Asked(x)
    <3> DEFINE b == x - 8 * j
    <3>1. b \in 0 .. 7 /\ x = 8 * j + b
      BY <1>4, <2>1, <2>5
    <3>2. x \in nd <=> b \in fresh
      BY <1>17, <2>1, <2>5, Zenon
    <3>3. Asked(x) <=> b + 8 * i - o \in copy.src
      BY <1>15, <2>1
    <3> HIDE DEF b
    <3>4. CASE b >= o
      <4>1. b + 8 * i - o = 8 * i + b - o
        BY <1>1, <1>4, <3>1
      <4> QED
        BY <1>9, <1>11, <3>1, <3>2, <3>3, <3>4, <4>1
    <3>5. CASE b < o
      <4>1. b \in 0 .. o - 1 /\ 8 * j + b >= d
        BY <1>1, <2>5, <3>1, <3>5
      <4>2. b \in copy.carry <=> Asked(8 * j + b)
        BY <1>6, <4>1
      <4>3. b \in fresh <=> b \in copy.carry
        BY <1>1, <1>11, <3>1, <3>5
      <4> QED
        BY <3>1, <3>2, <4>2, <4>3
    <3> QED
      BY <1>1, <3>1, <3>4, <3>5
  <2>6. x < 8 * j \/ 8 * j <= x
    BY ONLY <1>4, <2>1
  <2> QED
    BY <2>3, <2>4, <2>5, <2>6, Zenon
<1>19. \A b \in 0 .. o - 1 : b \in nc <=> Asked(top + b)
  <2> TAKE b \in 0 .. o - 1
  <2>0. top = 8 * j + 8
    BY <1>4 DEF j
  <2>1. b \in 0 .. 7 /\ b < o /\ top + b \in Int /\ top = 8 * j + 8
    BY ONLY b \in 0 .. o - 1, <1>1, <1>4, <2>0
  <2>2. (top + b) - 8 * j + 8 * i - o = 8 * i + b - o + 8
    BY <1>1, <1>4, <2>1
  <2>3. b \in nc <=> b \in rol(i)
    BY <1>8 DEF i
  <2> QED
    BY <1>9, <1>15, <2>1, <2>2, <2>3
<1> QED
  BY <1>10, <1>17, <1>18, <1>19, Zenon DEF o

\* Behind the loop: the last carry is written when the last byte is still to
\* come, and then all bits are in place but for those beside them.
LEMMA LoopOut ==
  ASSUME CopyType, InLoop, copy.src_index > src_index_acme, NEW nd, NEW ed,
         nd = IF appends THEN WithByte(copy.dst, copy.dst_index, copy.carry) ELSE copy.dst,
         ed = copy.dst_bit_index + copy.bit_len - 1
  PROVE  /\ nd \in SUBSET Positions
         /\ \A x \in Positions :
              /\ copy.dst_bit_index <= x /\ x <= ed => (x \in nd <=> Asked(x))
              /\ x < 8 * dst_index_base \/ x >= 8 * dst_index_acme + 8 => (x \in nd <=> x \in copy.old)
<1> DEFINE s == copy.src_bit_index
           d == copy.dst_bit_index
           sb == src_index_base
           db == dst_index_base
           sa == Align(s)
           da == Align(d)
           o == bit_align_offset
           w == IF diff_wraps THEN 1 ELSE 0
           i == copy.src_index
           j == copy.dst_index
           es == s + copy.bit_len - 1
           sl == src_index_acme
           dl == dst_index_acme
<1>1. /\ s = 8 * sb + sa /\ d = 8 * db + da /\ sb \in Nat /\ db \in Nat /\ sa \in 0 .. 7 /\ da \in 0 .. 7
      /\ o \in 0 .. 7 /\ w \in 0 .. 1 /\ o = da - sa + 8 * w
  BY Offsets
<1>2. copy.bit_len > 0
  BY DEF InLoop
<1>3. /\ es \in Nat /\ ed \in Nat /\ sl \in Nat /\ dl \in Nat
      /\ 8 * sl <= es /\ es < 8 * sl + 8 /\ 8 * dl <= ed /\ ed < 8 * dl + 8
  BY <1>2, LastBits
<1>4. /\ i \in Nat /\ j \in Nat /\ copy.dst \in SUBSET Positions /\ copy.carry \in SUBSET ONES /\ s \in Nat /\ d \in Nat
      /\ copy.bit_len \in Nat
  BY DEF CopyType
<1>5. /\ j - i = db - sb - w /\ j >= db /\ i <= sl + 1 /\ i > sl /\ dl < SliceLen /\ SliceLen \in Nat
      /\ copy.carry \subseteq 0 .. o - 1
  BY CopyAssumption DEF InLoop, InStep
<1>6. /\ Copied(copy.dst, 8 * j) /\ \A b \in 0 .. o - 1 : 8 * j + b >= d => (b \in copy.carry <=> Asked(8 * j + b))
  BY DEF InLoop, Carried, BITS
<1>7. ed = es + d - s
  BY <1>4
<1>8. appends <=> (w = 1 <=> dl - db = sl - sb)
  <2> DEFINE same == dl - db = sl - sb
  <2>1. w = 1 <=> diff_wraps
    OBVIOUS
  <2>2. diff_wraps \in BOOLEAN /\ same \in BOOLEAN
    BY DEF diff_wraps
  <2>3. appends <=> diff_wraps = same
    BY DEF appends
  <2> HIDE DEF same, w
  <2>4. appends <=> (w = 1 <=> same)
    BY Zenon, <2>1, <2>2, <2>3
  <2> QED
    BY <2>4 DEF same
<1>9. \A x \in Positions : x \in Int
  BY DEF Positions, BITS
<1> HIDE DEF s, d, sb, db, sa, da, o, w, i, j, es, sl, dl
<1>10. i = sl + 1 /\ d - s = 8 * (j - i) + o
  BY <1>1, <1>3, <1>4, <1>5
<1>11. ed < 8 * j + o /\ 8 * j + o <= ed + 8
  BY <1>1, <1>3, <1>4, <1>7, <1>10
<1>12. dl = j \/ dl = j - 1
  BY <1>1, <1>3, <1>4, <1>11
<1>13. appends <=> dl = j
  BY <1>1, <1>3, <1>4, <1>5, <1>8, <1>10, <1>12
<1>14. \A x \in Positions : /\ x < 8 * db \/ x >= 8 * j => (x \in copy.dst <=> x \in copy.old)
                            /\ d <= x /\ x < 8 * j => (x \in copy.dst <=> Asked(x))
  BY <1>6 DEF Copied, BITS, db, d
<1>15. CASE dl = j
  <2>1. nd = WithByte(copy.dst, j, copy.carry) /\ j < SliceLen
    BY <1>5, <1>13, <1>15 DEF j
  <2>2. /\ nd \subseteq Positions
        /\ \A x \in Positions : x \in nd <=> IF 8 * j <= x /\ x < 8 * j + 8 THEN x - 8 * j \in copy.carry ELSE x \in copy.dst
    BY <1>4, <2>1, WriteByte
  <2> SUFFICES ASSUME NEW x \in Positions
               PROVE  /\ d <= x /\ x <= ed => (x \in nd <=> Asked(x))
                      /\ x < 8 * db \/ x >= 8 * dl + 8 => (x \in nd <=> x \in copy.old)
    BY <2>2 DEF d, db, dl
  <2>3. x \in nd <=> IF 8 * j <= x /\ x < 8 * j + 8 THEN x - 8 * j \in copy.carry ELSE x \in copy.dst
    BY <2>2
  <2>4. x \in Int
    BY <1>9
  <2>5. ASSUME d <= x, x <= ed PROVE x \in nd <=> Asked(x)
    <3>1. CASE x < 8 * j
      <4>1. ~(8 * j <= x)
        BY <1>4, <2>4, <3>1
      <4> QED
        BY <1>14, <2>3, <2>5, <3>1, <4>1
    <3>2. CASE 8 * j <= x
      <4> DEFINE b == x - 8 * j
      <4>1. b \in 0 .. o - 1 /\ 8 * j + b = x /\ x < 8 * j + 8
        BY <1>1, <1>3, <1>4, <1>11, <2>4, <2>5, <3>2
      <4>2. 8 * j + b >= d
        BY <1>4, <2>4, <2>5, <4>1
      <4> HIDE DEF b
      <4>3. b \in copy.carry <=> Asked(8 * j + b)
        BY <1>6, <4>1, <4>2
      <4> QED
        BY <2>3, <3>2, <4>1, <4>3 DEF b
    <3> QED
      BY <1>4, <2>4, <3>1, <3>2
  <2>6. ASSUME x < 8 * db \/ x >= 8 * dl + 8 PROVE x \in nd <=> x \in copy.old
    <3>1. ~(8 * j <= x /\ x < 8 * j + 8) /\ (x < 8 * db \/ x >= 8 * j)
      BY <1>1, <1>4, <1>5, <1>15, <2>4, <2>6
    <3> QED
      BY <1>14, <2>3, <3>1
  <2> QED
    BY <2>5, <2>6
<1>16. CASE dl = j - 1
  <2>1. nd = copy.dst
    BY <1>4, <1>13, <1>16
  <2> SUFFICES ASSUME NEW x \in Positions
               PROVE  /\ d <= x /\ x <= ed => (x \in nd <=> Asked(x))
                      /\ x < 8 * db \/ x >= 8 * dl + 8 => (x \in nd <=> x \in copy.old)
    BY <1>4, <2>1 DEF d, db, dl
  <2>2. x \in Int
    BY <1>9
  <2>3. x <= ed => x < 8 * j
    BY <1>3, <1>4, <1>16, <2>2
  <2>4. x >= 8 * dl + 8 => x >= 8 * j
    BY <1>4, <1>16, <2>2
  <2> QED
    BY <1>14, <2>1, <2>3, <2>4
<1> QED
  BY <1>12, <1>15, <1>16

\* The locals of copy_end.
AtEnd(nd, first, last, res) ==
  /\ nd = IF appends THEN WithByte(copy.dst, copy.dst_index, copy.carry) ELSE copy.dst
  /\ first = (ByteAt(nd, dst_index_base) \ (0 .. Align(copy.dst_bit_index) - 1)) \cup copy.first_ext
  /\ last = (first \cap Lowest(dst_end)) \cup copy.last_ext
  /\ res = WithByte(nd, dst_index_base, last)

\* copy_end puts back what is beside the bits in the first byte.
LEMMA EndExact ==
  ASSUME CopyType, InLoop, copy.src_index > src_index_acme,
         dst_end = 0 \/ dst_index_base = dst_index_acme, NEW nd, NEW first, NEW last, NEW res,
         AtEnd(nd, first, last, res), NEW ed, ed = copy.dst_bit_index + copy.bit_len - 1
  PROVE  \A x \in Positions : x \in res <=> IF copy.dst_bit_index <= x /\ x <= ed THEN Asked(x) ELSE x \in copy.old
<1> DEFINE d == copy.dst_bit_index
           db == dst_index_base
           da == Align(d)
           dl == dst_index_acme
           de == dst_end
<1>1. d = 8 * db + da /\ db \in Nat /\ da \in 0 .. 7 /\ d \in Nat
  BY ByteOfIndex DEF CopyType, dst_index_base
<1>2. copy.bit_len > 0 /\ copy.bit_len \in Nat /\ dl < SliceLen /\ SliceLen \in Nat
  BY CopyAssumption DEF InLoop, CopyType
<1>3. /\ ed \in Nat /\ dl \in Nat /\ de \in 0 .. 7 /\ 8 * dl <= ed /\ ed < 8 * dl + 8
      /\ ed = IF de = 0 THEN 8 * dl + 7 ELSE 8 * dl + de - 1
  BY <1>2, LastBits
<1>4. d <= ed
  BY <1>1, <1>2
<1>5. /\ nd \in SUBSET Positions
      /\ \A x \in Positions : /\ d <= x /\ x <= ed => (x \in nd <=> Asked(x))
                              /\ x < 8 * db \/ x >= 8 * dl + 8 => (x \in nd <=> x \in copy.old)
  BY LoopOut DEF AtEnd
<1>6. /\ copy.first_ext = {b \in ONES : 8 * db + b \in copy.old /\ b < da}
      /\ copy.last_ext = {b \in ONES : 8 * db + b \in copy.old /\ b \notin Lowest(de)}
      /\ copy.old \subseteq Positions
  BY DEF InLoop, Kept, BITS, CopyType
<1>7. \A b \in 0 .. 7 : b \in Lowest(de) <=> de = 0 \/ b < de
  BY <1>3 DEF Lowest, ONES, BITS
<1>8. \A b \in 0 .. 7 : b \in ByteAt(nd, db) <=> 8 * db + b \in nd
  BY DEF ByteAt, ONES, BITS
<1>9. \A b \in 0 .. 7 : b \in last <=> \/ /\ de = 0 \/ b < de
                                          /\ \/ 8 * db + b \in nd /\ b >= da
                                             \/ 8 * db + b \in copy.old /\ b < da
                                       \/ 8 * db + b \in copy.old /\ ~(de = 0 \/ b < de)
  <2> TAKE b \in 0 .. 7
  <2>1. b \in first <=> (8 * db + b \in nd /\ b >= da) \/ (8 * db + b \in copy.old /\ b < da)
    BY <1>1, <1>6, <1>8 DEF AtEnd, ONES, BITS
  <2>2. b \in last <=> (b \in first /\ b \in Lowest(de)) \/ (8 * db + b \in copy.old /\ b \notin Lowest(de))
    BY <1>6 DEF AtEnd, ONES, BITS
  <2> QED
    BY <1>7, <2>1, <2>2
<1>10. last \in SUBSET ONES
  BY <1>6 DEF AtEnd, ByteAt
<1> HIDE DEF d, db, da, dl, de
<1>11. db <= dl /\ db < SliceLen
  BY <1>1, <1>2, <1>3, <1>4
<1>12. res = WithByte(nd, db, last)
  BY DEF AtEnd, db
<1>13. \A x \in Positions : x \in res <=> IF 8 * db <= x /\ x < 8 * db + 8 THEN x - 8 * db \in last ELSE x \in nd
  BY <1>1, <1>5, <1>10, <1>11, <1>12, WriteByte
<1>14. de = 0 \/ db = dl
  BY DEF de, db, dl
<1> SUFFICES ASSUME NEW x \in Positions
             PROVE  x \in res <=> IF d <= x /\ x <= ed THEN Asked(x) ELSE x \in copy.old
  BY DEF d
<1>15. x \in Int
  BY DEF Positions, BITS
<1>16. /\ d <= x /\ x <= ed => (x \in nd <=> Asked(x))
       /\ x < 8 * db \/ x >= 8 * dl + 8 => (x \in nd <=> x \in copy.old)
  BY <1>5
<1>17. CASE 8 * db <= x /\ x < 8 * db + 8
  <2> DEFINE b == x - 8 * db
  <2>1. b \in 0 .. 7 /\ 8 * db + b = x
    BY <1>1, <1>15, <1>17
  <2>2. x \in res <=> b \in last
    BY <1>13, <1>17
  <2> HIDE DEF b
  <2>3. x \in res <=> \/ /\ de = 0 \/ b < de
                         /\ (x \in nd /\ b >= da) \/ (x \in copy.old /\ b < da)
                      \/ x \in copy.old /\ ~(de = 0 \/ b < de)
    BY <1>9, <2>1, <2>2
  <2>4. b < da <=> x < d
    BY <1>1, <2>1
  <2>5. b >= da <=> d <= x
    BY <1>1, <2>1
  <2>6. (de = 0 \/ b < de) <=> x <= ed
    BY <1>1, <1>3, <1>11, <1>14, <2>1
  <2>7. x < d <=> ~(d <= x)
    BY <1>1, <1>15
  <2> QED
    BY <1>16, <2>3, <2>4, <2>5, <2>6, <2>7
<1>18. CASE ~(8 * db <= x /\ x < 8 * db + 8)
  <2>1. x \in res <=> x \in nd
    BY <1>13, <1>18
  <2>2. ~(d <= x /\ x <= ed) => x < 8 * db \/ x >= 8 * dl + 8
    BY <1>1, <1>3, <1>14, <1>15, <1>18
  <2> QED
    BY <1>16, <2>1, <2>2
<1> QED
  BY <1>17, <1>18

LEMMA CopyStarts == CopyInit => CopyInv
<1> SUFFICES ASSUME CopyInit PROVE CopyInv
  OBVIOUS
<1>1. PICK c \in Contents, s \in BitIndices, d \in BitIndices, len \in BitLens, checks \in OverflowChecks :
        copy = [at |-> "start", src |-> c[1], dst |-> c[2], old |-> c[2],
                src_bit_index |-> s, dst_bit_index |-> d, bit_len |-> len, checks |-> checks,
                src_index |-> 0, dst_index |-> 0, carry |-> {}, first_ext |-> {}, last_ext |-> {}]
  BY Zenon DEF CopyInit
<1>2. c[1] \in SUBSET Positions /\ c[2] \in SUBSET Positions
  BY CopyAssumption
<1>3. s \in Nat /\ d \in Nat /\ len \in Nat /\ checks \in BOOLEAN
  BY CopyAssumption
<1>4. CopyType
  BY <1>1, <1>2, <1>3 DEF CopyType
<1>5. copy.at = "start" /\ copy.dst = copy.old
  BY <1>1
<1> QED
  BY <1>4, <1>5 DEF CopyInv, CopyExact

\* The indices depend on the arguments, which stay.
Arguments(c) == <<c.src, c.old, c.src_bit_index, c.dst_bit_index, c.bit_len, c.checks>>

LEMMA SameIndices ==
  ASSUME Arguments(copy)' = Arguments(copy)
  PROVE  /\ copy'.src = copy.src /\ copy'.old = copy.old /\ copy'.src_bit_index = copy.src_bit_index
         /\ copy'.dst_bit_index = copy.dst_bit_index /\ copy'.bit_len = copy.bit_len
         /\ src_index_base' = src_index_base /\ src_index_acme' = src_index_acme
         /\ dst_index_base' = dst_index_base /\ dst_index_acme' = dst_index_acme
         /\ dst_end' = dst_end /\ bit_align_offset' = bit_align_offset /\ (diff_wraps' <=> diff_wraps)
<1>1. /\ copy'.src = copy.src /\ copy'.old = copy.old /\ copy'.src_bit_index = copy.src_bit_index
      /\ copy'.dst_bit_index = copy.dst_bit_index /\ copy'.bit_len = copy.bit_len
  BY DEF Arguments
<1> QED
  BY <1>1 DEF src_index_base, src_index_acme, dst_index_base, dst_index_acme, dst_end, bit_align_offset, diff_wraps

\* What CopyExact says when the copy is done, bit by bit.
CopyOf(old, src, s, d, n) == {x \in Positions : IF x \in d .. d + n - 1 THEN x - d + s \in src ELSE x \in old}

LEMMA ExactMeans ==
  ASSUME NEW dst \in SUBSET Positions, NEW old, NEW src, NEW s \in Nat, NEW d \in Nat, NEW n \in Nat,
         \A x \in Positions : x \in dst <=> IF d <= x /\ x <= d + n - 1 THEN x - d + s \in src ELSE x \in old
  PROVE  dst = CopyOf(old, src, s, d, n)
<1>1. \A x \in Positions : x \in Int
  BY DEF Positions, BITS
<1>2. \A x \in Positions : x \in d .. d + n - 1 <=> d <= x /\ x <= d + n - 1
  BY <1>1
<1> QED
  BY <1>2 DEF CopyOf

LEMMA CopyStartKeeps ==
  ASSUME CopyInv, copy_start
  PROVE  CopyInv'
<1> DEFINE fe == ByteAt(copy.dst, dst_index_base) \cap (0 .. Align(copy.dst_bit_index) - 1)
           le == ByteAt(copy.dst, dst_index_base) \ Lowest(dst_end)
           ca == IF diff_wraps THEN rol(src_index_base) \cap bit_carry_mask ELSE {}
           si == IF diff_wraps THEN src_index_base + 1 ELSE src_index_base
           di == dst_index_base
           t == [copy EXCEPT !.at = "loop", !.first_ext = fe, !.last_ext = le, !.carry = ca, !.src_index = si,
                             !.dst_index = di]
<1>1. CopyType /\ copy.at = "start" /\ copy.dst = copy.old
  BY DEF CopyInv, copy_start
<1>2. CASE copy.bit_len = 0 /\ copy' = [copy EXCEPT !.at = "done"]
  <2>1. CopyType' /\ copy'.at = "done"
    BY <1>1, <1>2 DEF CopyType
  <2>2. /\ copy'.dst = copy'.old /\ copy'.bit_len = 0 /\ copy'.dst_bit_index \in Nat
    BY <1>1, <1>2 DEF CopyType
  <2>3. \A x \in Positions : x \in Int
    BY DEF Positions, BITS
  <2>4. \A x \in Positions : x \in copy'.dst <=>
            IF x \in copy'.dst_bit_index .. copy'.dst_bit_index + copy'.bit_len - 1
            THEN x - copy'.dst_bit_index + copy'.src_bit_index \in copy'.src ELSE x \in copy'.old
    BY <2>2, <2>3
  <2>5. CopyExact'
    BY <2>1, <2>4 DEF CopyExact, CopyType
  <2> QED
    BY <2>1, <2>5 DEF CopyInv
<1>3. CASE copy' = [copy EXCEPT !.at = "panic"]
  <2>1. CopyType' /\ copy'.at = "panic"
    BY <1>1, <1>3 DEF CopyType
  <2> QED
    BY <2>1 DEF CopyInv, CopyExact
<1>4. CASE copy' = t /\ copy.bit_len # 0 /\ src_index_acme < SliceLen /\ dst_index_acme < SliceLen
  <2> DEFINE s == copy.src_bit_index
             d == copy.dst_bit_index
             sb == src_index_base
             db == dst_index_base
             sa == Align(s)
             da == Align(d)
             o == bit_align_offset
             w == IF diff_wraps THEN 1 ELSE 0
             es == s + copy.bit_len - 1
             ed == d + copy.bit_len - 1
             sl == src_index_acme
             dl == dst_index_acme
  <2>1. /\ s = 8 * sb + sa /\ d = 8 * db + da /\ sb \in Nat /\ db \in Nat /\ sa \in 0 .. 7 /\ da \in 0 .. 7
        /\ o \in 0 .. 7 /\ w \in 0 .. 1 /\ o = da - sa + 8 * w
    BY <1>1, Offsets
  <2>2. copy.bit_len > 0 /\ copy.bit_len \in Nat /\ s \in Nat /\ d \in Nat
    BY <1>1, <1>4 DEF CopyType
  <2>3. sl \in Nat /\ es < 8 * sl + 8 /\ es \in Nat
    BY <1>1, <2>2, LastBits
  <2>4. si = sb + w /\ si \in Nat /\ di = db
    BY <2>1
  <2>5. fe \subseteq ONES /\ le \subseteq ONES
    BY DEF ByteAt
  <2>6. ca \subseteq ONES /\ ca \subseteq 0 .. o - 1
    <3>1. bit_carry_mask = 0 .. o - 1
      BY DEF bit_carry_mask
    <3>2. 0 .. o - 1 \subseteq ONES
      BY <2>1 DEF ONES, BITS
    <3>3. ca \subseteq 0 .. o - 1
      BY <3>1
    <3> QED
      BY <3>2, <3>3
  <2>7. \A b \in 0 .. o - 1 : 8 * db + b >= d => (b \in ca <=> Asked(8 * db + b))
    <3> TAKE b \in 0 .. o - 1
    <3>1. CASE w = 0
      <4>1. ~(8 * db + b >= d)
        BY <2>1, <3>1
      <4> QED
        BY <4>1
    <3>2. CASE w = 1
      <4>1. b \in 0 .. 7 /\ b < o /\ bit_carry_mask = 0 .. o - 1
        BY <2>1 DEF bit_carry_mask
      <4>2. b \in rol(sb) <=> 8 * sb + b - o + 8 \in copy.src
        <5>1. b \in ONES /\ sb \in Nat
          BY <2>1, <4>1 DEF ONES, BITS
        <5>2. b < o => (b \in rol(sb) <=> 8 * sb + b - o + 8 \in copy.src)
          BY <1>1, <5>1, RotatedByte
        <5> QED
          BY <4>1, <5>2
      <4>3. ca = rol(sb) \cap bit_carry_mask
        BY <3>2
      <4>4. (8 * db + b) - d + s = 8 * sb + b - o + 8
        <5> HIDE DEF s, d, sb, db, sa, da, o, w
        <5> QED
          BY <2>1, <3>2, <4>1
      <4> QED
        BY <4>1, <4>2, <4>3, <4>4 DEF Asked
    <3> QED
      BY <2>1, <3>1, <3>2
  <2>8. /\ fe = {b \in ONES : 8 * db + b \in copy.old /\ b < da}
        /\ le = {b \in ONES : 8 * db + b \in copy.old /\ b \notin Lowest(dst_end)}
    <3>1. \A b \in ONES : b \in 0 .. da - 1 <=> b < da
      BY <2>1 DEF ONES, BITS
    <3>2. ByteAt(copy.dst, db) = {b \in ONES : 8 * db + b \in copy.old}
      BY <1>1 DEF ByteAt, BITS
    <3> QED
      BY <3>1, <3>2
  <2>9. si <= sl + 1
    <3> HIDE DEF s, d, sb, db, sa, da, o, w, sl, es
    <3>1. es >= s
      BY <2>2 DEF es
    <3> QED
      BY <2>1, <2>3, <2>4, <3>1
  <2> HIDE DEF fe, le, ca, si, di
  <2>10. /\ copy'.at = "loop" /\ copy'.first_ext = fe /\ copy'.last_ext = le /\ copy'.carry = ca
         /\ copy'.src_index = si /\ copy'.dst_index = di /\ copy'.dst = copy.dst /\ Arguments(copy)' = Arguments(copy)
    BY <1>1, <1>4 DEF CopyType, Arguments
  <2>11. CopyType'
    BY <1>1, <1>4, <2>1, <2>4, <2>5, <2>6, Zenon DEF CopyType
  <2>12. /\ copy'.src = copy.src /\ copy'.old = copy.old /\ copy'.src_bit_index = copy.src_bit_index
         /\ copy'.dst_bit_index = copy.dst_bit_index /\ copy'.bit_len = copy.bit_len
         /\ src_index_base' = src_index_base /\ src_index_acme' = src_index_acme
         /\ dst_index_base' = dst_index_base /\ dst_index_acme' = dst_index_acme
         /\ dst_end' = dst_end /\ bit_align_offset' = bit_align_offset /\ (diff_wraps' <=> diff_wraps)
    BY <2>10, SameIndices
  <2>13. InStep'
    <3>1. di - si = db - sb - w /\ di >= db
      BY <2>1, <2>4
    <3> QED
      BY <2>9, <2>10, <2>12, <3>1 DEF InStep
  <2>14. Kept'
    BY <2>8, <2>10, <2>12, Zenon DEF Kept, BITS
  <2>15. Carried'
    BY <2>4, <2>7, <2>10, <2>12 DEF Carried, Asked, BITS
  <2>16. Copied(copy.dst, 8 * copy.dst_index)'
    <3>1. \A x \in Positions : ~(d <= x /\ x < 8 * db)
      <4>1. \A x \in Positions : x \in Int
        BY DEF Positions, BITS
      <4> QED
        BY <2>1, <4>1
    <3> QED
      BY <1>1, <2>4, <2>10, <2>12, <3>1 DEF Copied, BITS
  <2>17. InLoop'
    BY <1>4, <2>2, <2>6, <2>10, <2>12, <2>13, <2>14, <2>15, <2>16 DEF InLoop, BITS
  <2> QED
    BY <2>10, <2>11, <2>17 DEF CopyInv, CopyExact
<1> QED
  BY <1>2, <1>3, <1>4 DEF copy_start

LEMMA CopyLoopKeeps ==
  ASSUME CopyInv, copy_loop
  PROVE  CopyInv'
<1> DEFINE nd == WithByte(copy.dst, copy.dst_index, (rol(copy.src_index) \ bit_carry_mask) \cup copy.carry)
           nc == rol(copy.src_index) \cap bit_carry_mask
           top == 8 * (copy.dst_index + 1)
           si == copy.src_index + 1
           di == copy.dst_index + 1
<1>1. CopyType /\ InLoop /\ copy.at = "loop" /\ copy.src_index <= src_index_acme
  BY DEF CopyInv, copy_loop
<1>2. /\ nd \subseteq Positions /\ nc \subseteq ONES /\ nc \subseteq 0 .. bit_align_offset - 1
      /\ Copied(nd, top)
      /\ \A b \in 0 .. bit_align_offset - 1 : top + b >= copy.dst_bit_index => (b \in nc <=> Asked(top + b))
  BY <1>1, LoopTurn, Zenon
<1>3. copy' = [copy EXCEPT !.dst = nd, !.carry = nc, !.src_index = si, !.dst_index = di]
  BY DEF copy_loop
<1>4. si \in Nat /\ di \in Nat /\ top = 8 * di /\ copy.src_index \in Nat /\ copy.dst_index \in Nat
  BY <1>1 DEF CopyType
<1>5. /\ src_index_acme \in Nat /\ src_index_base \in Nat /\ dst_index_base \in Nat
  <2>1. copy.bit_len > 0
    BY <1>1 DEF InLoop
  <2> QED
    BY <1>1, <2>1, LastBits, Offsets
<1>6. InStep
  BY <1>1 DEF InLoop
<1> HIDE DEF nd, nc, si, di, top
<1>7. /\ copy'.at = "loop" /\ copy'.first_ext = copy.first_ext /\ copy'.last_ext = copy.last_ext /\ copy'.carry = nc
      /\ copy'.src_index = si /\ copy'.dst_index = di /\ copy'.dst = nd /\ Arguments(copy)' = Arguments(copy)
  BY <1>1, <1>3 DEF CopyType, Arguments
<1>8. CopyType'
  BY <1>1, <1>2, <1>3, <1>4, Zenon DEF CopyType
<1>9. /\ copy'.src = copy.src /\ copy'.old = copy.old /\ copy'.src_bit_index = copy.src_bit_index
      /\ copy'.dst_bit_index = copy.dst_bit_index /\ copy'.bit_len = copy.bit_len
      /\ src_index_base' = src_index_base /\ src_index_acme' = src_index_acme
      /\ dst_index_base' = dst_index_base /\ dst_index_acme' = dst_index_acme
      /\ dst_end' = dst_end /\ bit_align_offset' = bit_align_offset /\ (diff_wraps' <=> diff_wraps)
  BY <1>7, SameIndices
<1>10. InStep'
  <2>1. di - si = copy.dst_index - copy.src_index /\ di >= dst_index_base /\ si <= src_index_acme + 1
    BY <1>1, <1>4, <1>5, <1>6 DEF InStep, di, si
  <2> QED
    BY <1>6, <1>7, <1>9, <2>1 DEF InStep
<1>11. Kept'
  BY <1>1, <1>7, <1>9, Zenon DEF InLoop, Kept
<1>12. Carried'
  BY <1>2, <1>4, <1>7, <1>9 DEF Carried, Asked, BITS
<1>13. Copied(copy.dst, BITS * copy.dst_index)'
  BY <1>2, <1>4, <1>7, <1>9 DEF Copied, Asked, BITS
<1>14. InLoop'
  BY <1>1, <1>2, <1>7, <1>9, <1>10, <1>11, <1>12, <1>13, Zenon DEF InLoop
<1> QED
  BY <1>7, <1>8, <1>14 DEF CopyInv, CopyExact

LEMMA CopyEndKeeps ==
  ASSUME CopyInv, copy_end
  PROVE  CopyInv'
<1> DEFINE nd == IF appends THEN WithByte(copy.dst, copy.dst_index, copy.carry) ELSE copy.dst
           first == (ByteAt(nd, dst_index_base) \ (0 .. Align(copy.dst_bit_index) - 1)) \cup copy.first_ext
           last == (first \cap Lowest(dst_end)) \cup copy.last_ext
           res == WithByte(nd, dst_index_base, last)
           ed == copy.dst_bit_index + copy.bit_len - 1
<1>1. CopyType /\ InLoop /\ copy.at = "loop" /\ copy.src_index > src_index_acme
  BY DEF CopyInv, copy_end
<1>2. copy' = [copy EXCEPT !.dst = res, !.at = "done"]
  BY DEF copy_end
<1>3. nd \in SUBSET Positions
  BY <1>1, LoopOut
<1>4. res \in SUBSET Positions
  <2>1. copy.bit_len > 0 /\ dst_index_acme < SliceLen /\ SliceLen \in Nat /\ copy.bit_len \in Nat
    BY <1>1, CopyAssumption DEF InLoop, CopyType
  <2>2. /\ dst_index_base \in Nat /\ copy.dst_bit_index \in Nat /\ Align(copy.dst_bit_index) \in 0 .. 7
        /\ copy.dst_bit_index = 8 * dst_index_base + Align(copy.dst_bit_index)
    BY <1>1, ByteOfIndex DEF CopyType, dst_index_base
  <2>3. ed \in Nat /\ dst_index_acme \in Nat /\ ed < 8 * dst_index_acme + 8
    BY <1>1, <2>1, LastBits
  <2>4. dst_index_base < SliceLen
    BY <2>1, <2>2, <2>3
  <2>5. last \in SUBSET ONES
    BY <1>1 DEF CopyType, ByteAt
  <2> HIDE DEF nd, last
  <2> QED
    BY <1>3, <2>2, <2>4, <2>5, WriteByte
<1>5. ASSUME dst_end = 0 \/ dst_index_base = dst_index_acme
      PROVE  \A x \in Positions : x \in res <=> IF copy.dst_bit_index <= x /\ x <= ed THEN Asked(x) ELSE x \in copy.old
  <2>1. AtEnd(nd, first, last, res) /\ ed = copy.dst_bit_index + copy.bit_len - 1
    BY Zenon DEF AtEnd
  <2> HIDE DEF nd, first, last, res, ed
  <2> QED
    BY <1>1, <1>5, <2>1, EndExact
<1>6. copy.bit_len # 0
  BY <1>1 DEF InLoop, CopyType
<1> HIDE DEF nd, first, last, res
<1>7. copy'.at = "done" /\ copy'.dst = res /\ Arguments(copy)' = Arguments(copy)
  BY <1>1, <1>2 DEF CopyType, Arguments
<1>8. CopyType'
  BY <1>1, <1>2, <1>4, Zenon DEF CopyType
<1>9. /\ copy'.src = copy.src /\ copy'.old = copy.old /\ copy'.src_bit_index = copy.src_bit_index
      /\ copy'.dst_bit_index = copy.dst_bit_index /\ copy'.bit_len = copy.bit_len
      /\ dst_index_base' = dst_index_base /\ dst_index_acme' = dst_index_acme /\ dst_end' = dst_end
  BY <1>7, SameIndices
<1>10. CopyExact'
  <2>1. CASE dst_end = 0 \/ dst_index_base = dst_index_acme
    <3>1. /\ copy.src_bit_index \in Nat /\ copy.dst_bit_index \in Nat /\ copy.bit_len \in Nat
      BY <1>1 DEF CopyType
    <3>2. \A x \in Positions : x \in res <=>
            IF copy.dst_bit_index <= x /\ x <= copy.dst_bit_index + copy.bit_len - 1
            THEN x - copy.dst_bit_index + copy.src_bit_index \in copy.src ELSE x \in copy.old
      BY <1>5, <2>1 DEF Asked
    <3>3. res = CopyOf(copy.old, copy.src, copy.src_bit_index, copy.dst_bit_index, copy.bit_len)
      BY <1>4, <3>1, <3>2, ExactMeans
    <3> QED
      BY <1>7, <1>9, <3>3 DEF CopyExact, CopyOf
  <2>2. CASE ~(dst_end = 0 \/ dst_index_base = dst_index_acme)
    BY <1>6, <1>9, <2>2 DEF CopyExact
  <2> QED
    BY <2>1, <2>2
<1> QED
  BY <1>7, <1>8, <1>10 DEF CopyInv

LEMMA CopyStep == CopyInv /\ [CopyNext]_copy => CopyInv'
<1> SUFFICES ASSUME CopyInv, [CopyNext]_copy PROVE CopyInv'
  OBVIOUS
<1>1. CASE UNCHANGED copy
  BY <1>1, Zenon DEF CopyInv, CopyType, InLoop, InStep, Kept, Carried, Copied, Asked, CopyExact, src_index_base,
              src_index_acme, dst_index_base, dst_index_acme, dst_end, bit_align_offset, diff_wraps
<1>2. CASE copy_returned
  BY <1>1, <1>2 DEF copy_returned
<1> QED
  BY <1>1, <1>2, CopyStartKeeps, CopyLoopKeeps, CopyEndKeeps DEF CopyNext

\* copy_slice_bits, for slices of any length and contents, at any indices and
\* for any number of bits: when it returns, the bits asked for are copied and
\* those beside them are as they were, if the destination lies within a byte or
\* ends with one.
THEOREM BitsCopiedExactly == CopySpec => []CopyExact
<1>1. CopyInv => CopyExact
  BY DEF CopyInv
<1> QED
  BY <1>1, CopyStarts, CopyStep, PTL DEF CopySpec

=============================================================================
