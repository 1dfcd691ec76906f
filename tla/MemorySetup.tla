---------------------------- MODULE MemorySetup ----------------------------
(***************************************************************************)
(* How the bootstrap processor takes over physical memory: the loader's    *)
(* memory map (mmap_available_iter of kernel/src/bootboot.rs) and          *)
(* Mapper::setup (kernel/src/memm/mod.rs), which builds the first page     *)
(* tables in the largest free block and gives the rest to the allocator.   *)
(* Only page tables are kept of what memory holds.                         *)
(***************************************************************************)
EXTENDS Integers, Sequences, Functions

CONSTANTS
    PTE_SIZE, PDPTE_SIZE,  \* bytes of the smallest and of a huge page
    TableLen,              \* entries of a table: 512
    OFFSET_IDX,            \* the entry of the root for all physical memory
    StatusBytes,           \* what the allocator takes for its lists and bitmap
    MemoryMaps,            \* sequences of [ptr, size, type, answers], by ascending ptr
    Loader,                \* [pml4, pdpt, pd]: where the loader's tables are
    Unchecked              \* of the builds: whether a subtraction may wrap around

LastIndex == TableLen - 1

\* The loader's map has its entries in order and apart from each other, and
\* calls no memory free that it has its tables in.
ASSUME MemoryAssumption ==
    /\ PTE_SIZE \in Nat \ {0} /\ PDPTE_SIZE \in Nat \ {0} /\ StatusBytes \in Nat
    /\ TableLen \in Nat /\ LastIndex \in Nat /\ OFFSET_IDX \in 0 .. LastIndex - 1
    /\ \A map \in MemoryMaps :
        /\ map \in Seq([ptr : Nat, size : Nat, type : 0 .. 3, answers : BOOLEAN])
        /\ \A i, j \in DOMAIN map : i < j => map[i].ptr + map[i].size <= map[j].ptr
        /\ \A i \in DOMAIN map, t \in {Loader.pml4, Loader.pdpt} :
                map[i].type % 2 = 1 => ~(map[i].ptr <= t /\ t < map[i].ptr + map[i].size)
    /\ Loader.pml4 \in Nat /\ Loader.pdpt \in Nat /\ Loader.pml4 # Loader.pdpt

VARIABLES
    mmap,    \* the loader's map
    tables,  \* table -> index -> entry; a table is named by its address
    setup    \* the locals, what they lead to, and at: the next step

setupVars == <<mmap, tables, setup>>

MMAP_USED == 0
MMAP_FREE == 1
MMAP_ACPI == 2
MMAP_MMIO == 3

NoBlock == [ptr |-> 0, size |-> 0, type |-> MMAP_USED, answers |-> FALSE]

NoEntry == [kind |-> "none", addr |-> 0]
Branch(addr) == [kind |-> "branch", addr |-> addr]
Leaf(addr) == [kind |-> "leaf", addr |-> addr]
ZeroTable == [i \in 0 .. LastIndex |-> NoEntry]
Store(table, index, entry) == [tables EXCEPT ![table] = [@ EXCEPT ![index] = entry]]
WithTable(table, contents) == [t \in DOMAIN tables \cup {table} |-> IF t = table THEN contents ELSE tables[t]]

RoundUp(addr) == ((addr + PTE_SIZE - 1) \div PTE_SIZE) * PTE_SIZE
RoundDown(addr) == (addr \div PTE_SIZE) * PTE_SIZE

Goes(place) == setup' = [setup EXCEPT !.at = place]

MemoryInit ==
    /\ mmap \in MemoryMaps
    /\ tables = [t \in {Loader.pml4, Loader.pdpt} |->
                    IF t = Loader.pml4 THEN [ZeroTable EXCEPT ![LastIndex] = Branch(Loader.pdpt)]
                    ELSE [ZeroTable EXCEPT ![LastIndex] = Branch(Loader.pd)]]
    /\ \E unchecked \in Unchecked :
        setup = [at |-> "probe", i |-> 1, map |-> mmap, unchecked |-> unchecked, hi |-> 0, lgst |-> NoBlock,
                 offset |-> 0, frames |-> <<>>, given |-> <<>>, cr3 |-> Loader.pml4]

MemoryAbsent == mmap = <<>> /\ tables = <<>> /\ setup = [at |-> "absent"]

----------------------------------------------------------------------------
(* mmap_available_iter                                                     *)

\* data & MMAP_FREE != 0: an odd type.
IsFree(entry) == entry.type % 2 = 1

\* The loop over the entries takes the bit from those that do not hold a byte.
probe ==
    /\ setup.at = "probe"
    /\ IF setup.i > Len(mmap) THEN Goes("measure") /\ UNCHANGED mmap
       ELSE /\ setup' = [setup EXCEPT !.i = @ + 1]
            /\ LET e == mmap[setup.i]
               IN  mmap' = [mmap EXCEPT ![setup.i].type = IF IsFree(e) /\ ~e.answers THEN @ - 1 ELSE @]
    /\ UNCHANGED tables

\* The entries that the returned iterator yields, by their index.
Available == {i \in DOMAIN mmap : IsFree(mmap[i])}

----------------------------------------------------------------------------
(* Mapper::setup                                                           *)

\* What last and max_by_key find: of several largest entries the last.
IsLast(i) == \A j \in Available : j <= i
IsLargest(i) ==
    \A j \in Available : mmap[j].size < mmap[i].size \/ (mmap[j].size = mmap[i].size /\ j <= i)

\* Both are unwrapped.
measure ==
    /\ setup.at = "measure"
    /\ \/ Available = {} /\ Goes("panic")
       \/ \E last, lgst \in Available :
            /\ IsLast(last) /\ IsLargest(lgst)
            /\ setup' = [setup EXCEPT !.at = "pml4",
                            !.hi = mmap[last].ptr + mmap[last].size,
                            !.lgst = mmap[lgst],
                            !.offset = RoundUp(mmap[lgst].ptr)]
    /\ UNCHANGED <<mmap, tables>>

\* page_getter: the address it returns, and what it leaves behind.
page == setup.lgst.ptr + setup.offset
\* Mutant: the getter does not move on.
GotPageAgain(s) == [s EXCEPT !.frames = Append(@, page)]

GotPage(s) == [s EXCEPT !.offset = @ + PTE_SIZE, !.frames = Append(@, page)]

new_pml4 ==
    /\ setup.at = "pml4"
    /\ tables' = WithTable(page, ZeroTable)
    /\ setup' = GotPage([setup EXCEPT !.at = "last pdpt"])
    /\ UNCHANGED mmap

\* from_paddr panics on an address that is not page aligned.
new_last_pdpt ==
    /\ setup.at = "last pdpt"
    /\ tables' = WithTable(page, ZeroTable)
    /\ setup' = GotPage([setup EXCEPT !.at = IF page % PTE_SIZE = 0 THEN "link" ELSE "panic"])
    /\ UNCHANGED mmap

pml4 == setup.frames[1]
last_pdpt == setup.frames[2]

link ==
    /\ setup.at = "link"
    /\ tables' = Store(pml4, LastIndex, Branch(last_pdpt))
    /\ Goes("keep") /\ UNCHANGED mmap

\* The loader's mappings above -1GiB.
keep_mappings ==
    /\ setup.at = "keep"
    /\ LET old_pdpt == tables[setup.cr3][LastIndex].addr
       IN  tables' = Store(last_pdpt, LastIndex, Branch(tables[old_pdpt][LastIndex].addr))
    /\ Goes("offset") /\ UNCHANGED mmap

\* Mutant: the highest address is rounded down.
OffsetEntriesDown == setup.hi \div PDPTE_SIZE

\* How many entries map memory at the offset.
OffsetEntries == (setup.hi + PDPTE_SIZE - 1) \div PDPTE_SIZE

map_offset ==
    /\ setup.at = "offset"
    /\ tables' = [WithTable(page, [i \in 0 .. LastIndex |->
                                      IF i < OffsetEntries THEN Leaf(i * PDPTE_SIZE) ELSE NoEntry])
                    EXCEPT ![pml4] = [@ EXCEPT ![OFFSET_IDX] = Branch(page)]]
    /\ setup' = GotPage([setup EXCEPT !.at = "cr3"])
    /\ UNCHANGED mmap

set_cr3 ==
    /\ setup.at = "cr3"
    /\ setup' = [setup EXCEPT !.cr3 = pml4, !.at = "talloc"]
    /\ UNCHANGED <<mmap, tables>>

\* What release does with a range: the pages that lie in it are given to the
\* allocator.  It returns early when there are none, but panics when the range
\* lies inside a page, so that its rounded ends cross.
Released(s, lo, hi) ==
    IF RoundUp(lo) > RoundDown(hi) THEN [s EXCEPT !.at = "panic"]
    ELSE IF RoundUp(lo) = RoundDown(hi) THEN s
    ELSE [s EXCEPT !.given = Append(@, [lo |-> RoundUp(lo), hi |-> RoundDown(hi)])]

\* Talloc::new takes its status from the rest of the block and releases what is
\* left.
talloc_new ==
    /\ setup.at = "talloc"
    /\ LET len == setup.lgst.size - setup.offset
       IN  setup' = IF len < 0 /\ ~setup.unchecked THEN [setup EXCEPT !.at = "panic"]
                    ELSE IF len < StatusBytes THEN [setup EXCEPT !.at = "astray"]
                    ELSE Released([setup EXCEPT !.at = "release", !.i = 1], page + StatusBytes, page + len)
    /\ UNCHANGED <<mmap, tables>>

\* The arena starts at the second page; release asserts that it is given no more.
release_entry ==
    /\ setup.at = "release"
    /\ LET e == mmap[setup.i]
       IN  setup' = IF setup.i > Len(mmap) THEN [setup EXCEPT !.at = "done"]
                    ELSE IF ~IsFree(e) \/ e.ptr = setup.lgst.ptr THEN [setup EXCEPT !.i = @ + 1]
                    ELSE IF RoundUp(e.ptr) < PTE_SIZE \/ RoundDown(e.ptr + e.size) > PTE_SIZE + setup.hi
                    THEN [setup EXCEPT !.at = "panic"]
                    ELSE Released([setup EXCEPT !.i = @ + 1], e.ptr, e.ptr + e.size)
    /\ UNCHANGED <<mmap, tables>>

setup_ended == setup.at \in {"done", "panic", "astray"} /\ UNCHANGED setupVars

MemoryNext ==
    \/ probe \/ measure \/ new_pml4 \/ new_last_pdpt \/ link \/ keep_mappings \/ map_offset
    \/ set_cr3 \/ talloc_new \/ release_entry \/ setup_ended

MemorySpec == MemoryInit /\ [][MemoryNext]_setupVars

----------------------------------------------------------------------------
(* Properties.                                                             *)

Extent(base, size) == base .. base + size - 1

\* The maps that setup can cope with: page_getter counts the base of the largest
\* block twice, so the block must be as long as its base, the tables and the
\* pages of the allocator's status together; it starts with a page, no other
\* starts below the second page, and none lies inside a page.
Fits ==
    /\ setup.lgst.ptr % PTE_SIZE = 0
    /\ setup.lgst.size >= setup.lgst.ptr + 3 * PTE_SIZE + RoundUp(StatusBytes)
    /\ \A e \in {mmap[i] : i \in Available} \ {setup.lgst} : e.ptr > 0 /\ RoundUp(e.ptr) <= RoundDown(e.ptr + e.size)

\* On a map that fits setup never panics, and it hands out no memory twice: the
\* tables lie in pages of their own in the largest block, the memory that the
\* allocator gets is apart from them and from itself, and all of it is memory
\* that the loader calls free (or MMIO) and that held the byte written to it.
SetupKeepsApart ==
    (setup.at \notin {"absent", "probe", "measure"} /\ Available # {} /\ Fits) =>
        LET table(i) == Extent(setup.frames[i], PTE_SIZE)
            block(i) == setup.given[i].lo .. setup.given[i].hi - 1
            free == {e \in Range(setup.map) : e.type \in {MMAP_FREE, MMAP_MMIO} /\ e.answers}
            InFree(part) == \E e \in free : part \subseteq Extent(e.ptr, e.size)
        IN  /\ setup.at \notin {"panic", "astray"}
            /\ \A i, j \in DOMAIN setup.frames : i # j => table(i) \cap table(j) = {}
            /\ \A i, j \in DOMAIN setup.given : i # j => block(i) \cap block(j) = {}
            /\ \A i \in DOMAIN setup.frames, j \in DOMAIN setup.given : table(i) \cap block(j) = {}
            /\ \A i \in DOMAIN setup.frames : InFree(table(i))
            /\ \A i \in DOMAIN setup.given : InFree(block(i))

\* Where the processor finds an address of the huge page that entry index of a
\* root's subtable maps.
HugePage(root, index, i) == tables[tables[root][index].addr][i]

\* When setup has returned, the tables in CR3 map what follows needs: the last
\* GiB as the loader did, and at the offset every byte that the allocator was
\* given (of the TableLen huge pages that fit), however far the map reaches.
SetupMapsAll ==
    (setup.at = "done" /\ Fits) =>
        /\ HugePage(setup.cr3, LastIndex, LastIndex) = HugePage(Loader.pml4, LastIndex, LastIndex)
        /\ \A g \in Range(setup.given) : \A a \in g.lo .. g.hi - 1 :
                a < TableLen * PDPTE_SIZE =>
                    HugePage(setup.cr3, OFFSET_IDX, a \div PDPTE_SIZE) = Leaf(a - (a % PDPTE_SIZE))
=============================================================================
