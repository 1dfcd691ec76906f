------------------------------- MODULE PageMap -------------------------------
(***************************************************************************)
(* Mapper::map and map_offset of kernel/src/memm/mod.rs: mapping a range   *)
(* of linear addresses to fresh physical frames through a tree of page     *)
(* tables.  The recursion over the levels is an explicit stack of the      *)
(* loops that are running, so that the tree can be looked at between any   *)
(* two entries that are written.  Every call runs under the MAPPER lock.   *)
(***************************************************************************)
EXTENDS Paging, Integers, Sequences

CONSTANTS
  Fanout,     \* entries of a table: 512
  PML4_LVL,   \* the level of the root: 4
  Requests,   \* [base, size]: the arguments of the calls of map
  MaxFrames   \* how many frames the physical allocator can give

ASSUME PageMapArguments ==
  /\ Fanout \in Nat \ {0, 1} /\ PML4_LVL \in Nat \ {0, 1} /\ PTE_SIZE \in Nat \ {0}
  /\ Requests \subseteq [base : Nat, size : Nat \ {0}]
  /\ MaxFrames \in Nat

\* What the proofs use about powers, which the provers leave uninterpreted.
ASSUME PowersOfFanout ==
  /\ Fanout^0 = 1
  /\ \A n \in 0..PML4_LVL : Fanout^n \in Nat \ {0}
  /\ \A n \in 1..PML4_LVL : Fanout^n = Fanout * Fanout^(n - 1)

VARIABLES
  tables,   \* table -> index -> entry; a table is named by its frame, the root is 0
  fresh,    \* the frames 1..fresh have been given out
  calls,    \* the running loops, innermost first: [lvl, base, table, last]
  span,     \* [base, acme]: the range of the running call
  mapped,   \* the requests that map was called with
  pc        \* "idle", "map", "panic", or "astray" once a loop has followed a
            \* page as if it were a table

vars == <<tables, fresh, calls, span, mapped, pc>>

Levels == 1..PML4_LVL
Indices == 0..(Fanout - 1)
Absent == [kind |-> "none", frame |-> 0]
Entry == [kind : {"none", "leaf", "branch"}, frame : 0..MaxFrames]
EmptyTable == [i \in Indices |-> Absent]
NoSpan == [base |-> 0, acme |-> 0]

page_size(lvl) == PTE_SIZE * Fanout^(lvl - 1)

table_index(laddr, lvl) == (laddr \div page_size(lvl)) % Fanout

\* The span that map works on: the base rounded down, the size rounded up.
SpanOf(r) ==
  LET base == r.base - (r.base % PTE_SIZE)
      size == r.size + PTE_SIZE - 1
  IN  [base |-> base, acme |-> base + (size - (size % PTE_SIZE))]

\* "`table` must fully contain the virtual span of memory."
ASSUME SpansInTable == \A r \in Requests : SpanOf(r).acme <= page_size(PML4_LVL + 1)
-----------------------------------------------------------------------------
Init ==
  /\ tables = [t \in {0} |-> EmptyTable]
  /\ fresh = 0
  /\ calls = <<>>
  /\ span = NoSpan
  /\ mapped = {}
  /\ pc = "idle"

PageMapAbsent ==
  /\ tables = <<>> /\ fresh = 0 /\ calls = <<>> /\ mapped = {} /\ pc = "absent"
  /\ span = [base |-> 0, acme |-> page_size(PML4_LVL + 1)]

Map(r) ==
  /\ pc = "idle"
  /\ r \notin mapped
  /\ mapped' = mapped \cup {r}
  /\ span' = SpanOf(r)
  /\ calls' = <<[lvl |-> PML4_LVL, base |-> SpanOf(r).base, table |-> 0, last |-> FALSE]>>
  /\ pc' = "map"
  /\ UNCHANGED <<tables, fresh>>

\* The loop that is running, and the entry that it is at.
Top == Head(calls)
Index == table_index(Top.base, Top.lvl)
Looping == pc = "map" /\ calls # <<>> /\ ~Top.last /\ Top.base < span.acme
EntryAt == tables[Top.table][Index]

\* Mutant of IsLeaf: what is left of the span is not compared with the page.
IsLeafTooLarge == Top.lvl < PML4_LVL /\ Top.base % page_size(Top.lvl) = 0

\* A page of this level starts here and fits, or it is the lowest level.
IsLeaf ==
  LET remaining == (span.acme - Top.base) + PTE_SIZE - 1
  IN  \/ Top.lvl = 1
      \/ /\ remaining >= page_size(Top.lvl)
         /\ Top.base % page_size(Top.lvl) = 0
         /\ Top.lvl < PML4_LVL

\* Mutant of Advance: an entry is skipped.
AdvanceTwice == [Top EXCEPT !.base = @ + 2 * page_size(Top.lvl), !.last = Index = Fanout - 1]

\* The end of a round: the base goes up by a page of this level, and the loop
\* is left after the last entry of its table.
Advance == [Top EXCEPT !.base = @ + page_size(Top.lvl), !.last = Index = Fanout - 1]

\* alloc_phys: panics, with the lock held, when there is no frame left.
OutOfFrames ==
  /\ fresh = MaxFrames
  /\ pc' = "panic"
  /\ UNCHANGED <<tables, fresh, calls, span, mapped>>

\* Mutant of MapLeaf: the frame that was given out last is used again.
MapLeafStaleFrame ==
  /\ Looping
  /\ IsLeaf
  /\ fresh < MaxFrames
  /\ fresh' = fresh + 1
  /\ tables' = [tables EXCEPT ![Top.table][Index] = [kind |-> "leaf", frame |-> fresh]]
  /\ calls' = <<Advance>> \o Tail(calls)
  /\ UNCHANGED <<span, mapped, pc>>

\* A leaf entry replaces whatever was there.
MapLeaf ==
  /\ Looping
  /\ IsLeaf
  /\ \/ OutOfFrames
     \/ /\ fresh < MaxFrames
        /\ fresh' = fresh + 1
        /\ tables' = [tables EXCEPT ![Top.table][Index] = [kind |-> "leaf", frame |-> fresh + 1]]
        /\ calls' = <<Advance>> \o Tail(calls)
        /\ UNCHANGED <<span, mapped, pc>>

\* The loop one level down, over the table at `frame'.
Descend(frame) ==
  calls' = <<[lvl |-> Top.lvl - 1, base |-> Top.base, table |-> frame, last |-> FALSE], Advance>>
             \o Tail(calls)

\* A branch: a zeroed table is allocated where there is no entry; an entry
\* that is there is followed, whatever it is.
MapBranch ==
  /\ Looping
  /\ ~IsLeaf
  /\ \/ EntryAt.kind = "none" /\ OutOfFrames
     \/ /\ EntryAt.kind = "none"
        /\ fresh < MaxFrames
        /\ fresh' = fresh + 1
        /\ LET linked == [tables EXCEPT ![Top.table][Index] = [kind |-> "branch", frame |-> fresh + 1]]
           IN  tables' = [t \in (DOMAIN tables) \cup {fresh + 1} |->
                            IF t = fresh + 1 THEN EmptyTable ELSE linked[t]]
        /\ Descend(fresh + 1)
        /\ UNCHANGED <<span, mapped, pc>>
     \/ /\ EntryAt.kind = "branch"
        /\ Descend(EntryAt.frame)
        /\ UNCHANGED <<tables, fresh, span, mapped, pc>>
     \/ /\ EntryAt.kind = "leaf"
        /\ pc' = "astray"
        /\ UNCHANGED <<tables, fresh, calls, span, mapped>>

\* A loop ends; map returns with the outermost one.
Return ==
  /\ pc = "map"
  /\ ~Looping
  /\ calls' = Tail(calls)
  /\ pc' = IF Len(calls) = 1 THEN "idle" ELSE "map"
  /\ span' = IF Len(calls) = 1 THEN NoSpan ELSE span
  /\ UNCHANGED <<tables, fresh, mapped>>

\* The panic handler halts the processor; what happens to a page that is taken
\* for a table is up to its contents.
Stopped ==
  /\ pc \in {"panic", "astray"} \/ (pc = "idle" /\ mapped = Requests)
  /\ UNCHANGED vars

Step == MapLeaf \/ MapBranch \/ Return

Next == (\E r \in Requests : Map(r)) \/ Step \/ Stopped

Spec == Init /\ [][Next]_vars
-----------------------------------------------------------------------------
\* The processor's walk through the tables tbl: the entry that it has found at
\* each level, which is kept below a page.
Walk(tbl, laddr) ==
  LET Found[lvl \in Levels] ==
        IF lvl = PML4_LVL THEN tbl[0][table_index(laddr, lvl)]
        ELSE IF Found[lvl + 1].kind = "branch"
        THEN tbl[Found[lvl + 1].frame][table_index(laddr, lvl)]
        ELSE Found[lvl + 1]
  IN  Found

\* The leaf entry that translates laddr, or Absent.
Translate(laddr) == Walk(tables, laddr)[1]

Pages == {PTE_SIZE * n : n \in 0..(Fanout^PML4_LVL - 1)}
PagesOf(s) == {p \in Pages : s.base <= p /\ p < s.acme}
Covers(s) == \A p \in PagesOf(s) : Translate(p).kind = "leaf"

\* Type invariant: tables hold entries, the running loops go down one level at
\* a time from the root, each over a table that its caller's entry points to.
TypeOK ==
  /\ fresh \in 0..MaxFrames
  /\ DOMAIN tables \subseteq 0..fresh
  /\ \A t \in DOMAIN tables : tables[t] \in [Indices -> Entry]
  /\ \A t \in DOMAIN tables : \A i \in Indices :
       tables[t][i].kind = "branch" => tables[t][i].frame \in DOMAIN tables
  /\ pc \in {"idle", "map", "panic", "astray"}
  /\ pc = "map" => calls # <<>>
  /\ \A n \in 1..Len(calls) :
       calls[n].lvl = PML4_LVL - Len(calls) + n /\ calls[n].table \in DOMAIN tables

\* The table of a frame is reached by one entry only, and no frame is both a
\* table and a page: writing an entry changes one range of addresses.
Uses(f) == {u \in (DOMAIN tables) \X Indices : tables[u[1]][u[2]].frame = f}
TreeShaped == \A f \in 1..fresh : \A u, v \in Uses(f) : u = v

\* A span whose base is on a page of every level at which it needs more than
\* one entry.
WellPlaced(s) ==
  \A lvl \in Levels :
    \/ s.base % page_size(lvl) = 0
    \/ s.base \div page_size(lvl) = (s.acme - 1) \div page_size(lvl)

\* map_offset maps all of a span that is well placed (the heaps and their
\* extensions are), whatever was mapped before.
WellPlacedMapped ==
  pc = "idle" => \A r \in mapped : WellPlaced(SpanOf(r)) => Covers(SpanOf(r))

\* `Maps base through acme': a call that has returned has mapped its span.
\* Stacks, which start one page above a table's range, are not well placed.
MapsAll == pc = "idle" => \A r \in mapped : Covers(SpanOf(r))

\* `Any existing mappings within the span will be remapped': the loop never
\* takes a page that is mapped for a table of the tree.
NeverAstray == pc # "astray"

\* map changes no translation outside of the span that it was asked for, at
\* any moment: other processors use the same tables meanwhile.
OnlySpanChanges ==
  [][\A p \in Pages \ PagesOf(span) : Translate(p)' = Translate(p)]_vars
=============================================================================
