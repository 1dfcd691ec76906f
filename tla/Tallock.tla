------------------------------ MODULE Tallock ------------------------------
(***************************************************************************)
(* Tallock of kernel/src/memm/talloc.rs: the traits GlobalAlloc and        *)
(* Allocator over one Talloc behind a spin lock.  Several processors call  *)
(* the methods; Talloc does what Allocator says it promises, and writes    *)
(* its lists into what is free.  It finds a block in one step and takes it *)
(* in another: nothing but the lock keeps these together.  Each processor  *)
(* has at most one block, and writes into it.                              *)
(***************************************************************************)
EXTENDS Integers

CONSTANTS
    Processor,     \* positive numbers, which processors write into their blocks
    HeapMemory,    \* addresses above 1
    HeapLayouts    \* [size, align]

ASSUME TallockAssumption ==
    /\ Processor \subseteq Nat \ {0}
    /\ HeapMemory \subseteq Nat \ {0, 1}
    /\ HeapLayouts \subseteq [size : Nat, align : Nat]

VARIABLES
    owned,    \* what Talloc has given out
    lock,     \* the processor that holds the lock, or Unlocked
    bytes,    \* HeapMemory -> what is there
    block,    \* processor -> [ptr, layout], or NoBlockYet
    promise,  \* processor -> what it knows of its block: offset -> byte
    running   \* processor -> the running method: op, at, the layout asked for, the new block

tallockVars == <<owned, lock, bytes, block, promise, running>>

heap == INSTANCE Allocator WITH Memory <- HeapMemory, Layouts <- HeapLayouts

Unlocked == 0
Zero == 0
Garbage == -1
dangling == 1
NoBlockYet == [ptr |-> 0, layout |-> [size |-> 0, align |-> 1]]
Idle == [op |-> "none", at |-> "idle", layout |-> NoBlockYet.layout, new |-> NoBlockYet]

Fill(h, value) == [a \in HeapMemory |-> IF a \in heap!Extent(h) THEN value ELSE bytes[a]]
Known(size, value) == [o \in 0 .. size - 1 |-> value]
Unknown == Known(0, Garbage)
Below(known, size) == [o \in DOMAIN known \cap 0 .. size - 1 |-> known[o]]

TallockInit ==
    /\ owned = {} /\ lock = Unlocked /\ bytes = [a \in HeapMemory |-> Garbage]
    /\ block = [p \in Processor |-> NoBlockYet]
    /\ promise = [p \in Processor |-> Unknown]
    /\ running = [p \in Processor |-> Idle]

\* p goes on at a place of its method, or returns.
At(p, place) == running[p].at = place
Then(p, place) == running' = [running EXCEPT ![p] = [@ EXCEPT !.at = place]]
Return(p) == running' = [running EXCEPT ![p] = Idle]

\* p has a block, and knows something of what is there.
Has(p, h, known) == block' = [block EXCEPT ![p] = h] /\ promise' = [promise EXCEPT ![p] = known]
None(p) == block[p] = NoBlockYet

----------------------------------------------------------------------------
(* Callers.  A size of 0 is for the methods of Allocator only.             *)

Calls(p, op, layout) ==
    /\ running' = [running EXCEPT ![p] = [op |-> op, at |-> "lock", layout |-> layout, new |-> NoBlockYet]]
    /\ UNCHANGED <<owned, lock, bytes, block, promise>>

caller_writes(p) ==
    /\ At(p, "idle") /\ ~None(p)
    /\ bytes' = Fill(block[p], p)
    /\ promise' = [promise EXCEPT ![p] = Known(block[p].layout.size, p)]
    /\ UNCHANGED <<owned, lock, block, running>>

caller_calls(p) ==
    /\ At(p, "idle")
    /\ \E layout \in HeapLayouts :
        LET old == block[p].layout
        IN  \/ None(p) /\ layout.size > 0 /\ (Calls(p, "alloc", layout) \/ Calls(p, "alloc_zeroed", layout))
            \/ ~None(p) /\ old.size > 0 /\ layout.size > 0 /\ layout.align = old.align /\ Calls(p, "realloc", layout)
            \/ ~None(p) /\ layout.size <= old.size /\ layout.size > 0 /\ block[p].ptr % layout.align = 0
               /\ Calls(p, "shrink", layout)

caller_frees(p) ==
    /\ At(p, "idle") /\ ~None(p) /\ block[p].ptr # dangling
    /\ Calls(p, "dealloc", block[p].layout)

\* allocate of size 0, and deallocate of what it returned, do without the lock.
allocate_nothing(p) ==
    /\ At(p, "idle") /\ None(p)
    /\ \E layout \in HeapLayouts :
        layout.size = 0 /\ Has(p, [ptr |-> dangling, layout |-> layout], Unknown)
    /\ UNCHANGED <<owned, lock, bytes, running>>

deallocate_nothing(p) ==
    /\ At(p, "idle") /\ ~None(p) /\ block[p].ptr = dangling
    /\ Has(p, NoBlockYet, Unknown)
    /\ UNCHANGED <<owned, lock, bytes, running>>

\* shrink to size 0 deallocates and returns the dangling pointer.
shrink_to_nothing(p) ==
    /\ At(p, "idle") /\ ~None(p)
    /\ \E layout \in HeapLayouts :
        /\ layout.size = 0
        /\ IF block[p].ptr = dangling
           THEN Has(p, [block[p] EXCEPT !.layout = layout], Unknown) /\ UNCHANGED <<owned, lock, bytes, running>>
           ELSE Calls(p, "shrink to nothing", layout)

----------------------------------------------------------------------------
(* Methods, from where they wait for the lock.                             *)

\* Mutant: the lock is not waited for.
acquireAnyway(p) ==
    /\ At(p, "lock") \/ At(p, "lock again")
    /\ lock' = p
    /\ Then(p, IF At(p, "lock") THEN "locked" ELSE "locked again")
    /\ UNCHANGED <<owned, bytes, block, promise>>

acquire(p) ==
    /\ At(p, "lock") \/ At(p, "lock again")
    /\ lock = Unlocked
    /\ lock' = p
    /\ Then(p, IF At(p, "lock") THEN "locked" ELSE "locked again")
    /\ UNCHANGED <<owned, bytes, block, promise>>

Grows(p) == running[p].op = "realloc" /\ block[p].layout.size < running[p].layout.size

\* Talloc::alloc fails, or finds a block.
alloc(p) ==
    /\ At(p, "locked") /\ (running[p].op \in {"alloc", "alloc_zeroed"} \/ Grows(p))
    /\ \/ lock' = Unlocked /\ Return(p)
       \/ \E ptr \in HeapMemory :
            LET h == [ptr |-> ptr, layout |-> running[p].layout]
            IN  /\ heap!CanOwn(h, owned)
                /\ running' = [running EXCEPT ![p] = [@ EXCEPT !.at = "found", !.new = h]]
                /\ UNCHANGED lock
    /\ UNCHANGED <<owned, bytes, block, promise>>

\* It takes the block it found; the guard is dropped but in alloc_zeroed.
alloc_take(p) ==
    /\ At(p, "found")
    /\ owned' = owned \cup {running[p].new}
    /\ \/ /\ running[p].op = "alloc"
          /\ lock' = Unlocked /\ Return(p) /\ Has(p, running[p].new, Unknown)
       \/ running[p].op = "alloc_zeroed" /\ Then(p, "zero") /\ UNCHANGED <<lock, block, promise>>
       \/ /\ running[p].op = "realloc"
          /\ lock' = Unlocked /\ Then(p, "copy") /\ UNCHANGED <<block, promise>>
    /\ UNCHANGED bytes

\* alloc_zeroed writes under the lock: the guard lives as long as the match.
alloc_zeroed(p) ==
    /\ At(p, "zero")
    /\ bytes' = Fill(running[p].new, Zero)
    /\ Has(p, running[p].new, Known(running[p].new.layout.size, Zero))
    /\ lock' = Unlocked /\ Return(p)
    /\ UNCHANGED owned

\* Talloc::dealloc and Talloc::shrink.
Frees(h) == heap!Dealloc(h) /\ bytes' = Fill(h, Garbage)

dealloc(p) ==
    /\ At(p, "locked") /\ running[p].op \in {"dealloc", "shrink to nothing"}
    /\ Frees(block[p])
    /\ LET rest == IF running[p].op = "dealloc" THEN NoBlockYet ELSE [ptr |-> dangling, layout |-> running[p].layout]
       IN  Has(p, rest, Unknown)
    /\ lock' = Unlocked /\ Return(p)

shrink(p) ==
    /\ At(p, "locked") /\ (running[p].op = "shrink" \/ (running[p].op = "realloc" /\ ~Grows(p)))
    /\ LET kept == [ptr |-> block[p].ptr, layout |-> running[p].layout]
       IN  /\ heap!Shrink(block[p], running[p].layout)
           /\ bytes' = [a \in HeapMemory |->
                            IF a \in heap!Extent(block[p]) \ heap!Extent(kept) THEN Garbage ELSE bytes[a]]
           /\ Has(p, kept, Below(promise[p], kept.layout.size))
    /\ lock' = Unlocked /\ Return(p)

\* realloc of a larger size copies without the lock, then locks again to free.
realloc_copy(p) ==
    /\ At(p, "copy")
    /\ bytes' = [a \in HeapMemory |->
                    LET i == a - running[p].new.ptr
                    IN  IF i \in 0 .. block[p].layout.size - 1 THEN bytes[block[p].ptr + i] ELSE bytes[a]]
    /\ Then(p, "lock again")
    /\ UNCHANGED <<owned, lock, block, promise>>

\* Mutant: the old block is not freed.
realloc_freeNothing(p) ==
    /\ At(p, "locked again")
    /\ Has(p, running[p].new, promise[p])
    /\ lock' = Unlocked /\ Return(p)
    /\ UNCHANGED <<owned, bytes>>

realloc_free(p) ==
    /\ At(p, "locked again")
    /\ Frees(block[p])
    /\ Has(p, running[p].new, promise[p])
    /\ lock' = Unlocked /\ Return(p)

TallockNext ==
    \E p \in Processor :
        \/ caller_writes(p) \/ caller_calls(p) \/ caller_frees(p)
        \/ allocate_nothing(p) \/ deallocate_nothing(p) \/ shrink_to_nothing(p)
        \/ acquire(p) \/ alloc(p) \/ alloc_take(p) \/ alloc_zeroed(p)
        \/ dealloc(p) \/ shrink(p) \/ realloc_copy(p) \/ realloc_free(p)

TallockSpec == TallockInit /\ [][TallockNext]_tallockVars

----------------------------------------------------------------------------
(* Properties.                                                             *)

\* A caller finds in its block what it wrote there, through realloc and shrink,
\* and zeros after alloc_zeroed, whatever other processors allocate, free and
\* write in the meantime: what is in use is never written by another, and
\* realloc gives the old block up only after it was copied.
ContentsKept ==
    \A p \in Processor : \A o \in DOMAIN promise[p] : bytes[block[p].ptr + o] = promise[p][o]

\* realloc has the new block beside the old one.
Copies(p) == At(p, "copy") \/ At(p, "lock again") \/ At(p, "locked again")

\* The blocks that Talloc has given out are those that callers have, and those
\* that realloc and alloc_zeroed are about to return: no method loses a block,
\* also when an allocation fails, and none frees one that a caller still has.
BlocksAccounted ==
    owned = {block[p] : p \in {q \in Processor : block[q].ptr > dangling}}
            \cup {running[p].new : p \in {q \in Processor : At(q, "zero") \/ Copies(q)}}
=============================================================================
