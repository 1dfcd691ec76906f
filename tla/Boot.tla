-------------------------------- MODULE Boot --------------------------------
(***************************************************************************)
(* The bring-up of the processors: _start and init of kernel/src/init.rs   *)
(* with what they share, which is the two ticket counters, the published   *)
(* page tables, the configuration (cfg.rs), the MAPPER lock and the        *)
(* console (out/mod.rs) with its lazily set up UART and the TERM1 lock.    *)
(*                                                                         *)
(* Every processor runs the same code; a step of the model lies between    *)
(* two accesses to shared state.  A print is a subroutine: then[c] is      *)
(* where the processor goes when it returns.                               *)
(***************************************************************************)
EXTENDS Paging, Integers, FiniteSets

CONSTANTS
  Cpus,              \* the processors that enter _start
  Nobody,            \* the owner of a free lock
  MaxMaps,           \* bound: maps that physical memory can serve
  PDPTE_SIZE,        \* 1 GiB: the distance between two heaps
  KRNL_STACK_SIZE,   \* bytes of a kernel stack, without the page that separates it
  stack_size,        \* cfg::stack_size
  heap_init_size     \* cfg::heap_init_size

ASSUME BootArguments ==
  /\ IsFiniteSet(Cpus) /\ Cpus # {} /\ Nobody \notin Cpus
  /\ MaxMaps \in Nat
  /\ PTE_SIZE \in Nat \ {0} /\ PDPTE_SIZE \in Nat \ {0} /\ KRNL_STACK_SIZE \in Nat \ {0}
  /\ stack_size \in Nat /\ heap_init_size \in Nat \ {0}
  /\ heap_init_size <= PDPTE_SIZE - stack_size - PTE_SIZE

VARIABLES
  given,    \* what the loader and the machine provide: [fb, cfg, mmap, chip],
            \* each fit for use or not
  place, then, \* where each processor is, and where it goes after the print it is in
  ticket,   \* cpu -> its THREAD_TICKET in _start, or -1
  number,   \* cpu -> its THREAD_TICKET in init, or -1
  next,     \* [start, init]: the two counters
  fb,       \* TERM1 has a frame buffer
  cfg,      \* CFG_SYNC_STATE
  pml4,     \* IS_MAPPER_INITD_PML4 holds an address
  ready,    \* MAPPER has been set up
  uart,     \* the Lazy UART_COM1: "unused", "starting" or "ready"
  lock,     \* [com1, term, mapper] -> the owner
  frames,   \* maps that can still be served
  stacks,   \* the processors whose stack is mapped
  heap      \* cpu -> the bytes of its heap, 0 before it is mapped

console == <<uart, lock>>
memory == <<frames, stacks, heap>>
shared == <<fb, cfg, pml4, ready>>
tickets == <<ticket, number, next>>
bootVars == <<given, place, then, tickets, shared, console, memory>>

Goto(c, where) == place' = [place EXCEPT ![c] = where] /\ UNCHANGED then

\* println!: the call of __print; the processor goes on at `where'.
Println(c, where) ==
  /\ place' = [place EXCEPT ![c] = "print"]
  /\ then' = [then EXCEPT ![c] = where]

\* panic!: the panic handler prints and halts.  Nothing is unwound: the locks
\* that the processor holds stay held.
Panic(c) == Println(c, "dead")

BootInit ==
  /\ given \in [fb : BOOLEAN, cfg : BOOLEAN, mmap : BOOLEAN, chip : BOOLEAN]
  /\ place = [c \in Cpus |-> "start"]
  /\ then = [c \in Cpus |-> "start"]
  /\ ticket = [c \in Cpus |-> -1]
  /\ number = [c \in Cpus |-> -1]
  /\ next = [start |-> 0, init |-> 0]
  /\ fb = FALSE /\ cfg = 0 /\ pml4 = FALSE /\ ready = FALSE
  /\ uart = "unused"
  /\ lock = [com1 |-> Nobody, term |-> Nobody, mapper |-> Nobody]
  /\ frames \in 0..MaxMaps
  /\ stacks = {}
  /\ heap = [c \in Cpus |-> 0]

BootAbsent ==
  /\ given = <<>> /\ place = [c \in Cpus |-> "hlt"] /\ then = place
  /\ ticket = <<>> /\ number = <<>> /\ next = <<>>
  /\ fb = TRUE /\ cfg = 2 /\ pml4 = TRUE /\ ready = TRUE /\ uart = "ready"
  /\ lock = [com1 |-> Nobody, term |-> Nobody, mapper |-> Nobody]
  /\ frames = 0 /\ stacks = {} /\ heap = [c \in Cpus |-> 0]
-----------------------------------------------------------------------------
(* The console: __print. *)

\* The first print sets up the UART, and prints meanwhile wait for it; later
\* ones try its lock and do without the UART where it is taken.
TryUart(c) ==
  /\ place[c] = "print"
  /\ \/ /\ uart = "unused"
        /\ uart' = "starting"
        /\ Goto(c, "uart init")
        /\ UNCHANGED lock
     \/ /\ uart = "ready" /\ lock.com1 = Nobody
        /\ lock' = [lock EXCEPT !.com1 = c]
        /\ Goto(c, "uart write")
        /\ UNCHANGED uart
     \/ /\ uart = "ready" /\ lock.com1 # Nobody
        /\ Goto(c, "term")
        /\ UNCHANGED console
  /\ UNCHANGED <<given, tickets, shared, memory>>

\* UartPort::new and the `expect' on it: a chip that fails its test panics in
\* the initialiser, which never completes.
InitUart(c) ==
  /\ place[c] = "uart init"
  /\ \/ given.chip /\ uart' = "ready" /\ Goto(c, "print")
     \/ ~given.chip /\ Panic(c) /\ UNCHANGED uart
  /\ UNCHANGED <<given, tickets, shared, lock, memory>>

WriteUart(c) ==
  /\ place[c] = "uart write"
  /\ lock' = [lock EXCEPT !.com1 = Nobody]
  /\ Goto(c, "term")
  /\ UNCHANGED <<given, tickets, shared, uart, memory>>

LockTerm(c) ==
  /\ place[c] = "term"
  /\ lock.term = Nobody
  /\ lock' = [lock EXCEPT !.term = c]
  /\ Goto(c, "term write")
  /\ UNCHANGED <<given, tickets, shared, uart, memory>>

\* Mutant of WriteTerm: the guard is not dropped.
WriteTermKeepsLock(c) ==
  /\ place[c] = "term write"
  /\ Goto(c, then[c])
  /\ UNCHANGED <<given, tickets, shared, console, memory>>

\* Mutant of WriteTerm: the panic handler halts with the guard in scope.
WriteTermPanicKeepsLock(c) ==
  /\ place[c] = "term write"
  /\ lock' = IF then[c] = "dead" THEN lock ELSE [lock EXCEPT !.term = Nobody]
  /\ Goto(c, then[c])
  /\ UNCHANGED <<given, tickets, shared, uart, memory>>

\* Term1::write_str, which starts with a new line: without a frame buffer, the
\* height 0 less the height of a glyph panics.
WriteTerm(c) ==
  /\ place[c] = "term write"
  /\ \/ /\ fb
        /\ lock' = [lock EXCEPT !.term = Nobody]
        /\ Goto(c, then[c])
     \/ /\ ~fb
        /\ Panic(c)
        /\ UNCHANGED lock
  /\ UNCHANGED <<given, tickets, shared, uart, memory>>
-----------------------------------------------------------------------------
(* _start *)

TakeTicket(c) ==
  /\ place[c] = "start"
  /\ ticket' = [ticket EXCEPT ![c] = next.start]
  /\ next' = [next EXCEPT !.start = @ + 1]
  /\ Goto(c, IF next.start = 0 THEN "frame buffer" ELSE "wait")
  /\ UNCHANGED <<given, number, shared, console, memory>>

\* The right side of the assignment comes first: an unknown pixel format
\* panics before TERM1 is locked.
SetFrameBuffer(c) ==
  /\ place[c] = "frame buffer"
  /\ \/ /\ ~given.fb
        /\ Panic(c)
        /\ UNCHANGED fb
     \/ /\ given.fb
        /\ lock.term = Nobody
        /\ fb' = TRUE
        /\ Println(c, "greeted")
  /\ UNCHANGED <<given, tickets, cfg, pml4, ready, console, memory>>

\* The second print of _start.
PrintGlyph(c) ==
  /\ place[c] = "greeted"
  /\ Println(c, "cfg")
  /\ UNCHANGED <<given, tickets, shared, console, memory>>

\* init_boot_cfg, up to the values being written.
ClaimCfg(c) ==
  /\ place[c] = "cfg"
  /\ cfg = 0
  /\ cfg' = 1
  /\ Goto(c, "cfg write")
  /\ UNCHANGED <<given, tickets, fb, pml4, ready, console, memory>>

\* A value that is not a number panics in state 1.
WriteCfg(c) ==
  /\ place[c] = "cfg write"
  /\ \/ given.cfg /\ cfg' = 2 /\ Goto(c, "setup")
     \/ ~given.cfg /\ Panic(c) /\ UNCHANGED cfg
  /\ UNCHANGED <<given, tickets, fb, pml4, ready, console, memory>>

\* Mapper::setup, which ends with the assignment to MAPPER.  It panics over a
\* memory map that is empty, whose largest block is smaller than its own
\* address and the first tables, or that release cannot take.
SetUpMapper(c) ==
  /\ place[c] = "setup"
  /\ \/ /\ ~given.mmap
        /\ Panic(c)
        /\ UNCHANGED ready
     \/ /\ given.mmap
        /\ lock.mapper = Nobody
        /\ ready' = TRUE
        /\ Goto(c, "publish")
  /\ UNCHANGED <<given, tickets, fb, cfg, pml4, console, memory>>

Publish(c) ==
  /\ place[c] = "publish"
  /\ pml4' = TRUE
  /\ Goto(c, "stack")
  /\ UNCHANGED <<given, tickets, fb, cfg, ready, console, memory>>

\* Mutant of AwaitTables: the other processors do not wait.
AwaitTablesNot(c) ==
  /\ place[c] = "wait"
  /\ Goto(c, "stack")
  /\ UNCHANGED <<given, tickets, shared, console, memory>>

\* The other processors spin until the tables are published, and load them.
AwaitTables(c) ==
  /\ place[c] = "wait"
  /\ pml4
  /\ Goto(c, "stack")
  /\ UNCHANGED <<given, tickets, shared, console, memory>>

\* MAPPER.lock(), for a map.
LockMapper(c, from, to) ==
  /\ place[c] = from
  /\ lock.mapper = Nobody
  /\ lock' = [lock EXCEPT !.mapper = c]
  /\ Goto(c, to)
  /\ UNCHANGED <<given, tickets, shared, uart, memory>>

\* alloc_phys inside of map: out of frames, it panics with MAPPER locked.
NoFrames(c) ==
  /\ place[c] \in {"map stack", "map heap", "map more"}
  /\ frames = 0
  /\ Panic(c)
  /\ UNCHANGED <<given, tickets, shared, console, memory>>

\* Mutant of Mapped: the guard of MAPPER lives on.
MappedKeepsLock(c, from) ==
  /\ place[c] = from
  /\ frames > 0
  /\ frames' = frames - 1
  /\ UNCHANGED lock

\* map returns, and the guard of MAPPER is dropped.
Mapped(c, from) ==
  /\ place[c] = from
  /\ frames > 0
  /\ frames' = frames - 1
  /\ lock' = [lock EXCEPT !.mapper = Nobody]

\* The stack of this ticket; the processor switches to it and enters init.
MapStack(c) ==
  /\ Mapped(c, "map stack")
  /\ stacks' = stacks \cup {c}
  /\ Goto(c, "init")
  /\ UNCHANGED <<given, tickets, shared, uart, heap>>
-----------------------------------------------------------------------------
(* init *)

\* Mutant of TakeNumber: the counter is read and not counted up.
TakeNumberTwice(c) ==
  /\ place[c] = "init"
  /\ number' = [number EXCEPT ![c] = next.init]
  /\ Println(c, "heap")
  /\ UNCHANGED <<given, ticket, next, shared, console, memory>>

\* A ticket of a counter of its own: the numbers need not be those of _start.
TakeNumber(c) ==
  /\ place[c] = "init"
  /\ number' = [number EXCEPT ![c] = next.init]
  /\ next' = [next EXCEPT !.init = @ + 1]
  /\ Println(c, "heap")
  /\ UNCHANGED <<given, ticket, shared, console, memory>>

\* allocator_setup
MapHeap(c) ==
  /\ Mapped(c, "map heap")
  /\ heap' = [heap EXCEPT ![c] = heap_init_size]
  /\ Goto(c, "tables")
  /\ UNCHANGED <<given, tickets, shared, uart, stacks>>

max_arena_size == PDPTE_SIZE - stack_size - PTE_SIZE

\* The size of the extended heap.
lgr_size(size) == IF 2 * size < max_arena_size THEN 2 * size ELSE max_arena_size

\* setup_sys_tables allocates from the processor's own heap.  An allocation
\* that finds no block calls oom_handler; when the heap cannot grow any more
\* alloc_error_handler panics.  (How much is free is TallocHeap's matter.)
SetUpTables(c) ==
  /\ place[c] = "tables"
  /\ \/ Goto(c, IF number[c] = 0 THEN "int3" ELSE "hlt")
     \/ heap[c] < lgr_size(heap[c]) /\ Goto(c, "more")
     \/ heap[c] >= lgr_size(heap[c]) /\ Panic(c)
  /\ UNCHANGED <<given, tickets, shared, console, memory>>

\* oom_handler
MapMore(c) ==
  /\ Mapped(c, "map more")
  /\ heap' = [heap EXCEPT ![c] = lgr_size(@)]
  /\ Goto(c, "tables")
  /\ UNCHANGED <<given, tickets, shared, uart, stacks>>

\* The processor numbered 0 raises two exceptions.  The handler of the first
\* prints and returns...
BreakPoint(c) ==
  /\ place[c] = "int3"
  /\ Println(c, "int 13")
  /\ UNCHANGED <<given, tickets, shared, console, memory>>

\* ...that of the second prints and halts.
ProtectionFault(c) ==
  /\ place[c] = "int 13"
  /\ Println(c, "hlt")
  /\ UNCHANGED <<given, tickets, shared, console, memory>>
-----------------------------------------------------------------------------
BootStep(c) ==
  \/ TryUart(c) \/ InitUart(c) \/ WriteUart(c) \/ LockTerm(c) \/ WriteTerm(c)
  \/ TakeTicket(c) \/ SetFrameBuffer(c) \/ PrintGlyph(c) \/ ClaimCfg(c) \/ WriteCfg(c)
  \/ SetUpMapper(c) \/ Publish(c) \/ AwaitTables(c)
  \/ LockMapper(c, "stack", "map stack") \/ LockMapper(c, "heap", "map heap")
  \/ LockMapper(c, "more", "map more")
  \/ NoFrames(c) \/ MapStack(c) \/ TakeNumber(c) \/ MapHeap(c)
  \/ SetUpTables(c) \/ MapMore(c) \/ BreakPoint(c) \/ ProtectionFault(c)

Panicked(c) == then[c] = "dead"

\* Everybody has halted, or waits for a lock or a flag that a processor that
\* panicked has left behind.
BootStopped ==
  /\ (\A c \in Cpus : place[c] \in {"hlt", "dead"}) \/ (\E c \in Cpus : Panicked(c))
  /\ UNCHANGED bootVars

BootNext == (\E c \in Cpus : BootStep(c)) \/ BootStopped

\* The processors run independently: each one takes its next step for as long
\* as it can take it.
BootFairness == \A c \in Cpus : WF_bootVars(BootStep(c))

BootSpec == BootInit /\ [][BootNext]_bootVars /\ BootFairness
-----------------------------------------------------------------------------
Places == {"start", "frame buffer", "greeted", "cfg", "cfg write", "setup", "publish", "wait",
           "stack", "map stack", "init", "heap", "map heap", "tables", "more", "map more",
           "int3", "int 13", "hlt", "dead",
           "print", "uart init", "uart write", "term", "term write"}

\* Type invariant: the variables of _start and init keep their types; no ticket
\* is as high as its counter, no counter passes the number of processors, and
\* no heap grows over the maximum of oom_handler.
BootTypeOK ==
  /\ given \in [fb : BOOLEAN, cfg : BOOLEAN, mmap : BOOLEAN, chip : BOOLEAN]
  /\ place \in [Cpus -> Places] /\ then \in [Cpus -> Places]
  /\ next \in [start : 0..Cardinality(Cpus), init : 0..Cardinality(Cpus)]
  /\ ticket \in [Cpus -> -1..(next.start - 1)]
  /\ number \in [Cpus -> -1..(next.init - 1)]
  /\ fb \in BOOLEAN /\ cfg \in 0..2 /\ pml4 \in BOOLEAN /\ ready \in BOOLEAN
  /\ uart \in {"unused", "starting", "ready"}
  /\ lock \in [com1 : Cpus \cup {Nobody}, term : Cpus \cup {Nobody}, mapper : Cpus \cup {Nobody}]
  /\ frames \in 0..MaxMaps
  /\ stacks \subseteq Cpus
  /\ heap \in [Cpus -> 0..max_arena_size]

\* The addresses that are mapped for a processor (negative, as in the code).
StackSpan(c) ==
  LET acme == 0 - PDPTE_SIZE - (KRNL_STACK_SIZE + PTE_SIZE) * ticket[c]
  IN  [base |-> acme - KRNL_STACK_SIZE, acme |-> acme]
HeapSpan(c) ==
  LET base == 0 - PDPTE_SIZE * (2 + number[c])
  IN  [base |-> base, acme |-> base + heap[c]]
Apart(s, t) == s.acme <= t.base \/ t.acme <= s.base

\* The configured stack_size leaves room for the stacks of all processors.
RoomForStacks == Cardinality(Cpus) * (KRNL_STACK_SIZE + PTE_SIZE) <= stack_size + 2 * PTE_SIZE

\* Memory that a map call was made for belongs to one processor: no stack or
\* heap, however the heaps grow, overlaps another.
MemoryApart ==
  /\ \A c, d \in stacks : c # d => Apart(StackSpan(c), StackSpan(d))
  /\ \A c, d \in Cpus :
       (c # d /\ heap[c] # 0 /\ heap[d] # 0) => Apart(HeapSpan(c), HeapSpan(d))
  /\ \A c \in stacks : \A d \in Cpus : heap[d] # 0 => Apart(StackSpan(c), HeapSpan(d))

\* Nothing is used before it has been set up: whoever is past the wait for the
\* page tables (prints included) finds MAPPER ready, the configuration written
\* (its getters panic otherwise) and the terminal with a frame buffer.
AfterWait == {"stack", "map stack", "init", "heap", "map heap", "tables", "more", "map more",
              "int3", "int 13", "hlt"}
SetUpFirst ==
  \A c \in Cpus :
    (place[c] \in AfterWait \/ (ticket[c] > 0 /\ place[c] # "wait"))
      => ready /\ cfg = 2 /\ fb /\ uart = "ready"

\* A processor that has halted leaves no lock behind; one that panicked and
\* has said so leaves at most MAPPER.
LocksLeft ==
  \A c \in Cpus :
    /\ place[c] \in {"hlt", "dead"} => lock.com1 # c /\ lock.term # c
    /\ place[c] = "hlt" => lock.mapper # c

\* Every processor comes through its boot, unless one of them panics.
EverybodyBoots ==
  <>(\E c \in Cpus : Panicked(c)) \/ \A c \in Cpus : <>(place[c] = "hlt")

\* A panic is reported and the processor halts, whatever the others are doing
\* and whoever has panicked before, if the console can work at all.
PanicsHalt ==
  \A c \in Cpus : (Panicked(c) /\ given.fb /\ given.chip) ~> place[c] = "dead"
=============================================================================
