----------------------------- MODULE BootProofs ------------------------------
(***************************************************************************)
(* Proofs about Boot, for any number of processors and any sizes.          *)
(***************************************************************************)
EXTENDS Boot, FiniteSetTheorems, TLAPS

PrintPlaces == {"print", "uart init", "uart write", "term", "term write"}
Returns == {"greeted", "cfg", "heap", "int 13", "hlt", "dead"}
Early == {"start", "frame buffer", "greeted", "cfg", "cfg write", "setup", "publish", "wait",
          "stack", "map stack", "init"}

Started == {c \in Cpus : place[c] # "start"}
Numbered == {c \in Cpus : number[c] # -1}

\* Where a processor is, or will be when its print returns.
At(c, where) == place[c] \in where \/ (place[c] \in PrintPlaces /\ then[c] \in where)

\* A print returns to one of the places that it is called from; a ticket is
\* drawn once from each counter, and the counters count the processors.
Counted ==
  /\ \A c \in Cpus : place[c] \in PrintPlaces => then[c] \in Returns
  /\ \A c \in Cpus : place[c] # "start" => ticket[c] # -1
  /\ \A c \in Cpus : At(c, Early) => number[c] = -1
  /\ \A c \in Cpus : At(c, {"heap", "map heap"}) => number[c] # -1
  /\ next.start = Cardinality(Started)
  /\ next.init = Cardinality(Numbered)

\* Tickets and numbers are given out once, and before memory is mapped.
Distinct ==
  /\ \A c, d \in Cpus : (c # d /\ ticket[c] # -1) => ticket[c] # ticket[d]
  /\ \A c, d \in Cpus : (c # d /\ number[c] # -1) => number[c] # number[d]
  /\ \A c \in stacks : ticket[c] # -1
  /\ \A c \in Cpus : heap[c] # 0 => number[c] # -1

\* What the bootstrap processor has set up by the time it is at each place,
\* and that publishing the tables comes after all of it.
AllSetUp == ready /\ cfg = 2 /\ fb /\ uart = "ready"
CpuOrdered(c) ==
  /\ place[c] \in {"uart write", "term", "term write"} => uart = "ready"
  /\ At(c, {"greeted", "cfg"}) => fb
  /\ place[c] \in {"greeted", "cfg", "cfg write"} => fb /\ uart = "ready"
  /\ place[c] = "setup" => cfg = 2 /\ fb /\ uart = "ready"
  /\ place[c] = "publish" => AllSetUp
  /\ At(c, AfterWait) => pml4
  /\ (ticket[c] > 0 /\ place[c] # "wait") => pml4
Ordered ==
  /\ pml4 => AllSetUp
  /\ \A c \in Cpus : CpuOrdered(c)

IInv == BootTypeOK /\ Counted /\ Distinct /\ Ordered

LEMMA CpusFinite == IsFiniteSet(Cpus) /\ Cardinality(Cpus) \in Nat
  BY BootArguments, FS_CardinalityType

LEMMA Sizes ==
  /\ max_arena_size \in Nat
  /\ heap_init_size \in 1..max_arena_size
  /\ \A size \in 0..max_arena_size : lgr_size(size) \in 0..max_arena_size
  /\ lgr_size(0) = 0
  BY BootArguments DEF max_arena_size, lgr_size

\* Counting: a set of processors gains one that was not in it.
LEMMA OneMore ==
  ASSUME NEW S \in SUBSET Cpus, NEW c \in Cpus, c \notin S
  PROVE  /\ Cardinality(S) \in Nat
         /\ Cardinality(S \cup {c}) = Cardinality(S) + 1
         /\ Cardinality(S) + 1 <= Cardinality(Cpus)
  <1>1. IsFiniteSet(S)
    BY CpusFinite, FS_Subset
  <1>2. Cardinality(S \cup {c}) = Cardinality(S) + 1
    BY <1>1, FS_AddElement
  <1>3. Cardinality(S \cup {c}) <= Cardinality(Cpus)
    BY CpusFinite, FS_Subset
  <1> QED
    BY <1>1, <1>2, <1>3, FS_CardinalityType

LEMMA Initial == BootInit => IInv
  <1> SUFFICES ASSUME BootInit PROVE IInv
    OBVIOUS
  <1> USE DEF BootInit
  <1>1. Started = {} /\ Numbered = {}
    BY DEF Started, Numbered
  <1>2. Counted
    BY <1>1, FS_EmptySet DEF Counted, At, PrintPlaces, Early
  <1>3. BootTypeOK
    <2>1. place \in [Cpus -> Places] /\ then \in [Cpus -> Places]
      BY DEF Places
    <2>2. lock \in [com1 : Cpus \cup {Nobody}, term : Cpus \cup {Nobody}, mapper : Cpus \cup {Nobody}]
      OBVIOUS
    <2>3. heap \in [Cpus -> 0..max_arena_size]
      BY Sizes
    <2>4. /\ next \in [start : 0..Cardinality(Cpus), init : 0..Cardinality(Cpus)]
          /\ ticket \in [Cpus -> -1..(next.start - 1)] /\ number \in [Cpus -> -1..(next.init - 1)]
      BY CpusFinite
    <2>5. /\ given \in [fb : BOOLEAN, cfg : BOOLEAN, mmap : BOOLEAN, chip : BOOLEAN]
          /\ fb \in BOOLEAN /\ pml4 \in BOOLEAN /\ ready \in BOOLEAN
      BY Zenon
    <2>6. cfg \in 0..2 /\ uart \in {"unused", "starting", "ready"} /\ frames \in 0..MaxMaps /\ stacks \subseteq Cpus
      OBVIOUS
    <2> HIDE DEF BootInit
    <2> QED
      BY ONLY <2>1, <2>2, <2>3, <2>4, <2>5, <2>6 DEF BootTypeOK
  <1>4. Distinct
    BY DEF Distinct
  <1>5. Ordered
    BY DEF Ordered, CpuOrdered, At, PrintPlaces, AfterWait
  <1> QED
    BY <1>2, <1>3, <1>4, <1>5 DEF IInv

\* The actions that draw no ticket.
Plain(c) ==
  \/ TryUart(c) \/ InitUart(c) \/ WriteUart(c) \/ LockTerm(c) \/ WriteTerm(c)
  \/ SetFrameBuffer(c) \/ PrintGlyph(c) \/ ClaimCfg(c) \/ WriteCfg(c)
  \/ SetUpMapper(c) \/ Publish(c) \/ AwaitTables(c)
  \/ LockMapper(c, "stack", "map stack") \/ LockMapper(c, "heap", "map heap")
  \/ LockMapper(c, "more", "map more")
  \/ NoFrames(c) \/ MapStack(c) \/ MapHeap(c)
  \/ SetUpTables(c) \/ MapMore(c) \/ BreakPoint(c) \/ ProtectionFault(c)

\* Where the plain actions lead: no processor goes back to the start, and
\* what was early, or about to map its heap, keeps to its order.
Follows(c) ==
  /\ place[c] # "start"
  /\ \E where \in Places \ {"start"} : place' = [place EXCEPT ![c] = where]
  /\ \E where \in Places : then' = [then EXCEPT ![c] = where]
  /\ place'[c] \in PrintPlaces => then'[c] \in Returns
  /\ At(c, Early)' => At(c, Early)
  /\ At(c, {"heap", "map heap"})' => At(c, {"heap", "map heap"})
  /\ UNCHANGED tickets

LEMMA PlainFollows ==
  ASSUME BootTypeOK, Counted, NEW c \in Cpus, Plain(c)
  PROVE  Follows(c)
  <1>0. place \in [Cpus -> Places] /\ then \in [Cpus -> Places]
    BY DEF BootTypeOK
  <1>1. then = [then EXCEPT ![c] = then[c]]
    BY <1>0
  <1> USE DEF Goto, Println, Panic, At, Follows, Places, PrintPlaces, Returns, Early
  <1>2. CASE TryUart(c)
    BY ZenonT(60), <1>0, <1>1, <1>2 DEF TryUart, Counted
  <1>3. CASE InitUart(c)
    BY ZenonT(60), <1>0, <1>1, <1>3 DEF InitUart, Counted
  <1>4. CASE WriteUart(c)
    BY ZenonT(60), <1>0, <1>1, <1>4 DEF WriteUart, Counted
  <1>5. CASE LockTerm(c)
    BY ZenonT(60), <1>0, <1>1, <1>5 DEF LockTerm, Counted
  <1>6. CASE WriteTerm(c)
    BY ZenonT(60), <1>0, <1>1, <1>6 DEF WriteTerm, Counted
  <1>7. CASE SetFrameBuffer(c) \/ PrintGlyph(c)
    BY ZenonT(60), <1>0, <1>1, <1>7 DEF SetFrameBuffer, PrintGlyph, tickets
  <1>8. CASE ClaimCfg(c) \/ WriteCfg(c)
    BY ZenonT(60), <1>0, <1>1, <1>8 DEF ClaimCfg, WriteCfg, tickets
  <1>9. CASE SetUpMapper(c) \/ Publish(c) \/ AwaitTables(c)
    BY ZenonT(60), <1>0, <1>1, <1>9 DEF SetUpMapper, Publish, AwaitTables, tickets
  <1>10. CASE \/ LockMapper(c, "stack", "map stack") \/ LockMapper(c, "heap", "map heap")
              \/ LockMapper(c, "more", "map more")
    BY ZenonT(60), <1>0, <1>1, <1>10 DEF LockMapper, tickets
  <1>11. CASE NoFrames(c) \/ BreakPoint(c) \/ ProtectionFault(c)
    BY ZenonT(60), <1>0, <1>1, <1>11 DEF NoFrames, BreakPoint, ProtectionFault, tickets
  <1>12. CASE MapStack(c) \/ MapHeap(c) \/ MapMore(c)
    BY ZenonT(60), <1>0, <1>1, <1>12 DEF MapStack, MapHeap, MapMore, Mapped, tickets
  <1>13. CASE SetUpTables(c)
    BY ZenonT(60), <1>0, <1>1, <1>13 DEF SetUpTables, tickets
  <1> QED
    BY <1>2, <1>3, <1>4, <1>5, <1>6, <1>7, <1>8, <1>9, <1>10, <1>11, <1>12, <1>13, Zenon DEF Plain

\* The counters after an action that draws no ticket.
LEMMA PlainCounts ==
  ASSUME IInv, NEW c \in Cpus, Follows(c)
  PROVE  Counted'
  <1>0. place \in [Cpus -> Places] /\ then \in [Cpus -> Places]
    BY DEF IInv, BootTypeOK
  <1>1. /\ \A d \in Cpus \ {c} : place'[d] = place[d] /\ then'[d] = then[d]
        /\ place'[c] # "start" /\ place[c] # "start"
        /\ ticket' = ticket /\ number' = number /\ next' = next
    BY <1>0, Zenon DEF Follows, tickets
  <1>2. Started' = Started /\ Numbered' = Numbered
    BY <1>1 DEF Started, Numbered
  <1>3. \A d \in Cpus : At(d, Early)' => At(d, Early)
    BY <1>1, Zenon DEF Follows, At
  <1>4. \A d \in Cpus : At(d, {"heap", "map heap"})' => At(d, {"heap", "map heap"})
    BY <1>1, Zenon DEF Follows, At
  <1>5. \A d \in Cpus : place'[d] \in PrintPlaces => then'[d] \in Returns
    BY <1>1, Zenon DEF Follows, IInv, Counted
  <1> QED
    BY <1>1, <1>2, <1>3, <1>4, <1>5, Zenon DEF IInv, Counted

\* The values that the plain actions give the shared variables.
FlagsSet ==
  /\ given' = given
  /\ (fb' = fb \/ fb' = TRUE)
  /\ cfg' \in {cfg, 1, 2}
  /\ (pml4' = pml4 \/ pml4' = TRUE)
  /\ (ready' = ready \/ ready' = TRUE)
  /\ uart' \in {uart, "starting", "ready"}
LockSet(c) ==
  \/ lock' = lock
  \/ \E who \in {c, Nobody} : \/ lock' = [lock EXCEPT !.com1 = who]
                              \/ lock' = [lock EXCEPT !.term = who]
                              \/ lock' = [lock EXCEPT !.mapper = who]
MemorySet(c) ==
  /\ frames' = frames \/ (frames > 0 /\ frames' = frames - 1)
  /\ stacks' = stacks \/ stacks' = stacks \cup {c}
  /\ \/ heap' = heap
     \/ place[c] = "map heap" /\ heap' = [heap EXCEPT ![c] = heap_init_size]
     \/ heap' = [heap EXCEPT ![c] = lgr_size(@)]

LEMMA PlainTypes ==
  ASSUME NEW c \in Cpus, Plain(c)
  PROVE  FlagsSet /\ LockSet(c) /\ MemorySet(c)
  <1> USE DEF console, memory, shared, FlagsSet, LockSet, MemorySet
  <1>1. CASE TryUart(c) \/ InitUart(c) \/ WriteUart(c)
    BY <1>1, Zenon DEF TryUart, InitUart, WriteUart
  <1>2. CASE LockTerm(c) \/ WriteTerm(c)
    BY <1>2, Zenon DEF LockTerm, WriteTerm
  <1>3. CASE SetFrameBuffer(c) \/ PrintGlyph(c) \/ ClaimCfg(c) \/ WriteCfg(c)
    BY <1>3, Zenon DEF SetFrameBuffer, PrintGlyph, ClaimCfg, WriteCfg
  <1>4. CASE SetUpMapper(c) \/ Publish(c) \/ AwaitTables(c)
    BY <1>4, Zenon DEF SetUpMapper, Publish, AwaitTables
  <1>5. CASE \/ LockMapper(c, "stack", "map stack") \/ LockMapper(c, "heap", "map heap")
             \/ LockMapper(c, "more", "map more")
    BY <1>5, Zenon DEF LockMapper
  <1>6. CASE NoFrames(c) \/ BreakPoint(c) \/ ProtectionFault(c) \/ SetUpTables(c)
    BY <1>6, Zenon DEF NoFrames, BreakPoint, ProtectionFault, SetUpTables
  <1>7. CASE MapStack(c)
    BY <1>7, Zenon DEF MapStack, Mapped
  <1>8. CASE MapHeap(c)
    BY <1>8, Zenon DEF MapHeap, Mapped
  <1>9. CASE MapMore(c)
    BY <1>9, Zenon DEF MapMore, Mapped
  <1> QED
    BY <1>1, <1>2, <1>3, <1>4, <1>5, <1>6, <1>7, <1>8, <1>9, Zenon DEF Plain

LEMMA PlainTyped ==
  ASSUME IInv, NEW c \in Cpus, Follows(c), FlagsSet, LockSet(c), MemorySet(c)
  PROVE  BootTypeOK'
  <1>0. BootTypeOK
    BY DEF IInv
  <1>1. place' \in [Cpus -> Places] /\ then' \in [Cpus -> Places]
    <2>1. place \in [Cpus -> Places] /\ then \in [Cpus -> Places]
      BY <1>0 DEF BootTypeOK
    <2> QED
      BY <2>1, Zenon DEF Follows
  <1>2. /\ next' \in [start : 0..Cardinality(Cpus), init : 0..Cardinality(Cpus)]
        /\ ticket' \in [Cpus -> -1..(next'.start - 1)] /\ number' \in [Cpus -> -1..(next'.init - 1)]
    BY <1>0, Zenon DEF BootTypeOK, Follows, tickets
  <1>3. /\ given' \in [fb : BOOLEAN, cfg : BOOLEAN, mmap : BOOLEAN, chip : BOOLEAN]
        /\ fb' \in BOOLEAN /\ pml4' \in BOOLEAN /\ ready' \in BOOLEAN
    BY <1>0, Zenon DEF BootTypeOK, FlagsSet
  <1>4. cfg' \in 0..2 /\ uart' \in {"unused", "starting", "ready"}
    BY <1>0 DEF BootTypeOK, FlagsSet
  <1>5. lock' \in [com1 : Cpus \cup {Nobody}, term : Cpus \cup {Nobody}, mapper : Cpus \cup {Nobody}]
    BY <1>0 DEF BootTypeOK, LockSet
  <1>6. frames' \in 0..MaxMaps /\ stacks' \subseteq Cpus
    <2>1. frames \in 0..MaxMaps /\ stacks \subseteq Cpus /\ MaxMaps \in Nat
      BY <1>0, BootArguments DEF BootTypeOK
    <2>2. frames' = frames \/ (frames > 0 /\ frames' = frames - 1)
      BY Zenon DEF MemorySet
    <2>3. stacks' = stacks \/ stacks' = stacks \cup {c}
      BY Zenon DEF MemorySet
    <2>4. frames' \in 0..MaxMaps
      BY ONLY <2>1, <2>2
    <2> QED
      BY ONLY <2>1, <2>3, <2>4, c \in Cpus
  <1>7. heap' \in [Cpus -> 0..max_arena_size]
    <2>1. heap \in [Cpus -> 0..max_arena_size]
      BY <1>0 DEF BootTypeOK
    <2>2. \E size \in 0..max_arena_size : heap' = heap \/ heap' = [heap EXCEPT ![c] = size]
      <3>1. heap_init_size \in 0..max_arena_size /\ lgr_size(heap[c]) \in 0..max_arena_size
        BY <2>1, Sizes
      <3>2. \/ heap' = heap
            \/ heap' = [heap EXCEPT ![c] = heap_init_size]
            \/ heap' = [heap EXCEPT ![c] = lgr_size(heap[c])]
        BY <2>1, Zenon DEF MemorySet
      <3> QED
        BY ONLY <3>1, <3>2
    <2> QED
      BY ONLY <2>1, <2>2, c \in Cpus
  <1> QED
    BY ONLY <1>1, <1>2, <1>3, <1>4, <1>5, <1>6, <1>7 DEF BootTypeOK

LEMMA PlainDistinct ==
  ASSUME IInv, NEW c \in Cpus, Follows(c), MemorySet(c)
  PROVE  Distinct'
  <1>1. ticket' = ticket /\ number' = number
    BY Zenon DEF Follows, tickets
  <1>2. ticket[c] # -1 /\ (place[c] = "map heap" => number[c] # -1)
    BY Zenon DEF Follows, IInv, Counted, At
  <1>3. \A d \in stacks' : ticket'[d] # -1
    BY <1>1, <1>2, Zenon DEF MemorySet, IInv, Distinct
  <1>4. \A d \in Cpus : heap'[d] # 0 => number'[d] # -1
    BY ZenonT(60), <1>1, <1>2, Sizes DEF MemorySet, IInv, Distinct, BootTypeOK
  <1> QED
    BY <1>1, <1>3, <1>4 DEF IInv, Distinct

\* What is set up stays set up.
Stays ==
  /\ fb => fb'
  /\ cfg = 2 => cfg' = 2
  /\ ready => ready'
  /\ pml4 => pml4'
  /\ uart = "ready" => uart' = "ready"

LEMMA PlainOrder ==
  ASSUME IInv, NEW c \in Cpus, Plain(c)
  PROVE  Stays /\ CpuOrdered(c)' /\ (pml4' => AllSetUp')
  <1>0. /\ place \in [Cpus -> Places] /\ then \in [Cpus -> Places]
        /\ CpuOrdered(c) /\ (pml4 => AllSetUp)
        /\ place[c] \in PrintPlaces => then[c] \in Returns
    BY Zenon DEF IInv, BootTypeOK, Ordered, Counted
  <1> USE DEF Goto, Println, Panic, At, Places, PrintPlaces, Returns, AfterWait,
              Stays, CpuOrdered, AllSetUp, console, shared, tickets
  <1>1. CASE TryUart(c)
    BY <1>0, <1>1, ZenonT(40) DEF TryUart
  <1>2. CASE InitUart(c)
    BY <1>0, <1>2, ZenonT(40) DEF InitUart
  <1>3. CASE WriteUart(c)
    BY <1>0, <1>3, Zenon DEF WriteUart
  <1>4. CASE LockTerm(c)
    BY <1>0, <1>4, Zenon DEF LockTerm
  <1>5. CASE WriteTerm(c)
    BY <1>0, <1>5, ZenonT(40) DEF WriteTerm
  <1>6. CASE SetFrameBuffer(c)
    BY <1>0, <1>6, ZenonT(40) DEF SetFrameBuffer
  <1>7. CASE PrintGlyph(c)
    BY <1>0, <1>7, Zenon DEF PrintGlyph
  <1>8. CASE ClaimCfg(c)
    <2>1. cfg = 0 /\ cfg' = 1
      BY <1>8, Zenon DEF ClaimCfg
    <2>2. cfg # 2 /\ cfg' # 2
      BY ONLY <2>1
    <2>3. ~pml4
      BY <1>0, <2>2, Zenon
    <2>4. place[c] = "cfg" /\ place' = [place EXCEPT ![c] = "cfg write"]
      BY <1>8, Zenon DEF ClaimCfg
    <2>5. place'[c] = "cfg write"
      BY <1>0, <2>4, Zenon
    <2>6. fb /\ uart = "ready"
      BY <1>0, <2>4, Zenon
    <2>7. UNCHANGED <<fb, ready, pml4, uart, ticket>>
      BY <1>8, Zenon DEF ClaimCfg
    <2>8. ~(ticket'[c] > 0) /\ ~pml4'
      BY <1>0, <2>3, <2>4, <2>7, Zenon
    <2> QED
      BY <2>2, <2>5, <2>6, <2>7, <2>8, Zenon
  <1>9. CASE WriteCfg(c)
    BY <1>0, <1>9, ZenonT(40) DEF WriteCfg
  <1>10. CASE SetUpMapper(c)
    BY <1>0, <1>10, ZenonT(40) DEF SetUpMapper
  <1>11. CASE Publish(c)
    BY <1>0, <1>11, Zenon DEF Publish
  <1>12. CASE AwaitTables(c)
    BY <1>0, <1>12, Zenon DEF AwaitTables
  <1>13. CASE \/ LockMapper(c, "stack", "map stack") \/ LockMapper(c, "heap", "map heap")
              \/ LockMapper(c, "more", "map more")
    BY <1>0, <1>13, Zenon DEF LockMapper
  <1>14. CASE NoFrames(c) \/ BreakPoint(c) \/ ProtectionFault(c)
    BY <1>0, <1>14, Zenon DEF NoFrames, BreakPoint, ProtectionFault
  <1>15. CASE SetUpTables(c)
    BY <1>0, <1>15, Zenon DEF SetUpTables
  <1>16. CASE MapStack(c) \/ MapHeap(c) \/ MapMore(c)
    BY <1>0, <1>16, Zenon DEF MapStack, MapHeap, MapMore, Mapped
  <1> QED
    BY <1>1, <1>2, <1>3, <1>4, <1>5, <1>6, <1>7, <1>8, <1>9, <1>10, <1>11, <1>12, <1>13,
       <1>14, <1>15, <1>16, Zenon DEF Plain

\* A plain action keeps the invariant.
LEMMA PlainKeeps ==
  ASSUME IInv, NEW c \in Cpus, Plain(c)
  PROVE  IInv'
  <1>1. Follows(c)
    BY PlainFollows DEF IInv
  <1>2. FlagsSet /\ LockSet(c) /\ MemorySet(c)
    BY PlainTypes
  <1>3. BootTypeOK' /\ Counted' /\ Distinct'
    BY <1>1, <1>2, PlainTyped, PlainCounts, PlainDistinct
  <1>4. Stays /\ CpuOrdered(c)' /\ (pml4' => AllSetUp')
    BY PlainOrder
  <1>5. \A d \in Cpus \ {c} : CpuOrdered(d)'
    <2>1. \A d \in Cpus \ {c} : place'[d] = place[d] /\ then'[d] = then[d] /\ ticket'[d] = ticket[d]
      BY <1>1, Zenon DEF IInv, BootTypeOK, Follows, tickets
    <2> SUFFICES ASSUME NEW d \in Cpus \ {c} PROVE CpuOrdered(d)'
      OBVIOUS
    <2>2. CpuOrdered(d)
      BY DEF IInv, Ordered
    <2> QED
      BY <1>4, <2>1, <2>2, Zenon DEF CpuOrdered, Stays, AllSetUp, At
  <1> QED
    BY <1>3, <1>4, <1>5 DEF IInv, Ordered

\* The first ticket: one processor more has started.
LEMMA TicketKeeps ==
  ASSUME IInv, NEW c \in Cpus, TakeTicket(c)
  PROVE  IInv'
  <1>0. BootTypeOK /\ Counted /\ Distinct /\ Ordered
    BY DEF IInv
  <1>1. /\ place[c] = "start" /\ place \in [Cpus -> Places]
        /\ place' = [place EXCEPT ![c] = IF next.start = 0 THEN "frame buffer" ELSE "wait"]
        /\ ticket' = [ticket EXCEPT ![c] = next.start]
        /\ next' = [next EXCEPT !.start = @ + 1]
        /\ UNCHANGED <<then, given, number, fb, cfg, pml4, ready, uart, lock, frames, stacks, heap>>
    BY <1>0, Zenon DEF TakeTicket, Goto, BootTypeOK, shared, console, memory
  <1>2. Started' = Started \cup {c} /\ c \notin Started /\ Numbered' = Numbered
    BY <1>1, Zenon DEF Started, Numbered
  <1>3. next.start \in Nat /\ next.start + 1 <= Cardinality(Cpus) /\ Cardinality(Cpus) \in Nat
    BY <1>0, <1>2, OneMore, CpusFinite, Zenon DEF Counted, Started
  <1>4. next'.start = next.start + 1 /\ next'.init = next.init
    BY <1>0, <1>1, Zenon DEF BootTypeOK
  <1>5. \A d \in Cpus \ {c} : place'[d] = place[d] /\ ticket'[d] = ticket[d]
    BY <1>0, <1>1, Zenon DEF BootTypeOK
  <1>6. place'[c] \in {"frame buffer", "wait"}
    BY <1>0, <1>1, Zenon DEF BootTypeOK
  <1>7. ticket'[c] = next.start
    BY <1>0, <1>1, Zenon DEF BootTypeOK
  <1>8. next.start \in Nat
    BY <1>3
  <1>9. ticket'[c] # -1
    BY <1>8, <1>7
  <1>10. BootTypeOK'
    <2>1. place' \in [Cpus -> Places] /\ then' \in [Cpus -> Places]
      BY <1>0, <1>1, Zenon DEF BootTypeOK, Places
    <2>2. next' \in [start : 0..Cardinality(Cpus), init : 0..Cardinality(Cpus)]
      <3>1. next \in [start : 0..Cardinality(Cpus), init : 0..Cardinality(Cpus)]
        BY <1>0 DEF BootTypeOK
      <3>2. next' = [next EXCEPT !.start = @ + 1]
        BY <1>1, Zenon
      <3> QED
        BY ONLY <1>3, <3>1, <3>2
    <2>3. ticket' \in [Cpus -> -1..(next'.start - 1)]
      <3>1. ticket \in [Cpus -> -1..(next.start - 1)]
        BY <1>0 DEF BootTypeOK
      <3>2. ticket' = [ticket EXCEPT ![c] = next.start]
        BY <1>1, Zenon
      <3>3. next'.start = next.start + 1
        BY <1>4
      <3> QED
        BY ONLY <1>8, <3>1, <3>2, <3>3
    <2>4. number' \in [Cpus -> -1..(next'.init - 1)]
      BY <1>0, <1>1, <1>4, Zenon DEF BootTypeOK
    <2>5. /\ given' \in [fb : BOOLEAN, cfg : BOOLEAN, mmap : BOOLEAN, chip : BOOLEAN]
          /\ fb' \in BOOLEAN /\ pml4' \in BOOLEAN /\ ready' \in BOOLEAN
      BY <1>0, <1>1, Zenon DEF BootTypeOK
    <2>6. cfg' \in 0..2 /\ uart' \in {"unused", "starting", "ready"} /\ frames' \in 0..MaxMaps
      BY <1>0, <1>1, Zenon DEF BootTypeOK
    <2>7. /\ lock' \in [com1 : Cpus \cup {Nobody}, term : Cpus \cup {Nobody}, mapper : Cpus \cup {Nobody}]
          /\ stacks' \subseteq Cpus /\ heap' \in [Cpus -> 0..max_arena_size]
      BY <1>0, <1>1, Zenon DEF BootTypeOK
    <2> QED
      BY ONLY <2>1, <2>2, <2>3, <2>4, <2>5, <2>6, <2>7 DEF BootTypeOK
  <1>11. Counted'
    <2>1. \A d \in Cpus : place'[d] \in PrintPlaces => then'[d] \in Returns
      BY <1>0, <1>1, <1>5, <1>6, Zenon DEF Counted, PrintPlaces
    <2>2. \A d \in Cpus : place'[d] # "start" => ticket'[d] # -1
      BY <1>0, <1>5, <1>9, Zenon DEF Counted
    <2>3. \A d \in Cpus : At(d, Early)' => number'[d] = -1
      BY <1>0, <1>1, <1>5, Zenon DEF Counted, At, Early, PrintPlaces
    <2>4. \A d \in Cpus : At(d, {"heap", "map heap"})' => number'[d] # -1
      BY <1>0, <1>1, <1>5, <1>6, Zenon DEF Counted, At, PrintPlaces
    <2>5. next'.start = Cardinality(Started')
      BY <1>0, <1>2, <1>4, OneMore, Zenon DEF Counted, Started
    <2> QED
      BY <1>0, <1>2, <1>4, <2>1, <2>2, <2>3, <2>4, <2>5, Zenon DEF Counted
  <1>12. Distinct'
    <2>1. \A d \in Cpus : ticket[d] < next.start /\ ticket[d] \in Int
      BY <1>0, <1>3 DEF BootTypeOK
    <2>3. \A d, e \in Cpus : (d # e /\ ticket'[d] # -1) => ticket'[d] # ticket'[e]
      BY <1>0, <1>5, <1>8, <1>7, <2>1 DEF Distinct
    <2>4. \A d \in stacks' : ticket'[d] # -1
      BY <1>0, <1>1, <1>5, <1>9, Zenon DEF Distinct, BootTypeOK
    <2> QED
      BY <1>0, <1>1, <2>3, <2>4, Zenon DEF Distinct
  <1>13. Ordered'
    <2>1. AllSetUp' = AllSetUp /\ pml4' = pml4 /\ fb' = fb /\ uart' = uart /\ cfg' = cfg
      BY <1>1, Zenon DEF AllSetUp
    <2>2. \A d \in Cpus \ {c} : CpuOrdered(d)'
      <3> SUFFICES ASSUME NEW d \in Cpus \ {c} PROVE CpuOrdered(d)'
        OBVIOUS
      <3>1. CpuOrdered(d)
        BY <1>0 DEF Ordered
      <3>2. then'[d] = then[d]
        BY <1>1, Zenon
      <3> QED
        BY <1>5, <2>1, <3>1, <3>2, Zenon DEF CpuOrdered, At
    <2>3. CpuOrdered(c)'
      <3>1. place'[c] = "wait" \/ (place'[c] = "frame buffer" /\ ~(ticket'[c] > 0))
        <4>1. CASE next.start = 0
          <5>1. ~(ticket'[c] > 0)
            BY <1>7, <4>1
          <5> QED
            BY <1>1, <4>1, <5>1, Zenon
        <4>2. CASE next.start # 0
          BY <1>1, <4>2
        <4> QED
          BY <4>1, <4>2, Zenon
      <3> QED
        BY <3>1, Zenon DEF CpuOrdered, At, PrintPlaces, AfterWait
    <2> QED
      BY <1>0, <2>1, <2>2, <2>3 DEF Ordered
  <1> QED
    BY <1>10, <1>11, <1>12, <1>13 DEF IInv

\* The second ticket: one processor more has a number.
LEMMA NumberKeeps ==
  ASSUME IInv, NEW c \in Cpus, TakeNumber(c)
  PROVE  IInv'
  <1>0. BootTypeOK /\ Counted /\ Distinct /\ Ordered
    BY DEF IInv
  <1>1. /\ place[c] = "init" /\ place \in [Cpus -> Places] /\ then \in [Cpus -> Places]
        /\ place' = [place EXCEPT ![c] = "print"]
        /\ then' = [then EXCEPT ![c] = "heap"]
        /\ number' = [number EXCEPT ![c] = next.init]
        /\ next' = [next EXCEPT !.init = @ + 1]
        /\ UNCHANGED <<given, ticket, fb, cfg, pml4, ready, uart, lock, frames, stacks, heap>>
    BY <1>0 DEF TakeNumber, Println, BootTypeOK, shared, console, memory
  <1>2. /\ \A d \in Cpus \ {c} : place'[d] = place[d] /\ then'[d] = then[d] /\ number'[d] = number[d]
        /\ place'[c] = "print" /\ then'[c] = "heap"
    BY <1>0, <1>1 DEF BootTypeOK
  <1>3. number[c] = -1
    BY <1>0, <1>1, Zenon DEF Counted, At, Early
  <1>4. next.init \in Nat /\ next.init + 1 <= Cardinality(Cpus) /\ Cardinality(Cpus) \in Nat
    <2>1. c \notin Numbered /\ Numbered \in SUBSET Cpus
      BY <1>3 DEF Numbered
    <2>2. next.init = Cardinality(Numbered)
      BY <1>0, Zenon DEF Counted
    <2> QED
      BY <2>1, <2>2, OneMore, CpusFinite, Zenon
  <1>5. next.init \in Nat
    BY <1>4
  <1>6. number'[c] = next.init
    BY <1>0, <1>1 DEF BootTypeOK
  <1>7. number'[c] # -1
    BY <1>5, <1>6
  <1>8. next'.init = next.init + 1 /\ next'.start = next.start
    BY <1>0, <1>1 DEF BootTypeOK
  <1>9. Started' = Started /\ Numbered' = Numbered \cup {c} /\ c \notin Numbered
    BY <1>1, <1>2, <1>3, <1>7 DEF Started, Numbered
  <1>10. BootTypeOK'
    <2>1. place' \in [Cpus -> Places] /\ then' \in [Cpus -> Places]
      BY <1>1, Zenon DEF Places
    <2>2. next' \in [start : 0..Cardinality(Cpus), init : 0..Cardinality(Cpus)]
      <3>1. next \in [start : 0..Cardinality(Cpus), init : 0..Cardinality(Cpus)]
        BY <1>0 DEF BootTypeOK
      <3>2. next' = [next EXCEPT !.init = @ + 1]
        BY <1>1
      <3> QED
        BY ONLY <1>4, <3>1, <3>2
    <2>3. number' \in [Cpus -> -1..(next'.init - 1)]
      <3>1. number \in [Cpus -> -1..(next.init - 1)]
        BY <1>0 DEF BootTypeOK
      <3>2. number' = [number EXCEPT ![c] = next.init]
        BY <1>1
      <3>3. next'.init = next.init + 1
        BY <1>8
      <3> QED
        BY ONLY <1>5, <3>1, <3>2, <3>3
    <2>4. ticket' \in [Cpus -> -1..(next'.start - 1)]
      BY <1>0, <1>1, <1>8 DEF BootTypeOK
    <2>5. /\ given' \in [fb : BOOLEAN, cfg : BOOLEAN, mmap : BOOLEAN, chip : BOOLEAN]
          /\ fb' \in BOOLEAN /\ pml4' \in BOOLEAN /\ ready' \in BOOLEAN
      BY <1>0, <1>1, Zenon DEF BootTypeOK
    <2>6. cfg' \in 0..2 /\ uart' \in {"unused", "starting", "ready"} /\ frames' \in 0..MaxMaps
      BY <1>0, <1>1 DEF BootTypeOK
    <2>7. /\ lock' \in [com1 : Cpus \cup {Nobody}, term : Cpus \cup {Nobody}, mapper : Cpus \cup {Nobody}]
          /\ stacks' \subseteq Cpus /\ heap' \in [Cpus -> 0..max_arena_size]
      BY <1>0, <1>1 DEF BootTypeOK
    <2> QED
      BY ONLY <2>1, <2>2, <2>3, <2>4, <2>5, <2>6, <2>7 DEF BootTypeOK
  <1>11. Counted'
    <2>1. \A d \in Cpus : place'[d] \in PrintPlaces => then'[d] \in Returns
      BY <1>0, <1>2, Zenon DEF Counted, PrintPlaces, Returns
    <2>2. \A d \in Cpus : place'[d] # "start" => ticket'[d] # -1
      BY <1>0, <1>1, <1>2, Zenon DEF Counted
    <2>3. \A d \in Cpus : At(d, Early)' => number'[d] = -1
      BY <1>0, <1>2, Zenon DEF Counted, At, Early, PrintPlaces
    <2>4. \A d \in Cpus : At(d, {"heap", "map heap"})' => number'[d] # -1
      BY <1>0, <1>2, <1>7, Zenon DEF Counted, At, PrintPlaces
    <2>5. next'.init = Cardinality(Numbered')
      <3>1. next.init = Cardinality(Numbered) /\ Numbered \in SUBSET Cpus
        BY <1>0, Zenon DEF Counted, Numbered
      <3> QED
        BY <1>8, <1>9, <3>1, OneMore
    <2> QED
      BY <1>0, <1>8, <1>9, <2>1, <2>2, <2>3, <2>4, <2>5, Zenon DEF Counted
  <1>12. Distinct'
    <2>1. \A d \in Cpus : number[d] < next.init /\ number[d] \in Int
      BY <1>0, <1>5 DEF BootTypeOK
    <2>2. \A d, e \in Cpus : (d # e /\ number'[d] # -1) => number'[d] # number'[e]
      BY <1>0, <1>2, <1>5, <1>6, <2>1 DEF Distinct
    <2>3. \A d \in Cpus : heap'[d] # 0 => number'[d] # -1
      BY <1>0, <1>1, <1>2, <1>7 DEF Distinct
    <2> QED
      BY <1>0, <1>1, <2>2, <2>3 DEF Distinct
  <1>13. Ordered'
    <2>1. AllSetUp' = AllSetUp /\ pml4' = pml4 /\ fb' = fb /\ uart' = uart /\ cfg' = cfg
      BY <1>1 DEF AllSetUp
    <2>2. \A d \in Cpus \ {c} : CpuOrdered(d)'
      <3> SUFFICES ASSUME NEW d \in Cpus \ {c} PROVE CpuOrdered(d)'
        OBVIOUS
      <3>1. CpuOrdered(d)
        BY <1>0 DEF Ordered
      <3>2. ticket'[d] = ticket[d]
        BY <1>1
      <3> QED
        BY <1>2, <2>1, <3>1, <3>2, Zenon DEF CpuOrdered, At
    <2>3. pml4'
      BY <1>0, <1>1, Zenon DEF Ordered, CpuOrdered, At, AfterWait
    <2>4. CpuOrdered(c)'
      BY <1>2, <2>3 DEF CpuOrdered, At
    <2> QED
      BY <1>0, <2>1, <2>2, <2>4 DEF Ordered
  <1> QED
    BY <1>10, <1>11, <1>12, <1>13 DEF IInv

LEMMA StepKeeps == IInv /\ [BootNext]_bootVars => IInv'
  <1> SUFFICES ASSUME IInv, [BootNext]_bootVars PROVE IInv'
    OBVIOUS
  <1>1. ASSUME NEW c \in Cpus, BootStep(c) PROVE IInv'
    BY <1>1, PlainKeeps, TicketKeeps, NumberKeeps, Zenon DEF BootStep, Plain
  <1>2. CASE BootStopped \/ UNCHANGED bootVars
    <2>1. UNCHANGED <<given, place, then, ticket, number, next, fb, cfg, pml4, ready, uart, lock,
                      frames, stacks, heap>>
      BY <1>2 DEF BootStopped, bootVars, tickets, shared, console, memory
    <2>2. BootTypeOK'
      BY <2>1 DEF IInv, BootTypeOK
    <2>3. Counted' /\ Distinct'
      BY <2>1, Zenon DEF IInv, Counted, At, Started, Numbered, Distinct
    <2>4. Ordered'
      BY <2>1, Zenon DEF IInv, Ordered, CpuOrdered, AllSetUp, At
    <2> QED
      BY <2>2, <2>3, <2>4 DEF IInv
  <1> QED
    BY <1>1, <1>2 DEF BootNext

\* Boot keeps the inductive invariant, whatever the number of processors.
THEOREM BootKeepsInv == BootSpec => []IInv
  BY Initial, StepKeeps, PTL DEF BootSpec

\* Every variable keeps its type; the counters of _start and init never pass
\* the number of processors.
THEOREM BootTypes == BootSpec => []BootTypeOK
  <1>1. IInv => BootTypeOK
    BY DEF IInv
  <1> QED
    BY <1>1, BootKeepsInv, PTL

\* No processor prints, reads the configuration or maps memory before the
\* bootstrap processor has set the terminal, the configuration and MAPPER up.
THEOREM NothingUsedEarly == BootSpec => []SetUpFirst
  <1>1. IInv => SetUpFirst
    BY Zenon DEF IInv, Ordered, CpuOrdered, AllSetUp, At, SetUpFirst
  <1> QED
    BY <1>1, BootKeepsInv, PTL

\* Multiples of a distance are that distance apart.
LEMMA Distance ==
  ASSUME NEW m \in Nat, NEW i \in Nat, NEW j \in Nat, i < j
  PROVE  m * j >= m * i + m
  <1>1. PICK k \in Nat : j = i + 1 + k
    <2>1. j - i - 1 \in Nat
      OBVIOUS
    <2> QED
      BY <2>1
  <1>2. m * j = m * i + m + m * k
    BY <1>1
  <1>3. m * k >= 0
    OBVIOUS
  <1>4. m * i \in Int /\ m * k \in Int
    OBVIOUS
  <1> QED
    BY <1>2, <1>3, <1>4

\* Stacks and heaps, however the heaps grow, never overlap, if the configured
\* stack_size leaves room for the stacks of all processors.
THEOREM MemoryStaysApart == RoomForStacks => (BootSpec => []MemoryApart)
  <1> SUFFICES ASSUME RoomForStacks PROVE BootSpec => []MemoryApart
    OBVIOUS
  <1> DEFINE K == KRNL_STACK_SIZE + PTE_SIZE
  <1>0. /\ K \in Nat /\ PDPTE_SIZE \in Nat /\ PTE_SIZE \in Nat /\ KRNL_STACK_SIZE \in Nat
        /\ stack_size \in Nat /\ Cardinality(Cpus) \in Nat
    BY BootArguments, CpusFinite
  <1>1. IInv => MemoryApart
    <2> SUFFICES ASSUME IInv PROVE MemoryApart
      OBVIOUS
    <2>1. \A c \in stacks : c \in Cpus /\ ticket[c] \in 0..(Cardinality(Cpus) - 1)
      <3> SUFFICES ASSUME NEW c \in stacks
                   PROVE  c \in Cpus /\ ticket[c] \in 0..(Cardinality(Cpus) - 1)
        OBVIOUS
      <3>1. c \in Cpus /\ ticket[c] # -1
        BY DEF IInv, BootTypeOK, Distinct
      <3>2. ticket[c] \in -1..(next.start - 1) /\ next.start \in 0..Cardinality(Cpus)
        BY <3>1 DEF IInv, BootTypeOK
      <3> QED
        BY ONLY <1>0, <3>1, <3>2
    <2>2. \A c \in Cpus : heap[c] # 0 => number[c] \in Nat
      <3> SUFFICES ASSUME NEW c \in Cpus, heap[c] # 0 PROVE number[c] \in Nat
        OBVIOUS
      <3>1. number[c] # -1
        BY DEF IInv, Distinct
      <3>2. number[c] \in -1..(next.init - 1) /\ next.init \in 0..Cardinality(Cpus)
        BY DEF IInv, BootTypeOK
      <3> QED
        BY ONLY <1>0, <3>1, <3>2
    <2>3. \A c \in Cpus : heap[c] \in 0..(PDPTE_SIZE - stack_size - PTE_SIZE)
      BY DEF IInv, BootTypeOK, max_arena_size
    <2>4. ASSUME NEW c \in stacks, NEW d \in stacks, c # d
          PROVE  Apart(StackSpan(c), StackSpan(d))
      <3>1. ticket[c] \in Nat /\ ticket[d] \in Nat /\ ticket[c] # ticket[d]
        BY <1>0, <2>1, <2>4 DEF IInv, Distinct
      <3>2. K * ticket[c] \in Int /\ K * ticket[d] \in Int
        BY <1>0, <3>1
      <3>3. K * ticket[d] >= K * ticket[c] + K \/ K * ticket[c] >= K * ticket[d] + K
        <4> HIDE DEF K
        <4>1. ticket[c] < ticket[d] \/ ticket[d] < ticket[c]
          BY <3>1
        <4> QED
          BY <1>0, <3>1, <4>1, Distance
      <3> QED
        BY <1>0, <3>2, <3>3 DEF Apart, StackSpan
    <2>5. ASSUME NEW c \in Cpus, NEW d \in Cpus, c # d, heap[c] # 0, heap[d] # 0
          PROVE  Apart(HeapSpan(c), HeapSpan(d))
      <3>1. number[c] \in Nat /\ number[d] \in Nat /\ number[c] # number[d]
        BY <2>2, <2>5 DEF IInv, Distinct
      <3>2. /\ PDPTE_SIZE * (2 + number[c]) \in Int /\ PDPTE_SIZE * (2 + number[d]) \in Int
            /\ heap[c] \in 0..PDPTE_SIZE /\ heap[d] \in 0..PDPTE_SIZE
        BY <1>0, <2>3, <3>1
      <3>3. \/ PDPTE_SIZE * (2 + number[d]) >= PDPTE_SIZE * (2 + number[c]) + PDPTE_SIZE
            \/ PDPTE_SIZE * (2 + number[c]) >= PDPTE_SIZE * (2 + number[d]) + PDPTE_SIZE
        <4>1. \/ 2 + number[c] < 2 + number[d]
              \/ 2 + number[d] < 2 + number[c]
          BY <3>1
        <4>2. 2 + number[c] \in Nat /\ 2 + number[d] \in Nat
          BY <3>1
        <4> QED
          BY <1>0, <4>1, <4>2, Distance
      <3> QED
        BY <1>0, <3>2, <3>3 DEF Apart, HeapSpan
    <2>6. ASSUME NEW c \in stacks, NEW d \in Cpus, heap[d] # 0
          PROVE  Apart(StackSpan(c), HeapSpan(d))
      <3>1. K * ticket[c] \in Int /\ K * ticket[c] + K <= K * Cardinality(Cpus)
        <4> HIDE DEF K
        <4>1. ticket[c] \in Nat /\ ticket[c] < Cardinality(Cpus)
          BY <1>0, <2>1
        <4> QED
          BY <1>0, <4>1, Distance
      <3>2. K * Cardinality(Cpus) <= stack_size + 2 * PTE_SIZE
        BY <1>0 DEF RoomForStacks
      <3>3. K * Cardinality(Cpus) \in Int
        BY <1>0
      <3>4. /\ PDPTE_SIZE * (2 + number[d]) \in Int
            /\ PDPTE_SIZE * (2 + number[d]) >= 2 * PDPTE_SIZE
        <4>1. number[d] \in Nat
          BY <2>2, <2>6
        <4>2. PDPTE_SIZE * number[d] \in Nat
          BY <1>0, <4>1
        <4>3. PDPTE_SIZE * (2 + number[d]) = 2 * PDPTE_SIZE + PDPTE_SIZE * number[d]
          BY <1>0, <4>1
        <4> QED
          BY <1>0, <4>2, <4>3
      <3>5. heap[d] \in 0..(PDPTE_SIZE - stack_size - PTE_SIZE)
        BY <2>3
      <3> QED
        BY <1>0, <3>1, <3>2, <3>3, <3>4, <3>5 DEF Apart, StackSpan, HeapSpan
    <2> QED
      BY <2>4, <2>5, <2>6 DEF MemoryApart
  <1> QED
    BY <1>1, BootKeepsInv, PTL

(***************************************************************************)
(* The locks.                                                              *)
(***************************************************************************)
Mapping == {"map stack", "map heap", "map more"}

\* Where a processor is while it has each lock: a print that panics for want
\* of a frame buffer keeps TERM1 and never gets past it again, and a map that
\* panics keeps MAPPER for good.
HasLocks(c) ==
  /\ lock.com1 = c <=> place[c] = "uart write"
  /\ place[c] = "term write" => lock.term = c
  /\ lock.term = c => place[c] \in PrintPlaces
  /\ place[c] \in Mapping => lock.mapper = c
  /\ lock.mapper = c => place[c] \in Mapping \/ then[c] = "dead"
  /\ then[c] = "dead" => place[c] \in PrintPlaces \cup {"dead"}
LocksInv == \A c \in Cpus : HasLocks(c)

LEMMA LocksInitial == BootInit => LocksInv
  BY BootArguments DEF BootInit, LocksInv, HasLocks, PrintPlaces, Mapping

\* A step that leaves the locks alone: where it may go without touching them.
LEMMA LocksAlone ==
  ASSUME BootTypeOK, LocksInv, NEW c \in Cpus, NEW where \in Places, NEW after \in Places,
         place' = [place EXCEPT ![c] = where], then' = [then EXCEPT ![c] = after], lock' = lock,
         place[c] # "uart write", where \notin {"uart write", "term write"} \cup Mapping,
         place[c] \in PrintPlaces => where \in PrintPlaces,
         place[c] \in Mapping => after = "dead",
         after # then[c] => where \in PrintPlaces /\ (then[c] = "dead" => after = "dead"),
         then[c] = "dead" => where \in PrintPlaces
  PROVE  LocksInv'
  <1>0. place \in [Cpus -> Places] /\ then \in [Cpus -> Places]
    BY Zenon DEF BootTypeOK
  <1> SUFFICES ASSUME NEW d \in Cpus PROVE HasLocks(d)'
    BY Zenon DEF LocksInv
  <1>1. HasLocks(d)
    BY Zenon DEF LocksInv
  <1>2. CASE d # c
    <2>1. place'[d] = place[d] /\ then'[d] = then[d]
      BY <1>0, <1>2, Zenon
    <2> QED
      BY <1>1, <2>1, Zenon DEF HasLocks
  <1>3. CASE d = c
    <2>1. place'[d] = where /\ then'[d] = after
      BY <1>0, <1>3, Zenon
    <2> QED
      BY <1>1, <1>3, <2>1, Zenon DEF HasLocks, PrintPlaces, Mapping
  <1> QED
    BY <1>2, <1>3, Zenon

\* The steps that leave the locks alone, on the paths that do.
LeavesLocks(c) ==
  \/ TryUart(c) \/ InitUart(c) \/ WriteTerm(c) \/ TakeTicket(c) \/ SetFrameBuffer(c)
  \/ PrintGlyph(c) \/ ClaimCfg(c) \/ WriteCfg(c) \/ SetUpMapper(c) \/ Publish(c)
  \/ AwaitTables(c) \/ NoFrames(c) \/ TakeNumber(c) \/ SetUpTables(c)
  \/ BreakPoint(c) \/ ProtectionFault(c)

\* The steps that take a lock or drop a guard.
TakesOrGives(c, where) ==
  \/ /\ place[c] = "print" /\ where = "uart write"
     /\ lock.com1 = Nobody /\ lock' = [lock EXCEPT !.com1 = c]
  \/ /\ place[c] = "uart write" /\ where = "term"
     /\ lock' = [lock EXCEPT !.com1 = Nobody]
  \/ /\ place[c] = "term" /\ where = "term write"
     /\ lock.term = Nobody /\ lock' = [lock EXCEPT !.term = c]
  \/ /\ place[c] = "term write" /\ where \in Returns /\ where = then[c]
     /\ lock' = [lock EXCEPT !.term = Nobody]
  \/ /\ place[c] \in {"stack", "heap", "more"} /\ where \in Mapping
     /\ lock.mapper = Nobody /\ lock' = [lock EXCEPT !.mapper = c]
  \/ /\ place[c] \in Mapping /\ where \in {"init", "tables"}
     /\ lock' = [lock EXCEPT !.mapper = Nobody]

LEMMA LocksKept ==
  ASSUME IInv, LocksInv, NEW c \in Cpus, BootStep(c)
  PROVE  LocksInv'
  <1>0. /\ place \in [Cpus -> Places] /\ then \in [Cpus -> Places] /\ BootTypeOK
        /\ lock \in [com1 : Cpus \cup {Nobody}, term : Cpus \cup {Nobody}, mapper : Cpus \cup {Nobody}]
        /\ place[c] \in PrintPlaces => then[c] \in Returns
    BY Zenon DEF IInv, BootTypeOK, Counted
  <1>1. HasLocks(c) /\ Nobody \notin Cpus /\ then = [then EXCEPT ![c] = then[c]] /\ then[c] \in Places
    BY <1>0, BootArguments DEF LocksInv
  <1>2. CASE lock' = lock /\ LeavesLocks(c)
    <2> DEFINE Fine(where, after) ==
          /\ where \in Places /\ after \in Places
          /\ place' = [place EXCEPT ![c] = where] /\ then' = [then EXCEPT ![c] = after]
          /\ place[c] # "uart write" /\ where \notin {"uart write", "term write"} \cup Mapping
          /\ place[c] \in PrintPlaces => where \in PrintPlaces
          /\ place[c] \in Mapping => after = "dead"
          /\ after # then[c] => where \in PrintPlaces /\ (then[c] = "dead" => after = "dead")
          /\ then[c] = "dead" => where \in PrintPlaces
    <2>0. ASSUME NEW where, NEW after, Fine(where, after) PROVE LocksInv'
      BY <1>0, <1>2, <2>0, LocksAlone, Zenon
    <2> USE DEF Goto, Println, Panic, Places, PrintPlaces, Returns, Mapping
    <2>1. CASE TryUart(c)
      <3>1. place[c] = "print" /\ then' = then
        BY <2>1, Zenon DEF TryUart
      <3>2. ~(lock' = [lock EXCEPT !.com1 = c] /\ lock.com1 = Nobody)
        BY <1>0, <1>1, <1>2, Zenon
      <3>3. Fine("uart init", then[c]) \/ Fine("term", then[c])
        BY <1>1, <2>1, <3>1, <3>2, Zenon DEF TryUart
      <3> QED
        BY <2>0, <3>3, Zenon
    <2>2. CASE InitUart(c)
      <3>1. Fine("print", then[c]) \/ Fine("print", "dead")
        BY <1>1, <2>2, Zenon DEF InitUart
      <3> QED
        BY <2>0, <3>1, Zenon
    <2>3. CASE WriteTerm(c)
      <3>1. lock.term = c /\ place[c] = "term write"
        BY <1>1, <2>3, Zenon DEF HasLocks, WriteTerm
      <3>2. lock' # [lock EXCEPT !.term = Nobody]
        BY <1>0, <1>1, <1>2, <3>1, Zenon
      <3>3. Fine("print", "dead")
        BY <1>1, <2>3, <3>2, Zenon DEF WriteTerm
      <3> QED
        BY <2>0, <3>3, Zenon
    <2>4. CASE TakeTicket(c) \/ ClaimCfg(c) \/ Publish(c) \/ AwaitTables(c)
      <3>1. place[c] \notin PrintPlaces \cup Mapping /\ then[c] # "dead"
        BY <1>1, <2>4, Zenon DEF HasLocks, TakeTicket, ClaimCfg, Publish, AwaitTables
      <3>2. \E where \in {"frame buffer", "wait", "cfg write", "stack"} : Fine(where, then[c])
        BY <1>1, <2>4, <3>1, Zenon DEF TakeTicket, ClaimCfg, Publish, AwaitTables
      <3> QED
        BY <2>0, <3>2, Zenon
    <2>5. CASE WriteCfg(c) \/ SetUpMapper(c) \/ SetUpTables(c)
      <3>1. place[c] \notin PrintPlaces \cup Mapping /\ then[c] # "dead"
        BY <1>1, <2>5, Zenon DEF HasLocks, WriteCfg, SetUpMapper, SetUpTables
      <3>2. \/ Fine("print", "dead")
            \/ \E where \in {"setup", "publish", "int3", "hlt", "more"} : Fine(where, then[c])
        BY <1>1, <2>5, <3>1, Zenon DEF WriteCfg, SetUpMapper, SetUpTables
      <3> QED
        BY <2>0, <3>2, Zenon
    <2>6. CASE SetFrameBuffer(c) \/ PrintGlyph(c) \/ TakeNumber(c) \/ BreakPoint(c) \/ ProtectionFault(c)
      <3>1. place[c] \notin PrintPlaces \cup Mapping /\ then[c] # "dead"
        BY <1>1, <2>6, Zenon DEF HasLocks, SetFrameBuffer, PrintGlyph, TakeNumber, BreakPoint, ProtectionFault
      <3>2. \E after \in {"dead", "greeted", "cfg", "heap", "int 13", "hlt"} : Fine("print", after)
        BY <2>6, <3>1, Zenon DEF SetFrameBuffer, PrintGlyph, TakeNumber, BreakPoint, ProtectionFault
      <3> QED
        BY <2>0, <3>2, Zenon
    <2>7. CASE NoFrames(c)
      <3>1. Fine("print", "dead")
        BY <2>7, Zenon DEF NoFrames
      <3> QED
        BY <2>0, <3>1, Zenon
    <2> QED
      BY <1>2, <2>1, <2>2, <2>3, <2>4, <2>5, <2>6, <2>7 DEF LeavesLocks
  <1>3. ASSUME NEW where \in Places, place' = [place EXCEPT ![c] = where], then' = then,
               TakesOrGives(c, where)
        PROVE  LocksInv'
    <2> SUFFICES ASSUME NEW d \in Cpus PROVE HasLocks(d)'
      BY DEF LocksInv
    <2>1. HasLocks(d)
      BY DEF LocksInv
    <2>2. then'[d] = then[d] /\ place'[d] = IF d = c THEN where ELSE place[d]
      BY <1>0, <1>3
    <2>3. \A o \in Cpus \cup {Nobody} :
            /\ [lock EXCEPT !.com1 = o].com1 = o /\ [lock EXCEPT !.com1 = o].term = lock.term
            /\ [lock EXCEPT !.com1 = o].mapper = lock.mapper
            /\ [lock EXCEPT !.term = o].term = o /\ [lock EXCEPT !.term = o].com1 = lock.com1
            /\ [lock EXCEPT !.term = o].mapper = lock.mapper
            /\ [lock EXCEPT !.mapper = o].mapper = o /\ [lock EXCEPT !.mapper = o].com1 = lock.com1
            /\ [lock EXCEPT !.mapper = o].term = lock.term
      BY <1>0
    <2> USE DEF HasLocks, PrintPlaces, Mapping, Returns
    <2>4. CASE /\ place[c] = "print" /\ where = "uart write"
               /\ lock.com1 = Nobody /\ lock' = [lock EXCEPT !.com1 = c]
      <3>1. lock'.com1 = c /\ lock'.term = lock.term /\ lock'.mapper = lock.mapper
        BY <2>3, <2>4, Zenon
      <3> QED
        BY ONLY <1>1, <2>1, <2>2, <2>4, <3>1, d \in Cpus, c \in Cpus, Zenon
    <2>5. CASE place[c] = "uart write" /\ where = "term" /\ lock' = [lock EXCEPT !.com1 = Nobody]
      <3>1. lock'.com1 = Nobody /\ lock'.term = lock.term /\ lock'.mapper = lock.mapper
        BY <2>3, <2>5, Zenon
      <3> QED
        BY ONLY <1>1, <2>1, <2>2, <2>5, <3>1, d \in Cpus, c \in Cpus, Zenon
    <2>6. CASE /\ place[c] = "term" /\ where = "term write"
               /\ lock.term = Nobody /\ lock' = [lock EXCEPT !.term = c]
      <3>1. lock'.com1 = lock.com1 /\ lock'.term = c /\ lock'.mapper = lock.mapper
        BY <2>3, <2>6, Zenon
      <3> QED
        BY ONLY <1>1, <2>1, <2>2, <2>6, <3>1, d \in Cpus, c \in Cpus, Zenon
    <2>7. CASE /\ place[c] = "term write" /\ where \in Returns /\ where = then[c]
               /\ lock' = [lock EXCEPT !.term = Nobody]
      <3>1. lock'.com1 = lock.com1 /\ lock'.term = Nobody /\ lock'.mapper = lock.mapper
        BY <2>3, <2>7, Zenon
      <3> QED
        BY ONLY <1>1, <2>1, <2>2, <2>7, <3>1, d \in Cpus, c \in Cpus, Zenon
    <2>8. CASE /\ place[c] \in {"stack", "heap", "more"} /\ where \in Mapping
               /\ lock.mapper = Nobody /\ lock' = [lock EXCEPT !.mapper = c]
      <3>1. lock'.com1 = lock.com1 /\ lock'.term = lock.term /\ lock'.mapper = c
        BY <2>3, <2>8, Zenon
      <3> QED
        BY ONLY <1>1, <2>1, <2>2, <2>8, <3>1, d \in Cpus, c \in Cpus, Zenon
    <2>9. CASE /\ place[c] \in Mapping /\ where \in {"init", "tables"}
               /\ lock' = [lock EXCEPT !.mapper = Nobody]
      <3>1. lock'.com1 = lock.com1 /\ lock'.term = lock.term /\ lock'.mapper = Nobody
        BY <2>3, <2>9, Zenon
      <3> QED
        BY ONLY <1>1, <2>1, <2>2, <2>9, <3>1, d \in Cpus, c \in Cpus, Zenon
    <2> QED
      BY <1>3, <2>4, <2>5, <2>6, <2>7, <2>8, <2>9, Zenon DEF TakesOrGives
  <1>4. CASE lock' # lock /\ TryUart(c)
    <2>1. TakesOrGives(c, "uart write") /\ place' = [place EXCEPT ![c] = "uart write"] /\ then' = then
      BY <1>4, Zenon DEF TryUart, TakesOrGives, Goto, console
    <2> QED
      BY <1>3, <2>1, Zenon DEF Places
  <1>5. CASE WriteUart(c)
    <2>1. TakesOrGives(c, "term") /\ place' = [place EXCEPT ![c] = "term"] /\ then' = then
      BY <1>5, Zenon DEF WriteUart, TakesOrGives, Goto
    <2> QED
      BY <1>3, <2>1 DEF Places
  <1>6. CASE LockTerm(c)
    <2>1. TakesOrGives(c, "term write") /\ place' = [place EXCEPT ![c] = "term write"] /\ then' = then
      BY <1>6, Zenon DEF LockTerm, TakesOrGives, Goto
    <2> QED
      BY <1>3, <2>1, Zenon DEF Places
  <1>7. CASE lock' # lock /\ WriteTerm(c)
    <2>1. TakesOrGives(c, then[c]) /\ place' = [place EXCEPT ![c] = then[c]] /\ then' = then
      BY <1>0, <1>7, Zenon DEF WriteTerm, TakesOrGives, Goto, PrintPlaces
    <2> QED
      BY <1>1, <1>3, <2>1, Zenon
  <1>8. CASE \E from \in {"stack", "heap", "more"}, to \in Mapping : LockMapper(c, from, to)
    <2>1. PICK from \in {"stack", "heap", "more"}, to \in Mapping : LockMapper(c, from, to)
      BY <1>8
    <2>2. TakesOrGives(c, to) /\ place' = [place EXCEPT ![c] = to] /\ then' = then /\ to \in Places
      BY <2>1, Zenon DEF LockMapper, TakesOrGives, Goto, Mapping, Places
    <2> QED
      BY <1>3, <2>2, Zenon
  <1>9. CASE \E from \in Mapping, to \in {"init", "tables"} : Mapped(c, from) /\ Goto(c, to)
    <2>1. PICK from \in Mapping, to \in {"init", "tables"} : Mapped(c, from) /\ Goto(c, to)
      BY <1>9
    <2>2. TakesOrGives(c, to) /\ place' = [place EXCEPT ![c] = to] /\ then' = then /\ to \in Places
      BY <2>1, Zenon DEF Mapped, TakesOrGives, Goto, Places
    <2> QED
      BY <1>3, <2>2, Zenon
  <1>10. LeavesLocks(c) => lock' = lock \/ TryUart(c) \/ WriteTerm(c)
    BY Zenon DEF LeavesLocks, InitUart, TakeTicket, SetFrameBuffer, PrintGlyph, ClaimCfg, WriteCfg,
       SetUpMapper, Publish, AwaitTables, NoFrames, TakeNumber, SetUpTables, BreakPoint,
       ProtectionFault, console
  <1>11. \/ LeavesLocks(c) \/ WriteUart(c) \/ LockTerm(c)
         \/ \E from \in {"stack", "heap", "more"}, to \in Mapping : LockMapper(c, from, to)
         \/ \E from \in Mapping, to \in {"init", "tables"} : Mapped(c, from) /\ Goto(c, to)
    BY Zenon DEF BootStep, LeavesLocks, MapStack, MapHeap, MapMore, Mapping
  <1> QED
    BY <1>2, <1>4, <1>5, <1>6, <1>7, <1>8, <1>9, <1>10, <1>11

\* Nobody who has halted holds UART_COM1 or TERM1, and nobody who halted
\* without a panic holds MAPPER: the guards of __print and of the maps are
\* dropped on every path that does not panic.
THEOREM NoLockLeft == BootSpec => []LocksLeft
  <1>1. IInv /\ LocksInv /\ [BootNext]_bootVars => LocksInv'
    <2> SUFFICES ASSUME IInv, LocksInv, [BootNext]_bootVars PROVE LocksInv'
      OBVIOUS
    <2>1. CASE UNCHANGED bootVars \/ BootStopped
      <3>1. UNCHANGED <<place, then, lock>>
        BY <2>1 DEF bootVars, BootStopped, console
      <3> QED
        BY <3>1, Zenon DEF LocksInv, HasLocks
    <2> QED
      BY <2>1, LocksKept DEF BootNext
  <1>2. LocksInv => LocksLeft
    BY Zenon DEF LocksInv, HasLocks, LocksLeft, PrintPlaces, Mapping
  <1> QED
    BY <1>1, <1>2, LocksInitial, BootKeepsInv, PTL DEF BootSpec
=============================================================================
