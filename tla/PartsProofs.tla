---------------------------- MODULE PartsProofs -----------------------------
(***************************************************************************)
(* Proofs about two components of Parts.  Tallock, for any number of       *)
(* processors, any memory and any layouts: callers keep the contents of    *)
(* their blocks, and no block is lost or freed twice.  Llist, for any      *)
(* nodes and lists: the links stay each other's inverse.                   *)
(***************************************************************************)
EXTENDS Tallock, Llist, TLAPS

(***************************************************************************)
(* Tallock: whatever the interleaving, processors own disjoint memory and  *)
(* the books of Talloc are what they own.                                  *)
(***************************************************************************)
Layout == HeapLayouts \cup {NoBlockYet.layout}
Handle == [ptr : Nat, layout : Layout]
Ops == {"none", "alloc", "alloc_zeroed", "realloc", "shrink", "dealloc", "shrink to nothing"}
Places == {"idle", "lock", "locked", "found", "zero", "copy", "lock again", "locked again"}
Call == [op : Ops, at : Places, layout : Layout, new : Handle]

Types ==
    /\ lock \in Processor \cup {Unlocked}
    /\ bytes \in [HeapMemory -> Int]
    /\ block \in [Processor -> Handle]
    /\ running \in [Processor -> Call]
    /\ DOMAIN promise = Processor

\* p's caller has a block; p's method has one that it is about to return.
Held(p) == block[p].ptr > dangling
Gets(p) == At(p, "zero") \/ Copies(p)
Claims(p, h) == (Held(p) /\ h = block[p]) \/ (Gets(p) /\ h = running[p].new)

\* The bytes of the two.
Old(p) == IF Held(p) THEN heap!Extent(block[p]) ELSE {}
New(p) == IF Gets(p) THEN heap!Extent(running[p].new) ELSE {}
Mine(p) == Old(p) \cup New(p)

\* What p's caller has: nothing, nothing that needs memory, or a block.
Shape(p) ==
    /\ \/ block[p] = NoBlockYet
       \/ block[p].ptr = dangling /\ block[p].layout.size = 0
       \/ Held(p) /\ block[p].layout.size > 0
    /\ DOMAIN promise[p] \subseteq 0 .. block[p].layout.size - 1

\* What p's method found when it was called, and keeps while it runs.
Called(p) ==
    /\ running[p].op \in {"alloc", "alloc_zeroed"} => block[p] = NoBlockYet /\ running[p].layout.size > 0
    /\ running[p].op \in {"realloc", "shrink"} => Held(p) /\ running[p].layout.size > 0
    /\ running[p].op = "shrink" => running[p].layout.size <= block[p].layout.size
    /\ running[p].op \in {"dealloc", "shrink to nothing"} => Held(p)
    /\ running[p].op = "shrink to nothing" => running[p].layout.size = 0

\* Where p is in its method.
Reached(p) ==
    /\ At(p, "idle") => running[p].op = "none"
    /\ running[p].at \in {"locked", "found", "zero", "locked again"} => lock = p
    /\ At(p, "found") => /\ running[p].op \in {"alloc", "alloc_zeroed"} \/ Grows(p)
                         /\ running[p].new.layout = running[p].layout
                         /\ running[p].new.ptr \in HeapMemory
                         /\ heap!CanOwn(running[p].new, owned)
    /\ At(p, "zero") => running[p].op = "alloc_zeroed"
    /\ Copies(p) => running[p].op = "realloc" /\ running[p].new.layout.size > block[p].layout.size
    /\ Gets(p) => running[p].new.ptr \in HeapMemory /\ running[p].new.layout.size > 0

\* What p knows of its block is there, and after the copy also in the new one.
Contents(p) == \A o \in DOMAIN promise[p] : bytes[block[p].ptr + o] = promise[p][o]
Copied(p) ==
    (At(p, "lock again") \/ At(p, "locked again")) =>
        \A o \in DOMAIN promise[p] : bytes[running[p].new.ptr + o] = promise[p][o]

Sound(p) ==
    /\ Shape(p) /\ Called(p) /\ Reached(p)
    /\ Mine(p) \subseteq HeapMemory /\ Old(p) \cap New(p) = {}
    /\ Contents(p) /\ Copied(p)

\* The books of Talloc are what the processors have, and no byte is had twice.
Accounted == \A h : h \in owned <=> \E p \in Processor : Claims(p, h)
Apart == \A p, q \in Processor : p # q => Mine(p) \cap Mine(q) = {}

IInv == Types /\ (\A p \in Processor : Sound(p)) /\ Accounted /\ Apart

----------------------------------------------------------------------------
(* Facts about blocks.                                                     *)

LEMMA NothingAt == NoBlockYet.ptr = 0 /\ ~(NoBlockYet.ptr > dangling) /\ ~(dangling > dangling) /\ Garbage \in Int
  BY DEF NoBlockYet, dangling, Garbage

LEMMA Layouts ==
    /\ \A l \in Layout : l.size \in Nat
    /\ NoBlockYet \in Handle /\ Idle \in Call
    /\ \A p \in Processor : p # Unlocked
    /\ \A a \in HeapMemory : a \in Nat /\ a > dangling
  BY TallockAssumption DEF Layout, NoBlockYet, Handle, Idle, Call, Ops, Places, Unlocked, dangling

LEMMA Extents ==
  ASSUME NEW h \in Handle
  PROVE  /\ \A a : a \in heap!Extent(h) <=> a \in Int /\ h.ptr <= a /\ a < h.ptr + h.layout.size
         /\ h.layout.size > 0 => h.ptr \in heap!Extent(h)
         /\ \A o \in 0 .. h.layout.size - 1 : h.ptr + o \in heap!Extent(h)
  <1>1. h.ptr \in Nat /\ h.layout.size \in Nat
    BY Layouts DEF Handle
  <1> QED
    BY <1>1 DEF heap!Extent

\* A claim is a block of at least one byte, which is among the bytes of its owner.
LEMMA ClaimsBytes ==
  ASSUME Types, NEW p \in Processor, Sound(p), NEW h, Claims(p, h)
  PROVE  h \in Handle /\ h.ptr \in heap!Extent(h) /\ heap!Extent(h) \subseteq Mine(p)
  <1>1. block[p] \in Handle /\ running[p].new \in Handle
    BY DEF Types, Call
  <1>2. Held(p) => block[p].layout.size > 0
    BY DEF Sound, Shape, Held, NoBlockYet, dangling
  <1>3. Gets(p) => running[p].new.layout.size > 0
    BY Zenon DEF Sound, Reached
  <1>4. h \in Handle /\ h.layout.size > 0
    BY <1>1, <1>2, <1>3 DEF Claims
  <1>5. heap!Extent(h) \subseteq Mine(p)
    BY DEF Claims, Mine, Old, New
  <1> QED
    BY <1>4, <1>5, Extents

\* Two processors never claim the same block.
LEMMA ClaimsApart ==
  ASSUME IInv, NEW p \in Processor, NEW q \in Processor, p # q, NEW h, Claims(p, h)
  PROVE  ~Claims(q, h)
  <1>1. SUFFICES ASSUME Claims(q, h) PROVE FALSE
    OBVIOUS
  <1>2. h.ptr \in Mine(p) /\ h.ptr \in Mine(q)
    BY <1>1, ClaimsBytes DEF IInv
  <1> QED
    BY <1>2 DEF IInv, Apart

\* The bytes that p knows of are in its block.
LEMMA KnownIsMine ==
  ASSUME Types, NEW p \in Processor, Sound(p), NEW o \in DOMAIN promise[p]
  PROVE  /\ o \in Nat /\ o < block[p].layout.size
         /\ block[p].ptr + o \in Old(p)
         /\ Copies(p) => running[p].new.ptr + o \in New(p)
  <1>1. block[p] \in Handle /\ running[p].new \in Handle
    BY DEF Types, Call
  <1>2. block[p].layout.size \in Nat /\ running[p].new.layout.size \in Nat
    BY <1>1, Layouts DEF Handle
  <1>3. o \in 0 .. block[p].layout.size - 1
    BY DEF Sound, Shape
  <1>4. Held(p)
    BY <1>2, <1>3 DEF Sound, Shape, NoBlockYet
  <1>5. block[p].ptr + o \in Old(p)
    BY <1>1, <1>3, <1>4, Extents DEF Old
  <1>6. ASSUME Copies(p) PROVE running[p].new.ptr + o \in New(p)
    <2>0. running[p].new.layout.size > block[p].layout.size
      BY <1>6, Zenon DEF Sound, Reached
    <2>1. o \in 0 .. running[p].new.layout.size - 1
      BY <1>2, <1>3, <2>0
    <2> QED
      BY <1>1, <1>6, <2>1, Extents DEF New, Gets
  <1> QED
    BY <1>2, <1>3, <1>5, <1>6

----------------------------------------------------------------------------
(* What a step of p leaves alone.                                          *)

\* Only p's own state changes; Talloc's only while p has the lock.
Frame(p) ==
    /\ \A q \in Processor \ {p} : block'[q] = block[q] /\ promise'[q] = promise[q] /\ running'[q] = running[q]
    /\ lock' = lock \/ (lock = Unlocked /\ lock' = p) \/ (lock = p /\ lock' = Unlocked)
    /\ owned' = owned \/ lock = p

\* p writes only its own bytes, and takes only what no other has.
Writes(p) ==
    /\ \A a \in HeapMemory \ Mine(p) : bytes'[a] = bytes[a]
    /\ \A q \in Processor \ {p} : Mine(p)' \cap Mine(q) = {}

\* p's claims change as the books do.
Books(p) == \A h : h \in owned' <=> (h \in owned /\ ~Claims(p, h)) \/ Claims(p, h)'

LEMMA OthersKeep ==
  ASSUME IInv, NEW p \in Processor, Frame(p), Writes(p), NEW q \in Processor \ {p}
  PROVE  Sound(q)' /\ Mine(q)' = Mine(q) /\ \A h : Claims(q, h)' <=> Claims(q, h)
  <1>1. block'[q] = block[q] /\ promise'[q] = promise[q] /\ running'[q] = running[q]
    BY DEF Frame
  <1>2. Sound(q) /\ Types /\ p # q /\ q \in Processor
    BY DEF IInv
  <1>3. Old(q)' = Old(q) /\ New(q)' = New(q) /\ Mine(q)' = Mine(q)
    BY <1>1 DEF Old, New, Mine, Held, Gets, At, Copies, heap!Extent
  <1>4. \A h : Claims(q, h)' <=> Claims(q, h)
    BY <1>1 DEF Claims, Held, Gets, At, Copies
  <1>5. Shape(q)' /\ Called(q)'
    BY <1>1, <1>2, Zenon DEF Sound, Shape, Called, Held
  <1>6. Reached(q)'
    <2>1. Reached(q) /\ q # Unlocked
      BY <1>2, Layouts DEF Sound
    <2>2. running[q].at \in {"locked", "found", "zero", "locked again"} => lock = q /\ lock' = q /\ owned' = owned
      BY <1>2, <2>1, Zenon DEF Reached, Frame
    <2> QED
      BY <1>1, <2>1, <2>2, Zenon DEF Reached, At, Gets, Copies, Grows, heap!CanOwn, heap!Extent
  <1>7. \A a \in Mine(q) : bytes'[a] = bytes[a]
    BY <1>2 DEF IInv, Apart, Writes, Sound
  <1>8. Contents(q)' /\ Copied(q)'
    <2>1. \A o \in DOMAIN promise[q] :
            /\ block[q].ptr + o \in Mine(q)
            /\ Copies(q) => running[q].new.ptr + o \in Mine(q)
      BY <1>2, KnownIsMine DEF Mine
    <2> QED
      BY <1>1, <1>2, <1>7, <2>1, Zenon DEF Sound, Contents, Copied, At, Copies
  <1> QED
    BY <1>2, <1>3, <1>4, <1>5, <1>6, <1>8 DEF Sound

\* A step of p keeps the invariant if it leaves p itself sound.
LEMMA StepKeeps ==
  ASSUME IInv, NEW p \in Processor, Frame(p), Writes(p), Books(p), Types', Sound(p)'
  PROVE  IInv'
  <1>1. \A q \in Processor : Sound(q)'
    BY OthersKeep
  <1>2. Apart'
    <2> SUFFICES ASSUME NEW q \in Processor, NEW r \in Processor, q # r
                 PROVE  Mine(q)' \cap Mine(r)' = {}
      BY DEF Apart
    <2>1. CASE q = p
      BY <2>1, OthersKeep DEF Writes
    <2>2. CASE r = p
      BY <2>2, OthersKeep DEF Writes
    <2>3. CASE q # p /\ r # p
      BY <2>3, OthersKeep DEF IInv, Apart
    <2> QED
      BY <2>1, <2>2, <2>3
  <1>3. Accounted'
    <2> SUFFICES ASSUME NEW h PROVE h \in owned' <=> \E q \in Processor : Claims(q, h)'
      BY DEF Accounted
    <2>1. h \in owned <=> \E q \in Processor : Claims(q, h)
      BY DEF IInv, Accounted
    <2>2. \A q \in Processor \ {p} : (Claims(q, h)' <=> Claims(q, h)) /\ (Claims(q, h) => ~Claims(p, h))
      BY OthersKeep, ClaimsApart
    <2>3. h \in owned' <=> (h \in owned /\ ~Claims(p, h)) \/ Claims(p, h)'
      BY DEF Books
    <2> QED
      BY <2>1, <2>2, <2>3
  <1> QED
    BY <1>1, <1>2, <1>3 DEF IInv

LEMMA Initial == TallockInit => IInv
  <1> SUFFICES ASSUME TallockInit PROVE IInv
    OBVIOUS
  <1>1. Types
    BY Layouts DEF TallockInit, Types, Garbage
  <1>0. \A p \in Processor : block[p] = NoBlockYet /\ running[p] = Idle /\ promise[p] = Unknown /\ owned = {}
    BY Zenon DEF TallockInit
  <1>2. ASSUME NEW p \in Processor
        PROVE  /\ block[p].ptr = 0 /\ block[p].layout.size = 0 /\ running[p].at = "idle" /\ running[p].op = "none"
               /\ ~Held(p) /\ ~Gets(p) /\ ~Copies(p)
    <2>1. block[p].ptr = 0 /\ block[p].layout.size = 0
      BY <1>0 DEF NoBlockYet
    <2>2. running[p].at = "idle" /\ running[p].op = "none"
      BY <1>0 DEF Idle
    <2> QED
      BY <2>1, <2>2 DEF Held, Gets, Copies, At, dangling
  <1>3. \A p \in Processor : Mine(p) = {} /\ \A h : ~Claims(p, h)
    BY <1>2, Zenon DEF Mine, Old, New, Claims
  <1>4. DOMAIN Unknown = {}
    BY DEF Unknown, Known
  <1>5. \A p \in Processor : Sound(p)
    <2> SUFFICES ASSUME NEW p \in Processor PROVE Sound(p)
      BY Zenon
    <2>1. Shape(p) /\ Called(p) /\ Reached(p)
      BY <1>0, <1>2, <1>4, Zenon DEF Shape, Called, Reached, At
    <2>2. Contents(p) /\ Copied(p)
      BY <1>0, <1>4, Zenon DEF Contents, Copied
    <2> QED
      BY <1>3, <2>1, <2>2 DEF Sound, Mine
  <1>6. Accounted /\ Apart
    BY <1>3 DEF Accounted, Apart, TallockInit
  <1> QED
    BY <1>1, <1>5, <1>6 DEF IInv

----------------------------------------------------------------------------
(* Three kinds of steps.                                                   *)

\* The lock is left alone, taken or given back.
LockStep(p) == lock' = lock \/ (lock = Unlocked /\ lock' = p) \/ (lock = p /\ lock' = Unlocked)

LEMMA LockTyped ==
  ASSUME Types, NEW p \in Processor, LockStep(p)
  PROVE  lock' \in Processor \cup {Unlocked}
  BY DEF Types, LockStep

LEMMA Now ==
  ASSUME IInv, NEW p \in Processor
  PROVE  /\ Types /\ Sound(p) /\ Shape(p) /\ Called(p) /\ Reached(p)
         /\ block[p] \in Handle /\ block[p].ptr \in Nat /\ block[p].layout \in Layout /\ block[p].layout.size \in Nat
         /\ running[p] \in Call /\ running[p].new \in Handle /\ running[p].layout \in Layout
         /\ running[p].layout.size \in Nat /\ running[p].new.ptr \in Nat /\ running[p].new.layout.size \in Nat
  <1>1. Types /\ Sound(p)
    BY DEF IInv
  <1>2. block[p] \in Handle /\ running[p] \in Call
    BY <1>1 DEF Types
  <1>3. running[p].new \in Handle /\ running[p].layout \in Layout
    BY <1>2 DEF Call
  <1> QED
    BY <1>1, <1>2, <1>3, Layouts DEF Handle, Sound

\* A step that changes only where p is, and what it found.
LEMMA MoveKeeps ==
  ASSUME IInv, NEW p \in Processor, NEW r \in Call, running' = [running EXCEPT ![p] = r],
         UNCHANGED <<owned, bytes, block, promise>>, LockStep(p),
         Gets(p)' <=> Gets(p), Gets(p) => r.new = running[p].new,
         Called(p)', Reached(p)', Copied(p)'
  PROVE  IInv'
  <1>1. running'[p] = r /\ running' \in [Processor -> Call]
        /\ \A q \in Processor \ {p} : running'[q] = running[q]
    BY DEF IInv, Types
  <1>2. Types'
    <2>1. lock' \in Processor \cup {Unlocked}
      BY LockTyped DEF IInv
    <2> QED
      BY <1>1, <2>1 DEF IInv, Types
  <1>3. Frame(p)
    BY <1>1 DEF Frame, LockStep
  <1>4. Held(p)' <=> Held(p)
    BY DEF Held
  <1>5. Old(p)' = Old(p) /\ New(p)' = New(p)
    BY <1>1, <1>4 DEF Old, New, heap!Extent
  <1>6. Mine(p)' = Mine(p)
    BY <1>5 DEF Mine
  <1>7. Writes(p)
    BY <1>6 DEF Writes, IInv, Apart
  <1>8. \A h : Claims(p, h)' <=> Claims(p, h)
    BY <1>1, <1>4 DEF Claims
  <1>9. Books(p)
    BY <1>8 DEF Books, IInv, Accounted
  <1>10. Shape(p)' /\ Contents(p)'
    BY <1>4 DEF IInv, Sound, Shape, Contents
  <1>11. Sound(p)'
    BY <1>5, <1>6, <1>10 DEF IInv, Sound
  <1> QED
    BY <1>2, <1>3, <1>7, <1>9, <1>11, StepKeeps

\* p returns, or its caller acts: the caller then has h and knows what it holds.
ReturnsWith(p, h, known) ==
  /\ h \in Handle /\ Has(p, h, known)
  /\ running' \in [Processor -> Call] /\ running'[p].at = "idle" /\ running'[p].op = "none"
  /\ \A q \in Processor \ {p} : running'[q] = running[q]
  /\ LockStep(p) /\ (owned' = owned \/ lock = p)
  /\ bytes' \in [HeapMemory -> Int] /\ \A a \in HeapMemory \ Mine(p) : bytes'[a] = bytes[a]
  /\ \/ h = NoBlockYet
     \/ h.ptr = dangling /\ h.layout.size = 0
     \/ /\ h.ptr > dangling /\ h.layout.size > 0 /\ heap!Extent(h) \subseteq HeapMemory
        /\ \A q \in Processor \ {p} : heap!Extent(h) \cap Mine(q) = {}
  /\ DOMAIN known \subseteq 0 .. h.layout.size - 1
  /\ \A o \in DOMAIN known : bytes'[h.ptr + o] = known[o]
  /\ \A k : k \in owned' <=> (k \in owned /\ ~Claims(p, k)) \/ (h.ptr > dangling /\ k = h)

LEMMA ReturnKeeps ==
  ASSUME IInv, NEW p \in Processor, NEW h, NEW known, ReturnsWith(p, h, known)
  PROVE  IInv'
  <1> SUFFICES ASSUME h \in Handle, Has(p, h, known),
         running' \in [Processor -> Call], running'[p].at = "idle", running'[p].op = "none",
         \A q \in Processor \ {p} : running'[q] = running[q],
         LockStep(p), owned' = owned \/ lock = p,
         bytes' \in [HeapMemory -> Int], \A a \in HeapMemory \ Mine(p) : bytes'[a] = bytes[a],
         \/ h = NoBlockYet
         \/ h.ptr = dangling /\ h.layout.size = 0
         \/ /\ h.ptr > dangling /\ h.layout.size > 0 /\ heap!Extent(h) \subseteq HeapMemory
            /\ \A q \in Processor \ {p} : heap!Extent(h) \cap Mine(q) = {},
         DOMAIN known \subseteq 0 .. h.layout.size - 1,
         \A o \in DOMAIN known : bytes'[h.ptr + o] = known[o],
         \A k : k \in owned' <=> (k \in owned /\ ~Claims(p, k)) \/ (h.ptr > dangling /\ k = h)
               PROVE  IInv'
    BY DEF ReturnsWith
  <1>1. /\ block' \in [Processor -> Handle] /\ DOMAIN promise' = Processor
        /\ block'[p] = h /\ promise'[p] = known
        /\ \A q \in Processor \ {p} : block'[q] = block[q] /\ promise'[q] = promise[q]
    BY DEF Has, IInv, Types
  <1>2. Types'
    <2>1. lock' \in Processor \cup {Unlocked}
      BY LockTyped DEF IInv
    <2> QED
      BY <1>1, <2>1 DEF Types
  <1>3. Frame(p)
    BY <1>1 DEF Frame, LockStep
  <1>4. ~Gets(p)' /\ ~Copies(p)' /\ (Held(p)' <=> h.ptr > dangling)
    BY <1>1 DEF Gets, Copies, At, Held
  <1>5. Mine(p)' = IF h.ptr > dangling THEN heap!Extent(h) ELSE {}
    BY <1>1, <1>4 DEF Mine, Old, New, heap!Extent
  <1>6. h.ptr > dangling => /\ h.layout.size > 0 /\ heap!Extent(h) \subseteq HeapMemory
                            /\ \A q \in Processor \ {p} : heap!Extent(h) \cap Mine(q) = {}
    BY NothingAt, Zenon
  <1>7. Writes(p)
    BY <1>5, <1>6 DEF Writes
  <1>8. Books(p)
    BY <1>1, <1>4 DEF Books, Claims
  <1>9. Shape(p)' /\ Called(p)'
    BY <1>1, <1>4, <1>6 DEF Shape, Called
  <1>10. Reached(p)' /\ Copied(p)'
    BY <1>4, Zenon DEF Reached, Copied, At
  <1>11. Contents(p)'
    BY <1>1, Zenon DEF Contents
  <1>12. Mine(p)' \subseteq HeapMemory /\ Old(p)' \cap New(p)' = {}
    BY <1>4, <1>5, <1>6 DEF New
  <1> QED
    BY <1>2, <1>3, <1>7, <1>8, <1>9, <1>10, <1>11, <1>12, StepKeeps DEF Sound

\* What Talloc may give out is nobody's.
LEMMA FreshApart ==
  ASSUME IInv, NEW h \in Handle, heap!CanOwn(h, owned), NEW q \in Processor
  PROVE  heap!Extent(h) \cap Mine(q) = {}
  <1>1. \A k : Claims(q, k) => heap!Extent(h) \cap heap!Extent(k) = {}
    BY DEF heap!CanOwn, IInv, Accounted
  <1>2. heap!Extent(h) \cap Old(q) = {}
    BY <1>1 DEF Old, Claims
  <1>3. heap!Extent(h) \cap New(q) = {}
    BY <1>1 DEF New, Claims
  <1> QED
    BY <1>2, <1>3 DEF Mine

LEMMA Handed ==
  ASSUME IInv, NEW p \in Processor, Return(p)
  PROVE  /\ running' \in [Processor -> Call] /\ running'[p].at = "idle" /\ running'[p].op = "none"
         /\ \A q \in Processor \ {p} : running'[q] = running[q]
  <1>1. running \in [Processor -> Call]
    BY DEF IInv, Types
  <1>2. running' = [running EXCEPT ![p] = Idle]
    BY DEF Return
  <1>3. running' \in [Processor -> Call] /\ running'[p] = Idle
    BY <1>1, <1>2, Layouts
  <1> QED
    BY <1>1, <1>2, <1>3 DEF Idle

----------------------------------------------------------------------------
(* The actions.                                                            *)

\* A call: p waits for the lock.
LEMMA CallKeeps ==
  ASSUME IInv, NEW p \in Processor, At(p, "idle"), NEW op \in Ops \ {"none"}, NEW layout \in Layout,
         Calls(p, op, layout),
         op \in {"alloc", "alloc_zeroed"} => block[p] = NoBlockYet /\ layout.size > 0,
         op \in {"realloc", "shrink"} => Held(p) /\ layout.size > 0,
         op = "shrink" => layout.size <= block[p].layout.size,
         op \in {"dealloc", "shrink to nothing"} => Held(p),
         op = "shrink to nothing" => layout.size = 0
  PROVE  IInv'
  <1> DEFINE r == [op |-> op, at |-> "lock", layout |-> layout, new |-> NoBlockYet]
  <1>1. r \in Call
    BY Layouts, Zenon DEF Call, Places
  <1>2. running' = [running EXCEPT ![p] = r] /\ UNCHANGED <<owned, lock, bytes, block, promise>>
    BY Zenon DEF Calls
  <1>3. running'[p] = r
    BY <1>2, Zenon DEF IInv, Types
  <1>4. running'[p].op = op /\ running'[p].at = "lock" /\ running'[p].layout = layout
    <2>1. r.op = op /\ r.at = "lock" /\ r.layout = layout
      BY Zenon
    <2> HIDE DEF r
    <2> QED
      BY ONLY <1>3, <2>1
  <1>5. ~Gets(p) /\ ~Gets(p)' /\ ~Copies(p)'
    BY <1>4, Zenon DEF Gets, Copies, At
  <1>6. Called(p)'
    BY <1>2, <1>4, Zenon DEF Called, Held
  <1>7. Reached(p)' /\ Copied(p)'
    BY <1>4, <1>5, Zenon DEF Reached, Copied, At
  <1>8. LockStep(p)
    BY <1>2, Zenon DEF LockStep
  <1> HIDE DEF r
  <1> QED
    BY <1>1, <1>2, <1>5, <1>6, <1>7, <1>8, MoveKeeps, Zenon

\* A block that is not the dangling one is held.
LEMMA NotNone ==
  ASSUME IInv, NEW p \in Processor, ~None(p)
  PROVE  Held(p) \/ (block[p].ptr = dangling /\ block[p].layout.size = 0 /\ ~Held(p))
  BY Now DEF Shape, None, Held, dangling

LEMMA CallsKeep ==
  ASSUME IInv, NEW p \in Processor, caller_calls(p)
  PROVE  IInv'
  <1>1. PICK layout \in HeapLayouts :
          \/ None(p) /\ layout.size > 0 /\ (Calls(p, "alloc", layout) \/ Calls(p, "alloc_zeroed", layout))
          \/ ~None(p) /\ block[p].layout.size > 0 /\ layout.size > 0 /\ Calls(p, "realloc", layout)
          \/ ~None(p) /\ layout.size <= block[p].layout.size /\ layout.size > 0 /\ Calls(p, "shrink", layout)
    BY DEF caller_calls
  <1>2. At(p, "idle") /\ layout \in Layout /\ layout.size \in Nat /\ block[p].layout.size \in Nat
    BY Layouts, Now DEF caller_calls, Layout
  <1>3. CASE None(p) /\ layout.size > 0 /\ Calls(p, "alloc", layout)
    BY <1>2, <1>3, CallKeeps, Zenon DEF None, Ops
  <1>4. CASE None(p) /\ layout.size > 0 /\ Calls(p, "alloc_zeroed", layout)
    BY <1>2, <1>4, CallKeeps, Zenon DEF None, Ops
  <1>5. CASE ~None(p) /\ block[p].layout.size > 0 /\ layout.size > 0 /\ Calls(p, "realloc", layout)
    <2>1. Held(p)
      BY <1>5, NotNone
    <2> QED
      BY <1>2, <1>5, <2>1, CallKeeps, Zenon DEF Ops
  <1>6. CASE ~None(p) /\ layout.size <= block[p].layout.size /\ layout.size > 0 /\ Calls(p, "shrink", layout)
    <2>1. Held(p)
      BY <1>2, <1>6, NotNone
    <2> QED
      BY <1>2, <1>6, <2>1, CallKeeps, Zenon DEF Ops
  <1> QED
    BY <1>1, <1>3, <1>4, <1>5, <1>6

LEMMA FreesKeep ==
  ASSUME IInv, NEW p \in Processor, caller_frees(p)
  PROVE  IInv'
  <1>1. At(p, "idle") /\ Held(p) /\ Calls(p, "dealloc", block[p].layout) /\ block[p].layout \in Layout
    BY NotNone, Now DEF caller_frees
  <1> QED
    BY <1>1, CallKeeps, Zenon DEF Ops

\* The caller acts on what it has without calling Talloc.
LEMMA IdleKeeps ==
  ASSUME IInv, NEW p \in Processor, At(p, "idle"), NEW h \in Handle, NEW known, Has(p, h, known),
         UNCHANGED <<owned, lock, running>>,
         bytes' \in [HeapMemory -> Int], \A a \in HeapMemory \ Mine(p) : bytes'[a] = bytes[a],
         \/ h = block[p]
         \/ ~Held(p) /\ (h = NoBlockYet \/ (h.ptr = dangling /\ h.layout.size = 0)),
         DOMAIN known \subseteq 0 .. h.layout.size - 1,
         \A o \in DOMAIN known : bytes'[h.ptr + o] = known[o]
  PROVE  IInv'
  <1>1. /\ running' \in [Processor -> Call] /\ running'[p].at = "idle" /\ running'[p].op = "none"
        /\ \A q \in Processor \ {p} : running'[q] = running[q]
    BY Now, Zenon DEF Types, At, Reached
  <1>2. ~Gets(p)
    BY DEF Gets, Copies, At
  <1>3. h.ptr > dangling <=> Held(p) /\ h = block[p]
    BY DEF Held, NoBlockYet, dangling
  <1>4. \A k : k \in owned' <=> (k \in owned /\ ~Claims(p, k)) \/ (h.ptr > dangling /\ k = h)
    BY <1>2, <1>3 DEF Claims, IInv, Accounted
  <1>5. Held(p) => /\ heap!Extent(block[p]) = Old(p) /\ Old(p) \subseteq HeapMemory
                   /\ \A q \in Processor \ {p} : Old(p) \cap Mine(q) = {}
    BY Now, Zenon DEF Old, Mine, IInv, Apart, Sound
  <1>6. \/ h = NoBlockYet
        \/ h.ptr = dangling /\ h.layout.size = 0
        \/ /\ h.ptr > dangling /\ h.layout.size > 0 /\ heap!Extent(h) \subseteq HeapMemory
           /\ \A q \in Processor \ {p} : heap!Extent(h) \cap Mine(q) = {}
    BY <1>3, <1>5, Now, Zenon DEF Shape, Held
  <1>7. LockStep(p)
    BY DEF LockStep
  <1>8. ReturnsWith(p, h, known)
    BY <1>1, <1>4, <1>6, <1>7 DEF ReturnsWith
  <1> QED
    BY <1>8, ReturnKeeps

LEMMA UnknownEmpty == DOMAIN Unknown = {}
  BY DEF Unknown, Known

LEMMA WritesKeep ==
  ASSUME IInv, NEW p \in Processor, caller_writes(p)
  PROVE  IInv'
  <1> DEFINE known == Known(block[p].layout.size, p)
  <1>1. /\ At(p, "idle") /\ ~None(p) /\ bytes' = Fill(block[p], p)
        /\ promise' = [promise EXCEPT ![p] = known] /\ UNCHANGED <<owned, lock, block, running>>
    BY DEF caller_writes
  <1>2. Has(p, block[p], known)
    BY <1>1 DEF Has, IInv, Types
  <1>3. bytes' \in [HeapMemory -> Int]
    BY <1>1, TallockAssumption DEF Fill, IInv, Types
  <1>4. \A a \in HeapMemory : bytes'[a] = IF a \in heap!Extent(block[p]) THEN p ELSE bytes[a]
    BY <1>1 DEF Fill
  <1>5. \A a \in HeapMemory \ Mine(p) : bytes'[a] = bytes[a]
    <2>1. CASE Held(p)
      BY <1>4, <2>1 DEF Mine, Old
    <2>2. CASE ~Held(p)
      <3>1. block[p].layout.size = 0
        BY <1>1, <2>2, NotNone
      <3>2. heap!Extent(block[p]) = {}
        BY <3>1, Now, Extents
      <3> QED
        BY <1>4, <3>2
    <2> QED
      BY <2>1, <2>2
  <1>6. DOMAIN known = 0 .. block[p].layout.size - 1 /\ \A o \in DOMAIN known : known[o] = p
    BY DEF Known
  <1>7. \A o \in DOMAIN known : bytes'[block[p].ptr + o] = known[o]
    <2> SUFFICES ASSUME NEW o \in 0 .. block[p].layout.size - 1 PROVE bytes'[block[p].ptr + o] = p
      BY <1>6
    <2>1. Held(p)
      BY <1>1, NotNone, Now
    <2>2. block[p].ptr + o \in heap!Extent(block[p])
      BY Now, Extents
    <2>3. block[p].ptr + o \in HeapMemory
      BY <2>1, <2>2, Now DEF Sound, Mine, Old
    <2> QED
      BY <1>4, <2>2, <2>3
  <1> HIDE DEF known
  <1> QED
    BY <1>1, <1>2, <1>3, <1>5, <1>6, <1>7, IdleKeeps, Now, Zenon

LEMMA NothingKeeps ==
  ASSUME IInv, NEW p \in Processor, allocate_nothing(p) \/ deallocate_nothing(p) \/ shrink_to_nothing(p)
  PROVE  IInv'
  <1>0. bytes \in [HeapMemory -> Int]
    BY Now DEF Types
  <1>1. CASE allocate_nothing(p)
    <2>1. PICK layout \in HeapLayouts : layout.size = 0 /\ Has(p, [ptr |-> dangling, layout |-> layout], Unknown)
      BY <1>1 DEF allocate_nothing
    <2>2. At(p, "idle") /\ ~Held(p) /\ UNCHANGED <<owned, lock, bytes, running>>
      BY <1>1 DEF allocate_nothing, None, NoBlockYet, Held, dangling
    <2> DEFINE h == [ptr |-> dangling, layout |-> layout]
    <2>3. h \in Handle /\ h.ptr = dangling /\ h.layout.size = 0
      BY <2>1 DEF Handle, Layout, dangling
    <2> HIDE DEF h
    <2> QED
      BY <1>0, <2>1, <2>2, <2>3, IdleKeeps, UnknownEmpty DEF h
  <1>2. CASE deallocate_nothing(p)
    <2>1. At(p, "idle") /\ ~Held(p) /\ Has(p, NoBlockYet, Unknown) /\ UNCHANGED <<owned, lock, bytes, running>>
      BY <1>2, NothingAt, Zenon DEF deallocate_nothing, Held
    <2> QED
      BY <1>0, <2>1, IdleKeeps, UnknownEmpty, Layouts
  <1>3. CASE shrink_to_nothing(p)
    <2>1. PICK layout \in HeapLayouts :
            /\ layout.size = 0
            /\ IF block[p].ptr = dangling
               THEN Has(p, [block[p] EXCEPT !.layout = layout], Unknown) /\ UNCHANGED <<owned, lock, bytes, running>>
               ELSE Calls(p, "shrink to nothing", layout)
      BY <1>3, Zenon DEF shrink_to_nothing
    <2>2. At(p, "idle") /\ ~None(p) /\ layout \in Layout
      BY <1>3, Zenon DEF shrink_to_nothing, Layout
    <2>3. CASE block[p].ptr = dangling
      <3> DEFINE h == [block[p] EXCEPT !.layout = layout]
      <3>1. h \in Handle /\ h.ptr = dangling /\ h.layout.size = 0 /\ ~Held(p)
        BY <2>1, <2>2, <2>3, Now DEF Handle, Held, dangling
      <3>2. Has(p, h, Unknown) /\ UNCHANGED <<owned, lock, bytes, running>>
        BY <2>1, <2>3
      <3> HIDE DEF h
      <3> QED
        BY <1>0, <2>2, <3>1, <3>2, IdleKeeps, UnknownEmpty
    <2>4. CASE block[p].ptr # dangling
      <3>1. Held(p)
        BY <2>2, <2>4, NotNone
      <3> QED
        BY <2>1, <2>2, <2>4, <3>1, CallKeeps, Zenon DEF Ops
    <2> QED
      BY <2>3, <2>4
  <1> QED
    BY <1>1, <1>2, <1>3

LEMMA AcquireKeeps ==
  ASSUME IInv, NEW p \in Processor, acquire(p)
  PROVE  IInv'
  <1> DEFINE place == IF At(p, "lock") THEN "locked" ELSE "locked again"
             r == [running[p] EXCEPT !.at = place]
  <1>0. running[p] \in Call /\ Called(p) /\ Reached(p) /\ Sound(p)
    BY Now
  <1>1. /\ running' = [running EXCEPT ![p] = r] /\ UNCHANGED <<owned, bytes, block, promise>>
        /\ lock = Unlocked /\ lock' = p /\ (At(p, "lock") \/ At(p, "lock again"))
    BY Zenon DEF acquire, Then
  <1>2. /\ r \in Call /\ r.at = place /\ r.op = running[p].op /\ r.layout = running[p].layout /\ r.new = running[p].new
    BY <1>0, Zenon DEF Call, Places
  <1>3. running'[p] = r
    BY <1>1, Zenon DEF IInv, Types
  <1> HIDE DEF r
  <1>4. \/ At(p, "lock") /\ running'[p].at = "locked"
        \/ At(p, "lock again") /\ running'[p].at = "locked again"
    BY <1>1, <1>2, <1>3, Zenon DEF At
  <1>5. (Gets(p)' <=> Gets(p)) /\ (Copies(p)' <=> Copies(p))
    BY <1>4, Zenon DEF Gets, Copies, At
  <1>6. Called(p)'
    BY <1>0, <1>1, <1>2, <1>3, Zenon DEF Called, Held
  <1>7. Reached(p)'
    BY <1>0, <1>1, <1>2, <1>3, <1>4, <1>5, Zenon DEF Reached, At
  <1>8. Copied(p)'
    BY <1>0, <1>1, <1>2, <1>3, <1>4, Zenon DEF Sound, Copied, At
  <1>9. LockStep(p)
    BY <1>1, Zenon DEF LockStep
  <1> QED
    BY <1>1, <1>2, <1>5, <1>6, <1>7, <1>8, <1>9, MoveKeeps, Zenon

LEMMA AllocKeeps ==
  ASSUME IInv, NEW p \in Processor, alloc(p)
  PROVE  IInv'
  <1>0. /\ running[p] \in Call /\ Called(p) /\ Reached(p) /\ running[p].layout \in Layout
        /\ At(p, "locked") /\ lock = p /\ (running[p].op \in {"alloc", "alloc_zeroed"} \/ Grows(p))
        /\ UNCHANGED <<owned, bytes, block, promise>>
    BY Now, Zenon DEF alloc, Reached, At
  <1>1. ~Gets(p)
    BY <1>0 DEF Gets, Copies, At
  <1>2. CASE lock' = Unlocked /\ Return(p)
    <2>1. running' = [running EXCEPT ![p] = Idle] /\ running'[p].at = "idle" /\ running'[p].op = "none"
      BY <1>2, Handed, Zenon DEF Return
    <2>2. ~Gets(p)' /\ ~Copies(p)'
      BY <2>1, Zenon DEF Gets, Copies, At
    <2>3. Called(p)' /\ Reached(p)' /\ Copied(p)'
      BY <2>1, <2>2, Zenon DEF Called, Reached, Copied, At
    <2>4. LockStep(p)
      BY <1>0, <1>2 DEF LockStep
    <2> QED
      BY <1>0, <1>1, <2>1, <2>2, <2>3, <2>4, MoveKeeps, Layouts, Zenon
  <1>3. ASSUME NEW ptr \in HeapMemory, heap!CanOwn([ptr |-> ptr, layout |-> running[p].layout], owned), UNCHANGED lock,
               running' = [running EXCEPT ![p] = [@ EXCEPT !.at = "found",
                                                           !.new = [ptr |-> ptr, layout |-> running[p].layout]]]
        PROVE  IInv'
    <2> DEFINE h == [ptr |-> ptr, layout |-> running[p].layout]
               r == [running[p] EXCEPT !.at = "found", !.new = h]
    <2>1. h \in Handle /\ h.ptr = ptr /\ h.layout = running[p].layout /\ heap!CanOwn(h, owned)
      BY <1>0, <1>3, Layouts DEF Handle
    <2>2. running' = [running EXCEPT ![p] = r]
      BY <1>3
    <2> HIDE DEF h
    <2>3. r \in Call /\ r.at = "found" /\ r.op = running[p].op /\ r.layout = running[p].layout /\ r.new = h
      BY <1>0, <2>1, Zenon DEF Call, Places
    <2> HIDE DEF r
    <2>4. running'[p] = r
      BY <2>2 DEF IInv, Types
    <2>5. running'[p].at = "found" /\ ~Gets(p)' /\ ~Copies(p)'
      BY <2>3, <2>4, Zenon DEF Gets, Copies, At
    <2>6. Called(p)' /\ Copied(p)'
      BY <1>0, <2>3, <2>4, <2>5, Zenon DEF Called, Held, Copied, At
    <2>7. heap!CanOwn(running'[p].new, owned')
      BY <1>0, <2>1, <2>3, <2>4
    <2>8. Reached(p)'
      BY <1>0, <1>3, <2>1, <2>3, <2>4, <2>5, <2>7 DEF Reached, At, Grows, heap!CanOwn, heap!Extent
    <2>9. LockStep(p)
      BY <1>3 DEF LockStep
    <2> QED
      BY <1>0, <1>1, <2>2, <2>3, <2>5, <2>6, <2>8, <2>9, MoveKeeps, Zenon
  <1> QED
    BY <1>2, <1>3, Zenon DEF alloc

\* Taking a block: at once for alloc, to zero it or to copy into it otherwise.
LEMMA TakeKeeps ==
  ASSUME IInv, NEW p \in Processor, alloc_take(p)
  PROVE  IInv'
  <1> DEFINE taken == running[p].new
  <1>0. /\ running[p] \in Call /\ Called(p) /\ Reached(p) /\ Sound(p) /\ taken \in Handle /\ bytes \in [HeapMemory -> Int]
        /\ At(p, "found") /\ lock = p /\ owned' = owned \cup {taken} /\ UNCHANGED bytes
        /\ running[p].op \in {"alloc", "alloc_zeroed"} \/ Grows(p)
        /\ taken.layout = running[p].layout /\ taken.ptr \in HeapMemory /\ heap!CanOwn(taken, owned)
    BY Now, Zenon DEF alloc_take, Reached, At, Types
  <1> HIDE DEF taken
  <1>1. ~Gets(p)
    BY <1>0 DEF Gets, Copies, At
  <1>2. taken.ptr > dangling /\ taken.layout.size > 0
    BY <1>0, Layouts, Zenon DEF Called, Grows
  <1>3. heap!Extent(taken) \subseteq HeapMemory /\ \A q \in Processor : heap!Extent(taken) \cap Mine(q) = {}
    BY <1>0, FreshApart DEF heap!CanOwn
  <1>4. CASE running[p].op = "alloc"
    <2>1. lock' = Unlocked /\ Return(p) /\ Has(p, taken, Unknown)
      BY <1>4 DEF alloc_take, taken
    <2>2. ~Held(p)
      <3>1. block[p] = NoBlockYet
        BY <1>0, <1>4 DEF Called
      <3> QED
        BY ONLY <3>1 DEF Held, NoBlockYet, dangling
    <2>3. \A k : k \in owned' <=> (k \in owned /\ ~Claims(p, k)) \/ (taken.ptr > dangling /\ k = taken)
      BY <1>0, <1>1, <1>2, <2>2 DEF Claims
    <2>4. LockStep(p)
      BY <1>0, <2>1 DEF LockStep
    <2>5. ReturnsWith(p, taken, Unknown)
      BY <1>0, <1>2, <1>3, <2>1, <2>3, <2>4, Handed, UnknownEmpty, Zenon DEF ReturnsWith
    <2> QED
      BY <2>5, ReturnKeeps
  <1>5. CASE running[p].op # "alloc"
    <2> DEFINE place == IF running[p].op = "alloc_zeroed" THEN "zero" ELSE "copy"
               r == [running[p] EXCEPT !.at = place]
    <2>1. /\ running[p].op = "alloc_zeroed" \/ running[p].op = "realloc"
          /\ running' = [running EXCEPT ![p] = r] /\ UNCHANGED <<block, promise>>
          /\ lock' = IF running[p].op = "alloc_zeroed" THEN lock ELSE Unlocked
      BY <1>5 DEF alloc_take, Then
    <2>2. r \in Call /\ r.at = place /\ r.op = running[p].op /\ r.layout = running[p].layout /\ r.new = taken
      BY <1>0, Zenon DEF Call, Places, taken
    <2> HIDE DEF r
    <2>3. running'[p] = r /\ running' \in [Processor -> Call] /\ \A q \in Processor \ {p} : running'[q] = running[q]
      BY <2>1, <2>2 DEF IInv, Types
    <2>4. /\ running'[p].at = place /\ running'[p].op = running[p].op
          /\ running'[p].layout = running[p].layout /\ running'[p].new = taken
      BY <2>2, <2>3
    <2>5. Types'
      BY <1>0, <2>1, <2>3, Now DEF Types
    <2>6. Frame(p)
      BY <1>0, <2>1, <2>3 DEF Frame
    <2>7. Gets(p)' /\ (Held(p)' <=> Held(p))
      BY <2>1, <2>4, Zenon DEF Gets, Copies, At, Held
    <2>8. New(p)' = heap!Extent(taken) /\ Old(p)' = Old(p) /\ New(p) = {}
      BY <1>1, <2>1, <2>4, <2>7 DEF New, Old, heap!Extent
    <2>9. Mine(p)' = Mine(p) \cup heap!Extent(taken)
      BY <2>8 DEF Mine
    <2>10. Writes(p)
      BY <1>0, <1>3, <2>9 DEF Writes, IInv, Apart
    <2>11. Books(p)
      <3>1. \A k : Claims(p, k)' <=> Claims(p, k) \/ k = taken
        BY <1>1, <2>1, <2>4, <2>7 DEF Claims
      <3>2. \A k : Claims(p, k) => k \in owned
        BY DEF IInv, Accounted
      <3> QED
        BY <1>0, <3>1, <3>2 DEF Books
    <2>12. Shape(p)' /\ Called(p)' /\ Contents(p)'
      BY <1>0, <2>1, <2>4, <2>7, Zenon DEF Sound, Shape, Called, Contents, Held
    <2>13. Copied(p)'
      BY <2>4 DEF Copied, At
    <2>14. Reached(p)'
      <3>1. running[p].op = "realloc" => taken.layout.size > block[p].layout.size
        BY <1>0, Now, Zenon DEF Grows
      <3>2. block'[p] = block[p] /\ running'[p].at # "idle" /\ running'[p].at # "found"
        BY <2>1, <2>4
      <3>3. running'[p].at = "zero" => running'[p].op = "alloc_zeroed" /\ lock' = p
        BY <1>0, <2>1, <2>4, SMTT(30)
      <3>4. running'[p].at \notin {"locked", "lock again", "locked again"}
        <4>1. running'[p].at = "zero" \/ running'[p].at = "copy"
          BY <2>4
        <4> QED
          BY ONLY <4>1, Zenon
      <3>5. running'[p].at = "copy" => running'[p].op = "realloc"
        BY <2>1, <2>4
      <3>6. running'[p].new.ptr \in HeapMemory /\ running'[p].new.layout.size > 0
        BY <1>0, <1>2, <2>4
      <3> QED
        BY <2>4, <3>1, <3>2, <3>3, <3>4, <3>5, <3>6, Zenon DEF Reached, At, Copies
    <2>15. Mine(p)' \subseteq HeapMemory /\ Old(p)' \cap New(p)' = {}
      BY <1>0, <1>3, <2>8, <2>9 DEF Sound, Mine
    <2>16. Sound(p)'
      BY <2>12, <2>13, <2>14, <2>15 DEF Sound
    <2> QED
      BY <2>5, <2>6, <2>10, <2>11, <2>16, StepKeeps
  <1> QED
    BY <1>4, <1>5

LEMMA ZeroKeeps ==
  ASSUME IInv, NEW p \in Processor, alloc_zeroed(p)
  PROVE  IInv'
  <1> DEFINE taken == running[p].new
             known == Known(taken.layout.size, Zero)
  <1>0. /\ Called(p) /\ Reached(p) /\ Sound(p) /\ taken \in Handle /\ bytes \in [HeapMemory -> Int]
        /\ At(p, "zero") /\ lock = p /\ bytes' = Fill(taken, Zero) /\ Has(p, taken, known)
        /\ lock' = Unlocked /\ Return(p) /\ owned' = owned
    BY Now, Zenon DEF alloc_zeroed, Reached, At, Types
  <1>1. Gets(p) /\ ~Held(p) /\ taken.ptr \in HeapMemory /\ taken.layout.size > 0
    <2>1. Gets(p) /\ running[p].op = "alloc_zeroed"
      BY <1>0, Zenon DEF Gets, Reached
    <2>2. block[p] = NoBlockYet
      BY <1>0, <2>1, Zenon DEF Called
    <2>3. ~Held(p)
      BY <2>2 DEF Held, NoBlockYet, dangling
    <2> QED
      BY <1>0, <2>1, <2>3, Zenon DEF Reached
  <1>2. heap!Extent(taken) = New(p) /\ New(p) \subseteq Mine(p) /\ Mine(p) \subseteq HeapMemory
    BY <1>0, <1>1, Zenon DEF New, Mine, Sound
  <1>3. DOMAIN known = 0 .. taken.layout.size - 1 /\ \A o \in DOMAIN known : known[o] = Zero
    BY DEF Known
  <1>4. \A k : Claims(p, k) <=> k = taken
    BY <1>1 DEF Claims
  <1> HIDE DEF taken, known
  <1>5. bytes' \in [HeapMemory -> Int] /\ \A a \in HeapMemory : bytes'[a] = IF a \in New(p) THEN Zero ELSE bytes[a]
    BY <1>0, <1>2 DEF Fill, Zero
  <1>6. \A o \in DOMAIN known : bytes'[taken.ptr + o] = known[o]
    BY <1>0, <1>2, <1>3, <1>5, Extents, Zenon
  <1>7. taken.ptr > dangling
    BY <1>1, Layouts, Zenon
  <1>8. \A k : k \in owned' <=> (k \in owned /\ ~Claims(p, k)) \/ (taken.ptr > dangling /\ k = taken)
    BY <1>0, <1>4, <1>7 DEF IInv, Accounted
  <1>9. \A q \in Processor \ {p} : heap!Extent(taken) \cap Mine(q) = {}
    BY <1>2 DEF IInv, Apart
  <1>10. LockStep(p)
    BY <1>0 DEF LockStep
  <1>11. \A a \in HeapMemory \ Mine(p) : bytes'[a] = bytes[a]
    BY <1>2, <1>5
  <1>12. heap!Extent(taken) \subseteq HeapMemory
    BY <1>2
  <1>13. /\ running' \in [Processor -> Call] /\ running'[p].at = "idle" /\ running'[p].op = "none"
         /\ \A q \in Processor \ {p} : running'[q] = running[q]
    BY <1>0, Handed
  <1>14. taken \in Handle /\ Has(p, taken, known) /\ owned' = owned
    BY <1>0
  <1>15. ReturnsWith(p, taken, known)
    BY <1>1, <1>3, <1>5, <1>6, <1>7, <1>8, <1>9, <1>10, <1>11, <1>12, <1>13, <1>14, Zenon DEF ReturnsWith
  <1> QED
    BY <1>15, ReturnKeeps

\* Freeing the block that p has, which no other has.
LEMMA Freed ==
  ASSUME IInv, NEW p \in Processor, Held(p), Frees(block[p])
  PROVE  /\ owned' = owned \ {block[p]}
         /\ bytes' \in [HeapMemory -> Int]
         /\ \A a \in HeapMemory \ Old(p) : bytes'[a] = bytes[a]
         /\ \A a \in HeapMemory \ Mine(p) : bytes'[a] = bytes[a]
  <1>1. bytes \in [HeapMemory -> Int] /\ bytes' = Fill(block[p], Garbage) /\ owned' = owned \ {block[p]}
    BY Now, Zenon DEF Frees, heap!Dealloc, Types
  <1>2. heap!Extent(block[p]) = Old(p) /\ Old(p) \subseteq Mine(p)
    BY DEF Old, Mine
  <1> QED
    BY <1>1, <1>2 DEF Fill, Garbage

LEMMA DeallocKeeps ==
  ASSUME IInv, NEW p \in Processor, dealloc(p)
  PROVE  IInv'
  <1> DEFINE rest == IF running[p].op = "dealloc" THEN NoBlockYet ELSE [ptr |-> dangling, layout |-> running[p].layout]
  <1>1. /\ At(p, "locked") /\ running[p].op \in {"dealloc", "shrink to nothing"} /\ Frees(block[p])
        /\ Has(p, rest, Unknown) /\ lock' = Unlocked /\ Return(p) /\ lock = p
    BY Now, Zenon DEF dealloc, Reached, At
  <1>2. Held(p) /\ ~Gets(p)
    BY <1>1, Now, Zenon DEF Called, Gets, Copies, At
  <1>3. rest \in Handle /\ (rest = NoBlockYet \/ (rest.ptr = dangling /\ rest.layout.size = 0))
    BY <1>1, Now, Layouts, Zenon DEF Called, Handle, dangling
  <1> HIDE DEF rest
  <1>4. ~(rest.ptr > dangling)
    BY <1>3 DEF NoBlockYet, dangling
  <1>5. \A k : k \in owned' <=> (k \in owned /\ ~Claims(p, k)) \/ (rest.ptr > dangling /\ k = rest)
    BY <1>1, <1>2, <1>4, Freed, Zenon DEF Claims
  <1>6. LockStep(p)
    BY <1>1, Zenon DEF LockStep
  <1>7. bytes' \in [HeapMemory -> Int] /\ \A a \in HeapMemory \ Mine(p) : bytes'[a] = bytes[a]
    BY <1>1, <1>2, Freed, Zenon
  <1>8. ReturnsWith(p, rest, Unknown)
    BY <1>1, <1>3, <1>5, <1>6, <1>7, Handed, UnknownEmpty, Zenon DEF ReturnsWith
  <1> QED
    BY <1>8, ReturnKeeps

LEMMA ShrinkKeeps ==
  ASSUME IInv, NEW p \in Processor, shrink(p)
  PROVE  IInv'
  <1> DEFINE kept == [ptr |-> block[p].ptr, layout |-> running[p].layout]
             known == Below(promise[p], kept.layout.size)
  <1>1. /\ At(p, "locked") /\ lock = p /\ lock' = Unlocked /\ Return(p)
        /\ running[p].op = "shrink" \/ (running[p].op = "realloc" /\ ~Grows(p))
    BY Now, Zenon DEF shrink, Reached, At
  <1>2. /\ heap!Shrink(block[p], running[p].layout) /\ Has(p, kept, known)
        /\ bytes' = [a \in HeapMemory |->
                        IF a \in heap!Extent(block[p]) \ heap!Extent(kept) THEN Garbage ELSE bytes[a]]
    BY Zenon DEF shrink
  <1>3. owned' = (owned \ {block[p]}) \cup {kept}
    BY <1>2, Zenon DEF heap!Shrink
  <1>4. kept \in Handle /\ kept.ptr = block[p].ptr /\ kept.layout = running[p].layout
    BY Now DEF Handle
  <1>5. /\ DOMAIN known = DOMAIN promise[p] \cap 0 .. kept.layout.size - 1
        /\ \A o \in DOMAIN known : known[o] = promise[p][o]
    BY DEF Below
  <1> HIDE DEF kept, known
  <1>6. Held(p) /\ ~Gets(p) /\ kept.layout.size > 0
    BY <1>1, <1>4, Now, Zenon DEF Called, Gets, Copies, At
  <1>7. kept.layout.size <= block[p].layout.size
    <2>1. running[p].layout.size \in Nat /\ block[p].layout.size \in Nat
      BY Now
    <2>2. CASE running[p].op = "shrink"
      BY <1>4, <2>2, Now, Zenon DEF Called
    <2>3. CASE running[p].op = "realloc" /\ ~Grows(p)
      BY <1>4, <2>1, <2>3 DEF Grows
    <2> QED
      BY <1>1, <2>2, <2>3
  <1>8. heap!Extent(kept) \subseteq Old(p) /\ heap!Extent(block[p]) = Old(p)
    <2>1. heap!Extent(kept) \subseteq heap!Extent(block[p])
      BY <1>4, <1>7, Now, Extents
    <2> QED
      BY <1>6, <2>1 DEF Old
  <1>9. Old(p) \subseteq Mine(p) /\ Mine(p) \subseteq HeapMemory
    BY Now, Zenon DEF Mine, Sound
  <1>10. /\ bytes' \in [HeapMemory -> Int]
         /\ \A a \in HeapMemory : bytes'[a] = IF a \in Old(p) \ heap!Extent(kept) THEN Garbage ELSE bytes[a]
    <2>1. bytes \in [HeapMemory -> Int] /\ Garbage \in Int
      BY Now, NothingAt, Zenon DEF Types
    <2> QED
      BY ONLY <1>2, <1>8, <2>1
  <1>11. \A a \in HeapMemory \ Mine(p) : bytes'[a] = bytes[a]
    BY <1>9, <1>10
  <1>12. \A o \in DOMAIN known : bytes'[kept.ptr + o] = known[o]
    <2> SUFFICES ASSUME NEW o \in DOMAIN known PROVE bytes'[kept.ptr + o] = known[o]
      OBVIOUS
    <2>1. o \in DOMAIN promise[p] /\ o \in 0 .. kept.layout.size - 1
      BY <1>5
    <2>2. kept.ptr + o \in heap!Extent(kept)
      BY <1>4, <2>1, Extents
    <2>3. bytes'[kept.ptr + o] = bytes[kept.ptr + o]
      BY <1>8, <1>9, <1>10, <2>2
    <2>4. bytes[block[p].ptr + o] = promise[p][o]
      BY <2>1, Now DEF Sound, Contents
    <2> QED
      BY <1>4, <1>5, <2>3, <2>4
  <1>13. kept.ptr > dangling
    BY <1>4, <1>6 DEF Held
  <1>14. \A k : k \in owned' <=> (k \in owned /\ ~Claims(p, k)) \/ (kept.ptr > dangling /\ k = kept)
    BY <1>3, <1>6, <1>13 DEF Claims
  <1>15. /\ heap!Extent(kept) \subseteq HeapMemory
         /\ \A q \in Processor \ {p} : heap!Extent(kept) \cap Mine(q) = {}
    BY <1>8, <1>9 DEF IInv, Apart
  <1>16. LockStep(p)
    BY <1>1 DEF LockStep
  <1>17. DOMAIN known \subseteq 0 .. kept.layout.size - 1
    BY <1>5
  <1>18. /\ running' \in [Processor -> Call] /\ running'[p].at = "idle" /\ running'[p].op = "none"
         /\ \A q \in Processor \ {p} : running'[q] = running[q]
    BY <1>1, Handed
  <1>19. ReturnsWith(p, kept, known)
    BY <1>1, <1>2, <1>4, <1>6, <1>10, <1>11, <1>12, <1>13, <1>14, <1>15, <1>16, <1>17, <1>18, Zenon DEF ReturnsWith
  <1> QED
    BY <1>19, ReturnKeeps

LEMMA CopyKeeps ==
  ASSUME IInv, NEW p \in Processor, realloc_copy(p)
  PROVE  IInv'
  <1> DEFINE taken == running[p].new
             r == [running[p] EXCEPT !.at = "lock again"]
  <1>0. /\ At(p, "copy") /\ Copies(p) /\ Gets(p) /\ running[p] \in Call /\ Sound(p) /\ Reached(p) /\ taken \in Handle
        /\ running' = [running EXCEPT ![p] = r] /\ UNCHANGED <<owned, lock, block, promise>>
    BY Now, Zenon DEF realloc_copy, Copies, Gets, At, Then
  <1>1. r \in Call /\ r.at = "lock again" /\ r.op = running[p].op /\ r.layout = running[p].layout /\ r.new = taken
    BY <1>0, Zenon DEF Call, Places
  <1> HIDE DEF r
  <1>2. running'[p] = r /\ running' \in [Processor -> Call] /\ \A q \in Processor \ {p} : running'[q] = running[q]
    BY <1>0, <1>1, Zenon DEF IInv, Types
  <1>3. /\ running'[p].at = "lock again" /\ running'[p].op = running[p].op
        /\ running'[p].layout = running[p].layout /\ running'[p].new = taken
    BY <1>1, <1>2, Zenon
  <1>4. Gets(p)' /\ Copies(p)' /\ (Held(p)' <=> Held(p)) /\ block'[p] = block[p] /\ promise'[p] = promise[p]
    BY <1>0, <1>3, Zenon DEF Gets, Copies, At, Held
  <1>5. New(p)' = New(p) /\ Old(p)' = Old(p) /\ Mine(p)' = Mine(p) /\ heap!Extent(taken) = New(p)
    BY <1>0, <1>3, <1>4, Zenon DEF New, Old, Mine, heap!Extent
  <1>6. /\ block[p].ptr \in Nat /\ block[p].layout.size \in Nat /\ taken.ptr \in Nat /\ taken.layout.size \in Nat
        /\ taken.layout.size > block[p].layout.size /\ bytes \in [HeapMemory -> Int] /\ Held(p)
    BY <1>0, Now, Zenon DEF Reached, Called, Types
  <1>7. \A a \in HeapMemory :
          bytes'[a] = IF a - taken.ptr \in 0 .. block[p].layout.size - 1
                      THEN bytes[block[p].ptr + (a - taken.ptr)] ELSE bytes[a]
    BY Zenon DEF realloc_copy
  <1>8. bytes' \in [HeapMemory -> Int]
    <2>1. \A i \in 0 .. block[p].layout.size - 1 : block[p].ptr + i \in HeapMemory
      BY <1>6, Now, Extents, Zenon DEF Sound, Mine, Old
    <2>2. \A a \in HeapMemory :
            (IF a - taken.ptr \in 0 .. block[p].layout.size - 1
             THEN bytes[block[p].ptr + (a - taken.ptr)] ELSE bytes[a]) \in Int
      BY <1>6, <2>1
    <2> QED
      BY <2>2, Zenon DEF realloc_copy
  <1> HIDE DEF taken
  <1>9. \A a \in HeapMemory \ New(p) : bytes'[a] = bytes[a]
    <2> SUFFICES ASSUME NEW a \in HeapMemory, a \notin New(p) PROVE bytes'[a] = bytes[a]
      OBVIOUS
    <2>1. a \in Nat /\ ~(taken.ptr <= a /\ a < taken.ptr + taken.layout.size)
      <3>1. a \in Nat /\ a \notin heap!Extent(taken)
        BY <1>5, Layouts, Zenon
      <3>2. a \in heap!Extent(taken) <=> a \in Int /\ taken.ptr <= a /\ a < taken.ptr + taken.layout.size
        BY <1>0, Extents, Zenon
      <3> QED
        BY ONLY <3>1, <3>2
    <2>2. a - taken.ptr \notin 0 .. block[p].layout.size - 1
      BY <1>6, <2>1
    <2> QED
      BY <1>7, <2>2
  <1>10. \A o \in DOMAIN promise[p] : bytes'[taken.ptr + o] = promise[p][o] /\ bytes'[block[p].ptr + o] = promise[p][o]
    <2> SUFFICES ASSUME NEW o \in DOMAIN promise[p]
                 PROVE  bytes'[taken.ptr + o] = promise[p][o] /\ bytes'[block[p].ptr + o] = promise[p][o]
      BY Zenon
    <2>1. /\ o \in Nat /\ o < block[p].layout.size /\ block[p].ptr + o \in Old(p) /\ taken.ptr + o \in New(p)
      BY <1>0, Now, KnownIsMine, Zenon DEF taken
    <2>2. block[p].ptr + o \in HeapMemory \ New(p) /\ taken.ptr + o \in HeapMemory
      BY <1>0, <2>1 DEF Sound, Mine
    <2>3. bytes[block[p].ptr + o] = promise[p][o]
      BY <1>0, Zenon DEF Sound, Contents
    <2>4. (taken.ptr + o) - taken.ptr = o /\ o \in 0 .. block[p].layout.size - 1
      BY <1>6, <2>1
    <2>5. bytes'[taken.ptr + o] = bytes[block[p].ptr + o]
      BY <1>7, <2>2, <2>4
    <2> QED
      BY <1>9, <2>2, <2>3, <2>5
  <1>11. Types' /\ Frame(p)
    BY <1>0, <1>2, <1>8, Now, Zenon DEF Types, Frame
  <1>12. Writes(p)
    BY <1>5, <1>9, Zenon DEF Writes, Mine, IInv, Apart
  <1>13. Books(p)
    <2>1. \A k : Claims(p, k)' <=> Claims(p, k)
      BY <1>0, <1>3, <1>4, Zenon DEF Claims, taken
    <2> QED
      BY <1>0, <2>1 DEF Books, IInv, Accounted
  <1>14. Shape(p)' /\ Called(p)'
    BY <1>0, <1>3, <1>4, Now, Zenon DEF Shape, Called, Held
  <1>15. Reached(p)'
    BY <1>0, <1>3, <1>4, Zenon DEF Reached, At, taken
  <1>16. Contents(p)' /\ Copied(p)'
    BY <1>3, <1>4, <1>10, Zenon DEF Contents, Copied
  <1>17. Sound(p)'
    BY <1>0, <1>5, <1>14, <1>15, <1>16 DEF Sound
  <1> QED
    BY <1>11, <1>12, <1>13, <1>17, StepKeeps

LEMMA ReallocFreeKeeps ==
  ASSUME IInv, NEW p \in Processor, realloc_free(p)
  PROVE  IInv'
  <1> DEFINE taken == running[p].new
  <1>1. /\ At(p, "locked again") /\ lock = p /\ lock' = Unlocked /\ Return(p)
        /\ Frees(block[p]) /\ Has(p, taken, promise[p]) /\ Copies(p) /\ Gets(p) /\ Sound(p) /\ taken \in Handle
    BY Now, Zenon DEF realloc_free, Reached, At, Copies, Gets
  <1>2. /\ Held(p) /\ taken.ptr \in HeapMemory /\ taken.layout.size > 0 /\ taken.layout.size > block[p].layout.size
        /\ block[p].layout.size \in Nat /\ taken.layout.size \in Nat
    BY <1>1, Now, Zenon DEF Reached, Called
  <1>3. heap!Extent(taken) = New(p) /\ New(p) \subseteq Mine(p) /\ Mine(p) \subseteq HeapMemory /\ Old(p) \cap New(p) = {}
    BY <1>1, Zenon DEF New, Mine, Sound
  <1>4. \A k : Claims(p, k) <=> k = block[p] \/ k = taken
    BY <1>1, <1>2, Zenon DEF Claims
  <1>5. block[p] # taken
    <2>1. taken.ptr \in New(p) /\ block[p].ptr \in Old(p)
      <3>1. block[p] \in Handle /\ block[p].layout.size > 0
        <4>1. block[p] \in Handle /\ Shape(p)
          BY Now
        <4> QED
          BY ONLY <1>2, <4>1, SMTT(30) DEF Shape, Held, NoBlockYet, dangling
      <3>2. heap!Extent(block[p]) = Old(p)
        BY <1>2 DEF Old
      <3> QED
        BY <1>1, <1>2, <1>3, <3>1, <3>2, Extents, Zenon
    <2> QED
      BY <1>3, <2>1
  <1> HIDE DEF taken
  <1>6. taken.ptr > dangling
    BY <1>2, Layouts
  <1>7. \A k : k \in owned' <=> (k \in owned /\ ~Claims(p, k)) \/ (taken.ptr > dangling /\ k = taken)
    <2>1. taken \in owned
      BY <1>4 DEF IInv, Accounted
    <2>2. owned' = owned \ {block[p]}
      BY <1>1, <1>2, Freed, Zenon
    <2> QED
      BY <1>4, <1>5, <1>6, <2>1, <2>2
  <1>8. /\ bytes' \in [HeapMemory -> Int] /\ \A a \in HeapMemory \ Mine(p) : bytes'[a] = bytes[a]
        /\ \A a \in New(p) : bytes'[a] = bytes[a]
    BY <1>1, <1>2, <1>3, Freed, Zenon
  <1>9. \A o \in DOMAIN promise[p] : bytes'[taken.ptr + o] = promise[p][o]
    <2> SUFFICES ASSUME NEW o \in DOMAIN promise[p] PROVE bytes'[taken.ptr + o] = promise[p][o]
      BY Zenon
    <2>1. taken.ptr + o \in New(p)
      BY <1>1, Now, KnownIsMine, Zenon DEF taken
    <2>2. bytes[taken.ptr + o] = promise[p][o]
      BY <1>1, Zenon DEF Sound, Copied, taken
    <2> QED
      BY <1>8, <2>1, <2>2
  <1>10. DOMAIN promise[p] \subseteq 0 .. taken.layout.size - 1
    <2>1. DOMAIN promise[p] \subseteq 0 .. block[p].layout.size - 1
      BY Now, Zenon DEF Shape
    <2> QED
      BY ONLY <1>2, <2>1
  <1>11. heap!Extent(taken) \subseteq HeapMemory /\ \A q \in Processor \ {p} : heap!Extent(taken) \cap Mine(q) = {}
    BY <1>3 DEF IInv, Apart
  <1>12. LockStep(p)
    BY <1>1, Zenon DEF LockStep
  <1>13. /\ running' \in [Processor -> Call] /\ running'[p].at = "idle" /\ running'[p].op = "none"
         /\ \A q \in Processor \ {p} : running'[q] = running[q]
    BY <1>1, Handed, Zenon
  <1>14. ReturnsWith(p, taken, promise[p])
    BY <1>1, <1>2, <1>6, <1>7, <1>8, <1>9, <1>10, <1>11, <1>12, <1>13, Zenon DEF ReturnsWith
  <1> QED
    BY <1>14, ReturnKeeps

----------------------------------------------------------------------------
(* The results.                                                            *)

LEMMA NextKeeps == IInv /\ [TallockNext]_tallockVars => IInv'
  <1>1. ASSUME IInv, UNCHANGED tallockVars PROVE IInv'
    <2>1. UNCHANGED <<owned, lock, bytes, block, promise, running>>
      BY <1>1 DEF tallockVars
    <2>2. Types'
      BY <1>1, <2>1 DEF IInv, Types
    <2>3. ASSUME NEW p \in Processor
          PROVE  (Held(p)' <=> Held(p)) /\ (Gets(p)' <=> Gets(p)) /\ (Copies(p)' <=> Copies(p))
      BY <2>1 DEF Held, Gets, Copies, At
    <2>4. \A p \in Processor : Old(p)' = Old(p) /\ New(p)' = New(p) /\ Mine(p)' = Mine(p)
      BY <2>1, <2>3, Zenon DEF Old, New, Mine, heap!Extent
    <2>5. Accounted' /\ Apart'
      BY <1>1, <2>1, <2>3, <2>4 DEF IInv, Accounted, Apart, Claims
    <2>6. ASSUME NEW p \in Processor PROVE Sound(p)'
      <3>1. Shape(p)' /\ Called(p)'
        BY <1>1, <2>1, <2>3, Now, Zenon DEF Shape, Called
      <3>2. Reached(p)'
        BY <1>1, <2>1, <2>3, Now, Zenon DEF Reached, At, Grows, heap!CanOwn, heap!Extent
      <3>3. Contents(p)' /\ Copied(p)'
        BY <1>1, <2>1, Now, Zenon DEF Sound, Contents, Copied, At
      <3> QED
        BY <1>1, <2>4, <3>1, <3>2, <3>3, Now, Zenon DEF Sound
    <2> QED
      BY <2>2, <2>5, <2>6 DEF IInv
  <1>2. ASSUME IInv, TallockNext PROVE IInv'
    BY <1>2, WritesKeep, CallsKeep, FreesKeep, NothingKeeps, AcquireKeeps, AllocKeeps, TakeKeeps, ZeroKeeps,
       DeallocKeeps, ShrinkKeeps, CopyKeeps, ReallocFreeKeeps DEF TallockNext
  <1> QED
    BY <1>1, <1>2

\* The lock, the copy and the order of freeing keep the invariant: methods of
\* different processors that find, take, copy and free blocks in every
\* interleaving own disjoint memory, and what they own is what Talloc gave out.
THEOREM TallockKeepsInv == TallockSpec => []IInv
  BY Initial, NextKeeps, PTL DEF TallockSpec

\* Callers find in their blocks what they wrote there, through realloc and
\* shrink, and zeros after alloc_zeroed.
THEOREM CallersKeepContents == TallockSpec => []ContentsKept
  <1>1. IInv => ContentsKept
    BY Zenon DEF IInv, Sound, Contents, ContentsKept
  <1> QED
    BY <1>1, TallockKeepsInv, PTL

\* Talloc has given out exactly the blocks that callers have and that realloc
\* and alloc_zeroed are about to return.
THEOREM NoBlockLost == TallockSpec => []BlocksAccounted
  <1>1. IInv => BlocksAccounted
    BY DEF IInv, Accounted, Claims, Held, Gets, BlocksAccounted
  <1> QED
    BY <1>1, TallockKeepsInv, PTL

(***************************************************************************)
(* Llist: the links of the nodes in a list are each other's inverse.       *)
(***************************************************************************)

\* The links, for step lemmas: on a set of nodes they are each other's inverse.
Mutual(nx, pv, nodes) ==
  \A n \in nodes : nx[n] \in nodes /\ pv[n] \in nodes /\ pv[nx[n]] = n /\ nx[pv[n]] = n

LinkTypes ==
  /\ next \in [Node -> Node \cup {Dangling}]
  /\ prev \in [Node -> Node \cup {Dangling}]
  /\ heads \in [List -> Linked]

LEMMA LinksOfInv == LinksInverse <=> LinkTypes /\ Mutual(next, prev, Linked)
BY DEF LinksInverse, LinkTypes, Mutual

LEMMA LinkedIn == Linked \subseteq Node /\ Dangling \notin Linked
BY LlistAssumption DEF Linked

LEMMA KeepNewLlist ==
  ASSUME LinksInverse, NEW node \in Node, new_llist(node)
  PROVE  LinksInverse'
<1>1. LinkTypes /\ Mutual(next, prev, Linked) /\ Linked \subseteq Node
  BY LinksOfInv, LinkedIn
<1>2. Linked' = Linked \cup {node}
  BY <1>1, LlistAssumption DEF Linked, LinkTypes, new_llist
<1>3. LinkTypes'
  BY <1>1, <1>2 DEF LinkTypes, new_llist
<1>4. Mutual(next', prev', Linked \cup {node})
  <2> SUFFICES ASSUME NEW n \in Linked \cup {node}
               PROVE  /\ next'[n] \in Linked \cup {node} /\ prev'[n] \in Linked \cup {node}
                      /\ prev'[next'[n]] = n /\ next'[prev'[n]] = n
    BY DEF Mutual
  <2>1. CASE n = node
    BY <1>1, <2>1 DEF LinkTypes, new_llist
  <2>2. CASE n \in Linked /\ n # node
    <3>1. next[n] \in Linked /\ prev[n] \in Linked /\ node \notin Linked
      BY <1>1, <2>2 DEF Mutual, new_llist
    <3>2. next'[n] = next[n] /\ prev'[n] = prev[n]
      BY <1>1, <2>2 DEF LinkTypes, new_llist
    <3>3. next'[prev[n]] = next[prev[n]] /\ prev'[next[n]] = prev[next[n]]
      BY <1>1, <3>1 DEF LinkTypes, new_llist
    <3> QED
      BY <1>1, <2>2, <3>1, <3>2, <3>3 DEF Mutual
  <2> QED
    BY <2>1, <2>2
<1>5. Mutual(next, prev, Linked)'
  BY <1>2, <1>4 DEF Mutual
<1> QED
  BY <1>3, <1>5 DEF LinksInverse, LinkTypes, Mutual

\* A step is right when it is right about the nodes that are linked after it.
LEMMA MutualNext ==
  ASSUME NEW L, L = Linked', LinkTypes', Mutual(next', prev', L)
  PROVE  LinksInverse'
BY DEF LinksInverse, LinkTypes, Mutual

LEMMA KeepNew ==
  ASSUME LinksInverse, NEW node \in Node, NEW p \in Linked, new(node, p, next[p])
  PROVE  LinksInverse'
<1> DEFINE m == next[p]
           L == Linked \cup {node}
<1>1. LinkTypes /\ Mutual(next, prev, Linked) /\ Linked \subseteq Node
  BY LinksOfInv, LinkedIn
<1>2. /\ node \notin Linked /\ m \in Linked /\ prev[m] = p
      /\ next' = [next EXCEPT ![node] = m, ![p] = node]
      /\ prev' = [prev EXCEPT ![node] = p, ![m] = node]
      /\ heads' = heads
  BY <1>1 DEF Mutual, new
<1> HIDE DEF m
<1>3. \A x \in Node : /\ next'[x] = IF x = p THEN node ELSE IF x = node THEN m ELSE next[x]
                      /\ prev'[x] = IF x = m THEN node ELSE IF x = node THEN p ELSE prev[x]
  BY <1>1, <1>2 DEF LinkTypes
<1>4. L = Linked'
  <2>1. node # Dangling /\ m # Dangling /\ p \in Node /\ next[p] # Dangling
    BY <1>1, <1>2, LlistAssumption DEF Linked
  <2>2. \A x \in Node : next'[x] # Dangling <=> (next[x] # Dangling \/ x = node)
    BY <1>3, <2>1
  <2> QED
    BY <2>2 DEF Linked
<1>5. LinkTypes'
  BY <1>1, <1>2, <1>4 DEF LinkTypes
<1>6. ASSUME NEW n \in L
      PROVE  /\ next'[n] \in L /\ prev'[n] \in L
             /\ prev'[next'[n]] = n /\ next'[prev'[n]] = n
  <2>1. \A x \in Linked : /\ next[x] \in Linked /\ prev[x] \in Linked
                          /\ prev[next[x]] = x /\ next[prev[x]] = x
    BY <1>1 DEF Mutual
  <2>2. L \subseteq Node
    BY <1>1
  <2>3. p \in Linked /\ m \in Linked /\ next[p] = m /\ prev[m] = p /\ node \notin Linked
    BY <1>2 DEF m
  <2>4. CASE n = node
    BY <1>3, <2>2, <2>3, <2>4
  <2>5. CASE n \in Linked
    <3>1. next'[n] = (IF n = p THEN node ELSE next[n]) /\ prev'[n] = (IF n = m THEN node ELSE prev[n])
      BY <1>3, <2>2, <2>3, <2>5
    <3>2. n # p => next[n] # m /\ prev'[next[n]] = prev[next[n]]
      BY <1>3, <2>1, <2>2, <2>3, <2>5
    <3>3. n # m => prev[n] # p /\ next'[prev[n]] = next[prev[n]]
      BY <1>3, <2>1, <2>2, <2>3, <2>5
    <3>4. prev'[node] = p /\ next'[node] = m
      BY <1>3, <2>2, <2>3
    <3> QED
      BY <2>1, <2>5, <3>1, <3>2, <3>3, <3>4
  <2> QED
    BY <2>4, <2>5
<1> QED
  BY <1>4, <1>5, <1>6, MutualNext DEF Mutual

LEMMA KeepMov ==
  ASSUME LinksInverse, NEW src \in Node, NEW dst \in Node, mov(src, dst)
  PROVE  LinksInverse'
<1> DEFINE s == next[src]
           q == prev[src]
           L == (Linked \ {src}) \cup {dst}
<1>1. LinkTypes /\ Mutual(next, prev, Linked) /\ Linked \subseteq Node
  BY LinksOfInv, LinkedIn
<1>2. /\ src \in Linked /\ dst \notin Linked /\ s \in Linked /\ q \in Linked
      /\ prev[s] = src /\ next[q] = src
      /\ (s = src <=> q = src)
  BY <1>1 DEF Mutual, mov
<1>3. \A x \in Node : /\ next'[x] = IF x = src THEN Dangling
                                    ELSE IF x = dst THEN (IF q = src THEN dst ELSE s)
                                    ELSE IF x = q THEN dst ELSE next[x]
                      /\ prev'[x] = IF x = src THEN Dangling
                                    ELSE IF x = dst THEN (IF s = src THEN dst ELSE q)
                                    ELSE IF x = s THEN dst ELSE prev[x]
  BY <1>1, <1>2 DEF LinkTypes, mov
<1>4. /\ next' \in [Node -> Node \cup {Dangling}]
      /\ prev' \in [Node -> Node \cup {Dangling}]
  BY <1>1, <1>2 DEF LinkTypes, mov
<1>5. heads' = [l \in List |-> IF heads[l] = src THEN dst ELSE heads[l]]
  BY DEF mov
<1> HIDE DEF s, q
<1>6. L = Linked'
  <2>1. \A x \in Node : x \in L <=> next'[x] # Dangling
    <3> SUFFICES ASSUME NEW x \in Node PROVE x \in L <=> next'[x] # Dangling
      OBVIOUS
    <3>1. x \in Linked <=> next[x] # Dangling
      BY Zenon DEF Linked
    <3>2. s # Dangling /\ dst # Dangling /\ src # dst
      BY <1>2, LlistAssumption, LinkedIn, Zenon
    <3>3. q \in Linked /\ src \in Linked /\ dst \notin Linked
      BY <1>2, Zenon
    <3>4. next'[x] = IF x = src THEN Dangling
                     ELSE IF x = dst THEN (IF q = src THEN dst ELSE s)
                     ELSE IF x = q THEN dst ELSE next[x]
      BY <1>3, Zenon
    <3> QED
      BY ONLY <3>1, <3>2, <3>3, <3>4
  <2>2. L \subseteq Node
    BY <1>1, Zenon
  <2> QED
    BY <2>1, <2>2, Zenon DEF Linked
<1>7. LinkTypes'
  BY <1>1, <1>4, <1>5, <1>6 DEF LinkTypes
<1>8. ASSUME NEW n \in L
      PROVE  /\ next'[n] \in L /\ prev'[n] \in L
             /\ prev'[next'[n]] = n /\ next'[prev'[n]] = n
  <2>1. \A x \in Linked : /\ next[x] \in Linked /\ prev[x] \in Linked
                          /\ prev[next[x]] = x /\ next[prev[x]] = x
    BY <1>1 DEF Mutual
  <2>2. L \subseteq Node
    BY <1>1
  <2>3. next[src] = s /\ prev[src] = q
    BY Zenon DEF s, q
  <2> QED
    BY ONLY n \in L, dst \in Node, src \in Node, <1>1, <1>2, <1>3, <2>1, <2>2, <2>3
<1> QED
  BY <1>6, <1>7, <1>8, MutualNext DEF Mutual

LEMMA KeepRemove ==
  ASSUME LinksInverse, NEW node \in Node, remove(node)
  PROVE  LinksInverse'
<1> DEFINE s == next[node]
           q == prev[node]
           L == Linked \ {node}
<1>1. LinkTypes /\ Mutual(next, prev, Linked) /\ Linked \subseteq Node
  BY LinksOfInv, LinkedIn
<1>2. /\ node \in Linked /\ s \in Linked /\ q \in Linked
      /\ prev[s] = node /\ next[q] = node
      /\ (s = node <=> q = node)
      /\ node \notin Heads
  BY <1>1 DEF Mutual, remove
<1>3. \A x \in Node : /\ next'[x] = IF x = node THEN Dangling ELSE IF x = q THEN s ELSE next[x]
                      /\ prev'[x] = IF x = node THEN Dangling ELSE IF x = s THEN q ELSE prev[x]
  BY <1>1, <1>2 DEF LinkTypes, remove
<1>4. /\ next' \in [Node -> Node \cup {Dangling}]
      /\ prev' \in [Node -> Node \cup {Dangling}]
      /\ heads' = heads
  BY <1>1, <1>2 DEF LinkTypes, remove
<1> HIDE DEF s, q
<1>5. L = Linked'
  <2>1. \A x \in Node : x \in L <=> next'[x] # Dangling
    <3> SUFFICES ASSUME NEW x \in Node PROVE x \in L <=> next'[x] # Dangling
      OBVIOUS
    <3>1. x \in Linked <=> next[x] # Dangling
      BY Zenon DEF Linked
    <3>2. s # Dangling /\ q \in Linked
      BY <1>2, LinkedIn, Zenon
    <3>3. next'[x] = IF x = node THEN Dangling ELSE IF x = q THEN s ELSE next[x]
      BY <1>3, Zenon
    <3> QED
      BY ONLY <3>1, <3>2, <3>3
  <2>2. L \subseteq Node
    BY <1>1, Zenon
  <2> QED
    BY <2>1, <2>2, Zenon DEF Linked
<1>6. LinkTypes'
  <2>1. \A l \in List : heads[l] # node
    BY <1>2, Zenon DEF Heads
  <2> QED
    BY <1>1, <1>4, <1>5, <2>1 DEF LinkTypes
<1>7. ASSUME NEW n \in L
      PROVE  /\ next'[n] \in L /\ prev'[n] \in L
             /\ prev'[next'[n]] = n /\ next'[prev'[n]] = n
  <2>1. \A x \in Linked : /\ next[x] \in Linked /\ prev[x] \in Linked
                          /\ prev[next[x]] = x /\ next[prev[x]] = x
    BY <1>1 DEF Mutual
  <2>2. L \subseteq Node
    BY <1>1
  <2> QED
    BY <1>1, <1>2, <1>3, <2>1, <2>2 DEF s, q
<1> QED
  BY <1>5, <1>6, <1>7, MutualNext DEF Mutual

\* What the chain and the neighbours of relink have to do with each other: the
\* neighbours are outside the chain and neighbours already, or they are the
\* chain's own, or all four are one node.
LEMMA RelinkCases ==
  ASSUME NEW start, NEW end, NEW p, NEW n, RelinkArguments(start, end, p, n)
  PROVE  /\ start \in Linked /\ end \in Linked /\ p \in Linked /\ n \in Linked
         /\ \/ next[p] = n /\ p \notin {start, end} /\ n \notin {start, end}
            \/ p = prev[start] /\ n = next[end] /\ p \notin {start, end} /\ n \notin {start, end}
            \/ end = start /\ p = start /\ n = start
BY DEF RelinkArguments

LEMMA KeepRelink ==
  ASSUME LinksInverse, NEW start, NEW end, NEW p, NEW n, relink(start, end, p, n)
  PROVE  LinksInverse'
<1> DEFINE sp == prev[start]
           en == next[end]
<1>1. LinkTypes /\ Mutual(next, prev, Linked) /\ Linked \subseteq Node
  BY LinksOfInv, LinkedIn
<1>2. start \in Linked /\ end \in Linked /\ p \in Linked /\ n \in Linked
  BY RelinkCases DEF relink
<1>3. \/ next[p] = n /\ p \notin {start, end} /\ n \notin {start, end}
      \/ p = prev[start] /\ n = next[end] /\ p \notin {start, end} /\ n \notin {start, end}
      \/ end = start /\ p = start /\ n = start
  BY RelinkCases DEF relink
<1>4. \A x \in Linked : /\ next[x] \in Linked /\ prev[x] \in Linked
                        /\ prev[next[x]] = x /\ next[prev[x]] = x
  BY <1>1 DEF Mutual
<1>5. sp \in Linked /\ en \in Linked /\ next[sp] = start /\ prev[en] = end
  BY <1>2, <1>4
<1>6. /\ next' = [[[next EXCEPT ![sp] = en] EXCEPT ![end] = n] EXCEPT ![p] = start]
      /\ prev' = [[[prev EXCEPT ![en] = sp] EXCEPT ![start] = p] EXCEPT ![n] = end]
      /\ heads' = heads
  BY DEF relink
<1>7. \A x \in Node : /\ next'[x] = IF x = p THEN start ELSE IF x = end THEN n ELSE IF x = sp THEN en ELSE next[x]
                      /\ prev'[x] = IF x = n THEN end ELSE IF x = start THEN p ELSE IF x = en THEN sp ELSE prev[x]
  BY <1>1, <1>6 DEF LinkTypes
<1>8. /\ next' \in [Node -> Node \cup {Dangling}]
      /\ prev' \in [Node -> Node \cup {Dangling}]
  BY <1>1, <1>2, <1>5, <1>6 DEF LinkTypes
<1> HIDE DEF sp, en
<1>9. Linked = Linked'
  <2>1. start # Dangling /\ n # Dangling /\ en # Dangling
    BY <1>2, <1>5, LinkedIn
  <2>2. next[p] # Dangling /\ next[end] # Dangling /\ next[sp] # Dangling
    BY <1>2, <1>4, <1>5, LinkedIn
  <2>3. \A x \in Node : next'[x] # Dangling <=> next[x] # Dangling
    BY <1>7, <2>1, <2>2
  <2> QED
    BY <2>3 DEF Linked
<1>10. LinkTypes'
  BY <1>1, <1>6, <1>8, <1>9 DEF LinkTypes
<1>11. \A x \in Linked : /\ next'[x] = IF x = p THEN start ELSE IF x = end THEN n ELSE IF x = sp THEN en ELSE next[x]
                         /\ prev'[x] = IF x = n THEN end ELSE IF x = start THEN p ELSE IF x = en THEN sp ELSE prev[x]
  BY <1>1, <1>7
<1>12. CASE next[p] = n /\ p \notin {start, end} /\ n \notin {start, end}
  <2>1. p # sp /\ n # en /\ (sp = end <=> en = start)
    BY <1>2, <1>4, <1>5, <1>12 DEF sp, en
  <2>2. /\ next'[p] = start /\ next'[end] = n /\ prev'[n] = end /\ prev'[start] = p
        /\ sp # end => next'[sp] = en /\ prev'[en] = sp
    BY <1>2, <1>5, <1>11, <1>12, <2>1
  <2>3. \A x \in Linked : x \notin {p, end, sp} => next[x] \notin {n, start, en}
    BY <1>2, <1>4, <1>5, <1>12 DEF sp, en
  <2>4. \A x \in Linked : x \notin {n, start, en} => prev[x] \notin {p, end, sp}
    BY <1>2, <1>4, <1>5, <1>12 DEF sp, en
  <2>5. \A x \in Linked : x \notin {p, end, sp} => next'[x] = next[x] /\ prev'[next[x]] = x
    BY <1>4, <1>11, <2>3
  <2>6. \A x \in Linked : x \notin {n, start, en} => prev'[x] = prev[x] /\ next'[prev[x]] = x
    BY <1>4, <1>11, <2>4
  <2>7. Mutual(next', prev', Linked)
    BY <1>2, <1>4, <1>5, <2>1, <2>2, <2>5, <2>6 DEF Mutual
  <2> QED
    BY <1>9, <1>10, <2>7, MutualNext
<1>13. CASE p = sp /\ n = en /\ p \notin {start, end} /\ n \notin {start, end}
  <2>1. \A x \in Linked : next'[x] = next[x] /\ prev'[x] = prev[x]
    BY <1>2, <1>4, <1>5, <1>11, <1>13 DEF sp, en
  <2>2. Mutual(next', prev', Linked)
    BY <1>4, <2>1 DEF Mutual
  <2> QED
    BY <1>9, <1>10, <2>2, MutualNext
<1>14. CASE end = start /\ p = start /\ n = start
  <2>1. next'[start] = start /\ prev'[start] = start /\ (sp = start <=> en = start)
    BY <1>2, <1>4, <1>5, <1>11, <1>14 DEF sp, en
  <2>2. sp # start => next'[sp] = en /\ prev'[en] = sp
    BY <1>5, <1>11, <1>14, <2>1
  <2>3. \A x \in Linked : x \notin {start, sp} =>
            next'[x] = next[x] /\ next[x] \notin {start, en} /\ prev'[next[x]] = x
    BY <1>2, <1>4, <1>5, <1>11, <1>14 DEF sp, en
  <2>4. \A x \in Linked : x \notin {start, en} =>
            prev'[x] = prev[x] /\ prev[x] \notin {start, sp} /\ next'[prev[x]] = x
    BY <1>2, <1>4, <1>5, <1>11, <1>14 DEF sp, en
  <2>5. Mutual(next', prev', Linked)
    BY <1>2, <1>4, <1>5, <2>1, <2>2, <2>3, <2>4 DEF Mutual
  <2> QED
    BY <1>9, <1>10, <2>5, MutualNext
<1> QED
  BY <1>3, <1>12, <1>13, <1>14 DEF sp, en

LEMMA LinksAtFirst == ListInit => LinksInverse
<1> SUFFICES ASSUME ListInit PROVE LinksInverse
  OBVIOUS
<1> DEFINE F == {FirstHead[l] : l \in List}
<1>1. \A n \in Node : /\ next[n] = IF n \in F THEN n ELSE Dangling
                      /\ prev[n] = IF n \in F THEN n ELSE Dangling
  BY DEF ListInit
<1>2. /\ next \in [Node -> Node \cup {Dangling}]
      /\ prev \in [Node -> Node \cup {Dangling}]
      /\ heads = FirstHead
  BY DEF ListInit
<1>3. F \subseteq Node
  BY LlistAssumption
<1>4. Linked = F
  BY <1>1, <1>3, LlistAssumption DEF Linked
<1>5. heads \in [List -> Linked]
  BY <1>2, <1>4, LlistAssumption
<1>6. \A n \in Linked : next[n] = n /\ prev[n] = n
  BY <1>1, <1>3, <1>4
<1> QED
  BY <1>2, <1>5, <1>6 DEF LinksInverse

LEMMA LinksUntouched ==
  ASSUME LinksInverse, UNCHANGED <<next, prev, heads>>
  PROVE  LinksInverse'
BY DEF LinksInverse, Linked

LEMMA ListStep ==
  ASSUME LinksInverse, [ListNext]_listVars
  PROVE  LinksInverse'
<1>1. CASE \E node \in Node : new_llist(node) \/ remove(node)
  BY <1>1, KeepNewLlist, KeepRemove
<1>2. CASE \E node \in Node, p \in Linked : new(node, p, next[p])
  BY <1>2, KeepNew
<1>3. CASE \E src, dst \in Node : mov(src, dst)
  BY <1>3, KeepMov
<1>4. CASE \E start \in Linked, p \in Linked : \E end \in ChainEnds(start) :
             \E n \in {next[p], next[end], start} : relink(start, end, p, n)
  BY <1>4, KeepRelink
<1>5. CASE (\E l \in List : iter_mut(l)) \/ iter_next \/ iter_next_back
  BY <1>5, LinksUntouched DEF iter_mut, iter_next, iter_next_back
<1>6. CASE UNCHANGED listVars
  BY <1>6, LinksUntouched DEF listVars
<1> QED
  BY <1>1, <1>2, <1>3, <1>4, <1>5, <1>6 DEF ListNext

(***************************************************************************)
(* The links of llist.rs stay each other's inverse, for any set of nodes   *)
(* and lists: new, new_llist, mov, remove and relink, in any order their   *)
(* Safety sections allow, leave no link to an address a node has given up, *)
(* also for a node alone in its ring, for neighbours that are the chain's  *)
(* own and when the four arguments of relink are one node.                 *)
(***************************************************************************)
THEOREM LinksStayInverse == ListSpec => []LinksInverse
<1>1. ListInit => LinksInverse
  BY LinksAtFirst
<1>2. LinksInverse /\ [ListNext]_listVars => LinksInverse'
  BY ListStep
<1> QED
  BY <1>1, <1>2, PTL DEF ListSpec


=============================================================================
