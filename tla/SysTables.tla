----------------------------- MODULE SysTables -----------------------------
(***************************************************************************)
(* One processor runs setup_sys_tables of kernel/src/init.rs, which builds *)
(* and loads its GDT, TSS and IDT, and then takes exceptions through them: *)
(* the two that init raises itself, and any that the processor raises at   *)
(* any instruction, inside a handler too.  Instructions of the handlers'   *)
(* assembly wrappers are single steps.  The processor, and the code that   *)
(* the compiler puts around "x86-interrupt" functions, are external.       *)
(***************************************************************************)
EXTENDS Interrupts, SequencesExt, FiniteSets, Integers

CONSTANTS
    HandlerAddr,   \* where the linker put the handlers: handler name -> word
    TssAddr,       \* where the allocator put the TSS: word
    Raised,        \* the vectors that the processor may raise (17 at CPL 3 only)
    MaxDepth       \* bound on exceptions within exceptions

VARIABLES
    pc,      \* the next step of setup_sys_tables, then of init
    gdt,     \* the heap's descriptor table, indexed from 0
    idt,     \* the heap's interrupt descriptor table
    gdtr,    \* the limit of gdt once lgdt loaded it, 0 before
    idtr,    \* the limit of idt once lidt loaded it, 0 before
    seg,     \* the segment registers and the task register
    regs,    \* the registers that a sysv64 function may overwrite
    stack,   \* the words on the stack, rsp at the last
    active,  \* the exceptions being handled, the innermost last
    lost     \* a fault happened while the loader's IDT was in force

tableVars == <<pc, gdt, idt, gdtr, idtr, seg, regs, stack, active, lost>>

----------------------------------------------------------------------------
(* Constants of init.rs.                                                   *)

KRNL_CODE_SEG_IDX == 1
KRNL_CODE_SEG_SEL == SegSel_new_gdt({}, Bits(KRNL_CODE_SEG_IDX))
DATA_SEG_IDX == 3
DATA_SEG_SEL == SegSel_new_gdt({0, 1}, Bits(DATA_SEG_IDX))
TSS_SEG_IDX == 4
TSS_SEG_SEL == SegSel_new_gdt({}, Bits(TSS_SEG_IDX))

TssDesc == SysSegDesc_new(TssAddr, TaskStateSeg_LIMIT, Ssdt.AvlTss, {}, FALSE)

NewGdt ==
    [i \in 0 .. 5 |->
        << {}, CodeSegDesc_default, CodeSegDesc_default \cup DPL_RING3, DataSegDesc_default,
           SysSegDesc_to_bits(TssDesc)[1], SysSegDesc_to_bits(TssDesc)[2] >>[i + 1]]

\* The handler that setup_sys_tables puts into each gate it fills.
Handlers ==
    [div_by_zero_fault         |-> "div_by_zero_fault",
     debug                     |-> "debug_exception",
     break_point_trap          |-> "naked_breakpoint_trap_wrapper",
     double_fault_abort        |-> "double_fault_abort",
     page_fault                |-> "naked_page_fault_wrapper",
     general_protection_fault  |-> "naked_general_protection_fault_wrapper",
     segment_not_present_fault |-> "segment_not_present_fault",
     alignment_check_fault     |-> "alignment_check_fault"]

NewIdt ==
    [name \in DOMAIN IDT_empty |->
        IF name \in DOMAIN Handlers
        THEN IntTrapGate_new(HandlerAddr[Handlers[name]], KRNL_CODE_SEG_SEL, {}, Ssdt.InterruptGate, {})
        ELSE IDT_empty[name]]

----------------------------------------------------------------------------
(* The processor: decoding the tables in memory (external).                *)

\* The number of a word below 2^16.
Number(w) == SumSet({2^b : b \in w})

\* The descriptor that a selector names in the loaded GDT, or none.
Descriptor(sel) ==
    LET i == Number(SegSel_get_index(sel))
    IN  IF ~SegSel_get_ti(sel) /\ i # 0 /\ 8 * i + 7 <= gdtr THEN gdt[i] ELSE {}

IsKernelCode(sel) ==
    /\ {PRESENT, TYPE, EXECUTABLE, LONG_MODE} \subseteq Descriptor(sel)
    /\ Descriptor(sel) \cap DPL_RING3 = {}

\* The TSS that a selector names; its type is AvlTss or BusyTss.
TssOf(sel) ==
    LET lo == Descriptor(sel)
        hi == gdt[Number(SegSel_get_index(sel)) + 1]
    IN  [present |-> PRESENT \in lo, type |-> Low(Shr(lo, 40), 5),
         base |-> Low(Shr(lo, 16), 24) \cup Shl(Low(Shr(lo, 56), 8), 24) \cup Shl(Low(hi, 32), 32),
         limit |-> Low(lo, 16) \cup Shl(Low(Shr(lo, 48), 4), 16)]

\* The gate of a vector, from the bits of its 16 bytes.
GateOf(v) ==
    LET bits == IF 16 * v + 15 <= idtr THEN IDT_entry(idt, v) ELSE {}
    IN  [target |-> Low(bits, 16) \cup Shl(Low(Shr(bits, 48), 48), 16),
         selector |-> Low(Shr(bits, 16), 16),
         type |-> Low(Shr(bits, 40), 5),
         present |-> PRESENT \in bits]

HandlerAt(addr) == {h \in DOMAIN HandlerAddr : HandlerAddr[h] = addr}

Deliverable(v) ==
    /\ GateOf(v).present /\ GateOf(v).type = Ssdt.InterruptGate
    /\ IsKernelCode(GateOf(v).selector)
    /\ HandlerAt(GateOf(v).target) # {}

\* Vectors for which the processor pushes an error code, and those that make
\* a double fault of a fault in their delivery.
PushesErrorCode == {8, 10, 11, 12, 13, 14, 17, 21, 29, 30}
Contributory == {0, 10, 11, 12, 13, 14}

\* Where an exception ends up: a gate that is not present raises #NP (11).
Delivered(v) ==
    IF Deliverable(v) THEN v
    ELSE IF v \in Contributory \/ ~Deliverable(11) THEN 8 ELSE 11

----------------------------------------------------------------------------
(* setup_sys_tables                                                        *)

lgdt ==
    /\ pc = "lgdt"
    /\ gdt' = NewGdt
    /\ gdtr' = 8 * Cardinality(DOMAIN NewGdt) - 1
    /\ pc' = "cs_write"
    /\ UNCHANGED <<idt, idtr, seg, regs, stack, active, lost>>

\* A far return to KRNL_CODE_SEG_SEL.
cs_write ==
    /\ pc = "cs_write"
    /\ seg' = [seg EXCEPT !.cs = KRNL_CODE_SEG_SEL]
    /\ lost' = ~IsKernelCode(KRNL_CODE_SEG_SEL)
    /\ pc' = "data_segments"
    /\ UNCHANGED <<gdt, idt, gdtr, idtr, regs, stack, active>>

\* ds, es, fs, gs and ss get DATA_SEG_IDX: a null selector, whose load an AMD
\* processor allows at CPL 0 whatever its RPL.
data_segments ==
    /\ pc = "data_segments"
    /\ seg' = [seg EXCEPT !.data = Bits(DATA_SEG_IDX)]
    /\ lost' = (Descriptor(Bits(DATA_SEG_IDX)) = {} /\ SegSel_get_index(Bits(DATA_SEG_IDX)) # {})
    /\ pc' = "ltr"
    /\ UNCHANGED <<gdt, idt, gdtr, idtr, regs, stack, active>>

\* ltr marks the TSS busy.
ltr ==
    /\ pc = "ltr"
    /\ lost' = ~(TssOf(TSS_SEG_SEL).present /\ TssOf(TSS_SEG_SEL).type = Ssdt.AvlTss)
    /\ seg' = [seg EXCEPT !.tr = TSS_SEG_SEL]
    /\ gdt' = [gdt EXCEPT ![TSS_SEG_IDX] = @ \cup {41}]
    /\ pc' = "lidt"
    /\ UNCHANGED <<idt, gdtr, idtr, regs, stack, active>>

\* The gates are filled, then the table is loaded.
lidt ==
    /\ pc = "lidt"
    /\ idt' = NewIdt
    /\ idtr' = 16 * IDT_size - 1
    /\ pc' = "int3"
    /\ UNCHANGED <<gdt, gdtr, seg, regs, stack, active, lost>>

----------------------------------------------------------------------------
(* Handlers.  A word on the stack or in a register is a pair.              *)

Junk == <<"junk", 0>>
CallerSaved == <<"rax", "rcx", "rdx", "rsi", "rdi", "r8", "r9", "r10", "r11">>

Push(r) == [op |-> "push", reg |-> r]
Pop(r) == [op |-> "pop", reg |-> r]
Lea(r, n) == [op |-> "lea", reg |-> r, slots |-> n]       \* mov r, rsp; add r, 8n
Load(r, n) == [op |-> "load", reg |-> r, slots |-> n]     \* mov r, [rsp + 8n]
Sub(n) == [op |-> "sub", slots |-> n]
Call == [op |-> "call"]
Isr(frame, err) == [op |-> "isr", frame |-> frame, err |-> err]
Iretq == [op |-> "iretq"]
Hlt == [op |-> "hlt"]

\* Mutant: r11 is not saved.
PushEight == [i \in 1 .. 8 |-> Push(CallerSaved[i])]
PushAll == [i \in 1 .. 9 |-> Push(CallerSaved[i])]
\* Mutant: registers are restored in the order they were saved in.
PopInOrder == [i \in 1 .. 9 |-> Pop(CallerSaved[i])]
PopAll == [i \in 1 .. 9 |-> Pop(CallerSaved[10 - i])]

\* The wrappers are the assembly of init.rs; naked_page_fault and
\* naked_general_protection_fault end in hlt_loop, so what their wrappers do
\* after the call is never reached.  An "x86-interrupt" function gets the frame
\* at the top of the stack, or under the error code if it is declared to take
\* one; two that are not declared so look for the frame one word further, and
\* read the first word of their copy of it as the error code.
Code ==
    [naked_breakpoint_trap_wrapper |->
        PushAll \o <<Lea("rdi", 9), Call>> \o PopAll \o <<Iretq>>,
     naked_page_fault_wrapper |->
        PushAll \o <<Load("rsi", 9), Lea("rdi", 10), Sub(1), Call, Hlt>>,
     naked_general_protection_fault_wrapper |->
        PushAll \o <<Load("rsi", 8), Lea("rdi", 9), Sub(1), Call, Hlt>>,
     div_by_zero_fault |-> <<Isr(0, -1), Hlt>>,
     debug_exception |-> <<Isr(0, -1), Iretq>>,
     double_fault_abort |-> <<Isr(1, 1), Hlt>>,
     segment_not_present_fault |-> <<Isr(1, 1), Hlt>>,
     alignment_check_fault |-> <<Isr(1, 0), Hlt>>]

----------------------------------------------------------------------------
(* Exceptions                                                              *)

Frame(d, top) == <<<<"ss", d>>, <<"rsp", top>>, <<"rflags", d>>, <<"cs", d>>, <<"rip", d>>>>

\* The processor aligns the stack to 16 bytes, pushes the frame and, unless an
\* int instruction asked for the vector, the error code.
Enter(v, soft) ==
    LET d == Len(active) + 1
        top == Len(stack)
        pad == IF top % 2 = 1 THEN <<Junk>> ELSE <<>>
        err == IF v \in PushesErrorCode /\ ~soft THEN <<<<"err", d>>>> ELSE <<>>
        handler == CHOOSE h \in HandlerAt(GateOf(v).target) : TRUE
    IN  IF Deliverable(v)
        THEN /\ stack' = stack \o pad \o Frame(d, top) \o err
             /\ active' = Append(active, [vector |-> v, soft |-> soft, handler |-> handler, ip |-> 1,
                                          base |-> top, regs |-> regs, shown |-> <<>>])
             /\ UNCHANGED lost
        ELSE lost' = TRUE /\ UNCHANGED <<stack, active>>

\* The processor raises an exception at whatever it is executing.
Raise(v) ==
    /\ ~lost /\ idtr # 0 /\ Len(active) < MaxDepth
    /\ Enter(Delivered(v), FALSE)
    /\ UNCHANGED <<pc, gdt, idt, gdtr, idtr, seg, regs>>

\* Thread 0 of init: int3, nop, int 13, then hlt_loop.
RunInit ==
    /\ ~lost /\ active = <<>>
    /\ \/ pc = "int3" /\ pc' = "nop" /\ Enter(3, TRUE)
       \/ pc = "nop" /\ pc' = "int 13" /\ UNCHANGED <<stack, active, lost>>
       \/ pc = "int 13" /\ pc' = "hlt" /\ Enter(13, TRUE)
    /\ UNCHANGED <<gdt, idt, gdtr, idtr, seg, regs>>

----------------------------------------------------------------------------
(* One instruction of the innermost handler.                               *)

Me == Last(active)
Instr == Code[Me.handler][Me.ip]
Executes(op) == ~lost /\ active # <<>> /\ Instr.op = op
Slot(n) == Len(stack) - n
Advance(shown) ==
    active' = [active EXCEPT ![Len(active)] = [@ EXCEPT !.ip = @ + 1, !.shown = shown]]
Machine == <<pc, gdt, idt, gdtr, idtr, seg, lost>>

push ==
    /\ Executes("push")
    /\ stack' = Append(stack, regs[Instr.reg])
    /\ Advance(Me.shown)
    /\ UNCHANGED <<regs, Machine>>

pop ==
    /\ Executes("pop")
    /\ regs' = [regs EXCEPT ![Instr.reg] = Last(stack)]
    /\ stack' = Front(stack)
    /\ Advance(Me.shown)
    /\ UNCHANGED Machine

mov_reg ==
    /\ Executes("lea") \/ Executes("load")
    /\ regs' = [regs EXCEPT ![Instr.reg] =
                    IF Instr.op = "lea" THEN <<"ptr", Slot(Instr.slots)>> ELSE stack[Slot(Instr.slots)]]
    /\ Advance(Me.shown)
    /\ UNCHANGED <<stack, Machine>>

sub_rsp ==
    /\ Executes("sub")
    /\ stack' = stack \o [i \in 1 .. Instr.slots |-> Junk]
    /\ Advance(Me.shown)
    /\ UNCHANGED <<regs, Machine>>

\* A sysv64 function prints its arguments, and may overwrite every register.
call ==
    /\ Executes("call")
    /\ regs' = [r \in DOMAIN regs |-> Junk]
    /\ Advance([frame |-> regs["rdi"], err |-> regs["rsi"], aligned |-> Len(stack) % 2 = 0])
    /\ UNCHANGED <<stack, Machine>>

\* The body of an "x86-interrupt" function, which preserves the registers.
isr ==
    /\ Executes("isr")
    /\ Advance([frame |-> <<"ptr", Slot(Instr.frame)>>,
                err |-> IF Instr.err = -1 THEN Junk ELSE stack[Slot(Instr.err)], aligned |-> TRUE])
    /\ UNCHANGED <<stack, regs, Machine>>

\* Pops the frame; without one the processor is lost.
iretq ==
    /\ Executes("iretq")
    /\ IF Last(stack)[1] = "rip" /\ stack[Slot(3)][1] = "rsp"
       THEN /\ stack' = SubSeq(stack, 1, stack[Slot(3)][2])
            /\ active' = Front(active)
            /\ UNCHANGED lost
       ELSE lost' = TRUE /\ UNCHANGED <<stack, active>>
    /\ UNCHANGED <<pc, gdt, idt, gdtr, idtr, seg, regs>>

\* Halted, or lost: nothing changes.
hlt_loop ==
    /\ lost \/ Executes("hlt") \/ (active = <<>> /\ pc = "hlt")
    /\ UNCHANGED tableVars

SetupInit ==
    /\ pc = "lgdt" /\ gdtr = 0 /\ idtr = 0 /\ gdt = NewGdt /\ idt = IDT_empty
    /\ seg = [cs |-> {}, data |-> {}, tr |-> {}]
    /\ regs = [r \in ToSet(CallerSaved) |-> <<"init", r>>]
    /\ stack = <<>> /\ active = <<>> /\ lost = FALSE

TablesAbsent ==
    /\ pc = "absent" /\ gdt = <<>> /\ idt = <<>> /\ gdtr = 0 /\ idtr = 0 /\ seg = <<>>
    /\ regs = <<>> /\ stack = <<>> /\ active = <<>> /\ lost = FALSE

SetupNext ==
    \/ lgdt \/ cs_write \/ data_segments \/ ltr \/ lidt \/ RunInit
    \/ \E v \in Raised : Raise(v)
    \/ push \/ pop \/ mov_reg \/ sub_rsp \/ call \/ isr \/ iretq \/ hlt_loop

----------------------------------------------------------------------------
(* Properties.                                                             *)

\* The handler that the architecture's numbering asks for.
Wanted ==
    0 :> "div_by_zero_fault" @@ 1 :> "debug_exception" @@ 3 :> "naked_breakpoint_trap_wrapper"
    @@ 8 :> "double_fault_abort" @@ 11 :> "segment_not_present_fault"
    @@ 13 :> "naked_general_protection_fault_wrapper" @@ 14 :> "naked_page_fault_wrapper"
    @@ 17 :> "alignment_check_fault"

\* No load of setup_sys_tables faults, and once lidt is done what the processor
\* reads back from the tables is what init.rs put in: the code segment and the
\* TSS under their selectors, with the TSS's address and size, and in each gate,
\* found by its vector's place in the struct, the handler of that vector.  So
\* any exception, one without a gate included, reaches a handler.  (ss is loaded
\* with 3, a null selector with RPL 3: AMD's processors take it at CPL 0, while
\* Intel's ask for RPL = CPL; the model's processor is AMD's.)
TablesReachHandlers ==
    /\ ~lost
    /\ idtr # 0 =>
        /\ IsKernelCode(seg.cs)
        /\ TssOf(seg.tr).base = TssAddr
        /\ Number(TssOf(seg.tr).limit) + 1 = FoldSeq(+, 0, TaskStateSeg_fields)
        /\ \A v \in 0 .. 31 :
                IF v \in DOMAIN Wanted THEN Deliverable(v) /\ HandlerAt(GateOf(v).target) = {Wanted[v]}
                ELSE ~GateOf(v).present

\* A handler reports its own exception, however deep exceptions are nested: the
\* frame it prints is the one that was pushed for it, a page fault's or an
\* alignment check's error code is the one pushed, and the stack is aligned where
\* a sysv64 function is called.  "ISRs with error codes are breaking!"
\* (init.rs:144), and where the code does break nothing is claimed.
\*  - The wrapper of #GP (init.rs:531) reads as if no error code were pushed: of
\*    one that the processor raises, frame and code are a word off.
\*  - For int 13, which pushes none, the frame is right, but the call is not
\*    aligned, and the word printed as the error code is the saved rax.
\*  - The handlers of #DF and #NP print the rip of their copy of the frame as
\*    the error code (init.rs:587, 628) that interrupts.rs:442 and 455 describe.
HandlersSeeTheirException ==
    \A d \in DOMAIN active :
        LET e == active[d]
            hardGp == e.vector = 13 /\ ~e.soft
            softGp == e.vector = 13 /\ e.soft
        IN  e.shown # <<>> =>
                /\ ~hardGp => /\ e.shown.frame[2] > 4
                              /\ SubSeq(stack, e.shown.frame[2] - 4, e.shown.frame[2]) = Frame(d, e.base)
                /\ e.vector \in {14, 17} => e.shown.err = <<"err", d>>
                /\ ~softGp => e.shown.aligned

\* A handler that returns resumes what was interrupted with the stack and the
\* registers as they were, though the function it calls overwrites registers and
\* exceptions may come between any two of its instructions.
ReturnsRestore ==
    [][(active # <<>> /\ Len(active') < Len(active)) => regs' = Me.regs /\ Len(stack') = Me.base]_tableVars
=============================================================================
