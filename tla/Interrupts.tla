----------------------------- MODULE Interrupts -----------------------------
(***************************************************************************)
(* amd64/src/interrupts.rs: gates and the Interrupt Descriptor Table, as   *)
(* operators on words.                                                     *)
(***************************************************************************)
EXTENDS Segmentation

CONSTANT AvailableVectors   \* gates of IDT.interrupts: 224 in the code

GATE_FLAG_PRESENT == 7
GATE_DPL_MASK == {5, 6}
GATE_SSDT_MASK == {0, 1, 2, 3}

----------------------------------------------------------------------------
(* Ssdt: the system-segment descriptor types.                              *)

Ssdt ==
    [Ldt |-> {1}, AvlTss |-> {0, 3}, BusyTss |-> {0, 1, 3}, CallGate |-> {2, 3},
     InterruptGate |-> {1, 2, 3}, TrapGate |-> {0, 1, 2, 3}]

IsGateType(ssdt) == ssdt \in {Ssdt.InterruptGate, Ssdt.TrapGate}

\* from_bits panics for anything else.
Ssdt_from_bits_defined(bits) == \E t \in DOMAIN Ssdt : Ssdt[t] = bits

----------------------------------------------------------------------------
(* IntTrapGate and CallGate.  A call gate has no ist; it stays 0.          *)

IntTrapGate_missing(ssdt) ==
    [isr_ptr_lo |-> {}, selector |-> {}, ist |-> {}, flags |-> ssdt, isr_ptr_mid |-> {}, isr_ptr_hi |-> {}]

IntTrapGate_new(target, selector, ist, ssdt, priviledge) ==
    [isr_ptr_lo  |-> Low(target, 16),
     selector    |-> selector,
     ist         |-> ist,
     flags       |-> ssdt \cup Shl(priviledge, 5) \cup {GATE_FLAG_PRESENT},
     isr_ptr_mid |-> Low(Shr(target, 16), 16),
     isr_ptr_hi  |-> Low(Shr(target, 32), 32)]

CallGate_missing == IntTrapGate_missing(Ssdt.CallGate)
CallGate_new(target, selector, priviledge) ==
    IntTrapGate_new(target, selector, {}, Ssdt.CallGate, priviledge)

\* The two words of the repr(C) layout, as one.
Gate_to_bits(g) ==
    g.isr_ptr_lo \cup Shl(g.selector, 16) \cup Shl(g.ist, 32) \cup Shl(g.flags, 40)
        \cup Shl(g.isr_ptr_mid, 48) \cup Shl(g.isr_ptr_hi, 64)

Gate_get_target(g) == g.isr_ptr_lo \cup Shl(g.isr_ptr_mid, 16) \cup Shl(g.isr_ptr_hi, 32)
Gate_set_target(g, target) ==
    [g EXCEPT !.isr_ptr_lo = Low(target, 16), !.isr_ptr_mid = Low(Shr(target, 16), 16),
              !.isr_ptr_hi = Low(Shr(target, 32), 32)]

IntTrapGate_get_ist(g) == g.ist
IntTrapGate_set_ist(g, ist) == [g EXCEPT !.ist = ist]

IntTrapGate_get_ssdt(g) == g.flags \cap GATE_SSDT_MASK
IntTrapGate_set_ssdt(g, ssdt) == [g EXCEPT !.flags = (@ \ GATE_SSDT_MASK) \cup ssdt]

\* As in SysSegDesc, set_dpl does not shift.
Gate_get_dpl(g) == Shr(g.flags \cap GATE_DPL_MASK, 5)
Gate_set_dpl(g, dpl) == [g EXCEPT !.flags = (@ \ GATE_DPL_MASK) \cup dpl]

Gate_is_present(g) == GATE_FLAG_PRESENT \in g.flags
Gate_set_present(g, is_present) == [g EXCEPT !.flags = Assign(@, GATE_FLAG_PRESENT, is_present)]

----------------------------------------------------------------------------
(* IDT: the fields in the order of the struct, with the number of 16-byte  *)
(* entries of each and the type of its handler (none for reserved ones).   *)

\* Mutant: without the reserved entry between double_fault_abort and invalid_tss_fault.
IDT_fieldsUnpadded ==
    << <<"div_by_zero_fault", 1, "ISR">>, <<"debug", 1, "ISR">>, <<"non_maskable_interrupt", 1, "ISR">>,
       <<"break_point_trap", 1, "ISR">>, <<"vectors_4_to_7", 4, "none">>, <<"double_fault_abort", 1, "ISRwErrCode">>,
       <<"invalid_tss_fault", 1, "ISRwErrCode">>, <<"segment_not_present_fault", 1, "ISRwErrCode">>,
       <<"stack_fault", 1, "ISRwErrCode">>, <<"general_protection_fault", 1, "ISRwErrCode">>,
       <<"page_fault", 1, "ISRwErrCode">>, <<"reserved_1", 2, "none">>,
       <<"alignment_check_fault", 1, "ISRwErrCode">>, <<"vectors_17_on", 15, "none">>,
       <<"interrupts", AvailableVectors, "ISR">> >>
IDT_fields ==
    << <<"div_by_zero_fault", 1, "ISR">>, <<"debug", 1, "ISR">>, <<"non_maskable_interrupt", 1, "ISR">>,
       <<"break_point_trap", 1, "ISR">>, <<"overflow_trap", 1, "ISR">>, <<"bound_range_fault", 1, "ISR">>,
       <<"invalid_opcode_fault", 1, "ISR">>, <<"device_not_available_fault", 1, "ISR">>,
       <<"double_fault_abort", 1, "ISRwErrCode">>, <<"reserved_0", 1, "none">>,
       <<"invalid_tss_fault", 1, "ISRwErrCode">>, <<"segment_not_present_fault", 1, "ISRwErrCode">>,
       <<"stack_fault", 1, "ISRwErrCode">>, <<"general_protection_fault", 1, "ISRwErrCode">>,
       <<"page_fault", 1, "ISRwErrCode">>, <<"reserved_1", 1, "none">>, <<"x87_fp_fault", 1, "ISR">>,
       <<"alignment_check_fault", 1, "ISRwErrCode">>, <<"machine_check_abort", 1, "ISR">>,
       <<"simd_fp_fault", 1, "ISR">>, <<"reserved_2", 1, "none">>,
       <<"control_protection_fault", 1, "ISRwErrCode">>, <<"reserved_3", 6, "none">>,
       <<"hypervisor_injection", 1, "ISRwErrCode">>, <<"vmm_communication_fault", 1, "ISRwErrCode">>,
       <<"security", 1, "ISRwErrCode">>, <<"reserved_4", 1, "none">>,
       <<"interrupts", AvailableVectors, "ISR">> >>

\* The vector at which the i-th field begins.
IDT_vector ==
    LET at[i \in 1 .. Len(IDT_fields)] == IF i = 1 THEN 0 ELSE at[i - 1] + IDT_fields[i - 1][2]
    IN  at

IDT_size == IDT_vector[Len(IDT_fields)] + AvailableVectors

\* The field that holds the gate of a vector.
IDT_field(v) ==
    LET i == CHOOSE i \in DOMAIN IDT_fields :
                IDT_vector[i] <= v /\ v < IDT_vector[i] + IDT_fields[i][2]
    IN  IDT_fields[i]

\* An IDT maps the names of its gates to the gates; reserved entries are 0.
IDT_empty ==
    [name \in {IDT_fields[i][1] : i \in {j \in DOMAIN IDT_fields : IDT_fields[j][3] # "none"}} |->
        IntTrapGate_missing(Ssdt.InterruptGate)]

\* The words of an entry of the table in memory.
IDT_entry(idt, v) ==
    IF IDT_field(v)[3] = "none" THEN {} ELSE Gate_to_bits(idt[IDT_field(v)[1]])
=============================================================================
