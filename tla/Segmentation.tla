---------------------------- MODULE Segmentation ----------------------------
(***************************************************************************)
(* amd64/src/segmentation.rs: selectors, segment descriptors and their     *)
(* place in a Global Descriptor Table, as operators on words.  A method    *)
(* Type::name is Type_name; a setter returns the new value of self.        *)
(***************************************************************************)
EXTENDS Words, Sequences

----------------------------------------------------------------------------
(* SegSel                                                                  *)

RPL_MASK == {0, 1}
TABLE_SELECTOR_BIT == 2

SegSel_new_gdt(rpl, index) == (rpl \cap RPL_MASK) \cup Low(Shl(index, 3), 16)
SegSel_new_ldt(rpl, index) == SegSel_new_gdt(rpl, index) \cup {TABLE_SELECTOR_BIT}

SegSel_get_rpl(sel) == sel \cap RPL_MASK
SegSel_set_rpl(sel, rpl) == (sel \ RPL_MASK) \cup rpl

SegSel_get_index(sel) == Shr(sel, 3)
SegSel_set_index(sel, index) ==
    (sel \cap (RPL_MASK \cup {TABLE_SELECTOR_BIT})) \cup Low(Shl(index, 3), 16)

SegSel_get_ti(sel) == TABLE_SELECTOR_BIT \in sel
SegSel_set_ti(sel, ti) == Assign(sel, TABLE_SELECTOR_BIT, ti)

----------------------------------------------------------------------------
(* Code and data segments                                                  *)

CONFORMING == 42
EXECUTABLE == 43
TYPE == 44
DPL_RING3 == {45, 46}
PRESENT == 47
LONG_MODE == 53

CodeSegDesc_default == {CONFORMING, EXECUTABLE, TYPE, PRESENT, LONG_MODE}
DataSegDesc_default == {TYPE, PRESENT}

----------------------------------------------------------------------------
(* SysSegDesc                                                              *)

FLAG_PRESENT == 7
DPL_MASK == {5, 6}
SSDT_MASK == {0, 1, 2, 3}
GRANULARITY == 7
LIMIT_MASK == {0, 1, 2, 3}

SysSegDesc_new(base, limit, ssdt, priviledge, page_granularity_limit) ==
    [limit_lo   |-> Low(limit, 16),
     base_lo    |-> Low(base, 16),
     base_mid_0 |-> Low(Shr(base, 16), 8),
     flags      |-> ssdt \cup Shl(priviledge, 5) \cup {FLAG_PRESENT},
     g_limit_hi |-> Assign(Low(Shr(limit, 16), 3), GRANULARITY, page_granularity_limit),
     base_mid_1 |-> Low(Shr(base, 24), 8),
     base_hi    |-> Low(Shr(base, 32), 32)]

\* The two words of the repr(C) layout.
SysSegDesc_to_bits(d) ==
    << d.limit_lo \cup Shl(d.base_lo, 16) \cup Shl(d.base_mid_0, 32) \cup Shl(d.flags, 40)
          \cup Shl(d.g_limit_hi, 48) \cup Shl(d.base_mid_1, 56),
       d.base_hi >>

SysSegDesc_get_base(d) ==
    d.base_lo \cup Shl(d.base_mid_0, 16) \cup Shl(d.base_mid_1, 24) \cup Shl(d.base_hi, 32)
SysSegDesc_set_base(d, base) ==
    [d EXCEPT !.base_lo = Low(base, 16), !.base_mid_0 = Low(Shr(base, 16), 8),
              !.base_mid_1 = Low(Shr(base, 24), 8), !.base_hi = Low(Shr(base, 32), 32)]

SysSegDesc_get_limit(d) == d.limit_lo \cup Shl(d.g_limit_hi \cap LIMIT_MASK, 16)
\* Mutant: the granularity is overwritten with the limit.
SysSegDesc_set_limitAll(d, limit) ==
    [d EXCEPT !.limit_lo = Low(limit, 16), !.g_limit_hi = Low(Shr(limit, 16), 8)]
SysSegDesc_set_limit(d, limit) ==
    [d EXCEPT !.limit_lo = Low(limit, 16),
              !.g_limit_hi = (@ \ LIMIT_MASK) \cup Low(Shr(limit, 16), 8)]

SysSegDesc_get_ssdt(d) == d.flags \cap SSDT_MASK
SysSegDesc_set_ssdt(d, ssdt) == [d EXCEPT !.flags = (@ \ SSDT_MASK) \cup ssdt]

\* set_dpl does not shift its argument to the place that get_dpl reads.
SysSegDesc_get_dpl(d) == Shr(d.flags \cap DPL_MASK, 5)
SysSegDesc_set_dpl(d, dpl) == [d EXCEPT !.flags = (@ \ DPL_MASK) \cup dpl]

SysSegDesc_is_present(d) == FLAG_PRESENT \in d.flags
SysSegDesc_set_present(d, is_present) == [d EXCEPT !.flags = Assign(@, FLAG_PRESENT, is_present)]

SysSegDesc_get_page_granularity(d) == GRANULARITY \in d.g_limit_hi
SysSegDesc_set_page_granularity(d, g) == [d EXCEPT !.g_limit_hi = Assign(@, GRANULARITY, g)]

----------------------------------------------------------------------------
(* TaskStateSeg: the byte sizes of its fields, and its limit.              *)

TaskStateSeg_fields == <<4, 3 * 8, 8, 7 * 8, 8, 2, 2>>
TaskStateSeg_LIMIT == Bits(104 - 1)

----------------------------------------------------------------------------
(* SegDesc::try_insert_into_gdt: gdt is indexed from 0.  The index that is *)
(* returned, or Err.                                                       *)

Err == 2^13   \* beyond every index
InRange(gdt, index) == index \in DOMAIN gdt

\* Mutant: the upper half of a system descriptor is looked at.
UserSeg_slotNoSkip(gdt) ==
    LET free == {i \in DOMAIN gdt : i # 0 /\ PRESENT \notin gdt[i]}
    IN  IF free = {} THEN Err ELSE CHOOSE i \in free : \A j \in free : i <= j
UserSeg_slot(gdt) ==
    LET slot[index \in 1 .. 256] ==
            IF ~InRange(gdt, index) THEN Err
            ELSE IF PRESENT \notin gdt[index] THEN index
            ELSE IF TYPE \notin gdt[index] THEN slot[index + 2]
            ELSE slot[index + 1]
    IN  slot[1]

\* The loop marks an unused slot in prev_avl and looks at the same slot again.
SysSeg_slot(gdt) ==
    LET slot[index \in 1 .. 256, prev_avl \in BOOLEAN] ==
            IF ~InRange(gdt, index) THEN Err
            ELSE IF PRESENT \notin gdt[index] THEN IF prev_avl THEN index - 1 ELSE slot[index, TRUE]
            ELSE IF TYPE \notin gdt[index] THEN slot[index + 2, FALSE]
            ELSE slot[index + 1, FALSE]
    IN  slot[1, FALSE]

UserSeg_insert(gdt, seg) ==
    LET i == UserSeg_slot(gdt)
    IN  IF i = Err THEN gdt ELSE [gdt EXCEPT ![i] = seg]

SysSeg_insert(gdt, seg) ==
    LET i == SysSeg_slot(gdt)
    IN  IF i = Err THEN gdt ELSE [gdt EXCEPT ![i] = seg[1], ![i + 1] = seg[2]]
=============================================================================
