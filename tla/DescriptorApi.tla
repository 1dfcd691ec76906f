--------------------------- MODULE DescriptorApi ---------------------------
(***************************************************************************)
(* A client of the amd64 crate that builds one object with it and changes  *)
(* the object through its methods, in any order: a selector, a system      *)
(* segment descriptor, an interrupt or call gate, or a descriptor table    *)
(* into which it inserts segments.  told is what the client asked for.     *)
(***************************************************************************)
EXTENDS Interrupts, FiniteSets

CONSTANTS
    Addresses,   \* words used as base and target addresses
    Limits,      \* words of segment limits
    Indices,     \* words of descriptor table indices, below 2^13
    Tables       \* descriptor tables to insert into, as sequences of what is in use

VARIABLES object, told

apiVars == <<object, told>>

Levels == SUBSET {0, 1}      \* PrivLvl: Ring0 .. Ring3
GateTypes == {ssdt \in {Ssdt[t] : t \in DOMAIN Ssdt} : IsGateType(ssdt)}   \* what set_ssdt takes
Ists == {{}, {0}, {0, 1, 2}}  \* below 8

\* A limit that fits into so many bits.
FitsBits(limit, bits) == \A b \in limit : b < bits

----------------------------------------------------------------------------
(* The tables: a user segment, the two halves of a system segment, or      *)
(* nothing, in each slot but the null descriptor's.                        *)

UserSegment == CodeSegDesc_default
SystemSegment ==
    SysSegDesc_to_bits(SysSegDesc_new({15, 47}, TaskStateSeg_LIMIT, Ssdt.AvlTss, {}, FALSE))

\* What each slot is for, read from the front: "user", "lo", "hi" or "free".
SlotUse(gdt) ==
    LET use[i \in DOMAIN gdt] ==
            IF i = 0 THEN "null"
            ELSE IF use[i - 1] = "lo" THEN "hi"
            ELSE IF PRESENT \notin gdt[i] THEN "free"
            ELSE IF TYPE \in gdt[i] THEN "user" ELSE "lo"
    IN  use

Table(seq) ==
    [i \in 0 .. Len(seq) |->
        IF i = 0 THEN {}
        ELSE CASE seq[i] = "user" -> UserSegment
               [] seq[i] = "lo" -> SystemSegment[1]
               [] seq[i] = "hi" -> SystemSegment[2]
               [] OTHER -> {}]

----------------------------------------------------------------------------

NoObject == [kind |-> "none"]

ApiAbsent == object = NoObject /\ told = <<>>

\* The constructors.
ApiInit ==
    \/ \E rpl \in Levels, index \in Indices, ti \in BOOLEAN :
        /\ object = [kind |-> "selector",
                     val |-> IF ti THEN SegSel_new_ldt(rpl, index) ELSE SegSel_new_gdt(rpl, index)]
        /\ told = [rpl |-> rpl, index |-> index, ti |-> ti]
    \/ \E base \in Addresses, limit \in Limits, t \in DOMAIN Ssdt, dpl \in Levels, gran \in BOOLEAN :
        /\ object = [kind |-> "system", val |-> SysSegDesc_new(base, limit, Ssdt[t], dpl, gran)]
        /\ told = [base |-> base, limit |-> limit, ssdt |-> Ssdt[t], dpl |-> dpl,
                   present |-> TRUE, gran |-> gran, levelSet |-> FALSE,
                   limitFits |-> FitsBits(limit, 19), granSpilt |-> FALSE]
    \/ \E target \in Addresses, index \in Indices, ist \in Ists, ssdt \in GateTypes \cup {Ssdt.CallGate}, dpl \in Levels :
        LET sel == SegSel_new_gdt(dpl, index)
            isCall == ssdt = Ssdt.CallGate
        IN  /\ object = [kind |-> IF isCall THEN "call" ELSE "gate",
                         val |-> IF isCall THEN CallGate_new(target, sel, dpl)
                                 ELSE IntTrapGate_new(target, sel, ist, ssdt, dpl)]
            /\ told = [target |-> target, selector |-> sel, ist |-> IF isCall THEN {} ELSE ist,
                       ssdt |-> ssdt, dpl |-> dpl, present |-> TRUE, levelSet |-> FALSE]
    \/ \E seq \in Tables :
        /\ object = [kind |-> "table", val |-> Table(seq)]
        /\ told = [inserted |-> "none"]

\* self becomes val and the client notes what it asked for.
Becomes(val, asked) == object' = [object EXCEPT !.val = val] /\ told' = asked

SelectorSet ==
    /\ object.kind = "selector"
    /\ \/ \E rpl \in Levels : Becomes(SegSel_set_rpl(object.val, rpl), [told EXCEPT !.rpl = rpl])
       \/ \E index \in Indices : Becomes(SegSel_set_index(object.val, index), [told EXCEPT !.index = index])
       \/ \E ti \in BOOLEAN : Becomes(SegSel_set_ti(object.val, ti), [told EXCEPT !.ti = ti])

SystemSet ==
    /\ object.kind = "system"
    /\ \/ \E base \in Addresses : Becomes(SysSegDesc_set_base(object.val, base), [told EXCEPT !.base = base])
       \/ \E limit \in Limits :
            Becomes(SysSegDesc_set_limit(object.val, limit),
                    [told EXCEPT !.limit = limit, !.limitFits = FitsBits(limit, 20),
                                 !.granSpilt = @ \/ ~FitsBits(limit, 20)])
       \/ \E ssdt \in GateTypes : Becomes(SysSegDesc_set_ssdt(object.val, ssdt), [told EXCEPT !.ssdt = ssdt])
       \/ \E dpl \in Levels :
            Becomes(SysSegDesc_set_dpl(object.val, dpl), [told EXCEPT !.dpl = dpl, !.levelSet = @ \/ dpl # {}])
       \/ \E p \in BOOLEAN : Becomes(SysSegDesc_set_present(object.val, p), [told EXCEPT !.present = p])
       \/ \E g \in BOOLEAN :
            Becomes(SysSegDesc_set_page_granularity(object.val, g), [told EXCEPT !.gran = g, !.granSpilt = FALSE])

GateSet ==
    /\ object.kind \in {"gate", "call"}
    /\ \/ \E target \in Addresses : Becomes(Gate_set_target(object.val, target), [told EXCEPT !.target = target])
       \/ \E dpl \in Levels :
            Becomes(Gate_set_dpl(object.val, dpl), [told EXCEPT !.dpl = dpl, !.levelSet = @ \/ dpl # {}])
       \/ \E p \in BOOLEAN : Becomes(Gate_set_present(object.val, p), [told EXCEPT !.present = p])
       \/ /\ object.kind = "gate"
          /\ \/ \E ist \in Ists : Becomes(IntTrapGate_set_ist(object.val, ist), [told EXCEPT !.ist = ist])
             \/ \E ssdt \in GateTypes :
                    Becomes(IntTrapGate_set_ssdt(object.val, ssdt), [told EXCEPT !.ssdt = ssdt])

\* get_ssdt panics on bits that are no type; set_dpl can leave such bits.
SsdtPanics ==
    /\ object.kind \in {"system", "gate"}
    /\ ~Ssdt_from_bits_defined(object.val.flags \cap SSDT_MASK)
    /\ object' = [kind |-> "panic"] /\ told' = <<>>

PanicHalts == object.kind = "panic" /\ UNCHANGED apiVars

InsertUserSeg ==
    /\ object.kind = "table"
    /\ Becomes(UserSeg_insert(object.val, UserSegment), [inserted |-> "user"])

InsertSysSeg ==
    /\ object.kind = "table"
    /\ Becomes(SysSeg_insert(object.val, SystemSegment), [inserted |-> "system"])

ApiNext == SelectorSet \/ SystemSet \/ GateSet \/ SsdtPanics \/ PanicHalts \/ InsertUserSeg \/ InsertSysSeg

----------------------------------------------------------------------------
(* Properties.                                                             *)

\* After any sequence of calls every getter returns what its setter, or the
\* constructor, was last given, although the fields share bytes and are split
\* over several: no setter disturbs the field of another.  The code takes more
\* than it keeps, and nothing is claimed in these three cases.
\*  - SysSegDesc::new masks limit_hi with 0b111 (segmentation.rs:254), although
\*    it is a nibble (:233, LIMIT_MASK): the limit, of a limit from 2^19 on.
\*  - Neither new nor set_limit (:286) refuses a limit from 2^20 on: that limit,
\*    and after set_limit, whose mask is missing, the granularity, until it is
\*    set anew.
\*  - set_dpl (:311, interrupts.rs:223) ors the level into the type unshifted:
\*    level and type, from a call of it with another level than Ring0 on.
GettersAgree ==
    /\ object.kind = "selector" =>
        /\ SegSel_get_rpl(object.val) = told.rpl
        /\ SegSel_get_index(object.val) = told.index
        /\ SegSel_get_ti(object.val) = told.ti
    /\ object.kind = "system" =>
        /\ SysSegDesc_get_base(object.val) = told.base
        /\ told.limitFits => SysSegDesc_get_limit(object.val) = told.limit
        /\ SysSegDesc_is_present(object.val) = told.present
        /\ ~told.granSpilt => SysSegDesc_get_page_granularity(object.val) = told.gran
        /\ ~told.levelSet => SysSegDesc_get_ssdt(object.val) = told.ssdt /\ SysSegDesc_get_dpl(object.val) = told.dpl
    /\ object.kind \in {"gate", "call"} =>
        /\ Gate_get_target(object.val) = told.target
        /\ object.val.selector = told.selector
        /\ IntTrapGate_get_ist(object.val) = told.ist
        /\ Gate_is_present(object.val) = told.present
        /\ ~told.levelSet => IntTrapGate_get_ssdt(object.val) = told.ssdt /\ Gate_get_dpl(object.val) = told.dpl

\* Inserting a code or data segment writes one slot that was neither in use nor
\* the upper half of a system segment and is not the null descriptor, leaves
\* every other slot alone, and fails only when there is no such slot.
UserInsertKeeps ==
    [][InsertUserSeg =>
        LET old == object.val
            free == {i \in DOMAIN old : SlotUse(old)[i] = "free"}
        IN  IF free = {} THEN object'.val = old
            ELSE \E i \in free : object'.val = [old EXCEPT ![i] = UserSegment]]_apiVars
=============================================================================
