------------------------------ MODULE MCParts ------------------------------
(* Small instances of the parts. *)
EXTENDS Parts, TLC

\* Two lists with their sentinels and three more addresses.
CONSTANTS s1, s2, a, b, c, l1, l2

MCNode == {s1, s2, a, b, c}
MCList == {l1, l2}
Symmetry == Permutations({a, b, c})
MCFirstHead == l1 :> s1 @@ l2 :> s2

\* Addresses with bits in every field that they are split over; tables with
\* every mix of up to four slots; exceptions nested twice.
MCHandlerAddr ==
    "div_by_zero_fault" :> {0, 16, 63} @@ "debug_exception" :> {1, 31, 62}
    @@ "naked_breakpoint_trap_wrapper" :> {2, 15, 32} @@ "double_fault_abort" :> {3, 17, 48}
    @@ "naked_page_fault_wrapper" :> {4, 30, 47} @@ "naked_general_protection_fault_wrapper" :> {5, 18, 63}
    @@ "segment_not_present_fault" :> {6, 19, 33} @@ "alignment_check_fault" :> {7, 20, 61}
MCTssAddr == {4, 15, 16, 23, 24, 31, 32, 46, 63}
MCRaised == {0, 1, 6, 12, 13, 14, 17}

MCAddresses == {{}, {0, 15, 16, 31, 32, 63}, {12, 23, 24, 47, 48}}
MCLimits == {{0, 15, 16, 18}, {3, 19}, {4, 17, 23}}
MCIndices == {{}, {0}, {1, 12}}
MCTableUses ==
    {t \in UNION {[1 .. n -> {"user", "lo", "hi", "free"}] : n \in 0 .. 4} :
        \A i \in DOMAIN t : (t[i] = "hi") = (i > 1 /\ t[i - 1] = "lo") /\ (t[i] = "lo" => i < Len(t))}

\* Slices of three bytes: ones over zeros, zeros over ones, and a mixture.
MCContents ==
    LET all == 0 .. 23
        some == {i \in all : i % 3 = 1 \/ i % 7 = 2}
    IN  {<<all, {}>>, <<{}, all>>, <<some, all \ some>>}

\* Two or three entries: largest blocks that fit and that do not, off the pages,
\* first, last and in the middle, one inside a page, entries that do not answer,
\* memory beyond the last huge page.
MCMemoryMaps ==
    LET entry(ptr, size, type, answers) == [ptr |-> ptr, size |-> size, type |-> type, answers |-> answers]
        low == {entry(ptr, 4, type, answers) : ptr \in {0, 4}, type \in {0, 1}, answers \in BOOLEAN}
               \cup {entry(0, 32, 1, TRUE), entry(0, 32, 1, FALSE), entry(6, 8, 1, TRUE), entry(5, 2, 1, TRUE)}
        middle == {entry(36, size, type, answers) : size \in {10, 24}, type \in {1, 3}, answers \in BOOLEAN}
                  \cup {entry(36, 4, 2, TRUE), entry(36, 26, 1, TRUE)}
        high == {entry(64, 32, 0, TRUE), entry(64, 8, 1, TRUE), entry(64, 79, 1, TRUE), entry(64, 80, 1, TRUE),
                 entry(64, 88, 1, TRUE), entry(62, 80, 1, TRUE)}
    IN  {<<x, y>> : x \in low, y \in middle} \cup {<<x, y, z>> : x \in low, y \in middle, z \in high}
MCLoader == [pml4 |-> 400, pdpt |-> 404, pd |-> 408]

MCHeapLayouts ==
    {[size |-> 0, align |-> 1], [size |-> 1, align |-> 1], [size |-> 2, align |-> 2], [size |-> 3, align |-> 1]}
=============================================================================
