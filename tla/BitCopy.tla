------------------------------ MODULE BitCopy ------------------------------
(***************************************************************************)
(* copy_slice_bits of kernel/src/utils/mod.rs, which Talloc::extend moves  *)
(* its bitmap with: a copy of bits between byte slices, each at any bit.   *)
(* A slice is the set of the positions of its 1 bits.                      *)
(***************************************************************************)
EXTENDS Words, Integers

CONSTANTS
    SliceLen,         \* the length of both slices, in bytes
    Contents,         \* what the slices may hold: pairs of source and destination
    BitIndices,       \* where copies may start
    BitLens,          \* how long they may be
    OverflowChecks    \* of the builds: TRUE makes an overlong shift panic

BITS == 8
ONES == 0 .. BITS - 1

\* The positions of the bits of a slice.
Positions == 0 .. BITS * SliceLen - 1

ASSUME CopyAssumption ==
    /\ SliceLen \in Nat /\ BitIndices \subseteq Nat /\ BitLens \subseteq Nat
    /\ OverflowChecks \subseteq BOOLEAN
    /\ Contents \subseteq (SUBSET Positions) \X (SUBSET Positions)

VARIABLE copy   \* the arguments, the locals, and at: the next step

Align(bit_index) == bit_index % BITS

ByteAt(slice, i) == {b \in ONES : BITS * i + b \in slice}
WithByte(slice, i, byte) == (slice \ {BITS * i + b : b \in ONES}) \cup {BITS * i + b : b \in byte}

rotate_left(byte, n) == {(b + n) % BITS : b \in byte}

\* ONES >> BITS - n, in a build without overflow checks.
Lowest(n) == IF n = 0 THEN ONES ELSE 0 .. n - 1

\* The indices of the bytes.
src_index_base == copy.src_bit_index \div BITS
src_index_acme == (copy.src_bit_index + copy.bit_len - 1) \div BITS
dst_index_base == copy.dst_bit_index \div BITS
dst_index_acme == (copy.dst_bit_index + copy.bit_len - 1) \div BITS

dst_end == Align(copy.dst_bit_index + copy.bit_len)
diff_wraps == Align(copy.dst_bit_index) < Align(copy.src_bit_index)
bit_align_offset == (Align(copy.dst_bit_index) - Align(copy.src_bit_index)) % BITS
bit_carry_mask == 0 .. bit_align_offset - 1
rol(i) == rotate_left(ByteAt(copy.src, i), bit_align_offset)

CopyInit ==
    \E c \in Contents, s, d \in BitIndices, len \in BitLens, checks \in OverflowChecks :
        copy = [at |-> "start", src |-> c[1], dst |-> c[2], old |-> c[2],
                src_bit_index |-> s, dst_bit_index |-> d, bit_len |-> len, checks |-> checks,
                src_index |-> 0, dst_index |-> 0, carry |-> {}, first_ext |-> {}, last_ext |-> {}]

CopyAbsent == copy = [at |-> "absent"]

\* Up to the loop: the early return, the assertions, what is kept of the first
\* byte (both pointers are to it), and the first carry.
copy_start ==
    /\ copy.at = "start"
    /\ LET dst_byte == ByteAt(copy.dst, dst_index_base)
       IN  copy' =
            IF copy.bit_len = 0 THEN [copy EXCEPT !.at = "done"]
            ELSE IF ~(src_index_acme < SliceLen /\ dst_index_acme < SliceLen) \/ (copy.checks /\ dst_end = 0)
            THEN [copy EXCEPT !.at = "panic"]
            ELSE [copy EXCEPT !.at = "loop",
                    !.first_ext = dst_byte \cap (0 .. Align(copy.dst_bit_index) - 1),
                    !.last_ext = dst_byte \ Lowest(dst_end),
                    !.carry = IF diff_wraps THEN rol(src_index_base) \cap bit_carry_mask ELSE {},
                    !.src_index = IF diff_wraps THEN src_index_base + 1 ELSE src_index_base,
                    !.dst_index = dst_index_base]

copy_loop ==
    /\ copy.at = "loop" /\ copy.src_index <= src_index_acme
    /\ copy' = [copy EXCEPT !.dst = WithByte(@, copy.dst_index, (rol(copy.src_index) \ bit_carry_mask) \cup copy.carry),
                            !.carry = rol(copy.src_index) \cap bit_carry_mask,
                            !.src_index = @ + 1,
                            !.dst_index = @ + 1]

\* Mutant: the carry is appended whenever the lengths are equal.
appendsEqual == dst_index_acme - dst_index_base = src_index_acme - src_index_base

appends == diff_wraps = (dst_index_acme - dst_index_base = src_index_acme - src_index_base)

\* The last carry, then the bits of the first byte that had to stay.
copy_end ==
    /\ copy.at = "loop" /\ copy.src_index > src_index_acme
    /\ LET dst == IF appends THEN WithByte(copy.dst, copy.dst_index, copy.carry) ELSE copy.dst
           first == (ByteAt(dst, dst_index_base) \ (0 .. Align(copy.dst_bit_index) - 1)) \cup copy.first_ext
           last == (first \cap Lowest(dst_end)) \cup copy.last_ext
       IN  copy' = [copy EXCEPT !.dst = WithByte(dst, dst_index_base, last), !.at = "done"]

copy_returned == copy.at \in {"done", "panic"} /\ UNCHANGED copy

CopyNext == copy_start \/ copy_loop \/ copy_end \/ copy_returned

CopySpec == CopyInit /\ [][CopyNext]_copy

----------------------------------------------------------------------------
(* Properties.                                                             *)

\* copy_slice_bits moves exactly the bits it is asked to and leaves those beside
\* them alone, whatever the alignments, if the destination lies within a byte
\* (as for the fields of a bitmap that extend moves) or ends with one.  A longer
\* copy that ends inside a byte is not claimed: dst_acme_ptr points to the first
\* byte, so what is kept and restored for the last one goes there.
CopyExact ==
    LET moved == {i \in Positions :
                    IF i \in copy.dst_bit_index .. copy.dst_bit_index + copy.bit_len - 1
                    THEN i - copy.dst_bit_index + copy.src_bit_index \in copy.src
                    ELSE i \in copy.old}
    IN  (copy.at = "done" /\ (copy.bit_len = 0 \/ dst_end = 0 \/ dst_index_base = dst_index_acme))
            => copy.dst = moved
=============================================================================
