------------------------------- MODULE BitOps -------------------------------
(***************************************************************************)
(* The integer helpers of kernel/src/utils/mod.rs and of memm/talloc.rs.   *)
(* Addresses are integers (the code compares them as isize), a shift is a  *)
(* multiplication or a division by a power of two, and an AND with an      *)
(* inverted mask rounds down.                                              *)
(***************************************************************************)
EXTENDS Integers

CONSTANT WordBits   \* usize::BITS; the runs use a narrow word

(***************************************************************************)
(* What the proofs use about powers of two, which the provers leave        *)
(* uninterpreted: every instance that is model-checked evaluates it.       *)
(***************************************************************************)
ASSUME PowersOfTwo ==
  /\ WordBits \in Nat \ {0}
  /\ \A n \in 0..WordBits : 2^n \in Nat \ {0}
  /\ 2^0 = 1 /\ 2^1 = 2
  /\ \A m, n \in 0..WordBits : m <= n => 2^n = 2^(n - m) * 2^m

Exponents == 0..(WordBits - 1)

\* fast_non0_log2: WordBits - 1 XOR leading_zeros, the index of the top bit.
log2(v) == CHOOSE n \in Exponents : 2^n <= v /\ v < 2^(n + 1)

\* fast_non0_prev_pow2 and fast_non0_next_pow2, as the exponents they shift 1 by.
IsPrevPow2(n, v) == 2^n <= v /\ v < 2^(n + 1)
IsNextPow2(n, v) == v <= 2^n /\ \A m \in Exponents : v <= 2^m => n <= m
next_pow2(v) == 2^(CHOOSE n \in Exponents : IsNextPow2(n, v))

\* n is the number of trailing zero bits of v.
IsTrailingZeros(n, v) == v % 2^n = 0 /\ v % 2^(n + 1) # 0

\* `v & !(unit - 1)` and `v + unit - 1 & !(unit - 1)` for a power of two unit.
FloorTo(v, unit) == v - (v % unit)
CeilTo(v, unit) == FloorTo(v + unit - 1, unit)

\* `block_base & size == 0`: the size bit of the base is clear.
is_lower_buddy(base, size) == (base \div size) % 2 = 0
=============================================================================
