------------------------------- MODULE Words -------------------------------
(***************************************************************************)
(* Machine words: an unsigned integer is the set of the positions of its 1 *)
(* bits, whatever its width.  | is \cup, & is \cap, & ! is \.              *)
(***************************************************************************)
EXTENDS Naturals

Shl(w, n) == {b + n : b \in w}
Shr(w, n) == {b - n : b \in {c \in w : c >= n}}

\* w as an unsigned integer of the given width.
Low(w, width) == {b \in w : b < width}

\* The word of a number below 2^16.
Bits(n) == {b \in 0 .. 15 : (n \div 2^b) % 2 = 1}

\* bit set or cleared in w.
Assign(w, bit, value) == IF value THEN w \cup {bit} ELSE w \ {bit}
=============================================================================
