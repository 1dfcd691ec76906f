------------------------------- MODULE MCBoot --------------------------------
(***************************************************************************)
(* Boot with addresses in units of a page: a stack and the page that       *)
(* separates it take 4, the distance of two heaps is 32.                   *)
(***************************************************************************)
EXTENDS Boot

CONSTANTS c1, c2, c3

MCTwoCpus == {c1, c2}
MCThreeCpus == {c1, c2, c3}

\* The default configuration reserves room for two stacks, with their pages.
MCTwoStacks == 2 * (KRNL_STACK_SIZE + PTE_SIZE) - PTE_SIZE
=============================================================================
