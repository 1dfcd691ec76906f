----------------------------- MODULE MCPageMap ------------------------------
(***************************************************************************)
(* PageMap with three levels of four entries and pages of two units.       *)
(***************************************************************************)
EXTENDS PageMap

\* Heap-like spans (a first one and its extensions), a span inside one table,
\* one that starts off a page, one that lies inside the first heap, a stack,
\* and one smaller than the page it could start.
MCRequests == {[base |-> 0, size |-> 32], [base |-> 32, size |-> 32],
               [base |-> 70, size |-> 5], [base |-> 75, size |-> 21], [base |-> 4, size |-> 2],
               [base |-> 98, size |-> 14], [base |-> 112, size |-> 3]}

\* The shape of a kernel stack: from the second page of a table to the end of
\* the next.
MCStack == {[base |-> 2, size |-> 14]}
=============================================================================
