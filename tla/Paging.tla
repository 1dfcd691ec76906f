------------------------------- MODULE Paging -------------------------------
(***************************************************************************)
(* The constant of amd64/src/paging.rs that more than one part works with. *)
(***************************************************************************)
CONSTANT PTE_SIZE   \* bytes of the smallest page
=============================================================================
