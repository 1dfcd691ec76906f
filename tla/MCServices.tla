----------------------------- MODULE MCServices -----------------------------
(* The instances of the boot, of the page mapper and of printing, together. *)
EXTENDS Services, MCBoot, MCPageMap, MCOutput
=============================================================================
