------------------------------ MODULE Services ------------------------------
(***************************************************************************)
(* What the processors of the kernel do side by side: they boot, they map  *)
(* memory under MAPPER's lock, they print.  The three share no state but   *)
(* the locks, which Boot models; in a behaviour one of them runs.          *)
(***************************************************************************)
EXTENDS Boot, PageMap, Output

VARIABLE service

serviceVars == <<service, bootVars, vars, outputVars>>

ServicesInit ==
    \/ service = "boot" /\ BootInit /\ PageMapAbsent /\ OutputAbsent
    \/ service = "map" /\ Init /\ BootAbsent /\ OutputAbsent
    \/ service = "print" /\ OutputInit /\ BootAbsent /\ PageMapAbsent

ServicesNext ==
    \/ service = "boot" /\ BootNext /\ UNCHANGED <<service, vars, outputVars>>
    \/ service = "map" /\ Next /\ UNCHANGED <<service, bootVars, outputVars>>
    \/ service = "print" /\ OutputNext /\ UNCHANGED <<service, bootVars, vars>>

\* The processors and the serial chip go on for as long as they can.
ServicesSpec == ServicesInit /\ [][ServicesNext]_serviceVars /\ BootFairness /\ OutputFairness
=============================================================================
