------------------------------- MODULE Parts -------------------------------
(***************************************************************************)
(* The parts of the kernel that its other code calls and that share no     *)
(* state with each other: in a behaviour one of them runs, with a client   *)
(* that does all that its documentation allows, and the others are absent. *)
(***************************************************************************)
EXTENDS Llist, SysTables, DescriptorApi, BitCopy, MemorySetup, Tallock

VARIABLE part

partVars == <<part, listVars, tableVars, apiVars, copy, setupVars, tallockVars>>

Runs(p) ==
    /\ part = p
    /\ IF p = "tables" THEN SetupInit ELSE TablesAbsent
    /\ IF p = "descriptors" THEN ApiInit ELSE ApiAbsent
    /\ IF p = "bit copy" THEN CopyInit ELSE CopyAbsent
    /\ IF p = "memory setup" THEN MemoryInit ELSE MemoryAbsent
    /\ ListInit /\ TallockInit

Init == \E p \in {"lists", "tables", "descriptors", "bit copy", "memory setup", "tallock"} : Runs(p)

Next ==
    \/ /\ part = "lists" /\ ListNext
       /\ UNCHANGED <<part, tableVars, apiVars, copy, setupVars, tallockVars>>
    \/ /\ part = "tables" /\ SetupNext
       /\ UNCHANGED <<part, listVars, apiVars, copy, setupVars, tallockVars>>
    \/ /\ part = "descriptors" /\ ApiNext
       /\ UNCHANGED <<part, listVars, tableVars, copy, setupVars, tallockVars>>
    \/ /\ part = "bit copy" /\ CopyNext
       /\ UNCHANGED <<part, listVars, tableVars, apiVars, setupVars, tallockVars>>
    \/ /\ part = "memory setup" /\ MemoryNext
       /\ UNCHANGED <<part, listVars, tableVars, apiVars, copy, tallockVars>>
    \/ /\ part = "tallock" /\ TallockNext
       /\ UNCHANGED <<part, listVars, tableVars, apiVars, copy, setupVars>>

Spec == Init /\ [][Next]_partVars
=============================================================================
