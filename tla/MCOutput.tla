------------------------------ MODULE MCOutput ------------------------------
(* Every chip version, left by the firmware with the divisor latch open or   *)
(* closed; two processors; a screen of two columns and two lines, with a     *)
(* pixel left over in each direction.  Code 1 is the newline, 3 has no glyph, *)
(* 5 is beyond the font.                                                     *)
EXTENDS Output

MCVersions == {V8250, V16450, V16550, V16550A, V16750}
MCFirmware ==
    {[lcr |-> {}, mcr |-> {4, 6}, ier |-> {0}], [lcr |-> {0, 1, 7}, mcr |-> {}, ier |-> {1}]}
MCFont == 0 :> <<{7, 5}, {6}>> @@ 1 :> <<{}, {}>> @@ 2 :> <<{5, 4}, {7, 6}>>
MCPanicText == <<1, 4>>
MCTexts == {<<1, 0, 2, 5>>, <<2, 1, 2>>, <<0, 3>>}
=============================================================================
