----------------------------- MODULE MCMouseReturn -----------------------------
(* Two inputs, two destinations that may be swapped, and three items: two of    *)
(* them show the first input.                                                   *)
EXTENDS MouseReturn
CONSTANTS h1, h2, h3
MCHits == {h1, h2, h3}
MCSlots == {1, 2}
MCSlotOf == [h \in MCHits |-> IF h = h3 THEN 2 ELSE 1]
=============================================================================
