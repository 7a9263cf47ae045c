--------------------------- MODULE MCStreamBuffer ---------------------------
(***************************************************************************)
(* A small StreamBuffer: a block is an eighth of a second, one or two       *)
(* frames, which with ten clock units a second is a unit and a quarter, so  *)
(* that timestamps are rounded; conceal < distance as in the code, and the  *)
(* packet sequence numbers wrap while the run lasts.                        *)
(***************************************************************************)
EXTENDS StreamBuffer

MCFramesOf == [i \in Indices |-> IF i % 4 = 1 THEN 2 ELSE 4]
MCFormatChange == [i \in Indices |-> IF i < FirstIndex + 5 THEN 16 ELSE 8]
=============================================================================
