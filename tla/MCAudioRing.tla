------------------------------ MODULE MCAudioRing ------------------------------
(* Three slots (128 in the code) and enough blocks to go round four times.      *)
EXTENDS AudioRing
=============================================================================
