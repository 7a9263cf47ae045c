---------------------------- MODULE MCReturnWorker ----------------------------
(* A second of 6 frames: blocks and packets of 2, buffers of 3 and 5.  The     *)
(* source's clock is the computer's or far from it, may jump back, and its     *)
(* audio is advanced by a frame.  Both destinations are enabled, or none.      *)
EXTENDS ReturnWorker

TwoDestinations == {1, 2}
FirstFails == {1}
NoneOrBoth == {{}, {1, 2}}
ThreeAndFive == {3, 5}
LocalOrForeign == {38, 4}
JumpOrDrift == {-4, 2}
Advanced == -1

==============================================================================
