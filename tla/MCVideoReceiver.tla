---------------------------- MODULE MCVideoReceiver ----------------------------
(* Two slots; one sender whose datagrams reach every slot that is on.            *)
EXTENDS VideoReceiver

TwoSlots == {1, 2}
=============================================================================
