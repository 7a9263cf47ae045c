---------------------------- MODULE MCMonitorReturn ----------------------------
(* Two sources, one after the other at the same address; rings of one block,    *)
(* one packet at a time.                                                         *)
EXTENDS MonitorReturn
=============================================================================
