--------------------------- MODULE MCFrameSession ---------------------------
(***************************************************************************)
(* A small FrameSession.                                                     *)
(***************************************************************************)
EXTENDS FrameSession
=============================================================================
