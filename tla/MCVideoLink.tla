------------------------------ MODULE MCVideoLink ------------------------------
(* A small VideoLink: two seconds are two units of time, and the counter wraps  *)
(* between the images of a run.                                                 *)
EXTENDS VideoLink
=============================================================================
