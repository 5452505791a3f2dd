-------------------------------- MODULE MCServer --------------------------------
(* Server for TLC: two requests at a time, batches of up to two items and a list  *)
(* that is one too long, one panic, one reload.                                   *)
EXTENDS Server

CONSTANTS r1, r2

MCKinds == {"browse", "batch", "options"}
==============================================================================
