--------------------------- MODULE MCStorageManager ---------------------------
(* StorageManager for TLC: two callers and a failure limit of two, so that     *)
(* one caller alone, two callers, or a caller and the health check can reach it. *)
EXTENDS StorageManager

CONSTANTS c1, c2

MCBoth == {"incr", "read"}
==============================================================================
