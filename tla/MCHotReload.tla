----------------------------- MODULE MCHotReload -----------------------------
(* HotReload for TLC: which ways of saving a file the editors use, and where the  *)
(* files are: all in one directory, as conf/ is delivered, or each in its own.    *)
EXTENDS HotReload

MCReplace == {"replace"}
MCBothKinds == {"replace", "rewrite"}
MCOneDirectory == [f \in {"config"} \cup Files |-> "conf"]
MCDirectories == [f \in {"config"} \cup Files |-> f]
==============================================================================
