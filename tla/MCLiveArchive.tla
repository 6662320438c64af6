--------------------------- MODULE MCLiveArchive ---------------------------
(* LiveArchive over the block tree of MCChain.                             *)
EXTENDS LiveArchive, MCChain

============================================================================
