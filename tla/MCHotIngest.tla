---------------------------- MODULE MCHotIngest ----------------------------
(* HotIngest over the block tree of MCChain.                               *)
EXTENDS HotIngest, MCChain

============================================================================
