---------------------------- MODULE MCBlocksync ----------------------------
(* Blocksync over the block tree of MCChain: every peer advertises every   *)
(* height, a faulty one for a while only the first, or an invalid range.   *)
EXTENDS Blocksync, MCChain

MCAdvertised == [p \in Peer |-> [base |-> 1, height |-> MaxHeight]]

MCOddRanges == {[base |-> 1, height |-> 1], [base |-> 0, height |-> 2]}

============================================================================
