----------------------------- MODULE MCMigrate -----------------------------
(* Two migrate commands over the canonical chain of MCChain.  The first    *)
(* takes the whole source store one block at a time; the second asks for   *)
(* the first two blocks in one segment.                                    *)
EXTENDS Migrate, MCChain

MCMainChain == [h \in 1 .. MaxHeight |-> <<h, "main">>]

MCStartHeight == [m1 |-> 0, m2 |-> 1]

MCEndHeight == [m1 |-> 0, m2 |-> 2]

MCSegmentBlocks == [m1 |-> 1, m2 |-> 2]

(* Both ask for the same blocks, in segments of different sizes.           *)
MCSameEnd == [m1 |-> 3, m2 |-> 3]

============================================================================
