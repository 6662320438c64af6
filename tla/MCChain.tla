------------------------------ MODULE MCChain ------------------------------
(***************************************************************************)
(* The block tree the small instances use.  A block is <<height, branch>>: *)
(* the canonical chain is "main" and the rival branch "fork" leaves it at  *)
(* ForkHeight (a ForkHeight above MaxHeight leaves one chain).  OddBlocks  *)
(* are further blocks at OddHeight whose header extends the block below on *)
(* the rival branch ("detached") or on the canonical one:                  *)
(*   "malformed" fails the checks of every validation mode;                *)
(*   "detached"  carries a LastCommit for the canonical block below;       *)
(*   "badparts"  carries a LastCommit with a wrong part-set header.        *)
(***************************************************************************)
EXTENDS Chain

CONSTANTS
    ForkHeight,     \* first height at which the branches differ
    OddBlocks       \* subset of {"malformed", "detached", "badparts"}

MCNoBlock == <<0, "none">>

OddHeight == IF MaxHeight < 3 THEN MaxHeight ELSE 3

MCBranch(h, f) ==
    IF h < ForkHeight THEN "main"
    ELSE IF h < OddHeight /\ f \notin {"main", "fork"}
         THEN IF f = "detached" THEN "fork" ELSE "main"
    ELSE f

MCBlock ==
    {<<h, MCBranch(h, f)>> : h \in 1 .. MaxHeight, f \in {"main", "fork"}}
        \cup {<<OddHeight, odd>> : odd \in OddBlocks}

MCHeightOf == [b \in MCBlock |-> b[1]]

MCParentOf ==
    [b \in MCBlock |-> IF b[1] = 1 THEN MCNoBlock
                       ELSE <<b[1] - 1, MCBranch(b[1] - 1, b[2])>>]

MCCommitFor ==
    [b \in MCBlock |-> IF b[2] = "detached" THEN <<b[1] - 1, "main">>
                       ELSE MCParentOf[b]]

MCAncestry ==
    [b \in MCBlock |->
        {b} \cup {<<h, MCBranch(h, b[2])>> : h \in 1 .. b[1] - 1}]

MCCheckpoints == [h \in {2, 4} \cap (1 .. MaxHeight) |-> <<h, "main">>]

MCMalformed == {b \in MCBlock : b[2] = "malformed"}

MCBadCommit == {b \in MCBlock : b[2] = "badparts"}

MCUnsigned == {b \in MCBlock : b[2] = "fork"}

MCWrongValidators == {b \in MCBlock : b[2] = "fork" /\ b[1] = 4}

============================================================================
