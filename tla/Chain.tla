------------------------------- MODULE Chain -------------------------------
(***************************************************************************)
(* The blocks the archive peer handles, reduced to what its code compares. *)
(*                                                                         *)
(* A block is identified with its header hash.  The header commits to the  *)
(* previous block (LastBlockID), so a hash commits to a whole history:     *)
(* ParentOf is the previous block a header names and Ancestry the blocks   *)
(* reached by following it.  Nothing here is read from the wire; the sets  *)
(* below only say which of the code's comparisons a block would fail.      *)
(***************************************************************************)
EXTENDS Integers

CONSTANTS
    MaxHeight,      \* bound: the highest block height considered
    Block,          \* every block (hash) any peer may send
    NoBlock,        \* a nil *types.Block
    HeightOf,       \* Block -> height in the header
    ParentOf,       \* Block -> the block LastBlockID.Hash names, or NoBlock
    CommitFor,      \* Block -> the block LastCommit.BlockID names, or NoBlock
    Ancestry,       \* Block -> the block and all its predecessors
    Checkpoints,    \* operator's trusted height -> block hash
    Malformed,      \* wrong chain ID, or no LastCommit matching the header
    BadCommit,      \* LastCommit has a wrong height or part-set header
    Unsigned,       \* LastCommit lacks +2/3 of the trusted validator set
    WrongValidators \* ValidatorsHash differs from the trusted set's

Heights == 1 .. MaxHeight

MaybeBlock == Block \cup {NoBlock}

(* Collision resistance: a header names one parent, one height below it,   *)
(* and so one block per height of its history.                             *)
ASSUME ChainAssumption ==
    /\ MaxHeight \in Nat
    /\ NoBlock \notin Block
    /\ HeightOf \in [Block -> Heights]
    /\ ParentOf \in [Block -> MaybeBlock]
    /\ \A b \in Block :
          ParentOf[b] # NoBlock => HeightOf[b] = HeightOf[ParentOf[b]] + 1
    /\ CommitFor \in [Block -> MaybeBlock]
    /\ Ancestry \in [Block -> SUBSET Block]
    /\ \A b \in Block : b \in Ancestry[b]
    /\ \A b \in Block : ParentOf[b] # NoBlock => ParentOf[b] \in Ancestry[b]
    /\ \A b \in Block : \A a \in Ancestry[b] : Ancestry[a] \subseteq Ancestry[b]
    /\ \A b \in Block : \A a, c \in Ancestry[b] :
          HeightOf[a] = HeightOf[c] => a = c

(* The operator's checkpoints are heights of one chain.                    *)
ASSUME CheckpointAssumption ==
    /\ DOMAIN Checkpoints \subseteq Heights
    /\ \A h \in DOMAIN Checkpoints :
          /\ Checkpoints[h] \in Block
          /\ HeightOf[Checkpoints[h]] = h
    /\ \A g, h \in DOMAIN Checkpoints :
          g <= h => Ancestry[Checkpoints[g]] \subseteq Ancestry[Checkpoints[h]]

(* The blocks some checkpoint vouches for.                                 *)
CheckpointChain ==
    UNION {Ancestry[Checkpoints[h]] : h \in DOMAIN Checkpoints}

============================================================================
