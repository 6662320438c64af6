--------------------------- MODULE ArchivePromise ---------------------------
(***************************************************************************)
(* What archive and hot stores promise together, with no object store,     *)
(* manifest, verifier or failure in sight: the archive is a run of blocks  *)
(* that only grows at its end, and a peer lets go of a block only when the *)
(* archive holds that very block.                                          *)
(***************************************************************************)
EXTENDS Chain

CONSTANT Node

VARIABLES
    archived,   \* the archived block at each height, NoBlock where none is
    held        \* the blocks each peer has in its hot store

promiseVars == <<archived, held>>

ArchivedHeights == {h \in Heights : archived[h] # NoBlock}

PromiseInit ==
    /\ archived = [h \in Heights |-> NoBlock]
    /\ held = [n \in Node |-> {}]

(* A peer persists a block.                                                *)
Hold(n, b) ==
    /\ held' = [held EXCEPT ![n] = @ \cup {b}]
    /\ UNCHANGED archived

(* The archive is extended, without a gap, by blocks first..last.          *)
Extend(first, last) ==
    /\ first <= last
    /\ ArchivedHeights # {} =>
          /\ first - 1 \in ArchivedHeights
          /\ \A h \in ArchivedHeights : h < first
    /\ archived' \in [Heights -> MaybeBlock]
    /\ \A h \in Heights :
          IF first <= h /\ h <= last
          THEN archived'[h] # NoBlock /\ HeightOf[archived'[h]] = h
          ELSE archived'[h] = archived[h]
    /\ UNCHANGED held

(* A peer prunes blocks that the archive holds.                            *)
Release(n) ==
    /\ \E kept \in SUBSET held[n] :
          /\ held' = [held EXCEPT ![n] = kept]
          /\ \A b \in held[n] \ kept : archived[HeightOf[b]] = b
    /\ UNCHANGED archived

PromiseNext ==
    \/ \E n \in Node, b \in Block : Hold(n, b)
    \/ \E first, last \in Heights : Extend(first, last)
    \/ \E n \in Node : Release(n)

PromiseSpec == PromiseInit /\ [][PromiseNext]_promiseVars

============================================================================
