-------------------------- MODULE HotIngestProofs --------------------------
(***************************************************************************)
(* Proofs about HotIngest for every block tree, set of peers, set of       *)
(* validation modes and set of checkpoints.                                *)
(*                                                                         *)
(* The properties are not inductive: that a block is below a checkpoint    *)
(* is known only when the checkpoint arrives, by following the links of    *)
(* the blocks stored before it.  HotInv keeps that fact step by step: the  *)
(* stored blocks are in the history of the pending block and of every      *)
(* stored block above them (HistoryInv), and the recovered or reached      *)
(* checkpoint is the pending block, a stored block, or was pruned          *)
(* (CheckpointInv).                                                        *)
(***************************************************************************)
EXTENDS HotIngest, TLAPS

InStore(n, h) == hotBase[n] > 0 /\ hotBase[n] <= h /\ h <= hotHeight[n]

StoreInv(n) ==
    /\ hotBase[n] = 0 <=> hotHeight[n] = 0
    /\ hotBase[n] <= hotHeight[n]
    /\ hotBase[n] = 0 => \A h \in Heights : chain[n][h] = NoBlock
    /\ \A h \in Heights : InStore(n, h) =>
          chain[n][h] \in Block /\ HeightOf[chain[n][h]] = h

PendingInv(n) ==
    pending[n] # NoBlock =>
        /\ up[n]
        /\ hotHeight[n] > 0 => /\ HeightOf[pending[n]] = hotHeight[n] + 1
                               /\ ParentOf[pending[n]] = chain[n][hotHeight[n]]

LinkInv(n) ==
    \A h \in Heights :
        InStore(n, h) /\ hotBase[n] < h => ParentOf[chain[n][h]] = chain[n][h - 1]

HistoryInv(n) ==
    \A g \in Heights : InStore(n, g) =>
        /\ \A h \in Heights : InStore(n, h) /\ g <= h =>
              chain[n][g] \in Ancestry[chain[n][h]]
        /\ pending[n] # NoBlock => chain[n][g] \in Ancestry[pending[n]]

CheckpointInv(n) ==
    up[n] /\ validation[n] = "checkpoint" /\ verifiedThrough[n] > 0 =>
        /\ verifiedThrough[n] \in DOMAIN Checkpoints
        /\ \/ /\ pending[n] # NoBlock
              /\ pending[n] = Checkpoints[verifiedThrough[n]]
           \/ /\ hotHeight[n] > 0 /\ verifiedThrough[n] <= hotHeight[n]
              /\ hotBase[n] <= verifiedThrough[n] =>
                    chain[n][verifiedThrough[n]]
                        = Checkpoints[verifiedThrough[n]]

NodeInv(n) ==
    /\ StoreInv(n) /\ PendingInv(n) /\ LinkInv(n) /\ HistoryInv(n)
    /\ CheckpointInv(n)

HotInv == HotTypeOK /\ \A n \in Node : NodeInv(n)

----------------------------------------------------------------------------
(* The assumptions on blocks and checkpoints, in the pieces proofs cite.   *)

(* Blocks have heights in range, and NoBlock is none of them.              *)
LEMMA BlockFact ==
    /\ MaxHeight \in Nat /\ NoBlock \notin Block
    /\ \A b \in Block : HeightOf[b] \in 1 .. MaxHeight
  BY ChainAssumption DEF Heights

(* A parent is one height below, and its history is part of the child's.   *)
LEMMA ParentFact ==
    \A b \in Block : ParentOf[b] \in Block =>
        /\ HeightOf[b] = HeightOf[ParentOf[b]] + 1
        /\ Ancestry[ParentOf[b]] \subseteq Ancestry[b]
  BY ChainAssumption

(* A block belongs to its own history.                                     *)
LEMMA SelfFact == \A b \in Block : b \in Ancestry[b]
  BY ChainAssumption

(* A configured checkpoint is a block of the height it is given for.       *)
LEMMA CheckpointFact ==
    \A h \in DOMAIN Checkpoints :
        /\ h \in 1 .. MaxHeight
        /\ Checkpoints[h] \in Block /\ HeightOf[Checkpoints[h]] = h
  BY CheckpointAssumption DEF Heights

(* A peer none of whose variables change keeps its invariant.              *)
LEMMA FrameNode ==
    ASSUME NEW m \in Node, NodeInv(m),
           up'[m] = up[m], validation'[m] = validation[m],
           pending'[m] = pending[m], chain'[m] = chain[m],
           hotBase'[m] = hotBase[m], hotHeight'[m] = hotHeight[m],
           verifiedThrough'[m] = verifiedThrough[m]
    PROVE  NodeInv(m)'
  BY DEF NodeInv, StoreInv, PendingInv, LinkInv, HistoryInv, CheckpointInv,
         InStore

(* The type invariant, for one peer.                                       *)
LEMMA NodeTypes ==
    ASSUME HotTypeOK, NEW n \in Node
    PROVE  /\ hotBase[n] \in Nat /\ hotHeight[n] \in Nat
           /\ hotHeight[n] <= MaxHeight /\ verifiedThrough[n] \in Nat
           /\ pending[n] \in Block \cup {NoBlock}
           /\ MaxHeight \in Nat
  BY BlockFact DEF HotTypeOK, MaybeBlock

(* Empty hot stores satisfy the invariant.                                 *)
LEMMA HotInitInv == HotInit => HotInv
  BY BlockFact DEF HotInit, HotInv, HotTypeOK, NodeInv, StoreInv, PendingInv,
         LinkInv, HistoryInv, CheckpointInv, InStore, Heights, MaybeBlock

----------------------------------------------------------------------------
(* Submit.                                                                 *)

(* The block a Submit accepts extends the pending block, or the head.      *)
LEMMA SubmitLinks ==
    ASSUME HotInv, NEW n \in Node, NEW b \in Block, Submit(n, b)
    PROVE  /\ pending[n] # NoBlock =>
                /\ ParentOf[b] = pending[n]
                /\ HeightOf[b] = HeightOf[pending[n]] + 1
           /\ pending[n] = NoBlock /\ hotHeight[n] > 0 =>
                /\ ParentOf[b] = chain[n][hotHeight[n]]
                /\ HeightOf[b] = hotHeight[n] + 1
  <1>0. /\ NodeInv(n) /\ hotBase[n] \in Nat /\ hotHeight[n] \in Nat
        /\ hotHeight[n] <= MaxHeight /\ MaxHeight \in Nat
        /\ pending[n] \in Block \cup {NoBlock}
    BY NodeTypes DEF HotInv
  <1>1. CASE pending[n] # NoBlock
    BY <1>0, <1>1, BlockFact DEF Submit, Accepts, validateBlock, NextHeight, CommitsPending
  <1>2. CASE pending[n] = NoBlock /\ hotHeight[n] > 0
    <2>1. LoadBlock(n, hotHeight[n]) = chain[n][hotHeight[n]]
             /\ chain[n][hotHeight[n]] # NoBlock
      BY <1>0, <1>2, BlockFact DEF LoadBlock, NodeInv, StoreInv, InStore, Heights
    <2>. QED
      BY <1>0, <1>2, <2>1
         DEF Submit, Accepts, validateBlock, NextHeight, ExtendsPersistedHead
  <1>. QED
    BY <1>1, <1>2

(* Submit keeps the types.                                                 *)
LEMMA SubmitType ==
    ASSUME HotTypeOK, NEW n \in Node, NEW b \in Block, Submit(n, b)
    PROVE  HotTypeOK'
  <1>1. pending' \in [Node -> MaybeBlock]
    BY DEF HotTypeOK, Submit, MaybeBlock
  <1>2. verifiedThrough' \in [Node -> 0 .. MaxHeight]
    BY BlockFact DEF HotTypeOK, Submit, markCheckpoint
  <1>3. CASE UNCHANGED <<chain, hotBase, hotHeight>>
    BY <1>1, <1>2, <1>3 DEF HotTypeOK, Submit
  <1>4. CASE pending[n] # NoBlock /\ SaveBlock(n, pending[n])
    <2>1. pending[n] \in Block /\ HeightOf[pending[n]] \in Heights
      BY <1>4, BlockFact DEF HotTypeOK, MaybeBlock, Heights
    <2>2. chain' \in [Node -> [Heights -> MaybeBlock]]
      BY <1>4, <2>1 DEF HotTypeOK, SaveBlock, MaybeBlock
    <2>3. hotBase' \in [Node -> 0 .. MaxHeight]
             /\ hotHeight' \in [Node -> 0 .. MaxHeight]
      BY <1>4, <2>1, BlockFact DEF HotTypeOK, SaveBlock, Heights
    <2>. QED
      BY <1>1, <1>2, <2>2, <2>3 DEF HotTypeOK, Submit
  <1>. QED
    BY <1>3, <1>4 DEF Submit

(* What a Submit does to the store: nothing, or it appends the pending     *)
(* block, which becomes the base of an empty store.                        *)
LEMMA SubmitStore ==
    ASSUME HotTypeOK, NEW n \in Node, NEW b \in Block, Submit(n, b)
    PROVE  /\ up[n] /\ up' = up /\ validation' = validation
           /\ pending'[n] = b
           /\ pending[n] = NoBlock => UNCHANGED <<chain, hotBase, hotHeight>>
           /\ pending[n] # NoBlock =>
                /\ hotHeight'[n] = HeightOf[pending[n]]
                /\ hotBase'[n] = IF hotBase[n] = 0 THEN HeightOf[pending[n]]
                                 ELSE hotBase[n]
                /\ chain'[n][HeightOf[pending[n]]] = pending[n]
                /\ \A h \in Heights : h # HeightOf[pending[n]] =>
                      chain'[n][h] = chain[n][h]
           /\ \A m \in Node : m # n =>
                /\ chain'[m] = chain[m] /\ hotBase'[m] = hotBase[m]
                /\ hotHeight'[m] = hotHeight[m] /\ pending'[m] = pending[m]
                /\ verifiedThrough'[m] = verifiedThrough[m]
  <1>1. /\ up[n] /\ up' = up /\ validation' = validation /\ pending'[n] = b
        /\ \A m \in Node : m # n =>
              /\ pending'[m] = pending[m]
              /\ verifiedThrough'[m] = verifiedThrough[m]
    BY DEF Submit, HotTypeOK, markCheckpoint
  <1>2. CASE pending[n] = NoBlock
    BY <1>1, <1>2 DEF Submit
  <1>3. CASE pending[n] # NoBlock
    <2>1. SaveBlock(n, pending[n]) /\ HeightOf[pending[n]] \in Heights
      BY <1>3, BlockFact DEF Submit, HotTypeOK, MaybeBlock, Heights
    <2>. QED
      BY <1>1, <1>3, <2>1 DEF SaveBlock, HotTypeOK
  <1>. QED
    BY <1>2, <1>3

(* A Submit is invisible to the other peers.                               *)
LEMMA SubmitOthers ==
    ASSUME HotTypeOK, NEW n \in Node, NEW b \in Block, Submit(n, b)
    PROVE  /\ up' = up /\ validation' = validation
           /\ \A m \in Node : m # n =>
                /\ chain'[m] = chain[m] /\ hotBase'[m] = hotBase[m]
                /\ hotHeight'[m] = hotHeight[m] /\ pending'[m] = pending[m]
                /\ verifiedThrough'[m] = verifiedThrough[m]
  BY SubmitStore

(* Submit preserves the invariant.                                         *)
LEMMA SubmitInv ==
    ASSUME HotInv, NEW n \in Node, NEW b \in Block, Submit(n, b)
    PROVE  HotInv'
  <1>. DEFINE p == pending[n]
  <1>0. /\ HotTypeOK /\ NodeInv(n) /\ hotBase[n] \in Nat /\ hotHeight[n] \in Nat
        /\ hotHeight[n] <= MaxHeight /\ MaxHeight \in Nat
        /\ verifiedThrough[n] \in Nat /\ p \in Block \cup {NoBlock}
    BY NodeTypes DEF HotInv
  <1>1. HotTypeOK'
    BY <1>0, SubmitType
  <1>2. /\ up[n] /\ up' = up /\ validation' = validation /\ pending'[n] = b
        /\ b # NoBlock
        /\ \A m \in Node : m # n =>
             /\ chain'[m] = chain[m] /\ hotBase'[m] = hotBase[m]
             /\ hotHeight'[m] = hotHeight[m] /\ pending'[m] = pending[m]
             /\ verifiedThrough'[m] = verifiedThrough[m]
    BY <1>0, SubmitStore, BlockFact
  <1>3. ASSUME NEW m \in Node, m # n PROVE NodeInv(m)'
    BY <1>2, <1>3, FrameNode DEF HotInv
  <1>4. verifiedThrough'[n] # verifiedThrough[n] =>
           /\ validation[n] = "checkpoint" /\ HeightOf[b] \in DOMAIN Checkpoints
           /\ verifiedThrough'[n] = HeightOf[b]
    BY <1>0 DEF Submit, markCheckpoint, HotTypeOK
  <1>5. validation[n] = "checkpoint" /\ HeightOf[b] \in DOMAIN Checkpoints =>
           b = Checkpoints[HeightOf[b]]
    BY DEF Submit, Accepts, validateBlock
  <1>6. CASE p = NoBlock
    <2>1. chain' = chain /\ hotBase' = hotBase /\ hotHeight' = hotHeight
      BY <1>0, <1>6, SubmitStore
    <2>2. hotHeight[n] > 0 => /\ ParentOf[b] = chain[n][hotHeight[n]]
                              /\ HeightOf[b] = hotHeight[n] + 1
      BY <1>6, SubmitLinks
    <2>3. StoreInv(n)' /\ LinkInv(n)'
      BY <1>0, <2>1 DEF NodeInv, StoreInv, LinkInv, InStore
    <2>4. PendingInv(n)'
      BY <1>2, <2>1, <2>2 DEF PendingInv
    <2>5. HistoryInv(n)'
      <3>1. SUFFICES ASSUME NEW g \in Heights, InStore(n, g)
                     PROVE  chain[n][g] \in Ancestry[b]
        BY <1>0, <1>2, <2>1 DEF NodeInv, HistoryInv, InStore
      <3>2. InStore(n, hotHeight[n]) /\ hotHeight[n] \in Heights
               /\ g <= hotHeight[n] /\ hotHeight[n] > 0
        BY <1>0, <3>1 DEF InStore, Heights
      <3>3. chain[n][g] \in Ancestry[chain[n][hotHeight[n]]]
               /\ chain[n][hotHeight[n]] \in Block
        BY <1>0, <3>1, <3>2 DEF NodeInv, HistoryInv, StoreInv
      <3>. QED
        BY <2>2, <3>2, <3>3, ParentFact
    <2>6. CheckpointInv(n)'
      BY <1>0, <1>2, <1>4, <1>5, <1>6, <2>1 DEF NodeInv, CheckpointInv
    <2>. QED
      BY <1>1, <1>3, <2>3, <2>4, <2>5, <2>6 DEF HotInv, NodeInv
  <1>7. CASE p # NoBlock
    <2>1. /\ p \in Block /\ HeightOf[p] \in Heights /\ HeightOf[p] \in Nat
          /\ HeightOf[p] > 0
          /\ hotHeight'[n] = HeightOf[p]
          /\ hotBase'[n] = IF hotBase[n] = 0 THEN HeightOf[p] ELSE hotBase[n]
          /\ chain'[n][HeightOf[p]] = p
          /\ \A h \in Heights : h # HeightOf[p] => chain'[n][h] = chain[n][h]
      BY <1>0, <1>7, SubmitStore, BlockFact DEF Heights
    <2>2. /\ ParentOf[b] = p /\ HeightOf[b] = HeightOf[p] + 1
          /\ Ancestry[p] \subseteq Ancestry[b] /\ p \in Ancestry[p]
      BY <1>7, <2>1, SubmitLinks, ParentFact, SelfFact
    <2>3. hotHeight[n] > 0 => /\ HeightOf[p] = hotHeight[n] + 1
                              /\ ParentOf[p] = chain[n][hotHeight[n]]
      BY <1>0, <1>7 DEF NodeInv, PendingInv
    <2>4. hotBase[n] = 0 <=> hotHeight[n] = 0
      BY <1>0 DEF NodeInv, StoreInv
    <2>5. \A h \in Heights : InStore(n, h)' =>
             \/ h = HeightOf[p] /\ chain'[n][h] = p
             \/ h < HeightOf[p] /\ InStore(n, h) /\ chain'[n][h] = chain[n][h]
      BY <1>0, <2>1, <2>3, <2>4 DEF InStore, Heights
    <2>6. StoreInv(n)'
      BY <1>0, <2>1, <2>3, <2>4, <2>5 DEF NodeInv, StoreInv
    <2>7. PendingInv(n)'
      BY <1>2, <2>1, <2>2 DEF PendingInv
    <2>8. LinkInv(n)'
      <3>1. SUFFICES ASSUME NEW h \in Heights, InStore(n, h)', hotBase'[n] < h
                     PROVE  ParentOf[chain'[n][h]] = chain'[n][h - 1]
        BY DEF LinkInv
      <3>2. h - 1 \in Heights /\ InStore(n, h - 1)' /\ h - 1 # HeightOf[p]
               /\ h \in Nat
        BY <1>0, <2>1, <3>1 DEF InStore, Heights
      <3>3. chain'[n][h - 1] = chain[n][h - 1] /\ InStore(n, h - 1)
        BY <2>5, <3>2
      <3>4. CASE h = HeightOf[p]
        BY <1>0, <2>1, <2>3, <3>2, <3>3, <3>4 DEF InStore
      <3>5. CASE h # HeightOf[p]
        BY <1>0, <2>1, <2>5, <3>1, <3>3, <3>5 DEF NodeInv, LinkInv, InStore
      <3>. QED
        BY <3>4, <3>5
    <2>9. HistoryInv(n)'
      <3>1. \A g \in Heights : InStore(n, g)' => chain'[n][g] \in Ancestry[p]
        BY <1>0, <1>7, <2>2, <2>5 DEF NodeInv, HistoryInv
      <3>2. ASSUME NEW g \in Heights, InStore(n, g)',
                   NEW h \in Heights, InStore(n, h)', g <= h
            PROVE  chain'[n][g] \in Ancestry[chain'[n][h]]
        <4>1. CASE h = HeightOf[p]
          BY <2>1, <3>1, <3>2, <4>1
        <4>2. CASE h # HeightOf[p]
          <5>1. h < HeightOf[p] /\ InStore(n, h) /\ chain'[n][h] = chain[n][h]
            BY <2>5, <3>2, <4>2
          <5>2. g # HeightOf[p]
            BY <2>1, <3>2, <5>1 DEF Heights
          <5>3. InStore(n, g) /\ chain'[n][g] = chain[n][g]
            BY <2>5, <3>2, <5>2
          <5>. QED
            BY <1>0, <3>2, <5>1, <5>3 DEF NodeInv, HistoryInv
        <4>. QED
          BY <4>1, <4>2
      <3>. QED
        BY <1>2, <2>2, <3>1, <3>2 DEF HistoryInv
    <2>10. CheckpointInv(n)'
      <3>1. CASE verifiedThrough'[n] # verifiedThrough[n]
        BY <1>2, <1>4, <1>5, <3>1 DEF CheckpointInv
      <3>2. CASE verifiedThrough'[n] = verifiedThrough[n]
        <4>. DEFINE v == verifiedThrough[n]
        <4>1. SUFFICES ASSUME validation[n] = "checkpoint", v > 0
                       PROVE  /\ v \in DOMAIN Checkpoints
                              /\ hotHeight'[n] > 0 /\ v <= hotHeight'[n]
                              /\ hotBase'[n] <= v =>
                                    chain'[n][v] = Checkpoints[v]
          BY <1>2, <3>2 DEF CheckpointInv
        <4>2. v \in DOMAIN Checkpoints /\ v \in Heights
                 /\ HeightOf[Checkpoints[v]] = v
          BY <1>0, <1>2, <4>1, CheckpointFact DEF NodeInv, CheckpointInv, Heights
        <4>3. CASE p = Checkpoints[v]
          BY <1>0, <2>1, <4>2, <4>3
        <4>4. CASE /\ hotHeight[n] > 0 /\ v <= hotHeight[n]
                   /\ hotBase[n] <= v => chain[n][v] = Checkpoints[v]
          BY <1>0, <2>1, <2>3, <2>4, <4>2, <4>4
        <4>. QED
          BY <1>0, <1>2, <4>1, <4>3, <4>4 DEF NodeInv, CheckpointInv
      <3>. QED
        BY <3>1, <3>2
    <2>. QED
      BY <1>1, <1>3, <2>6, <2>7, <2>8, <2>9, <2>10 DEF HotInv, NodeInv
  <1>. QED
    BY <1>6, <1>7

----------------------------------------------------------------------------
(* The other actions.                                                      *)

(* A crash empties what is only in memory.                                 *)
LEMMA CrashInv ==
    ASSUME HotInv, NEW n \in Node, Crash(n)
    PROVE  HotInv'
  <1>1. HotTypeOK'
    BY BlockFact DEF HotInv, HotTypeOK, Crash, MaybeBlock
  <1>2. ASSUME NEW m \in Node, m # n PROVE NodeInv(m)'
    BY <1>2, FrameNode, Zenon DEF HotInv, HotTypeOK, Crash
  <1>3. /\ chain' = chain /\ hotBase' = hotBase /\ hotHeight' = hotHeight
        /\ pending'[n] = NoBlock /\ ~up'[n]
    BY DEF Crash, HotInv, HotTypeOK
  <1>4. NodeInv(n)'
    BY <1>3 DEF HotInv, NodeInv, StoreInv, PendingInv, LinkInv, HistoryInv,
                CheckpointInv, InStore
  <1>. QED
    BY <1>1, <1>2, <1>4 DEF HotInv

(* NewHotIngestor preserves the invariant, whatever the mode.              *)
LEMMA NewHotIngestorInv ==
    ASSUME HotInv, NEW n \in Node, NEW mode \in Modes,
           NEW start \in 0 .. MaxHeight + 1, NewHotIngestor(n, mode, start)
    PROVE  HotInv'
  <1>0. /\ HotTypeOK /\ NodeInv(n) /\ hotBase[n] \in Nat /\ hotHeight[n] \in Nat
        /\ hotHeight[n] <= MaxHeight /\ MaxHeight \in Nat
    BY NodeTypes DEF HotInv
  <1>1. /\ pending' = pending /\ chain' = chain /\ hotBase' = hotBase
        /\ hotHeight' = hotHeight /\ up'[n] /\ ~up[n] /\ validation'[n] = mode
        /\ \A m \in Node : m # n =>
             /\ up'[m] = up[m] /\ validation'[m] = validation[m]
             /\ verifiedThrough'[m] = verifiedThrough[m]
    BY <1>0 DEF NewHotIngestor, HotTypeOK
  <1>2. HotTypeOK'
    <2>1. startHeight' \in [Node -> 0 .. MaxHeight + 1]
      BY <1>0 DEF NewHotIngestor, HotTypeOK
    <2>2. up' \in [Node -> BOOLEAN] /\ validation' \in [Node -> Modes]
             /\ verifiedThrough' \in [Node -> 0 .. MaxHeight]
      BY <1>0 DEF NewHotIngestor, HotTypeOK
    <2>. QED
      BY <1>0, <1>1, <2>1, <2>2 DEF HotTypeOK
  <1>3. ASSUME NEW m \in Node, m # n PROVE NodeInv(m)'
    BY <1>1, <1>3, FrameNode DEF HotInv
  <1>4. /\ StoreInv(n)' /\ PendingInv(n)' /\ LinkInv(n)' /\ HistoryInv(n)'
    BY <1>0, <1>1 DEF NodeInv, StoreInv, PendingInv, LinkInv, HistoryInv, InStore
  <1>5. CheckpointInv(n)'
    <2>1. SUFFICES ASSUME mode = "checkpoint", verifiedThrough'[n] > 0
                   PROVE  /\ verifiedThrough'[n] \in DOMAIN Checkpoints
                          /\ hotHeight[n] > 0
                          /\ verifiedThrough'[n] <= hotHeight[n]
                          /\ chain[n][verifiedThrough'[n]]
                                = Checkpoints[verifiedThrough'[n]]
      BY <1>1 DEF CheckpointInv
    <2>2. PICK c \in 0 .. MaxHeight : /\ IsRecoverable(n, c)
                                      /\ CheckpointIntact(n, c)
                                      /\ verifiedThrough'[n] = c
      BY <1>0, <2>1 DEF NewHotIngestor, HotTypeOK
    <2>3. /\ c \in DOMAIN Checkpoints /\ hotBase[n] <= c /\ c <= hotHeight[n]
          /\ LoadBlock(n, c) = Checkpoints[c]
      BY <2>1, <2>2 DEF IsRecoverable, StoredCheckpoints, CheckpointIntact
    <2>4. c \in Heights /\ c > 0
      BY <2>3, CheckpointFact DEF Heights
    <2>. QED
      BY <1>0, <2>2, <2>3, <2>4 DEF LoadBlock
  <1>. QED
    BY <1>2, <1>3, <1>4, <1>5 DEF HotInv, NodeInv

(* Starting a peer preserves the invariant.                                *)
LEMMA ServeInv ==
    ASSUME HotInv, NEW n \in Node, NEW mode \in Modes,
           NEW last \in 0 .. MaxHeight, Serve(n, mode, last)
    PROVE  HotInv'
  <1>1. liveIngestStartHeight(n, last) \in 0 .. MaxHeight + 1
    BY BlockFact DEF liveIngestStartHeight
  <1>. QED
    BY <1>1, NewHotIngestorInv DEF Serve

(* Pruning keeps the head, and with it every fact about what is stored.    *)
LEMMA PruneBlocksInv ==
    ASSUME HotInv, NEW n \in Node, NEW to \in Int, PruneBlocks(n, to),
           UNCHANGED <<up, validation, startHeight, pending, chain, hotHeight,
                       verifiedThrough>>
    PROVE  HotInv'
  <1>0. /\ HotTypeOK /\ NodeInv(n) /\ hotBase[n] \in Nat /\ hotHeight[n] \in Nat
        /\ hotHeight[n] <= MaxHeight /\ MaxHeight \in Nat
    BY NodeTypes DEF HotInv
  <1>1. hotBase'[n] = to /\ hotBase[n] < to /\ to <= hotHeight[n]
           /\ hotBase' \in [Node -> 0 .. MaxHeight]
    BY <1>0 DEF PruneBlocks, HotTypeOK
  <1>2. HotTypeOK'
    BY <1>0, <1>1 DEF HotTypeOK
  <1>3. ASSUME NEW m \in Node, m # n PROVE NodeInv(m)'
    BY <1>0, <1>3, FrameNode DEF HotInv, HotTypeOK, PruneBlocks
  <1>4. hotBase[n] > 0
    BY <1>0, <1>1 DEF NodeInv, StoreInv
  <1>5. \A h \in Heights : InStore(n, h)' => InStore(n, h)
    BY <1>0, <1>1, <1>4 DEF InStore, Heights
  <1>6. StoreInv(n)' /\ PendingInv(n)' /\ HistoryInv(n)'
    BY <1>0, <1>1, <1>4, <1>5 DEF NodeInv, StoreInv, PendingInv, HistoryInv
  <1>7. LinkInv(n)'
    BY <1>0, <1>1, <1>5 DEF NodeInv, LinkInv, Heights
  <1>8. CheckpointInv(n)'
    <2>1. up[n] /\ validation[n] = "checkpoint" /\ verifiedThrough[n] > 0
             => verifiedThrough[n] \in Nat
      BY NodeTypes, <1>0
    <2>. QED
      BY <1>0, <1>1, <2>1 DEF NodeInv, CheckpointInv
  <1>. QED
    BY <1>2, <1>3, <1>6, <1>7, <1>8 DEF HotInv, NodeInv

(* Every step of every peer preserves the invariant.                       *)
LEMMA HotNextInv == HotInv /\ [HotNext]_hotVars => HotInv'
  <1>. SUFFICES ASSUME HotInv, [HotNext]_hotVars PROVE HotInv'
    OBVIOUS
  <1>1. CASE UNCHANGED hotVars
    BY <1>1 DEF hotVars, HotInv, HotTypeOK, NodeInv, StoreInv, PendingInv,
                LinkInv, HistoryInv, CheckpointInv, InStore
  <1>2. ASSUME NEW n \in Node, NEW b \in Block, Submit(n, b) PROVE HotInv'
    BY <1>2, SubmitInv
  <1>3. ASSUME NEW n \in Node, Crash(n) PROVE HotInv'
    BY <1>3, CrashInv
  <1>4. ASSUME NEW n \in Node, NEW mode \in Modes, NEW last \in 0 .. MaxHeight,
               Serve(n, mode, last)
        PROVE  HotInv'
    BY <1>4, ServeInv
  <1>5. ASSUME NEW n \in Node, WithHotStorePrune(n) PROVE HotInv'
    <2>1. PICK to \in Heights : PruneBlocks(n, to)
      BY <1>5 DEF WithHotStorePrune
    <2>. QED
      BY <1>5, <2>1, PruneBlocksInv, BlockFact DEF WithHotStorePrune, Heights
  <1>. QED
    BY <1>1, <1>2, <1>3, <1>4, <1>5 DEF HotNext

----------------------------------------------------------------------------
(* Stored blocks link to their parents.                                    *)
LEMMA HotInvStoreLinked == HotInv => StoreLinked
  <1>1. SUFFICES ASSUME HotInv, NEW n \in Node,
                        NEW h \in hotBase[n] .. hotHeight[n], hotBase[n] < h
                 PROVE  /\ chain[n][h - 1] # NoBlock
                        /\ ParentOf[chain[n][h]] = chain[n][h - 1]
    BY DEF StoreLinked
  <1>2. /\ NodeInv(n) /\ hotBase[n] \in Nat /\ hotHeight[n] \in Nat
        /\ hotHeight[n] <= MaxHeight /\ MaxHeight \in Nat
    BY <1>1, NodeTypes DEF HotInv
  <1>3. h \in Heights /\ h - 1 \in Heights /\ InStore(n, h) /\ InStore(n, h - 1)
    BY <1>1, <1>2 DEF NodeInv, StoreInv, InStore, Heights
  <1>. QED
    BY <1>1, <1>2, <1>3, BlockFact DEF NodeInv, StoreInv, LinkInv

(* What may be archived is in the history of a checkpoint.                 *)
LEMMA HotInvAuthenticated == HotInv => AuthenticatedPrefix
  <1>1. SUFFICES ASSUME HotInv, NEW n \in Node, NEW h \in Heights,
                        up[n], validation[n] = "checkpoint", hotBase[n] <= h,
                        h <= hotHeight[n], h <= verifiedThrough[n]
                 PROVE  LoadBlock(n, h) \in CheckpointChain
    BY DEF AuthenticatedPrefix, ArchiveHeightLimit
  <1>. DEFINE v == verifiedThrough[n]
  <1>2. /\ NodeInv(n) /\ hotBase[n] \in Nat /\ hotHeight[n] \in Nat
        /\ hotHeight[n] <= MaxHeight /\ MaxHeight \in Nat /\ v \in Nat
    BY <1>1, NodeTypes DEF HotInv
  <1>3. InStore(n, h) /\ v > 0 /\ LoadBlock(n, h) = chain[n][h]
    BY <1>1, <1>2 DEF NodeInv, StoreInv, InStore, Heights, LoadBlock
  <1>4. v \in DOMAIN Checkpoints
    BY <1>1, <1>2, <1>3 DEF NodeInv, CheckpointInv
  <1>5. chain[n][h] \in Ancestry[Checkpoints[v]]
    <2>1. CASE pending[n] # NoBlock /\ pending[n] = Checkpoints[v]
      BY <1>2, <1>3, <2>1 DEF NodeInv, HistoryInv
    <2>2. CASE /\ hotHeight[n] > 0 /\ v <= hotHeight[n]
               /\ hotBase[n] <= v => chain[n][v] = Checkpoints[v]
      <3>1. InStore(n, v) /\ v \in Heights
        BY <1>1, <1>2, <1>3, <2>2 DEF InStore, Heights
      <3>. QED
        BY <1>1, <1>2, <1>3, <2>2, <3>1 DEF NodeInv, HistoryInv, InStore
    <2>. QED
      BY <1>1, <1>2, <1>3, <2>1, <2>2 DEF NodeInv, CheckpointInv
  <1>. QED
    BY <1>3, <1>4, <1>5 DEF CheckpointChain

(* The inductive invariant holds in every reachable state of the ingestor. *)
THEOREM HotInvariance == HotSpec => []HotInv
  BY HotInitInv, HotNextInv, PTL DEF HotSpec

(* The ingestor's variables keep their types.                              *)
THEOREM HotTypeCorrect == HotSpec => []HotTypeOK
  <1>1. HotInv => HotTypeOK
    BY DEF HotInv
  <1>. QED
    BY <1>1, HotInvariance, PTL

(* However a peer is fed, pruned and restarted, the blocks in its hot      *)
(* store form one linked run (Submit, persistPending).                     *)
THEOREM HotStoreLinked == HotSpec => []StoreLinked
  BY HotInvariance, HotInvStoreLinked, PTL

(* In checkpoint mode, what ArchiveHeightLimit releases for archiving is   *)
(* in the history of a checkpoint (markCheckpoint, NewHotIngestor).        *)
THEOREM HotAuthenticated == HotSpec => []AuthenticatedPrefix
  BY HotInvariance, HotInvAuthenticated, PTL

----------------------------------------------------------------------------
(* A checkpoint that is reached is above the last one.                     *)
LEMMA SubmitLimit ==
    ASSUME HotInv, NEW n \in Node, NEW b \in Block, Submit(n, b)
    PROVE  ArchiveHeightLimit(n) <= ArchiveHeightLimit(n)'
  <1>. DEFINE v == verifiedThrough[n]
  <1>0. /\ HotTypeOK /\ NodeInv(n) /\ hotBase[n] \in Nat /\ hotHeight[n] \in Nat
        /\ v \in Nat /\ pending[n] \in Block \cup {NoBlock}
    BY NodeTypes DEF HotInv
  <1>1. /\ validation' = validation /\ up[n]
        /\ pending[n] = NoBlock => hotHeight' = hotHeight
        /\ pending[n] # NoBlock => hotHeight'[n] = HeightOf[pending[n]]
    BY <1>0, SubmitStore
  <1>2. hotHeight[n] <= hotHeight'[n]
    BY <1>0, <1>1, BlockFact DEF NodeInv, PendingInv
  <1>3. CASE validation[n] = "checkpoint" /\ HeightOf[b] \in DOMAIN Checkpoints
    <2>1. verifiedThrough'[n] = HeightOf[b] /\ HeightOf[b] \in Nat
      BY <1>0, <1>3, BlockFact DEF Submit, markCheckpoint, HotTypeOK
    <2>2. v <= HeightOf[b]
      <3>1. CASE v = 0
        BY <1>0, <2>1, <3>1
      <3>2. CASE v > 0 /\ pending[n] # NoBlock
        <4>1. HeightOf[b] = HeightOf[pending[n]] + 1
                 /\ HeightOf[pending[n]] \in Nat
          BY <1>0, <3>2, SubmitLinks, BlockFact
        <4>. QED
          BY <1>0, <1>1, <1>3, <3>2, <4>1, CheckpointFact
             DEF NodeInv, CheckpointInv, PendingInv
      <3>3. CASE v > 0 /\ pending[n] = NoBlock
        BY <1>0, <1>1, <1>3, <2>1, <3>3, SubmitLinks DEF NodeInv, CheckpointInv
      <3>. QED
        BY <1>0, <3>1, <3>2, <3>3
    <2>. QED
      BY <1>1, <1>3, <2>1, <2>2 DEF ArchiveHeightLimit
  <1>4. CASE ~(validation[n] = "checkpoint" /\ HeightOf[b] \in DOMAIN Checkpoints)
    <2>1. verifiedThrough' = verifiedThrough
      BY <1>4 DEF Submit, markCheckpoint
    <2>. QED
      BY <1>0, <1>1, <1>2, <2>1 DEF ArchiveHeightLimit
  <1>. QED
    BY <1>3, <1>4

(* A running ingestor never withdraws a height it released for archiving   *)
(* (markCheckpoint, persistPending).                                       *)
THEOREM HotLimitMonotone == HotSpec => LimitMonotone
  <1>. DEFINE Monotone == \A n \in Node : up[n] /\ up'[n] =>
                  ArchiveHeightLimit(n) <= ArchiveHeightLimit(n)'
  <1>0. ASSUME HotInv, NEW m \in Node, validation'[m] = validation[m],
               hotHeight'[m] = hotHeight[m],
               verifiedThrough'[m] = verifiedThrough[m]
        PROVE  ArchiveHeightLimit(m) <= ArchiveHeightLimit(m)'
    BY <1>0, NodeTypes DEF ArchiveHeightLimit, HotInv
  <1>1. HotInv /\ [HotNext]_hotVars => [Monotone]_hotVars
    <2>. SUFFICES ASSUME HotInv, HotNext, NEW m \in Node, up[m], up'[m]
                  PROVE  ArchiveHeightLimit(m) <= ArchiveHeightLimit(m)'
      BY DEF hotVars
    <2>1. ASSUME NEW n \in Node, NEW b \in Block, Submit(n, b)
          PROVE  ArchiveHeightLimit(m) <= ArchiveHeightLimit(m)'
      <3>1. CASE m = n
        BY <2>1, <3>1, SubmitLimit
      <3>2. CASE m # n
        BY <1>0, <2>1, <3>2, SubmitStore DEF HotInv
      <3>. QED
        BY <3>1, <3>2
    <2>2. ASSUME NEW n \in Node, Crash(n)
          PROVE  ArchiveHeightLimit(m) <= ArchiveHeightLimit(m)'
      BY <1>0, <2>2 DEF Crash, HotInv, HotTypeOK
    <2>3. ASSUME NEW n \in Node, NEW mode \in Modes, NEW last \in 0 .. MaxHeight,
                 Serve(n, mode, last)
          PROVE  ArchiveHeightLimit(m) <= ArchiveHeightLimit(m)'
      <3>1. m # n
        BY <2>3 DEF Serve, NewHotIngestor
      <3>2. /\ validation'[m] = validation[m] /\ hotHeight'[m] = hotHeight[m]
            /\ verifiedThrough'[m] = verifiedThrough[m]
        BY <2>3, <3>1 DEF Serve, NewHotIngestor, HotInv, HotTypeOK
      <3>. QED
        BY <1>0, <3>2
    <2>4. ASSUME NEW n \in Node, WithHotStorePrune(n)
          PROVE  ArchiveHeightLimit(m) <= ArchiveHeightLimit(m)'
      BY <1>0, <2>4 DEF WithHotStorePrune
    <2>. QED
      BY <2>1, <2>2, <2>3, <2>4 DEF HotNext
  <1>. QED
    BY <1>1, HotInvariance, PTL DEF HotSpec, LimitMonotone

----------------------------------------------------------------------------
(* RestartRecovers.  The startup test compares what the store holds with   *)
(* the checkpoints again, so the proof remembers that every block in it    *)
(* passed the same comparisons when it was submitted.                      *)

AsConfigured(b) ==
    /\ HeightOf[b] > 1 => ParentOf[b] = CommitFor[b]
    /\ HeightOf[b] \in DOMAIN Checkpoints => b = Checkpoints[HeightOf[b]]

AcceptedInv ==
    \A n \in Node :
        /\ pending[n] # NoBlock => AsConfigured(pending[n])
        /\ \A h \in Heights : InStore(n, h) => AsConfigured(chain[n][h])

(* Pruning, a crash and a restart add no block.                            *)
LEMMA NothingAccepted ==
    ASSUME HotTypeOK, HotTypeOK', AcceptedInv,
           chain' = chain, hotHeight' = hotHeight,
           \A n \in Node : /\ hotBase'[n] # hotBase[n] =>
                                 0 < hotBase[n] /\ hotBase[n] <= hotBase'[n]
                           /\ pending'[n] \in {pending[n], NoBlock}
    PROVE  AcceptedInv'
  <1>. SUFFICES ASSUME NEW n \in Node
                PROVE  /\ pending'[n] # NoBlock => AsConfigured(pending[n])'
                       /\ \A h \in Heights : InStore(n, h)' => AsConfigured(chain[n][h])'
    BY DEF AcceptedInv
  <1>1. pending'[n] # NoBlock => AsConfigured(pending[n])'
    BY DEF AcceptedInv, AsConfigured
  <1>2. ASSUME NEW h \in Heights, InStore(n, h)' PROVE AsConfigured(chain[n][h])'
    <2>1. hotBase[n] \in Nat /\ hotBase'[n] \in Nat /\ h \in Nat
      BY NodeTypes, BlockFact DEF HotTypeOK, Heights
    <2>2. InStore(n, h)
      BY <1>2, <2>1 DEF InStore
    <2>. QED
      BY <2>2 DEF AcceptedInv, AsConfigured
  <1>. QED
    BY <1>1, <1>2

(* A prune never concerns an empty store and only raises its base.         *)
LEMMA PruneRaises ==
    ASSUME HotTypeOK, \A n \in Node : StoreInv(n), NEW n \in Node, NEW to \in Int,
           PruneBlocks(n, to)
    PROVE  \A m \in Node : hotBase'[m] # hotBase[m] =>
              0 < hotBase[m] /\ hotBase[m] <= hotBase'[m]
  <1>1. /\ hotBase[n] \in Nat /\ hotHeight[n] \in Nat /\ StoreInv(n)
        /\ hotBase[n] < to /\ to <= hotHeight[n]
    BY NodeTypes DEF PruneBlocks
  <1>2. hotBase[n] > 0
    BY <1>1 DEF StoreInv
  <1>3. hotBase'[n] = to /\ \A m \in Node : m # n => hotBase'[m] = hotBase[m]
    BY DEF PruneBlocks, HotTypeOK
  <1>. QED
    BY <1>1, <1>2, <1>3

(* A block is accepted, and later stored, only as configured.              *)
LEMMA SubmitAccepted ==
    ASSUME Modes \subseteq {"checkpoint"}, HotInv, AcceptedInv, NEW n \in Node,
           NEW b \in Block, Submit(n, b)
    PROVE  AcceptedInv'
  <1>0. /\ HotTypeOK /\ NodeInv(n) /\ validation[n] = "checkpoint"
        /\ hotBase[n] \in Nat /\ hotHeight[n] \in Nat
    BY NodeTypes, Zenon DEF HotInv, HotTypeOK
  <1>1. AsConfigured(b)
    BY <1>0, Zenon DEF Submit, Accepts, validateBlock, AsConfigured
  <1>2. ASSUME NEW m \in Node, m # n
        PROVE  /\ pending'[m] # NoBlock => AsConfigured(pending'[m])
               /\ \A h \in Heights : InStore(m, h)' => AsConfigured(chain'[m][h])
    <2>1. /\ chain'[m] = chain[m] /\ hotBase'[m] = hotBase[m]
          /\ hotHeight'[m] = hotHeight[m] /\ pending'[m] = pending[m]
      BY <1>0, <1>2, SubmitOthers, Zenon
    <2>. QED
      BY <2>1, Zenon DEF AcceptedInv, InStore
  <1>3. pending'[n] = b
    BY <1>0, SubmitStore, Zenon
  <1>4. ASSUME NEW h \in Heights, InStore(n, h)' PROVE AsConfigured(chain'[n][h])
    <2>1. CASE pending[n] = NoBlock
      <3>1. UNCHANGED <<chain, hotBase, hotHeight>>
        BY <1>0, <2>1, SubmitStore, Zenon
      <3>. QED
        BY <1>4, <3>1, Zenon DEF AcceptedInv, InStore
    <2>2. CASE pending[n] # NoBlock
      <3>. DEFINE k == HeightOf[pending[n]]
      <3>1. /\ hotHeight'[n] = k
            /\ hotBase'[n] = IF hotBase[n] = 0 THEN k ELSE hotBase[n]
            /\ chain'[n][k] = pending[n]
            /\ \A g \in Heights : g # k => chain'[n][g] = chain[n][g]
        BY <1>0, <2>2, SubmitStore
      <3>2. hotHeight[n] > 0 => k = hotHeight[n] + 1
        BY <1>0, <2>2 DEF NodeInv, PendingInv
      <3>3. hotBase[n] = 0 <=> hotHeight[n] = 0
        BY <1>0 DEF NodeInv, StoreInv
      <3>4. k \in Nat /\ h \in Nat
        BY <2>2, NodeTypes, BlockFact DEF HotInv, Heights
      <3>. HIDE DEF k
      <3>5. CASE h = k
        BY <2>2, <3>1, <3>5, Zenon DEF AcceptedInv
      <3>6. CASE h # k
        <4>1. InStore(n, h)
          BY <1>0, <1>4, <3>1, <3>2, <3>3, <3>4, <3>6 DEF InStore
        <4>. QED
          BY <3>1, <3>6, <4>1, Zenon DEF AcceptedInv
      <3>. QED
        BY <3>5, <3>6, Zenon
    <2>. QED
      BY <2>1, <2>2, Zenon
  <1>. QED
    BY <1>1, <1>2, <1>3, <1>4 DEF AcceptedInv, AsConfigured

(* What passed the comparisons once passes them again at startup.          *)
LEMMA AcceptedRecovers ==
    HotInv /\ AcceptedInv => RestartRecovers
  <1>1. SUFFICES ASSUME HotInv, AcceptedInv, NEW n \in Node, NEW c \in Heights,
                        IsRecoverable(n, c)
                 PROVE  CheckpointIntact(n, c)
    BY DEF RestartRecovers
  <1>0. /\ NodeInv(n) /\ hotBase[n] \in Nat /\ hotHeight[n] \in Nat
        /\ hotHeight[n] <= MaxHeight /\ MaxHeight \in Nat /\ c \in Nat /\ c > 0
    BY <1>1, NodeTypes DEF HotInv, Heights
  <1>2. c \in DOMAIN Checkpoints /\ hotBase[n] <= c /\ c <= hotHeight[n]
    BY <1>0, <1>1 DEF IsRecoverable, StoredCheckpoints
  <1>3. hotBase[n] > 0 /\ \A h \in hotBase[n] .. c : h \in Heights /\ InStore(n, h)
    BY <1>0, <1>2 DEF NodeInv, StoreInv, InStore, Heights
  <1>4. \A h \in hotBase[n] .. c :
           /\ LoadBlock(n, h) = chain[n][h] /\ chain[n][h] \in Block
           /\ HeightOf[chain[n][h]] = h /\ AsConfigured(chain[n][h])
    BY <1>0, <1>1, <1>3 DEF LoadBlock, NodeInv, StoreInv, InStore, AcceptedInv
  <1>5. LoadBlock(n, c) = Checkpoints[c]
    <2>1. c \in hotBase[n] .. c
      BY <1>0, <1>2
    <2>. QED
      BY <1>2, <1>4, <2>1 DEF AsConfigured
  <1>6. ASSUME NEW h \in hotBase[n] + 1 .. c
        PROVE  /\ LoadBlock(n, h - 1) # NoBlock
               /\ ParentOf[LoadBlock(n, h)] = LoadBlock(n, h - 1)
               /\ ParentOf[LoadBlock(n, h)] = CommitFor[LoadBlock(n, h)]
    <2>1. h \in hotBase[n] .. c /\ h - 1 \in hotBase[n] .. c /\ h > 1 /\ hotBase[n] < h
      BY <1>0, <1>3
    <2>2. ParentOf[chain[n][h]] = chain[n][h - 1]
      BY <1>0, <1>3, <2>1 DEF NodeInv, LinkInv
    <2>3. ParentOf[chain[n][h]] = CommitFor[chain[n][h]]
      BY <1>4, <2>1 DEF AsConfigured
    <2>. QED
      BY <1>4, <2>1, <2>2, <2>3, BlockFact, Zenon
  <1>. QED
    BY <1>5, <1>6 DEF CheckpointIntact

(* AcceptedInv is kept by every step of the ingestor on its own.           *)
LEMMA AcceptedNext ==
    ASSUME Modes \subseteq {"checkpoint"}, HotInv, HotInv', AcceptedInv,
           [HotNext]_hotVars
    PROVE  AcceptedInv'
  <1>0. HotTypeOK /\ HotTypeOK' /\ \A n \in Node : StoreInv(n)
    BY DEF HotInv, NodeInv
  <1>1. CASE UNCHANGED hotVars
    BY <1>0, <1>1, NothingAccepted DEF hotVars
  <1>2. ASSUME NEW n \in Node, NEW b \in Block, Submit(n, b) PROVE AcceptedInv'
    BY <1>2, SubmitAccepted
  <1>3. ASSUME NEW n \in Node, Crash(n) PROVE AcceptedInv'
    <2>1. /\ UNCHANGED <<chain, hotBase, hotHeight>>
          /\ \A m \in Node : pending'[m] \in {pending[m], NoBlock}
      BY <1>0, <1>3 DEF Crash, HotTypeOK
    <2>. QED
      BY <1>0, <2>1, NothingAccepted
  <1>4. ASSUME NEW n \in Node, NEW mode \in Modes, NEW last \in 0 .. MaxHeight,
               Serve(n, mode, last)
        PROVE  AcceptedInv'
    <2>1. UNCHANGED <<pending, chain, hotBase, hotHeight>>
      BY <1>4 DEF Serve, NewHotIngestor
    <2>. QED
      BY <1>0, <2>1, NothingAccepted
  <1>5. ASSUME NEW n \in Node, WithHotStorePrune(n) PROVE AcceptedInv'
    <2>1. PICK to \in Heights : PruneBlocks(n, to)
      BY <1>5 DEF WithHotStorePrune
    <2>2. UNCHANGED <<pending, chain, hotHeight>>
      BY <1>5 DEF WithHotStorePrune
    <2>3. \A m \in Node : hotBase'[m] # hotBase[m] =>
             0 < hotBase[m] /\ hotBase[m] <= hotBase'[m]
      <3>1. to \in Int
        BY BlockFact DEF Heights
      <3>. QED
        BY <1>0, <2>1, <3>1, PruneRaises
    <2>. QED
      BY <1>0, <2>2, <2>3, NothingAccepted
  <1>. QED
    BY <1>1, <1>2, <1>3, <1>4, <1>5 DEF HotNext

(* A peer that always ran in checkpoint mode with the same checkpoints is  *)
(* not locked out by its own store, whenever it stopped (NewHotIngestor,   *)
(* validateBlock).                                                         *)
THEOREM HotRestartRecovers ==
    ASSUME Modes \subseteq {"checkpoint"}
    PROVE  HotSpec => []RestartRecovers
  <1>1. HotInit => AcceptedInv
    BY DEF HotInit, AcceptedInv, InStore
  <1>2. HotInv /\ HotInv' /\ AcceptedInv /\ [HotNext]_hotVars => AcceptedInv'
    BY AcceptedNext
  <1>. QED
    BY <1>1, <1>2, HotInvariance, AcceptedRecovers, PTL DEF HotSpec

============================================================================
