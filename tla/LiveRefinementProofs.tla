------------------------ MODULE LiveRefinementProofs ------------------------
(***************************************************************************)
(* Pruning the hot store loses nothing and only drops what was read back.  *)
(* With that, LiveArchive implements ArchivePromise: seen through the      *)
(* published manifest and the hot stores, every step of every peer is      *)
(* Hold, Extend, Release or invisible.                                     *)
(***************************************************************************)
EXTENDS LiveArchiveProofs

----------------------------------------------------------------------------
(* Pruning.  validatePruneBoundary compares one block.  That is enough     *)
(* when the archive holds one history: either every peer authenticates     *)
(* against the checkpoints, or the peers never see two blocks of a height. *)

SingleChain ==
    \/ Modes \subseteq {"checkpoint"}
    \/ \A a, b \in Block : HeightOf[a] = HeightOf[b] => a = b

(* A single chain has one block per height.                                *)
LEMMA CanonUnique ==
    ASSUME SingleChain, NEW a \in Canon, NEW b \in Canon,
           HeightOf[a] = HeightOf[b]
    PROVE  a = b
  <1>1. CASE Modes \subseteq {"checkpoint"}
    <2>1. PICK g \in DOMAIN Checkpoints : a \in Ancestry[Checkpoints[g]]
      BY <1>1 DEF Canon, CheckpointChain
    <2>2. PICK h \in DOMAIN Checkpoints : b \in Ancestry[Checkpoints[h]]
      BY <1>1 DEF Canon, CheckpointChain
    <2>3. g \in Int /\ h \in Int
      BY CheckpointFact, BlockFact
    <2>4. PICK k \in DOMAIN Checkpoints : /\ a \in Ancestry[Checkpoints[k]]
                                          /\ b \in Ancestry[Checkpoints[k]]
      <3>1. CASE g <= h
        BY <2>1, <2>2, <3>1, CheckpointAssumption
      <3>2. CASE h <= g
        BY <2>1, <2>2, <3>2, CheckpointAssumption
      <3>. QED
        BY <2>3, <3>1, <3>2
    <2>. QED
      BY <2>4, CheckpointFact, ChainAssumption
  <1>2. CASE ~(Modes \subseteq {"checkpoint"})
    BY <1>2 DEF SingleChain, Canon
  <1>. QED
    BY <1>1, <1>2

(* A single chain is closed under ancestry.                                *)
LEMMA CanonDown ==
    ASSUME NEW b \in Canon, NEW a \in Ancestry[b]
    PROVE  a \in Canon
  <1>1. CASE Modes \subseteq {"checkpoint"}
    <2>1. PICK h \in DOMAIN Checkpoints : b \in Ancestry[Checkpoints[h]]
      BY <1>1 DEF Canon, CheckpointChain
    <2>2. Ancestry[b] \subseteq Ancestry[Checkpoints[h]]
      BY <2>1, CheckpointFact, ChainAssumption
    <2>. QED
      BY <1>1, <2>2 DEF Canon, CheckpointChain
  <1>2. CASE ~(Modes \subseteq {"checkpoint"})
    BY <1>2, ChainAssumption DEF Canon
  <1>. QED
    BY <1>1, <1>2

(* Every block about to be pruned is in the snapshot that was verified.    *)
LEMMA PruneCovered ==
    ASSUME LiveInv, SingleChain, NEW n \in Node, CanPrune(n),
           NEW h \in Heights, hotBase[n] <= h, h < PruneTo(n)
    PROVE  \E s \in snapshot[n].segments :
               Covers(s, h) /\ s.blocks[h] = chain[n][h]
  <1>. DEFINE m == snapshot[n]
              t == PruneTo(n) - 1
  <1>0. /\ NodeInv(n) /\ hotBase[n] \in 0 .. MaxHeight
        /\ hotHeight[n] \in 0 .. MaxHeight /\ MaxHeight \in Nat
        /\ hotBase[n] > 0 /\ m.first <= hotBase[n]
        /\ Validate(m) /\ m.first \in 0 .. MaxHeight /\ m.last \in 0 .. MaxHeight
    BY LimitType, Zenon
       DEF LiveInv, HotInv, LoopInv, VerifyInv, CanPrune, IsManifest
  <1>1. \A s \in m.segments : IsSegment(s) /\ CanonSegment(s)
    BY DEF LiveInv, GlobalInv, LoopInv, VerifyInv
  <1>2. PruneTo(n) \in Int
    BY <1>0, LiveAssumption DEF PruneTo, Min2
  <1>3. /\ m.first <= t /\ t <= m.last
        /\ LoadBlock(n, t) # NoBlock /\ LoadBlock(n, t) = ArchivedBlock(m, t)
    BY DEF CanPrune, validatePruneBoundary
  <1>4. t \in Heights /\ InStore(n, t) /\ LoadBlock(n, t) = chain[n][t]
    BY <1>0, <1>3 DEF LoadBlock, InStore
  <1>5. chain[n][t] \in Canon
    <2>1. PICK s \in m.segments : Covers(s, t)
      BY <1>3 DEF ArchivedBlock
    <2>2. chain[n][t] = s.blocks[t]
      BY <1>0, <1>3, <1>4, <2>1, ArchivedBlockUnique
    <2>3. t \in s.first .. s.last
      BY <1>1, <1>2, <2>1 DEF Covers, IsSegment, Heights
    <2>. QED
      BY <1>1, <2>2, <2>3 DEF CanonSegment
  <1>6. h <= t /\ InStore(n, h) /\ h \in Int
    BY <1>0, <1>2, <1>4 DEF InStore, Heights
  <1>7. chain[n][h] \in Canon /\ HeightOf[chain[n][h]] = h
    BY <1>0, <1>4, <1>5, <1>6, CanonDown, Zenon
       DEF NodeInv, HistoryInv, StoreInv
  <1>8. PICK u \in m.segments : Covers(u, h)
    <2>1. h \in m.first .. m.last /\ m.last # 0
      BY <1>0, <1>2, <1>3, <1>6 DEF Heights
    <2>. QED
      BY <1>0, <2>1 DEF Validate
  <1>9. u.blocks[h] \in Canon /\ HeightOf[u.blocks[h]] = h
    <2>1. h \in u.first .. u.last
      BY <1>1, <1>6, <1>8 DEF Covers, IsSegment, Heights
    <2>. QED
      BY <1>1, <1>8, <2>1 DEF CanonSegment, IsSegment
  <1>. QED
    BY <1>7, <1>8, <1>9, CanonUnique

PrunedInv ==
    \A n \in Node, h \in Heights :
        chain[n][h] # NoBlock /\ h < hotBase[n] =>
            \E s \in manifest.segments : Covers(s, h) /\ s.blocks[h] = chain[n][h]

(* Which steps touch what PrunedInv is about.                              *)
LEMMA NextTouches ==
    ASSUME LiveInv, Next
    PROVE  /\ manifest.segments \subseteq manifest'.segments
           /\ \/ chain' = chain /\ hotBase' = hotBase
              \/ \E n \in Node : \E b \in Block : Submit(n, b)
              \/ \E n \in Node : PruneHotStore(n) /\ CanPrune(n)
  <1>1. manifest.segments \subseteq manifest'.segments
    <2>1. CASE manifest' = manifest
      BY <2>1
    <2>2. ASSUME NEW n \in Node, pc[n] = "publish", CanPublish(n),
                 manifest' = NextManifest(n), UNCHANGED <<intact, torn, decayed>>
          PROVE  manifest.segments \subseteq manifest'.segments
      BY <2>2, PublishStore
    <2>. QED
      BY <2>1, <2>2, Zenon
      DEF Next, Ingest, Archive, Prune, Fail, ArchiveReadyFromHead,
          ArchiveReady, buildSegment, PutNew, PutExisting, PutTorn, PutError,
          verifyStoredSegment, Publish, PublishConflict, PublishError,
          SkipPrune, VerifyArchive, verifySegment, VerifyDone, PruneHotStore,
          ReadError, Kill, Decay, storeVars
  <1>2. \/ chain' = chain /\ hotBase' = hotBase
        \/ \E n \in Node : \E b \in Block : Submit(n, b)
        \/ \E n \in Node : PruneHotStore(n) /\ CanPrune(n)
    <2>1. ASSUME NEW n \in Node, Ingest(n)
          PROVE  \/ chain' = chain /\ hotBase' = hotBase
                 \/ \E b \in Block : Submit(n, b)
      BY <2>1 DEF Ingest, Serve, NewHotIngestor
    <2>2. ASSUME NEW n \in Node, Archive(n) PROVE chain' = chain /\ hotBase' = hotBase
      BY <2>2 DEF Archive, ArchiveReadyFromHead, ArchiveReady, buildSegment,
                  PutNew, PutExisting, verifyStoredSegment, Publish,
                  PublishConflict, hotVars
    <2>3. ASSUME NEW n \in Node, Prune(n)
          PROVE  \/ chain' = chain /\ hotBase' = hotBase
                 \/ PruneHotStore(n) /\ CanPrune(n)
      BY <2>3 DEF Prune, SkipPrune, VerifyArchive, verifySegment, VerifyDone,
                  PruneHotStore, hotVars
    <2>4. ASSUME NEW n \in Node, Fail(n) PROVE chain' = chain /\ hotBase' = hotBase
      BY <2>4, Zenon
         DEF Fail, PutTorn, PutError, PublishError, ReadError, Kill, Crash,
                  hotVars
    <2>5. ASSUME NEW s \in intact, Decay(s) PROVE chain' = chain /\ hotBase' = hotBase
      BY <2>5 DEF Decay, hotVars
    <2>. QED
      BY <2>1, <2>2, <2>3, <2>4, <2>5 DEF Next
  <1>. QED
    BY <1>1, <1>2

(* Every step keeps pruned blocks archived.                                *)
LEMMA PrunedNext ==
    ASSUME SingleChain, LiveInv, PrunedInv, [Next]_vars
    PROVE  PrunedInv'
  <1>0. HotInv /\ HotTypeOK
    BY DEF LiveInv, HotInv
  <1>1. CASE UNCHANGED vars
    BY <1>1 DEF vars, hotVars, storeVars, PrunedInv
  <1>2. CASE Next
    <2>0. manifest.segments \subseteq manifest'.segments
      BY <1>2, NextTouches
    <2>1. CASE chain' = chain /\ hotBase' = hotBase
      BY <2>0, <2>1 DEF PrunedInv
    <2>2. ASSUME NEW n \in Node, NEW b \in Block, Submit(n, b) PROVE PrunedInv'
      <3>1. ASSUME NEW m \in Node, NEW h \in Heights,
                   chain'[m][h] # NoBlock, h < hotBase'[m]
            PROVE  chain'[m][h] = chain[m][h] /\ h < hotBase[m]
        <4>1. CASE m # n
          BY <1>0, <2>2, <3>1, <4>1, SubmitStore
        <4>2. CASE m = n /\ pending[n] = NoBlock
          BY <1>0, <2>2, <3>1, <4>2, SubmitStore
        <4>3. CASE m = n /\ pending[n] # NoBlock
          <5>1. /\ hotBase'[n] = IF hotBase[n] = 0 THEN HeightOf[pending[n]]
                                 ELSE hotBase[n]
                /\ \A g \in Heights : g # HeightOf[pending[n]] =>
                      chain'[n][g] = chain[n][g]
            BY <1>0, <2>2, <4>3, SubmitStore
          <5>2. /\ pending[n] \in Block /\ HeightOf[pending[n]] \in 1 .. MaxHeight
                /\ NodeInv(n) /\ hotBase[n] \in Nat /\ hotHeight[n] \in Nat
            BY <1>0, <4>3, NodeTypes, BlockFact DEF HotInv
          <5>3. h # HeightOf[pending[n]]
            BY <3>1, <4>3, <5>1, <5>2, BlockFact
               DEF NodeInv, PendingInv, StoreInv, Heights
          <5>4. chain[n][h] # NoBlock
            BY <3>1, <4>3, <5>1, <5>3
          <5>5. hotBase[n] # 0
            BY <5>2, <5>4 DEF NodeInv, StoreInv
          <5>. QED
            BY <3>1, <4>3, <5>1, <5>3, <5>5
        <4>. QED
          BY <4>1, <4>2, <4>3
      <3>. QED
        BY <2>0, <3>1 DEF PrunedInv
    <2>3. ASSUME NEW n \in Node, PruneHotStore(n), CanPrune(n) PROVE PrunedInv'
      <3>1. /\ chain' = chain /\ hotBase' = [hotBase EXCEPT ![n] = PruneTo(n)]
            /\ snapshot[n].segments \subseteq manifest.segments
        BY <2>3 DEF PruneHotStore, PruneBlocks, LiveInv, LoopInv, VerifyInv
      <3>2. ASSUME NEW m \in Node, NEW h \in Heights,
                   chain[m][h] # NoBlock, h < hotBase'[m]
            PROVE  \E s \in manifest.segments :
                       Covers(s, h) /\ s.blocks[h] = chain[m][h]
        <4>1. CASE h < hotBase[m]
          BY <3>2, <4>1 DEF PrunedInv
        <4>2. CASE ~(h < hotBase[m])
          <5>1. m = n /\ h < PruneTo(n) /\ hotBase[n] <= h
            BY <1>0, <3>1, <3>2, <4>2, LimitType DEF Heights, HotTypeOK
          <5>. QED
            BY <2>3, <3>1, <5>1, PruneCovered
        <4>. QED
          BY <4>1, <4>2
      <3>. QED
        BY <2>0, <3>1, <3>2 DEF PrunedInv
    <2>. QED
      BY <1>2, <2>1, <2>2, <2>3, NextTouches
  <1>. QED
    BY <1>1, <1>2

(* What PrunedInv says of segments holds of the archived blocks.           *)
LEMMA PrunedInvArchived == LiveInv /\ PrunedInv => PrunedIsArchived
  BY ArchivedBlockUnique DEF LiveInv, GlobalInv, PrunedInv, PrunedIsArchived

(* Pruning loses nothing: under SingleChain, every block a peer persisted  *)
(* and no longer holds is archived, the same block at the same height      *)
(* (PruneHotStore, validatePruneBoundary).                                 *)
THEOREM LivePrunedIsArchived ==
    ASSUME SingleChain
    PROVE  Spec => []PrunedIsArchived
  <1>1. Init => PrunedInv
    BY DEF Init, HotInit, PrunedInv
  <1>2. LiveInv /\ PrunedInv /\ [Next]_vars => PrunedInv'
    BY PrunedNext
  <1>. QED
    BY <1>1, <1>2, LiveInvariance, PrunedInvArchived, PTL DEF Spec

(* A prune removes only blocks whose archived copy the pruning process     *)
(* read back intact itself (IncrementalVerifier, runLivePrune).            *)
THEOREM LivePruneOnlyChecked ==
    ASSUME SingleChain
    PROVE  Spec => PruneOnlyChecked
  <1>. DEFINE Checked ==
                 \A n \in Node, h \in Heights :
                    hotBase[n] # 0 /\ hotBase[n] <= h /\ h < hotBase'[n] =>
                       \E s \in checked[n] :
                          Covers(s, h) /\ s.blocks[h] = chain[n][h]
  <1>1. LiveInv /\ [Next]_vars => [Checked]_vars
    <2>. SUFFICES ASSUME LiveInv, Next, NEW m \in Node, NEW h \in Heights,
                         hotBase[m] # 0, hotBase[m] <= h, h < hotBase'[m]
                  PROVE  \E s \in checked[m] :
                            Covers(s, h) /\ s.blocks[h] = chain[m][h]
      BY DEF vars
    <2>0. HotTypeOK /\ hotBase[m] \in 0 .. MaxHeight /\ h \in Int
      BY LimitType DEF LiveInv, HotInv, Heights
    <2>1. ~(chain' = chain /\ hotBase' = hotBase)
      BY <2>0
    <2>2. ASSUME NEW n \in Node, NEW b \in Block, Submit(n, b) PROVE FALSE
      <3>1. hotBase'[m] = hotBase[m]
        <4>1. CASE m # n
          BY <2>0, <2>2, <4>1, SubmitStore
        <4>2. CASE m = n
          BY <2>0, <2>2, <4>2, SubmitStore
        <4>. QED
          BY <4>1, <4>2
      <3>. QED
        BY <2>0, <3>1
    <2>3. PICK n \in Node : PruneHotStore(n) /\ CanPrune(n)
      BY <2>1, <2>2, NextTouches
    <2>4. hotBase' = [hotBase EXCEPT ![n] = PruneTo(n)] /\ pc[n] = "pruneHot"
      BY <2>3 DEF PruneHotStore, PruneBlocks
    <2>5. m = n /\ h < PruneTo(n)
      BY <2>0, <2>4 DEF HotTypeOK
    <2>6. snapshot[n].segments \subseteq checked[n]
      BY <2>4 DEF LiveInv, LoopInv, VerifyInv
    <2>. QED
      BY <2>3, <2>5, <2>6, PruneCovered
  <1>. QED
    BY <1>1, LiveInvariance, PTL DEF Spec, PruneOnlyChecked

----------------------------------------------------------------------------
(* The refinement.                                                         *)

Archived == [h \in Heights |-> ArchivedBlock(manifest, h)]

HeldBy(n) == {LoadBlock(n, h) : h \in Heights} \ {NoBlock}

Held == [n \in Node |-> HeldBy(n)]

(* What a valid manifest holds at a height.                                *)
LEMMA ArchivedIs ==
    ASSUME NEW m, IsManifest(m), Validate(m), NEW h \in Heights
    PROVE  /\ ArchivedBlock(m, h) \in MaybeBlock
           /\ ArchivedBlock(m, h) # NoBlock <=>
                 m.segments # {} /\ m.first <= h /\ h <= m.last
           /\ ArchivedBlock(m, h) # NoBlock => HeightOf[ArchivedBlock(m, h)] = h
  <1>1. CASE \E s \in m.segments : Covers(s, h)
    <2>1. PICK s \in m.segments : Covers(s, h)
      BY <1>1
    <2>2. ArchivedBlock(m, h) = s.blocks[h]
      BY <2>1, ArchivedBlockUnique
    <2>3. /\ IsSegment(s) /\ s.first \in Int /\ s.last \in Int /\ h \in Int
          /\ m.first \in Int /\ m.last \in Int
      BY BlockFact DEF IsManifest, IsSegment, Heights
    <2>4. h \in s.first .. s.last
      BY <2>1, <2>3 DEF Covers
    <2>5. s.blocks[h] \in Block /\ HeightOf[s.blocks[h]] = h
      BY <2>3, <2>4 DEF IsSegment
    <2>6. m.first <= h /\ h <= m.last
      BY <2>1, <2>3, <2>4 DEF Validate
    <2>. QED
      BY <2>1, <2>2, <2>5, <2>6, BlockFact DEF MaybeBlock
  <1>2. CASE ~\E s \in m.segments : Covers(s, h)
    <2>1. ArchivedBlock(m, h) = NoBlock
      BY <1>2 DEF ArchivedBlock
    <2>2. h \in Int /\ m.first \in Int /\ m.last \in Int
      BY BlockFact DEF IsManifest, Heights
    <2>3. ~(m.segments # {} /\ m.first <= h /\ h <= m.last)
      BY <1>2, <2>2 DEF Validate
    <2>. QED
      BY <2>1, <2>3 DEF MaybeBlock
  <1>. QED
    BY <1>1, <1>2

(* A published segment extends the archive at its end.                     *)
LEMMA PublishExtends ==
    ASSUME LiveInv, NEW n \in Node, pc[n] = "publish", CanPublish(n),
           manifest' = NextManifest(n), UNCHANGED <<intact, torn, decayed>>,
           Held' = Held
    PROVE  Promise!Extend(segment[n].first, segment[n].last)
             /\ segment[n].first \in Heights /\ segment[n].last \in Heights
  <1>. DEFINE s == segment[n]
  <1>1. /\ GlobalInv /\ GlobalInv' /\ CanAppend(manifest, s) /\ IsSegment(s)
        /\ manifest'.segments = manifest.segments \cup {s}
        /\ manifest.last < s.first /\ manifest'.last = s.last
    BY PublishStore DEF LiveInv
  <1>2. /\ s.first \in 1 .. MaxHeight /\ s.last \in 1 .. MaxHeight
        /\ s.first <= s.last /\ MaxHeight \in Nat
        /\ s.first \in Heights /\ s.last \in Heights
        /\ manifest.last \in 0 .. MaxHeight /\ manifest.first \in 0 .. MaxHeight
    BY <1>1, BlockFact DEF IsSegment, Heights, GlobalInv, IsManifest
  <1>3. ASSUME NEW h \in Heights, s.first <= h, h <= s.last
        PROVE  ArchivedBlock(manifest', h) # NoBlock
                 /\ HeightOf[ArchivedBlock(manifest', h)] = h
    <2>1. ArchivedBlock(manifest', h) = s.blocks[h]
      <3>1. s \in manifest'.segments /\ Validate(manifest')
        BY <1>1 DEF GlobalInv
      <3>2. Covers(s, h)
        BY <1>3 DEF Covers
      <3>. QED
        BY <3>1, <3>2, ArchivedBlockUnique
    <2>2. h \in s.first .. s.last
      BY <1>2, <1>3 DEF Heights
    <2>3. s.blocks[h] \in Block /\ HeightOf[s.blocks[h]] = h
      BY <1>1, <2>2, Zenon DEF IsSegment
    <2>. QED
      BY <2>1, <2>3, BlockFact
  <1>4. ASSUME NEW h \in Heights, ~(s.first <= h /\ h <= s.last)
        PROVE  ArchivedBlock(manifest', h) = ArchivedBlock(manifest, h)
    <2>1. CASE \E t \in manifest.segments : Covers(t, h)
      <3>1. PICK t \in manifest.segments : Covers(t, h)
        BY <2>1
      <3>2. Validate(manifest) /\ Validate(manifest') /\ t \in manifest'.segments
        BY <1>1 DEF GlobalInv
      <3>. QED
        BY <3>1, <3>2, ArchivedBlockUnique
    <2>2. CASE ~\E t \in manifest.segments : Covers(t, h)
      BY <1>1, <1>4, <2>2 DEF ArchivedBlock, Covers
    <2>. QED
      BY <2>1, <2>2
  <1>5. ASSUME NEW h \in Heights, ArchivedBlock(manifest, h) # NoBlock
        PROVE  /\ h < s.first /\ s.first - 1 \in Heights
               /\ ArchivedBlock(manifest, s.first - 1) # NoBlock
    <2>1. manifest.segments # {} /\ manifest.first <= h /\ h <= manifest.last
      <3>1. IsManifest(manifest) /\ Validate(manifest)
        BY <1>1 DEF GlobalInv
      <3>. QED
        BY <1>5, <3>1, ArchivedIs
    <2>2. s.first = manifest.last + 1 /\ h \in Int /\ h > 0
      BY <1>1, <2>1, BlockFact DEF CanAppend, Heights
    <2>3. s.first - 1 = manifest.last /\ manifest.last \in Heights
             /\ manifest.first <= manifest.last
      BY <1>2, <2>1, <2>2 DEF Heights
    <2>4. ArchivedBlock(manifest, manifest.last) # NoBlock
      <3>1. IsManifest(manifest) /\ Validate(manifest)
        BY <1>1 DEF GlobalInv
      <3>2. manifest.last <= manifest.last
        BY <1>2
      <3>. QED
        BY <2>1, <2>3, <3>1, <3>2, ArchivedIs
    <2>. QED
      BY <1>2, <2>1, <2>2, <2>3, <2>4
  <1>6. \A h \in Heights : ArchivedBlock(manifest', h) \in MaybeBlock
    BY <1>1, ArchivedIs DEF GlobalInv
  <1>7. Archived' = [h \in Heights |-> ArchivedBlock(manifest', h)]
    BY DEF Archived
  <1>8. Archived' \in [Heights -> MaybeBlock]
    BY <1>6, <1>7
  <1>9. \A h \in Heights :
           IF s.first <= h /\ h <= s.last
           THEN Archived'[h] # NoBlock /\ HeightOf[Archived'[h]] = h
           ELSE Archived'[h] = Archived[h]
    BY <1>3, <1>4, <1>7 DEF Archived
  <1>10. Promise!ArchivedHeights = {h \in Heights : Archived[h] # NoBlock}
    BY DEF Promise!ArchivedHeights, Promise!Heights, Heights, Archived
  <1>11. Promise!ArchivedHeights # {} =>
            /\ s.first - 1 \in Promise!ArchivedHeights
            /\ \A h \in Promise!ArchivedHeights : h < s.first
    BY <1>5, <1>10 DEF Archived
  <1>. QED
    BY <1>2, <1>8, <1>9, <1>11, Zenon
       DEF Promise!Extend, Promise!Heights, Promise!MaybeBlock, Heights, MaybeBlock,
           Archived, Held, HeldBy

(* A saved block is loaded at its height, where there was none.            *)
LEMMA SavedLoads ==
    ASSUME NEW n \in Node, NEW k \in Heights, k = HeightOf[pending[n]],
           hotBase[n] \in Nat, hotHeight[n] \in Nat,
           hotHeight'[n] = HeightOf[pending[n]],
           hotBase'[n] = IF hotBase[n] = 0 THEN HeightOf[pending[n]]
                         ELSE hotBase[n],
           chain'[n][HeightOf[pending[n]]] = pending[n],
           \A h \in Heights : h # HeightOf[pending[n]] =>
               chain'[n][h] = chain[n][h],
           hotHeight[n] > 0 => HeightOf[pending[n]] = hotHeight[n] + 1,
           hotBase[n] = 0 <=> hotHeight[n] = 0, hotBase[n] <= hotHeight[n]
    PROVE  /\ LoadBlock(n, k)' = pending[n] /\ LoadBlock(n, k) = NoBlock
           /\ \A h \in Heights : h # k => LoadBlock(n, h)' = LoadBlock(n, h)
  <1>1. k \in Nat /\ k > 0
    BY DEF Heights
  <1>2. LoadBlock(n, k)' = pending[n]
    BY <1>1 DEF LoadBlock
  <1>3. LoadBlock(n, k) = NoBlock
    BY <1>1 DEF LoadBlock
  <1>4. ASSUME NEW h \in Heights, h # k PROVE LoadBlock(n, h)' = LoadBlock(n, h)
    BY <1>1, <1>4 DEF LoadBlock, Heights
  <1>. QED
    BY <1>2, <1>3, <1>4, Zenon

(* Persisting the pending block is Hold; accepting a block is invisible.   *)
LEMMA SubmitHolds ==
    ASSUME LiveInv, NEW n \in Node, NEW b \in Block, Submit(n, b)
    PROVE  \/ Held' = Held
           \/ /\ pending[n] \in Block
              /\ Held' = [Held EXCEPT ![n] = @ \cup {pending[n]}]
  <1>0. /\ HotTypeOK /\ HotInv /\ NodeInv(n) /\ hotBase[n] \in Nat
        /\ hotHeight[n] \in Nat /\ MaxHeight \in Nat
        /\ pending[n] \in Block \cup {NoBlock}
    BY NodeTypes DEF LiveInv, HotInv
  <1>1. ASSUME NEW m \in Node, m # n PROVE HeldBy(m)' = HeldBy(m)
    <2>1. /\ chain'[m] = chain[m] /\ hotBase'[m] = hotBase[m]
          /\ hotHeight'[m] = hotHeight[m]
      BY <1>0, <1>1, SubmitOthers, Zenon
    <2>. QED
      BY <2>1 DEF HeldBy, LoadBlock
  <1>2. CASE pending[n] = NoBlock
    <2>1. HeldBy(n)' = HeldBy(n)
      BY <1>0, <1>2, SubmitStore DEF HeldBy, LoadBlock
    <2>. QED
      BY <1>1, <2>1 DEF Held
  <1>3. CASE pending[n] # NoBlock
    <2>. DEFINE p == pending[n]
    <2>1. /\ p \in Block /\ HeightOf[p] \in Heights /\ HeightOf[p] \in Nat
          /\ HeightOf[p] > 0 /\ hotHeight'[n] = HeightOf[p]
          /\ hotBase'[n] = IF hotBase[n] = 0 THEN HeightOf[p] ELSE hotBase[n]
          /\ chain'[n][HeightOf[p]] = p
          /\ \A h \in Heights : h # HeightOf[p] => chain'[n][h] = chain[n][h]
      <3>1. p \in Block
        BY <1>0, <1>3
      <3>2. HeightOf[p] \in Heights /\ HeightOf[p] \in Nat /\ HeightOf[p] > 0
        BY <3>1, BlockFact DEF Heights
      <3>3. /\ hotHeight'[n] = HeightOf[p]
            /\ hotBase'[n] = IF hotBase[n] = 0 THEN HeightOf[p] ELSE hotBase[n]
            /\ chain'[n][HeightOf[p]] = p
            /\ \A h \in Heights : h # HeightOf[p] => chain'[n][h] = chain[n][h]
        BY <1>0, <1>3, SubmitStore, Zenon
      <3>. QED
        BY <3>1, <3>2, <3>3
    <2>2. /\ hotHeight[n] > 0 => HeightOf[p] = hotHeight[n] + 1
          /\ hotBase[n] = 0 <=> hotHeight[n] = 0
          /\ hotBase[n] <= hotHeight[n]
      BY <1>0, <1>3, Zenon DEF NodeInv, PendingInv, StoreInv
    <2>0. PICK k \in Heights : k = HeightOf[p]
      BY <2>1, Zenon
    <2>3. LoadBlock(n, k)' = p /\ LoadBlock(n, k) = NoBlock
      BY <1>0, <2>0, <2>1, <2>2, SavedLoads, Zenon
    <2>4. \A h \in Heights : h # k => LoadBlock(n, h)' = LoadBlock(n, h)
      BY <1>0, <2>0, <2>1, <2>2, SavedLoads, Zenon
    <2>5. p # NoBlock
      BY <1>3
    <2>6. HeldBy(n)' = HeldBy(n) \cup {p}
      <3>1. ASSUME NEW x \in HeldBy(n)' PROVE x \in HeldBy(n) \cup {p}
        BY <2>3, <2>4, <3>1 DEF HeldBy
      <3>2. ASSUME NEW x \in HeldBy(n) PROVE x \in HeldBy(n)'
        <4>1. PICK h \in Heights : x = LoadBlock(n, h) /\ x # NoBlock
          BY <3>2 DEF HeldBy
        <4>. QED
          BY <2>3, <2>4, <4>1 DEF HeldBy
      <3>3. p \in HeldBy(n)'
        BY <2>3, <2>5 DEF HeldBy
      <3>. QED
        BY <3>1, <3>2, <3>3
    <2>. QED
      BY <1>1, <2>1, <2>6, Zenon DEF Held
  <1>. QED
    BY <1>2, <1>3

(* A prune releases archived blocks only.                                  *)
LEMMA PruneReleases ==
    ASSUME SingleChain, LiveInv, NEW n \in Node, PruneHotStore(n), CanPrune(n)
    PROVE  /\ Held' = [Held EXCEPT ![n] = HeldBy(n)']
           /\ HeldBy(n)' \subseteq HeldBy(n)
           /\ \A b \in HeldBy(n) \ HeldBy(n)' :
                 HeightOf[b] \in Heights /\ Archived[HeightOf[b]] = b
  <1>0. /\ HotTypeOK /\ NodeInv(n) /\ hotBase[n] \in Nat /\ hotHeight[n] \in Nat
        /\ chain' = chain /\ hotHeight' = hotHeight
        /\ hotBase[n] < PruneTo(n)
        /\ hotBase' = [hotBase EXCEPT ![n] = PruneTo(n)]
        /\ Validate(manifest) /\ snapshot[n].segments \subseteq manifest.segments
    BY NodeTypes, Zenon
       DEF LiveInv, HotInv, PruneHotStore, PruneBlocks, GlobalInv,
                     LoopInv, VerifyInv
  <1>1. /\ hotBase'[n] = PruneTo(n)
        /\ \A m \in Node : m # n => hotBase'[m] = hotBase[m]
        /\ PruneTo(n) \in Int
    <2>1. snapshot[n].last \in 0 .. MaxHeight
      BY Zenon DEF LiveInv, LoopInv, VerifyInv, IsManifest
    <2>2. PruneTo(n) \in Int
      BY <1>0, <2>1, LiveAssumption, BlockFact DEF PruneTo, Min2
    <2>. QED
      BY <1>0, <2>2, Zenon DEF HotTypeOK
  <1>2. \A m \in Node : m # n => HeldBy(m)' = HeldBy(m)
    BY <1>0, <1>1 DEF HeldBy, LoadBlock
  <1>3. HeldBy(n)' \subseteq HeldBy(n)
    <2>1. \A h \in Heights : LoadBlock(n, h)' # NoBlock =>
             LoadBlock(n, h)' = LoadBlock(n, h)
      BY <1>0, <1>1 DEF LoadBlock, Heights
    <2>. QED
      BY <2>1 DEF HeldBy
  <1>4. ASSUME NEW b \in HeldBy(n), b \notin HeldBy(n)'
        PROVE  HeightOf[b] \in Heights /\ Archived[HeightOf[b]] = b
    <2>1. PICK h \in Heights : b = LoadBlock(n, h) /\ b # NoBlock
      BY <1>4 DEF HeldBy
    <2>2. /\ h \in Int /\ hotBase[n] <= h /\ h <= hotHeight[n] /\ b = chain[n][h]
      BY <2>1 DEF LoadBlock, Heights
    <2>3. h < PruneTo(n)
      <3>1. SUFFICES ASSUME PruneTo(n) <= h PROVE FALSE
        BY <1>1, <2>2
      <3>2. LoadBlock(n, h)' = b
        BY <1>0, <1>1, <2>1, <2>2, <3>1 DEF LoadBlock
      <3>. QED
        BY <1>4, <2>1, <3>2 DEF HeldBy
    <2>4. HeightOf[b] = h
      <3>1. InStore(n, h)
        BY <1>0, <2>1, <2>2, Zenon DEF InStore, NodeInv, StoreInv, CanPrune
      <3>. QED
        BY <1>0, <2>2, <3>1 DEF NodeInv, StoreInv
    <2>5. PICK s \in snapshot[n].segments : Covers(s, h) /\ s.blocks[h] = b
      BY <2>2, <2>3, PruneCovered
    <2>6. ArchivedBlock(manifest, h) = b
      BY <1>0, <2>5, ArchivedBlockUnique, Zenon
    <2>. QED
      BY <2>4, <2>6 DEF Archived
  <1>. QED
    BY <1>2, <1>3, <1>4, Zenon DEF Held

----------------------------------------------------------------------------
(* Every step touches the archive or one hot store, or neither.            *)
LEMMA NextEffects ==
    ASSUME LiveInv, Next
    PROVE  \/ UNCHANGED <<manifest, chain, hotBase, hotHeight>>
           \/ /\ manifest' = manifest
              /\ \E n \in Node : \E b \in Block : Submit(n, b)
           \/ /\ manifest' = manifest
              /\ \E n \in Node : PruneHotStore(n) /\ CanPrune(n)
           \/ /\ UNCHANGED <<chain, hotBase, hotHeight>>
              /\ \E n \in Node : /\ pc[n] = "publish" /\ CanPublish(n)
                                 /\ manifest' = NextManifest(n)
                                 /\ UNCHANGED <<intact, torn, decayed>>
  <1>1. ASSUME NEW n \in Node, Ingest(n)
        PROVE  \/ UNCHANGED <<manifest, chain, hotBase, hotHeight>>
               \/ manifest' = manifest /\ \E b \in Block : Submit(n, b)
    BY <1>1, Zenon DEF Ingest, Serve, NewHotIngestor, storeVars
  <1>2. ASSUME NEW n \in Node, Archive(n)
        PROVE  /\ UNCHANGED <<chain, hotBase, hotHeight>>
               /\ \/ manifest' = manifest
                  \/ /\ pc[n] = "publish" /\ CanPublish(n)
                     /\ manifest' = NextManifest(n)
                     /\ UNCHANGED <<intact, torn, decayed>>
    BY <1>2, Zenon
       DEF Archive, ArchiveReadyFromHead, ArchiveReady, buildSegment,
                PutNew, PutExisting, verifyStoredSegment, Publish,
                PublishConflict, hotVars, storeVars
  <1>3. ASSUME NEW n \in Node, Prune(n)
        PROVE  /\ manifest' = manifest
               /\ \/ UNCHANGED <<chain, hotBase, hotHeight>>
                  \/ PruneHotStore(n) /\ CanPrune(n)
    BY <1>3, Zenon
       DEF Prune, SkipPrune, VerifyArchive, verifySegment, VerifyDone,
                PruneHotStore, hotVars, storeVars
  <1>4. ASSUME NEW n \in Node, Fail(n)
        PROVE  /\ UNCHANGED <<chain, hotBase, hotHeight>>
               /\ \/ manifest' = manifest
                  \/ /\ pc[n] = "publish" /\ CanPublish(n)
                     /\ manifest' = NextManifest(n)
                     /\ UNCHANGED <<intact, torn, decayed>>
    BY <1>4, Zenon
       DEF Fail, PutTorn, PutError, PublishError, ReadError, Kill, Crash,
                hotVars, storeVars
  <1>5. ASSUME NEW s \in intact, Decay(s)
        PROVE  UNCHANGED <<manifest, chain, hotBase, hotHeight>>
    BY <1>5 DEF Decay, hotVars
  <1>. QED
    BY <1>1, <1>2, <1>3, <1>4, <1>5 DEF Next

(* Every step is a step of ArchivePromise or is invisible.                 *)
LEMMA PromiseStep ==
    ASSUME SingleChain, LiveInv, [Next]_vars
    PROVE  [Promise!PromiseNext]_<<Archived, Held>>
  <1>1. ASSUME UNCHANGED <<chain, hotBase, hotHeight>> PROVE Held' = Held
    BY <1>1 DEF Held, HeldBy, LoadBlock
  <1>2. ASSUME manifest' = manifest PROVE Archived' = Archived
    BY <1>2 DEF Archived
  <1>3. CASE UNCHANGED <<manifest, chain, hotBase, hotHeight>>
    BY <1>1, <1>2, <1>3
  <1>4. ASSUME manifest' = manifest, NEW n \in Node, NEW b \in Block, Submit(n, b)
        PROVE  [Promise!PromiseNext]_<<Archived, Held>>
    <2>1. Archived' = Archived
      BY <1>2, <1>4
    <2>2. CASE Held' = Held
      BY <2>1, <2>2
    <2>3. CASE /\ pending[n] \in Block
               /\ Held' = [Held EXCEPT ![n] = @ \cup {pending[n]}]
      <3>1. Promise!Hold(n, pending[n])
        BY <2>1, <2>3 DEF Promise!Hold, Archived, Held, HeldBy
      <3>. QED
        BY <2>3, <3>1 DEF Promise!PromiseNext
    <2>. QED
      BY <1>4, <2>2, <2>3, SubmitHolds
  <1>5. ASSUME manifest' = manifest, NEW n \in Node, PruneHotStore(n), CanPrune(n)
        PROVE  [Promise!PromiseNext]_<<Archived, Held>>
    <2>1. Archived' = Archived
      BY <1>2, <1>5
    <2>2. /\ Held' = [Held EXCEPT ![n] = HeldBy(n)']
          /\ HeldBy(n)' \subseteq Held[n]
          /\ \A b \in Held[n] \ HeldBy(n)' : Archived[HeightOf[b]] = b
      BY <1>5, PruneReleases, Zenon DEF Held
    <2>3. Promise!Release(n)
      BY <2>1, <2>2, Zenon DEF Promise!Release, Archived, Held, HeldBy
    <2>. QED
      BY <2>3 DEF Promise!PromiseNext
  <1>6. ASSUME UNCHANGED <<chain, hotBase, hotHeight>>, NEW n \in Node,
               pc[n] = "publish", CanPublish(n), manifest' = NextManifest(n),
               UNCHANGED <<intact, torn, decayed>>
        PROVE  [Promise!PromiseNext]_<<Archived, Held>>
    <2>1. Held' = Held
      BY <1>1, <1>6
    <2>2. Promise!Extend(segment[n].first, segment[n].last)
            /\ segment[n].first \in Heights /\ segment[n].last \in Heights
      BY <1>6, <2>1, PublishExtends
    <2>. QED
      BY <2>2 DEF Promise!PromiseNext, Promise!Heights, Heights
  <1>7. CASE UNCHANGED vars
    BY <1>3, <1>7 DEF vars, hotVars, storeVars
  <1>. QED
    BY <1>3, <1>4, <1>5, <1>6, <1>7, NextEffects

(* Under SingleChain, live archiving and pruning implement the archive's   *)
(* promise (ArchiveReady, SaveManifest, PruneHotStore, Submit).            *)
THEOREM LiveKeepsPromise ==
    ASSUME SingleChain
    PROVE  Spec => KeepsPromise
  <1>1. Init => Promise!PromiseInit
    <2>. SUFFICES ASSUME Init PROVE Promise!PromiseInit
      OBVIOUS
    <2>1. \A h \in Heights : ArchivedBlock(manifest, h) = NoBlock
      BY DEF Init, EmptyManifest, ArchivedBlock
    <2>2. \A n \in Node, h \in Heights : LoadBlock(n, h) = NoBlock
      BY DEF Init, HotInit, LoadBlock, Heights
    <2>. QED
      BY <2>1, <2>2 DEF Promise!PromiseInit, Promise!Heights, Heights
  <1>2. LiveInv /\ [Next]_vars => [Promise!PromiseNext]_(Promise!promiseVars)
    BY PromiseStep DEF Promise!promiseVars, Archived, Held, HeldBy
  <1>. QED
    BY <1>1, <1>2, LiveInvariance, PTL DEF Spec, KeepsPromise, Promise!PromiseSpec

----------------------------------------------------------------------------
(* RestartRecovers, next to the maintenance loop.                          *)

(* A step submits a block or adds none to any hot store.                   *)
LEMMA NextAccepted ==
    ASSUME Modes \subseteq {"checkpoint"}, LiveInv, LiveInv', AcceptedInv, [Next]_vars
    PROVE  AcceptedInv'
  <1>0. HotTypeOK /\ HotTypeOK' /\ HotInv /\ \A n \in Node : StoreInv(n)
    BY DEF LiveInv, HotInv, NodeInv
  <1>1. CASE UNCHANGED <<pending, chain, hotBase, hotHeight>>
    BY <1>0, <1>1, NothingAccepted
  <1>2. ASSUME NEW n \in Node, NEW b \in Block, Submit(n, b) PROVE AcceptedInv'
    BY <1>0, <1>2, SubmitAccepted
  <1>3. ASSUME NEW n \in Node, Crash(n) PROVE AcceptedInv'
    <2>1. /\ UNCHANGED <<chain, hotBase, hotHeight>>
          /\ \A m \in Node : pending'[m] \in {pending[m], NoBlock}
      BY <1>0, <1>3 DEF Crash, HotTypeOK
    <2>. QED
      BY <1>0, <2>1, NothingAccepted
  <1>4. ASSUME NEW n \in Node, PruneHotStore(n), CanPrune(n) PROVE AcceptedInv'
    <2>1. PruneBlocks(n, PruneTo(n)) /\ UNCHANGED <<pending, chain, hotHeight>>
      BY <1>4 DEF PruneHotStore
    <2>2. PruneTo(n) \in Int
      <3>1. snapshot[n].last \in 0 .. MaxHeight
        BY Zenon DEF LiveInv, LoopInv, VerifyInv, IsManifest
      <3>2. hotHeight[n] \in 0 .. MaxHeight /\ RetainBlocks \in Nat
        BY <1>0, LimitType, LiveAssumption
      <3>. QED
        BY <3>1, <3>2 DEF PruneTo, Min2
    <2>3. \A m \in Node : hotBase'[m] # hotBase[m] =>
             0 < hotBase[m] /\ hotBase[m] <= hotBase'[m]
      BY <1>0, <2>1, <2>2, PruneRaises
    <2>. QED
      BY <1>0, <2>1, <2>3, NothingAccepted
  <1>5. ASSUME NEW n \in Node, Ingest(n) PROVE AcceptedInv'
    <2>1. ASSUME NEW mode \in Modes, Serve(n, mode, manifest.last) PROVE AcceptedInv'
      BY <1>1, <2>1 DEF Serve, NewHotIngestor
    <2>. QED
      BY <1>2, <1>5, <2>1 DEF Ingest
  <1>6. ASSUME NEW n \in Node, Archive(n)
        PROVE  UNCHANGED <<pending, chain, hotBase, hotHeight>>
    BY <1>6, Zenon
       DEF Archive, ArchiveReadyFromHead, ArchiveReady, buildSegment,
                PutNew, PutExisting, verifyStoredSegment, Publish,
                PublishConflict, hotVars
  <1>7. ASSUME NEW n \in Node, Prune(n)
        PROVE  \/ UNCHANGED <<pending, chain, hotBase, hotHeight>>
               \/ PruneHotStore(n) /\ CanPrune(n)
    BY <1>7, Zenon
       DEF Prune, SkipPrune, VerifyArchive, verifySegment, VerifyDone,
                PruneHotStore, hotVars
  <1>8. ASSUME NEW n \in Node, Fail(n)
        PROVE  UNCHANGED <<pending, chain, hotBase, hotHeight>> \/ Crash(n)
    BY <1>8, Zenon
       DEF Fail, PutTorn, PutError, PublishError, ReadError, Kill, hotVars
  <1>9. ASSUME NEW s \in intact, Decay(s)
        PROVE  UNCHANGED <<pending, chain, hotBase, hotHeight>>
    BY <1>9 DEF Decay, hotVars
  <1>10. CASE UNCHANGED vars
    BY <1>1, <1>10 DEF vars, hotVars
  <1>. QED
    BY <1>1, <1>3, <1>4, <1>5, <1>6, <1>7, <1>8, <1>9, <1>10 DEF Next

(* The same while segments are archived and the hot store is pruned: a     *)
(* peer in checkpoint mode can always be restarted over its own store      *)
(* (NewHotIngestor, PruneHotStore).                                        *)
THEOREM LiveRestartRecovers ==
    ASSUME Modes \subseteq {"checkpoint"}
    PROVE  Spec => []RestartRecovers
  <1>1. Init => AcceptedInv
    BY DEF Init, HotInit, AcceptedInv, InStore
  <1>2. LiveInv /\ LiveInv' /\ AcceptedInv /\ [Next]_vars => AcceptedInv'
    BY NextAccepted
  <1>3. LiveInv => HotInv
    BY DEF LiveInv
  <1>. QED
    BY <1>1, <1>2, <1>3, LiveInvariance, AcceptedRecovers, PTL DEF Spec

============================================================================
