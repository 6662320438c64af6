-------------------------- MODULE LiveArchiveProofs ------------------------
(***************************************************************************)
(* Proofs about LiveArchive for any number of peers, any block tree, any   *)
(* segment size, window and retention, and any number of failures.         *)
(*                                                                         *)
(* The invariant has three parts.  GlobalInv is about the object store.    *)
(* LoopInv says what a maintenance goroutine knows at each of its steps:   *)
(* its copy of the manifest is the published one or has an older revision, *)
(* so a compare-and-swap that succeeds extends exactly what is published;  *)
(* the segment it is about to publish was stored intact; the snapshot it   *)
(* prunes by is part of what is published and was read back segment by     *)
(* segment.  HotInv (HotIngestProofs) is about the hot store.              *)
(***************************************************************************)
EXTENDS LiveArchive, HotIngestProofs

(* The blocks that may reach the archive: in checkpoint mode only those a  *)
(* checkpoint vouches for.                                                 *)
Canon == IF Modes \subseteq {"checkpoint"} THEN CheckpointChain ELSE Block

CanonSegment(s) == \A h \in s.first .. s.last : s.blocks[h] \in Canon

FunInv ==
    /\ local = [n \in Node |-> local[n]]
    /\ segment = [n \in Node |-> segment[n]]
    /\ snapshot = [n \in Node |-> snapshot[n]]
    /\ todo = [n \in Node |-> todo[n]]
    /\ verified = [n \in Node |-> verified[n]]
    /\ checked = [n \in Node |-> checked[n]]
    /\ pc \in [Node -> Labels]
    /\ ready \in [Node -> 0 .. MaxHeight]
    /\ faults \in 0 .. MaxFaults

GlobalInv ==
    /\ \A s \in intact \cup torn \cup decayed : IsSegment(s)
    /\ IsManifest(manifest) /\ Validate(manifest)
    /\ manifest.revision = 0 => manifest = EmptyManifest
    /\ manifest.segments \subseteq intact \cup decayed
    /\ \A s \in manifest.segments : CanonSegment(s)

(* The manifest copy of a peer against the published one.                  *)
LocalInv(n) ==
    /\ IsManifest(local[n]) /\ local[n].revision <= manifest.revision
    /\ local[n].revision = manifest.revision => local[n] = manifest

Uploading == {"put", "readback", "publish"}

SegmentInv(n) ==
    /\ segment[n] = NoSegment \/ IsSegment(segment[n])
    /\ pc[n] \in Uploading => IsSegment(segment[n]) /\ CanonSegment(segment[n])
    /\ pc[n] = "publish" => segment[n] \in intact \cup decayed

Archiving == {"load", "build"} \cup Uploading

(* ready may be archived, and there is something to archive.               *)
ReadyInv(n) ==
    /\ pc[n] # "idle" => up[n]
    /\ pc[n] \in Archiving => hotBase[n] > 0 /\ ready[n] <= ArchiveHeightLimit(n)
    /\ pc[n] = "build" => 0 < BuildFirst(n) /\ BuildFirst(n) <= ready[n]

VerifyInv(n) ==
    /\ IsManifest(snapshot[n]) /\ Validate(snapshot[n])
    /\ snapshot[n].segments \subseteq manifest.segments
    /\ todo[n] \subseteq snapshot[n].segments
    /\ verified[n] \subseteq checked[n] /\ checked[n] \subseteq manifest.segments
    /\ pc[n] = "verify" => snapshot[n].segments \subseteq checked[n] \cup todo[n]
    /\ pc[n] = "pruneHot" => snapshot[n].segments \subseteq checked[n]

LoopInv(n) == LocalInv(n) /\ SegmentInv(n) /\ ReadyInv(n) /\ VerifyInv(n)

LiveInv == HotInv /\ FunInv /\ GlobalInv /\ \A n \in Node : LoopInv(n)

----------------------------------------------------------------------------
(* Manifests.                                                              *)

(* The manifest of an archive that does not exist yet.                     *)
LEMMA EmptyOK == IsManifest(EmptyManifest) /\ Validate(EmptyManifest)
  BY BlockFact DEF EmptyManifest, IsManifest, Validate

(* Appending a segment that continues the tail keeps a manifest valid.     *)
LEMMA AppendValid ==
    ASSUME NEW m, NEW s, IsManifest(m), Validate(m), IsSegment(s),
           CanAppend(m, s)
    PROVE  LET a == WithRevision(AppendSegmentInPlace(m, s), m.revision + 1)
           IN  /\ IsManifest(a) /\ Validate(a) /\ a.revision = m.revision + 1
               /\ a.segments = m.segments \cup {s} /\ a.last = s.last
               /\ m.last < s.first /\ m.last <= a.last
               /\ a.first = IF m.segments = {} THEN s.first ELSE m.first
  <1>. DEFINE a == WithRevision(AppendSegmentInPlace(m, s), m.revision + 1)
              f == IF m.segments = {} THEN s.first ELSE m.first
  <1>1. a = [revision |-> m.revision + 1, first |-> f, last |-> s.last,
             segments |-> m.segments \cup {s}]
    BY DEF AppendSegmentInPlace, WithRevision
  <1>2. /\ s.first \in 1 .. MaxHeight /\ s.last \in 1 .. MaxHeight
        /\ s.first <= s.last /\ MaxHeight \in Nat
    BY BlockFact DEF IsSegment, Heights
  <1>3. /\ m.first \in 0 .. MaxHeight /\ m.last \in 0 .. MaxHeight
        /\ m.revision \in Nat
    BY DEF IsManifest
  <1>4. m.last < s.first /\ m.last <= s.last
    BY <1>2, <1>3 DEF Validate, CanAppend
  <1>5. IsManifest(a)
    BY <1>1, <1>2, <1>3 DEF IsManifest
  <1>6. Validate(a)
    <2>1. CASE m.segments = {}
      BY <1>1, <1>2, <2>1 DEF Validate, Covers
    <2>2. CASE m.segments # {}
      <3>1. /\ 0 < m.first /\ m.first <= m.last /\ s.first = m.last + 1
            /\ \A t \in m.segments : m.first <= t.first /\ t.last <= m.last
            /\ \A h \in m.first .. m.last : \E t \in m.segments : Covers(t, h)
            /\ \A t, u \in m.segments :
                  (\E h \in Heights : Covers(t, h) /\ Covers(u, h)) => t = u
        BY <2>2 DEF Validate, CanAppend
      <3>2. \A t \in m.segments : t.first \in Nat /\ t.last \in Nat
        BY DEF IsManifest, IsSegment, Heights
      <3>3. \A t \in m.segments \cup {s} : m.first <= t.first /\ t.last <= s.last
        BY <1>2, <1>3, <3>1, <3>2
      <3>4. \A h \in m.first .. s.last : \E t \in m.segments \cup {s} : Covers(t, h)
        BY <1>2, <1>3, <3>1 DEF Covers
      <3>5. \A t, u \in m.segments \cup {s} :
               (\E h \in Heights : Covers(t, h) /\ Covers(u, h)) => t = u
        BY <1>2, <1>3, <3>1, <3>2 DEF Covers, Heights
      <3>. QED
        BY <1>1, <1>2, <1>3, <2>2, <3>1, <3>3, <3>4, <3>5 DEF Validate
    <2>. QED
      BY <2>1, <2>2
  <1>. QED
    BY <1>1, <1>4, <1>5, <1>6

(* ... before the write gives it a revision, too.                          *)
LEMMA AppendInPlaceValid ==
    ASSUME NEW m, NEW s, IsManifest(m), Validate(m), IsSegment(s),
           CanAppend(m, s)
    PROVE  Validate(AppendSegmentInPlace(m, s))
  <1>. DEFINE a == AppendSegmentInPlace(m, s)
              b == WithRevision(a, m.revision + 1)
  <1>1. Validate(b)
    BY AppendValid, Zenon
  <1>2. b.first = a.first /\ b.last = a.last /\ b.segments = a.segments
    BY DEF WithRevision
  <1>. HIDE DEF a, b
  <1>3. Validate(a)
    BY <1>1, <1>2 DEF Validate
  <1>. QED
    BY <1>3 DEF a

(* A valid manifest has one block at each height.                          *)
LEMMA ArchivedBlockUnique ==
    ASSUME NEW m, Validate(m), NEW s \in m.segments, NEW h \in Heights,
           Covers(s, h)
    PROVE  ArchivedBlock(m, h) = s.blocks[h]
  BY DEF Validate, ArchivedBlock

----------------------------------------------------------------------------
(* The archive limit and the hot range are heights.                        *)
LEMMA LimitType ==
    ASSUME HotTypeOK, NEW n \in Node
    PROVE  /\ ArchiveHeightLimit(n) \in 0 .. MaxHeight /\ MaxHeight \in Nat
           /\ hotBase[n] \in 0 .. MaxHeight /\ hotHeight[n] \in 0 .. MaxHeight
  BY BlockFact DEF HotTypeOK, ArchiveHeightLimit

(* A limit that stays what it was is at most what it becomes.              *)
LEMMA LimitStays ==
    ASSUME HotTypeOK, NEW n \in Node,
           ArchiveHeightLimit(n)' = ArchiveHeightLimit(n)
    PROVE  ArchiveHeightLimit(n) <= ArchiveHeightLimit(n)'
  <1>1. ArchiveHeightLimit(n) <= ArchiveHeightLimit(n)
    BY LimitType
  <1>. QED
    BY <1>1, Zenon

(* Initial states satisfy the invariant.                                   *)
LEMMA LiveInitInv == Init => LiveInv
  <1>. SUFFICES ASSUME Init PROVE LiveInv
    OBVIOUS
  <1>1. HotInv
    BY HotInitInv DEF Init
  <1>2. FunInv
    BY BlockFact, LiveAssumption DEF Init, FunInv, Labels
  <1>3. GlobalInv
    BY EmptyOK DEF Init, GlobalInv, EmptyManifest
  <1>4. ASSUME NEW n \in Node PROVE LoopInv(n)
    <2>1. /\ local[n] = EmptyManifest /\ segment[n] = NoSegment /\ pc[n] = "idle"
          /\ snapshot[n] = EmptyManifest /\ todo[n] = {} /\ verified[n] = {}
          /\ checked[n] = {} /\ manifest = EmptyManifest
      BY DEF Init
    <2>. QED
      BY <2>1, EmptyOK DEF LoopInv, LocalInv, SegmentInv, ReadyInv, VerifyInv,
                           Uploading, Archiving, EmptyManifest
  <1>. QED
    BY <1>1, <1>2, <1>3, <1>4 DEF LiveInv

(* What other peers do to the object store leaves a peer's facts true: the *)
(* store keeps what it has, and the manifest is unchanged or has a higher  *)
(* revision and at least the same segments.                                *)
StoreGrows ==
    /\ intact \cup decayed \subseteq intact' \cup decayed'
    /\ \/ manifest' = manifest
       \/ /\ manifest.segments \subseteq manifest'.segments
          /\ manifest'.revision = manifest.revision + 1

(* A loop whose own variables stay keeps its invariant as the store grows. *)
LEMMA FrameLoop ==
    ASSUME NEW m \in Node, LoopInv(m), IsManifest(manifest), StoreGrows,
           local'[m] = local[m], segment'[m] = segment[m],
           snapshot'[m] = snapshot[m], todo'[m] = todo[m],
           verified'[m] = verified[m], checked'[m] = checked[m],
           pc'[m] = pc[m], ready'[m] = ready[m],
           pc[m] # "idle" => up'[m],
           hotBase[m] > 0 => hotBase'[m] = hotBase[m],
           HotTypeOK, HotTypeOK', FunInv,
           pc[m] # "idle" => ArchiveHeightLimit(m) <= ArchiveHeightLimit(m)'
    PROVE  LoopInv(m)'
  <1>1. LocalInv(m)'
    BY DEF LoopInv, LocalInv, StoreGrows, IsManifest
  <1>2. SegmentInv(m)'
    BY DEF LoopInv, SegmentInv, StoreGrows, CanonSegment
  <1>3. ReadyInv(m)'
    <2>1. /\ ArchiveHeightLimit(m) \in Int /\ ArchiveHeightLimit(m)' \in Int
          /\ ready[m] \in Int
      BY LimitType, BlockFact DEF FunInv, HotTypeOK, ArchiveHeightLimit
    <2>2. pc[m] \in Archiving => hotBase[m] > 0 /\ pc[m] # "idle"
      BY DEF LoopInv, ReadyInv, Archiving, Uploading
    <2>3. pc[m] = "build" => pc[m] \in Archiving
      BY DEF Archiving
    <2>4. pc[m] = "build" => BuildFirst(m)' = BuildFirst(m)
      BY <2>2, <2>3 DEF BuildFirst
    <2>. QED
      BY <2>1, <2>2, <2>4 DEF LoopInv, ReadyInv
  <1>4. VerifyInv(m)'
    BY DEF LoopInv, VerifyInv, StoreGrows
  <1>. QED
    BY <1>1, <1>2, <1>3, <1>4 DEF LoopInv

(* A run that ends forgets everything but the verifier's cache.            *)
LEMMA EndRunLoop ==
    ASSUME NEW n \in Node, LiveInv, EndRun(n), StoreGrows,
           verified'[n] \subseteq checked'[n], checked'[n] \subseteq checked[n]
    PROVE  LoopInv(n)'
  <1>1. /\ local'[n] = EmptyManifest /\ segment'[n] = NoSegment /\ pc'[n] = "idle"
        /\ snapshot'[n] = EmptyManifest /\ todo'[n] = {}
    BY DEF LiveInv, FunInv, EndRun
  <1>2. LocalInv(n)'
    BY <1>1, EmptyOK DEF LiveInv, GlobalInv, LocalInv, StoreGrows, EmptyManifest,
                         IsManifest
  <1>3. SegmentInv(n)' /\ ReadyInv(n)'
    BY <1>1 DEF SegmentInv, ReadyInv, Uploading, Archiving
  <1>4. VerifyInv(n)'
    BY <1>1, EmptyOK DEF LiveInv, LoopInv, VerifyInv, StoreGrows, EmptyManifest
  <1>. QED
    BY <1>2, <1>3, <1>4 DEF LoopInv

----------------------------------------------------------------------------
(* Steps of one peer's maintenance goroutine.                              *)

OthersLoop(n) ==
    \A m \in Node \ {n} :
        /\ local'[m] = local[m] /\ segment'[m] = segment[m]
        /\ snapshot'[m] = snapshot[m] /\ todo'[m] = todo[m]
        /\ verified'[m] = verified[m] /\ checked'[m] = checked[m]
        /\ pc'[m] = pc[m] /\ ready'[m] = ready[m]

(* Hot stores that do not change keep their invariant and limits.          *)
LEMMA HotUnchanged ==
    ASSUME HotInv, UNCHANGED hotVars
    PROVE  /\ HotInv'
           /\ \A m \in Node : ArchiveHeightLimit(m)' = ArchiveHeightLimit(m)
  BY HotNextInv DEF hotVars, ArchiveHeightLimit

(* A step of one loop need only re-establish that loop's invariant.        *)
LEMMA LoopStep ==
    ASSUME LiveInv, NEW n \in Node, UNCHANGED hotVars, StoreGrows,
           FunInv', GlobalInv', OthersLoop(n), LoopInv(n)'
    PROVE  LiveInv'
  <1>1. HotInv' /\ HotTypeOK /\ HotTypeOK'
    BY HotUnchanged DEF LiveInv, HotInv
  <1>2. ASSUME NEW m \in Node, m # n PROVE LoopInv(m)'
    <2>1. LoopInv(m) /\ IsManifest(manifest) /\ FunInv
      BY DEF LiveInv, GlobalInv
    <2>2. /\ local'[m] = local[m] /\ segment'[m] = segment[m]
          /\ snapshot'[m] = snapshot[m] /\ todo'[m] = todo[m]
          /\ verified'[m] = verified[m] /\ checked'[m] = checked[m]
          /\ pc'[m] = pc[m] /\ ready'[m] = ready[m]
      BY <1>2 DEF OthersLoop
    <2>3. /\ pc[m] # "idle" => up'[m]
          /\ hotBase'[m] = hotBase[m]
      BY <2>1 DEF LoopInv, ReadyInv, hotVars
    <2>4. ArchiveHeightLimit(m) <= ArchiveHeightLimit(m)'
      BY HotUnchanged, LimitType, <1>1 DEF LiveInv
    <2>. QED
      BY <1>1, <2>1, <2>2, <2>3, <2>4, FrameLoop
  <1>. QED
    BY <1>1, <1>2 DEF LiveInv

(* Ending a run keeps the types and touches no other loop.                 *)
LEMMA EndRunFrame ==
    ASSUME FunInv, NEW n \in Node, EndRun(n), faults' \in 0 .. MaxFaults,
           NEW v, NEW c, verified' = [verified EXCEPT ![n] = v],
           checked' = [checked EXCEPT ![n] = c]
    PROVE  FunInv' /\ OthersLoop(n)
  <1>. USE DEF FunInv, EndRun
  <1>1. pc' \in [Node -> Labels] /\ ready' \in [Node -> 0 .. MaxHeight]
    BY BlockFact DEF Labels
  <1>2. /\ local' = [m \in Node |-> local'[m]]
        /\ segment' = [m \in Node |-> segment'[m]]
        /\ snapshot' = [m \in Node |-> snapshot'[m]]
    BY Zenon
  <1>3. /\ todo' = [m \in Node |-> todo'[m]]
        /\ verified' = [m \in Node |-> verified'[m]]
        /\ checked' = [m \in Node |-> checked'[m]]
    BY Zenon
  <1>4. OthersLoop(n)
    BY Zenon DEF OthersLoop
  <1>. QED
    BY <1>1, <1>2, <1>3, <1>4

(* Runs that end with an error, or with nothing more to do.                *)
LEMMA EndRunStep ==
    ASSUME LiveInv, NEW n \in Node, EndRun(n), UNCHANGED hotVars, StoreGrows,
           GlobalInv', verified' = verified, checked' = checked,
           faults' \in 0 .. MaxFaults
    PROVE  LiveInv'
  <1>1. FunInv' /\ OthersLoop(n)
    <2>1. /\ FunInv /\ verified' = [verified EXCEPT ![n] = verified[n]]
          /\ checked' = [checked EXCEPT ![n] = checked[n]]
      BY Zenon DEF LiveInv, FunInv
    <2>. QED
      BY <2>1, EndRunFrame, Zenon
  <1>2. LoopInv(n)'
    BY EndRunLoop DEF LiveInv, LoopInv, VerifyInv
  <1>. QED
    BY <1>1, <1>2, LoopStep

(* An unchanged object store keeps its invariant.                          *)
LEMMA StoreUnchanged ==
    ASSUME LiveInv, UNCHANGED storeVars
    PROVE  StoreGrows /\ GlobalInv'
  BY DEF LiveInv, storeVars, StoreGrows, GlobalInv, CanonSegment

(* Faults stay within their bound.                                         *)
LEMMA FaultType ==
    ASSUME LiveInv, NEW kind, Fault(kind)
    PROVE  faults' \in 0 .. MaxFaults
  BY LiveAssumption DEF LiveInv, FunInv, Fault

(* A newly stored segment.                                                 *)
LEMMA StoreNew ==
    ASSUME LiveInv, NEW s, IsSegment(s), manifest' = manifest,
           decayed' = decayed,
           \/ intact' = intact \cup {s} /\ torn' = torn
           \/ intact' = intact /\ torn' = torn \cup {s}
    PROVE  StoreGrows /\ GlobalInv'
  <1>1. StoreGrows
    BY DEF StoreGrows
  <1>2. \A t \in intact' \cup torn' \cup decayed' : IsSegment(t)
    BY DEF LiveInv, GlobalInv
  <1>3. manifest'.segments \subseteq intact' \cup decayed'
    BY DEF LiveInv, GlobalInv
  <1>. QED
    BY <1>1, <1>2, <1>3 DEF LiveInv, GlobalInv, CanonSegment

(* ArchiveReadyFromHead: the ready height is within the limit.             *)
LEMMA ArchiveReadyFromHeadInv ==
    ASSUME LiveInv, NEW n \in Node, ArchiveReadyFromHead(n)
    PROVE  LiveInv'
  <1>. DEFINE r == Min2(hotHeight[n] - SafetyWindow, ArchiveHeightLimit(n))
              work == hotHeight[n] > SafetyWindow /\ r > 0
  <1>0. /\ LoopInv(n) /\ HotTypeOK /\ FunInv /\ NodeInv(n)
        /\ ArchiveHeightLimit(n) \in 0 .. MaxHeight /\ MaxHeight \in Nat
        /\ hotBase[n] \in 0 .. MaxHeight /\ hotHeight[n] \in 0 .. MaxHeight
        /\ SafetyWindow \in Nat /\ UNCHANGED hotVars /\ UNCHANGED storeVars
    BY LimitType, LiveAssumption DEF LiveInv, HotInv, ArchiveReadyFromHead
  <1>1. work => r \in 0 .. MaxHeight /\ r <= ArchiveHeightLimit(n)
    BY <1>0 DEF Min2
  <1>2. /\ pc' = [pc EXCEPT ![n] = IF work THEN "load" ELSE "prune"]
        /\ ready' = IF work THEN [ready EXCEPT ![n] = r] ELSE ready
        /\ UNCHANGED <<local, segment, snapshot, todo, verified, checked, faults>>
        /\ up[n]
    BY DEF ArchiveReadyFromHead, Goto
  <1>3. FunInv' /\ OthersLoop(n)
    BY <1>0, <1>1, <1>2 DEF FunInv, OthersLoop, Labels
  <1>4. pc'[n] = (IF work THEN "load" ELSE "prune") /\ (work => ready'[n] = r)
    BY <1>0, <1>2 DEF FunInv
  <1>5. LocalInv(n)' /\ SegmentInv(n)' /\ VerifyInv(n)'
    <2>1. LocalInv(n)'
      BY <1>0, <1>2 DEF LoopInv, LocalInv, storeVars
    <2>2. SegmentInv(n)'
      BY <1>0, <1>2, <1>4 DEF LoopInv, SegmentInv, storeVars, Uploading
    <2>3. VerifyInv(n)'
      BY <1>0, <1>2, <1>4 DEF LoopInv, VerifyInv, storeVars
    <2>. QED
      BY <2>1, <2>2, <2>3
  <1>6. ReadyInv(n)'
    <2>1. ArchiveHeightLimit(n)' = ArchiveHeightLimit(n) /\ hotBase' = hotBase
             /\ up' = up
      BY <1>0 DEF hotVars, ArchiveHeightLimit
    <2>2. work => hotBase[n] > 0
      BY <1>0 DEF NodeInv, StoreInv
    <2>. QED
      BY <1>1, <1>2, <1>4, <2>1, <2>2 DEF ReadyInv, Archiving, Uploading
  <1>. QED
    BY <1>0, <1>3, <1>5, <1>6, LoopStep, StoreUnchanged DEF LoopInv

(* ArchiveReady: the manifest copy and what is missing from it.            *)
LEMMA ArchiveReadyInv ==
    ASSUME LiveInv, NEW n \in Node, ArchiveReady(n)
    PROVE  LiveInv'
  <1>. DEFINE end == Min2(ready[n], Min2(hotHeight[n], ArchiveHeightLimit(n)))
              work == ~(end < FirstMissing(n))
  <1>0. /\ LoopInv(n) /\ HotTypeOK /\ FunInv /\ GlobalInv
        /\ ArchiveHeightLimit(n) \in 0 .. MaxHeight /\ MaxHeight \in Nat
        /\ hotBase[n] \in 0 .. MaxHeight /\ hotHeight[n] \in 0 .. MaxHeight
        /\ ready[n] \in 0 .. MaxHeight /\ UNCHANGED hotVars /\ UNCHANGED storeVars
        /\ pc[n] = "load"
    BY LimitType DEF LiveInv, HotInv, FunInv, ArchiveReady
  <1>1. end \in 0 .. MaxHeight /\ end <= ArchiveHeightLimit(n)
    BY <1>0 DEF Min2
  <1>2. /\ pc' = [pc EXCEPT ![n] = IF work THEN "build" ELSE "prune"]
        /\ ready' = [ready EXCEPT ![n] = end]
        /\ local' = [local EXCEPT ![n] = manifest]
        /\ UNCHANGED <<segment, snapshot, todo, verified, checked, faults>>
    BY DEF ArchiveReady, Goto
  <1>3. FunInv' /\ OthersLoop(n)
    BY <1>0, <1>1, <1>2, Zenon DEF FunInv, OthersLoop, Labels
  <1>4. /\ pc'[n] = (IF work THEN "build" ELSE "prune") /\ ready'[n] = end
        /\ local'[n] = manifest /\ manifest' = manifest
    BY <1>0, <1>2 DEF FunInv, storeVars
  <1>5. LocalInv(n)' /\ SegmentInv(n)' /\ VerifyInv(n)'
    <2>1. LocalInv(n)'
      BY <1>0, <1>4 DEF LocalInv, GlobalInv, IsManifest
    <2>2. SegmentInv(n)'
      BY <1>0, <1>2, <1>4 DEF LoopInv, SegmentInv, storeVars, Uploading
    <2>3. VerifyInv(n)'
      BY <1>0, <1>2, <1>4 DEF LoopInv, VerifyInv
    <2>. QED
      BY <2>1, <2>2, <2>3
  <1>6. ReadyInv(n)'
    <2>1. ArchiveHeightLimit(n)' = ArchiveHeightLimit(n) /\ hotBase' = hotBase
             /\ up' = up
      BY <1>0, Zenon DEF hotVars, ArchiveHeightLimit
    <2>2. hotBase[n] > 0 /\ up[n]
      BY <1>0 DEF LoopInv, ReadyInv, Archiving
    <2>3. BuildFirst(n)' = FirstMissing(n) /\ 0 < FirstMissing(n)
             /\ FirstMissing(n) \in Int
      BY <1>0, <1>4, <2>1, <2>2 DEF BuildFirst, FirstMissing, GlobalInv, IsManifest
    <2>4. up'[n] /\ hotBase'[n] > 0 /\ ready'[n] <= ArchiveHeightLimit(n)'
      BY <1>1, <1>4, <2>1, <2>2
    <2>5. pc'[n] = "build" => 0 < BuildFirst(n)' /\ BuildFirst(n)' <= ready'[n]
      BY <1>1, <1>4, <2>3
    <2>. QED
      BY <2>4, <2>5 DEF ReadyInv
  <1>. QED
    BY <1>0, <1>3, <1>5, <1>6, LoopStep, StoreUnchanged DEF LoopInv

(* The blocks of the next segment are stored, linked to their heights and, *)
(* in checkpoint mode, authenticated.                                      *)
LEMMA BuiltSegment ==
    ASSUME LiveInv, NEW n \in Node, pc[n] = "build",
           \A h \in BuildFirst(n) .. BuildLast(n) : LoadBlock(n, h) # NoBlock
    PROVE  LET s == SegmentOf(BuildFirst(n), BuildLast(n), chain[n])
           IN  IsSegment(s) /\ CanonSegment(s)
  <1>. DEFINE f == BuildFirst(n)
              l == BuildLast(n)
              s == SegmentOf(f, l, chain[n])
  <1>0. /\ HotInv /\ NodeInv(n) /\ up[n] /\ hotBase[n] \in 1 .. MaxHeight
        /\ hotHeight[n] \in 0 .. MaxHeight /\ MaxHeight \in Nat
        /\ ready[n] \in 0 .. MaxHeight /\ ArchiveHeightLimit(n) \in 0 .. MaxHeight
        /\ ready[n] <= ArchiveHeightLimit(n) /\ 0 < f /\ f <= ready[n]
        /\ SegmentBlocks \in Nat \ {0}
    BY LimitType, LiveAssumption
       DEF LiveInv, HotInv, FunInv, LoopInv, ReadyInv, Archiving
  <1>1. f \in Int /\ l \in Int /\ f <= l /\ l <= ready[n]
    <2>1. local[n].last \in 0 .. MaxHeight
      BY Zenon DEF LiveInv, LoopInv, LocalInv, IsManifest
    <2>2. f \in Int
      BY <1>0, <2>1 DEF BuildFirst
    <2>. QED
      BY <1>0, <2>2 DEF BuildLast, Min2
  <1>2. \A h \in f .. l : /\ h \in Heights /\ InStore(n, h)
                          /\ LoadBlock(n, h) = chain[n][h]
                          /\ chain[n][h] \in Block /\ HeightOf[chain[n][h]] = h
    <2>1. \A h \in f .. l : /\ h \in Heights /\ hotBase[n] <= h
                            /\ h <= hotHeight[n] /\ LoadBlock(n, h) = chain[n][h]
      BY DEF LoadBlock
    <2>2. \A h \in f .. l : h \in Heights /\ InStore(n, h)
      BY <1>0, <2>1 DEF InStore
    <2>. QED
      BY <1>0, <2>1, <2>2, Zenon DEF NodeInv, StoreInv
  <1>3. f \in Heights /\ l \in Heights
    BY <1>1, <1>2
  <1>4. /\ s = [first |-> f, last |-> l, blocks |-> [h \in f .. l |-> chain[n][h]]]
        /\ s.first = f /\ s.last = l /\ s.blocks = [h \in f .. l |-> chain[n][h]]
    BY DEF SegmentOf
  <1>5. IsSegment(s)
    <2>1. s.blocks \in [f .. l -> Block] /\ \A h \in f .. l : HeightOf[s.blocks[h]] = h
      BY <1>2, <1>4
    <2>. QED
      BY <1>1, <1>3, <1>4, <2>1 DEF IsSegment
  <1>6. CanonSegment(s)
    <2>1. SUFFICES ASSUME NEW h \in f .. l PROVE chain[n][h] \in Canon
      BY <1>4 DEF CanonSegment
    <2>2. CASE Modes \subseteq {"checkpoint"}
      <3>1. validation[n] = "checkpoint"
        BY <1>0, <2>2, Zenon DEF HotInv, HotTypeOK
      <3>2. /\ h \in Heights /\ hotBase[n] <= h /\ h <= hotHeight[n]
            /\ h <= ArchiveHeightLimit(n) /\ LoadBlock(n, h) = chain[n][h]
        BY <1>0, <1>1, <1>2, <2>1 DEF InStore
      <3>3. LoadBlock(n, h) \in CheckpointChain
        BY <1>0, <3>1, <3>2, HotInvAuthenticated DEF AuthenticatedPrefix
      <3>. QED
        BY <2>2, <3>2, <3>3 DEF Canon
    <2>3. CASE ~(Modes \subseteq {"checkpoint"})
      BY <1>2, <2>1, <2>3 DEF Canon
    <2>. QED
      BY <2>2, <2>3
  <1>. QED
    BY <1>5, <1>6

(* A step of an upload.                                                    *)
LEMMA GotoStep ==
    ASSUME LiveInv, NEW n \in Node, NEW label, Goto(n, label), UNCHANGED hotVars,
           StoreGrows, GlobalInv', manifest' = manifest,
           UNCHANGED <<local, ready, segment, snapshot, todo, verified, checked,
                       faults>>,
           label \in {"readback", "publish"}, pc[n] \in Uploading,
           label = "publish" => segment[n] \in intact' \cup decayed'
    PROVE  LiveInv'
  <1>1. FunInv' /\ OthersLoop(n) /\ pc'[n] = label
    BY DEF LiveInv, FunInv, OthersLoop, Goto, Labels
  <1>2. LocalInv(n)' /\ VerifyInv(n)'
    BY <1>1 DEF LiveInv, LoopInv, LocalInv, VerifyInv
  <1>3. SegmentInv(n)'
    BY <1>1, Zenon DEF LiveInv, LoopInv, SegmentInv, Uploading, CanonSegment
  <1>4. ReadyInv(n)'
    BY <1>1, HotUnchanged, Zenon
       DEF LiveInv, LoopInv, ReadyInv, Archiving, Uploading, hotVars
  <1>. QED
    BY <1>1, <1>2, <1>3, <1>4, LoopStep DEF LoopInv

(* Building the next segment from the hot store.                           *)
LEMMA buildSegmentInv ==
    ASSUME LiveInv, NEW n \in Node, buildSegment(n)
    PROVE  LiveInv'
  <1>. DEFINE s == SegmentOf(BuildFirst(n), BuildLast(n), chain[n])
  <1>0. /\ pc[n] = "build" /\ UNCHANGED hotVars /\ UNCHANGED storeVars
        /\ UNCHANGED <<verified, checked, faults>> /\ faults \in 0 .. MaxFaults
        /\ StoreGrows /\ GlobalInv'
    BY StoreUnchanged DEF buildSegment, LiveInv, FunInv
  <1>1. CASE EndRun(n)
    BY <1>0, <1>1, EndRunStep
  <1>2. CASE ~EndRun(n)
    <2>1. /\ \A h \in BuildFirst(n) .. BuildLast(n) : LoadBlock(n, h) # NoBlock
          /\ segment' = [segment EXCEPT ![n] = s] /\ pc' = [pc EXCEPT ![n] = "put"]
          /\ UNCHANGED <<local, ready, snapshot, todo>>
      BY <1>2 DEF buildSegment, Goto
    <2>2. IsSegment(s) /\ CanonSegment(s)
      BY <1>0, <2>1, BuiltSegment
    <2>3. FunInv' /\ OthersLoop(n) /\ pc'[n] = "put" /\ segment'[n] = s
      BY <1>0, <2>1 DEF LiveInv, FunInv, OthersLoop, Labels
    <2>4. LocalInv(n)' /\ VerifyInv(n)'
      BY <1>0, <2>1, <2>3, Zenon
         DEF LiveInv, LoopInv, LocalInv, VerifyInv, storeVars
    <2>5. SegmentInv(n)'
      <3>1. IsSegment(segment[n])' /\ CanonSegment(segment[n])'
        BY <2>2, <2>3 DEF IsSegment, CanonSegment
      <3>. QED
        BY <2>3, <3>1 DEF SegmentInv
    <2>6. ReadyInv(n)'
      BY <1>0, <2>1, <2>3, HotUnchanged
         DEF LiveInv, LoopInv, ReadyInv, Archiving, Uploading, hotVars
    <2>. QED
      BY <1>0, <2>3, <2>4, <2>5, <2>6, LoopStep DEF LoopInv
  <1>. QED
    BY <1>1, <1>2

----------------------------------------------------------------------------

(* Uploading a segment, whatever the store answers.                        *)
LEMMA PutInv ==
    ASSUME LiveInv, NEW n \in Node,
           PutNew(n) \/ PutExisting(n) \/ PutTorn(n) \/ PutError(n)
    PROVE  LiveInv'
  <1>0. /\ pc[n] = "put" /\ pc[n] \in Uploading /\ UNCHANGED hotVars
        /\ IsSegment(segment[n]) /\ faults \in 0 .. MaxFaults
    BY DEF PutNew, PutExisting, PutTorn, PutError, LiveInv, FunInv, LoopInv,
           SegmentInv, Uploading
  <1>1. CASE PutNew(n)
    <2>1. StoreGrows /\ GlobalInv' /\ segment[n] \in intact'
      BY <1>0, <1>1, StoreNew, Zenon DEF PutNew
    <2>2. PICK label \in {"readback", "publish"} : Goto(n, label)
      BY <1>1, Zenon DEF PutNew
    <2>. QED
      BY <1>0, <1>1, <2>1, <2>2, GotoStep, Zenon DEF PutNew
  <1>2. CASE PutExisting(n)
    <2>1. StoreGrows /\ GlobalInv' /\ manifest' = manifest
      BY <1>2, StoreUnchanged, Zenon DEF PutExisting, storeVars
    <2>. QED
      BY <1>0, <1>2, <2>1, GotoStep, Zenon DEF PutExisting
  <1>3. CASE PutTorn(n)
    <2>1. StoreGrows /\ GlobalInv' /\ faults' \in 0 .. MaxFaults
      BY <1>0, <1>3, StoreNew, FaultType, Zenon DEF PutTorn
    <2>2. FunInv' /\ OthersLoop(n) /\ pc'[n] = "readback"
      BY <1>3, <2>1 DEF PutTorn, LiveInv, FunInv, OthersLoop, Goto, Labels
    <2>3. LocalInv(n)' /\ VerifyInv(n)' /\ SegmentInv(n)'
      BY <1>0, <1>3, <2>2, Zenon
         DEF PutTorn, LiveInv, LoopInv, LocalInv, VerifyInv,
                              SegmentInv, Uploading, CanonSegment
    <2>4. ReadyInv(n)'
      BY <1>0, <1>3, <2>2, HotUnchanged, Zenon
         DEF PutTorn, LiveInv, LoopInv, ReadyInv, Archiving, Uploading, hotVars
    <2>. QED
      BY <1>0, <2>1, <2>2, <2>3, <2>4, LoopStep, Zenon DEF LoopInv
  <1>4. CASE PutError(n)
    <2>1. StoreGrows /\ GlobalInv'
      <3>1. CASE UNCHANGED intact
        BY <1>4, <3>1, StoreUnchanged, Zenon DEF PutError, storeVars
      <3>2. CASE intact' = intact \cup {segment[n]}
        BY <1>0, <1>4, <3>2, StoreNew DEF PutError
      <3>. QED
        BY <1>4, <3>1, <3>2, Zenon DEF PutError
    <2>2. faults' \in 0 .. MaxFaults
      BY <1>4, FaultType DEF PutError
    <2>. QED
      BY <1>0, <1>4, <2>1, <2>2, EndRunStep, Zenon DEF PutError
  <1>. QED
    BY <1>1, <1>2, <1>3, <1>4

(* Reading an uploaded segment back.                                       *)
LEMMA verifyStoredSegmentInv ==
    ASSUME LiveInv, NEW n \in Node, verifyStoredSegment(n)
    PROVE  LiveInv'
  <1>0. /\ pc[n] \in Uploading /\ UNCHANGED hotVars /\ UNCHANGED storeVars
        /\ UNCHANGED <<verified, checked, faults>> /\ faults \in 0 .. MaxFaults
        /\ StoreGrows /\ GlobalInv' /\ manifest' = manifest
    BY StoreUnchanged
       DEF verifyStoredSegment, LiveInv, FunInv, Uploading, storeVars
  <1>1. CASE segment[n] \in intact
    BY <1>0, <1>1, GotoStep, Zenon DEF verifyStoredSegment, storeVars
  <1>2. CASE segment[n] \notin intact
    BY <1>0, <1>2, EndRunStep, Zenon DEF verifyStoredSegment
  <1>. QED
    BY <1>1, <1>2

(* A compare-and-swap that succeeds appends to exactly what is published.  *)
LEMMA PublishStore ==
    ASSUME LiveInv, NEW n \in Node, pc[n] = "publish", CanPublish(n),
           manifest' = NextManifest(n), UNCHANGED <<intact, torn, decayed>>
    PROVE  /\ StoreGrows /\ GlobalInv' /\ CanAppend(manifest, segment[n])
           /\ IsSegment(segment[n]) /\ manifest'.last = segment[n].last
           /\ manifest'.segments = manifest.segments \cup {segment[n]}
           /\ manifest.last < segment[n].first /\ manifest.last <= manifest'.last
           /\ manifest.first # 0 => manifest'.first = manifest.first
           /\ manifest'.revision = manifest.revision + 1
  <1>. DEFINE s == segment[n]
  <1>1. /\ IsSegment(s) /\ CanonSegment(s) /\ s \in intact \cup decayed
        /\ local[n] = manifest /\ CanAppend(manifest, s)
    BY Zenon DEF LiveInv, LoopInv, LocalInv, SegmentInv, Uploading, CanPublish,
                 AppendIsValid
  <1>2. /\ IsManifest(manifest) /\ Validate(manifest)
        /\ manifest.revision + 1 \in Nat /\ manifest.revision \in Nat
    BY DEF LiveInv, GlobalInv, IsManifest
  <1>3. manifest' = WithRevision(AppendSegmentInPlace(manifest, s),
                                 manifest.revision + 1)
    BY <1>1 DEF NextManifest
  <1>4. /\ IsManifest(manifest') /\ Validate(manifest')
        /\ manifest'.revision = manifest.revision + 1
        /\ manifest'.segments = manifest.segments \cup {s}
        /\ manifest'.last = s.last
        /\ manifest.last < s.first /\ manifest.last <= manifest'.last
        /\ manifest'.first = IF manifest.segments = {} THEN s.first
                             ELSE manifest.first
    <2>. HIDE DEF s
    <2>0. /\ IsManifest(manifest) /\ Validate(manifest)
          /\ IsSegment(s) /\ CanAppend(manifest, s)
      BY <1>1, <1>2
    <2>. DEFINE a == WithRevision(AppendSegmentInPlace(manifest, s),
                                  manifest.revision + 1)
    <2>1. /\ IsManifest(a) /\ Validate(a) /\ a.revision = manifest.revision + 1
          /\ a.segments = manifest.segments \cup {s} /\ a.last = s.last
          /\ manifest.last < s.first /\ manifest.last <= a.last
          /\ a.first = IF manifest.segments = {} THEN s.first ELSE manifest.first
      BY <2>0, AppendValid, Zenon
    <2>. QED
      BY <1>3, <2>1, Zenon
  <1>5. manifest.first # 0 => manifest.segments # {}
    BY <1>2, Zenon DEF Validate
  <1>6. StoreGrows
    BY <1>4, Zenon DEF StoreGrows
  <1>7. GlobalInv'
    <2>1. /\ \A t \in intact' \cup torn' \cup decayed' : IsSegment(t)
          /\ \A t \in manifest.segments : CanonSegment(t)
          /\ manifest.segments \subseteq intact \cup decayed
      BY DEF LiveInv, GlobalInv
    <2>2. \A t \in manifest'.segments : CanonSegment(t)
      BY <1>1, <1>4, <2>1
    <2>3. manifest'.segments \subseteq intact' \cup decayed'
      BY <1>1, <1>4, <2>1
    <2>4. manifest'.revision # 0
      BY <1>2, <1>4
    <2>. QED
      BY <1>4, <2>1, <2>2, <2>3, <2>4, Zenon
         DEF GlobalInv, IsManifest, Validate,
                                          CanonSegment, IsSegment, Covers
  <1>. QED
    BY <1>1, <1>4, <1>5, <1>6, <1>7, Zenon

(* Publishing the next manifest.                                           *)
LEMMA PublishInv ==
    ASSUME LiveInv, NEW n \in Node, Publish(n)
    PROVE  LiveInv'
  <1>. DEFINE s == segment[n]
              next == IF s.last < ready[n] THEN "build" ELSE "prune"
  <1>0. /\ pc[n] = "publish" /\ UNCHANGED hotVars /\ manifest' = NextManifest(n)
        /\ CanPublish(n) /\ UNCHANGED <<intact, torn, decayed>>
        /\ local' = [local EXCEPT ![n] = manifest']
        /\ segment' = [segment EXCEPT ![n] = NoSegment]
        /\ pc' = [pc EXCEPT ![n] = next]
        /\ UNCHANGED <<ready, snapshot, todo, verified, checked, faults>>
    BY DEF Publish, Goto
  <1>1. /\ StoreGrows /\ GlobalInv' /\ IsSegment(s) /\ manifest'.last = s.last
        /\ manifest.segments \subseteq manifest'.segments
    BY <1>0, PublishStore
  <1>2. FunInv' /\ OthersLoop(n)
    BY <1>0, Zenon DEF LiveInv, FunInv, OthersLoop, Labels
  <1>3. pc'[n] = next /\ local'[n] = manifest' /\ segment'[n] = NoSegment
    BY <1>0 DEF LiveInv, FunInv
  <1>4. LocalInv(n)'
    BY <1>1, <1>3 DEF LocalInv, GlobalInv, IsManifest
  <1>5. SegmentInv(n)'
    BY <1>3 DEF SegmentInv, Uploading
  <1>6. VerifyInv(n)'
    <2>1. VerifyInv(n) /\ pc'[n] \notin {"verify", "pruneHot"}
      BY <1>3 DEF LiveInv, LoopInv
    <2>. HIDE DEF next
    <2>. QED
      BY <1>0, <1>1, <2>1, Zenon DEF VerifyInv
  <1>7. ReadyInv(n)'
    <2>1. /\ up' = up /\ hotBase' = hotBase /\ up[n] /\ hotBase[n] > 0
          /\ ready[n] <= ArchiveHeightLimit(n)
          /\ ArchiveHeightLimit(n)' = ArchiveHeightLimit(n)
      BY <1>0, HotUnchanged
         DEF LiveInv, LoopInv, ReadyInv, Archiving, Uploading, hotVars
    <2>2. next = "build" => 0 < BuildFirst(n)' /\ BuildFirst(n)' <= ready[n]
      <3>1. s.last \in Nat /\ s.last > 0 /\ ready[n] \in Nat
        BY <1>1, BlockFact DEF IsSegment, Heights, LiveInv, FunInv
      <3>. QED
        BY <1>1, <1>3, <3>1 DEF BuildFirst
    <2>. QED
      BY <1>0, <1>3, <2>1, <2>2 DEF ReadyInv
  <1>. QED
    BY <1>0, <1>1, <1>2, <1>4, <1>5, <1>6, <1>7, LoopStep, Zenon DEF LoopInv

(* A publication that lost its race or got no answer.                      *)
LEMMA PublishFailsInv ==
    ASSUME LiveInv, NEW n \in Node, PublishConflict(n) \/ PublishError(n)
    PROVE  LiveInv'
  <1>1. CASE PublishConflict(n)
    BY <1>1, EndRunStep, StoreUnchanged DEF PublishConflict, LiveInv, FunInv
  <1>2. CASE PublishError(n)
    <2>1. StoreGrows /\ GlobalInv'
      <3>1. CASE UNCHANGED manifest
        BY <1>2, <3>1, StoreUnchanged DEF PublishError, storeVars
      <3>2. CASE CanPublish(n) /\ manifest' = NextManifest(n)
        BY <1>2, <3>2, PublishStore DEF PublishError
      <3>. QED
        BY <1>2, <3>1, <3>2 DEF PublishError
    <2>2. faults' \in 0 .. MaxFaults
      BY <1>2, FaultType DEF PublishError
    <2>. QED
      BY <1>2, <2>1, <2>2, EndRunStep DEF PublishError
  <1>. QED
    BY <1>1, <1>2

(* A run without a prune height, and a failed read.                        *)
LEMMA SkipOrReadErrorInv ==
    ASSUME LiveInv, NEW n \in Node, SkipPrune(n) \/ ReadError(n)
    PROVE  LiveInv'
  <1>1. CASE SkipPrune(n)
    BY <1>1, EndRunStep, StoreUnchanged DEF SkipPrune, LiveInv, FunInv
  <1>2. CASE ReadError(n)
    BY <1>2, EndRunStep, StoreUnchanged, FaultType DEF ReadError
  <1>. QED
    BY <1>1, <1>2

(* The verifier takes its snapshot of the manifest.                        *)
LEMMA VerifyArchiveInv ==
    ASSUME LiveInv, NEW n \in Node, VerifyArchive(n)
    PROVE  LiveInv'
  <1>0. /\ pc[n] = "prune" /\ UNCHANGED hotVars /\ UNCHANGED storeVars
        /\ snapshot' = [snapshot EXCEPT ![n] = manifest]
        /\ todo' = [todo EXCEPT ![n] = manifest.segments \ verified[n]]
        /\ pc' = [pc EXCEPT ![n] = "verify"]
        /\ UNCHANGED <<local, ready, segment, verified, checked, faults>>
        /\ StoreGrows /\ GlobalInv'
    BY StoreUnchanged, Zenon DEF VerifyArchive, Goto
  <1>1. FunInv' /\ OthersLoop(n)
    BY <1>0, Zenon DEF LiveInv, FunInv, OthersLoop, Labels
  <1>2. /\ pc'[n] = "verify" /\ snapshot'[n] = manifest
        /\ todo'[n] = manifest.segments \ verified[n]
    BY <1>0 DEF LiveInv, FunInv
  <1>3. LocalInv(n)' /\ SegmentInv(n)'
    BY <1>0, <1>2, Zenon
       DEF LiveInv, LoopInv, LocalInv, SegmentInv, storeVars, Uploading
  <1>4. ReadyInv(n)'
    BY <1>0, <1>2, Zenon
       DEF LiveInv, LoopInv, ReadyInv, Archiving, Uploading, hotVars
  <1>5. VerifyInv(n)'
    BY <1>0, <1>2, Zenon DEF LiveInv, LoopInv, GlobalInv, VerifyInv, storeVars
  <1>. QED
    BY <1>0, <1>1, <1>3, <1>4, <1>5, LoopStep, Zenon DEF LoopInv

(* The verifier reads one segment of its snapshot.                         *)
LEMMA verifySegmentInv ==
    ASSUME LiveInv, NEW n \in Node, NEW s, verifySegment(n, s)
    PROVE  LiveInv'
  <1>0. /\ pc[n] = "verify" /\ s \in todo[n] /\ UNCHANGED hotVars
        /\ UNCHANGED storeVars /\ UNCHANGED <<verified, faults>>
        /\ StoreGrows /\ GlobalInv' /\ faults' \in 0 .. MaxFaults
    BY StoreUnchanged DEF verifySegment, LiveInv, FunInv
  <1>1. CASE s \notin intact
    BY <1>0, <1>1, EndRunStep, Zenon DEF verifySegment
  <1>2. CASE s \in intact
    <2>1. /\ todo' = [todo EXCEPT ![n] = todo[n] \ {s}]
          /\ checked' = [checked EXCEPT ![n] = checked[n] \cup {s}]
          /\ UNCHANGED <<pc, local, ready, segment, snapshot>>
      BY <1>2, Zenon DEF verifySegment
    <2>2. FunInv' /\ OthersLoop(n)
      BY <1>0, <2>1, Zenon DEF LiveInv, FunInv, OthersLoop
    <2>3. todo'[n] = todo[n] \ {s} /\ checked'[n] = checked[n] \cup {s}
      BY <2>1 DEF LiveInv, FunInv
    <2>4. LocalInv(n)' /\ SegmentInv(n)'
      BY <1>0, <2>1, Zenon
         DEF LiveInv, LoopInv, LocalInv, SegmentInv, storeVars, Uploading
    <2>5. ReadyInv(n)'
      BY <1>0, <2>1, Zenon
         DEF LiveInv, LoopInv, ReadyInv, Archiving, Uploading, hotVars
    <2>6. VerifyInv(n)'
      BY <1>0, <2>1, <2>3, Zenon DEF LiveInv, LoopInv, VerifyInv, storeVars
    <2>. QED
      BY <1>0, <2>2, <2>4, <2>5, <2>6, LoopStep, Zenon DEF LoopInv
  <1>. QED
    BY <1>1, <1>2

(* The verifier has read every segment of its snapshot.                    *)
LEMMA VerifyDoneInv ==
    ASSUME LiveInv, NEW n \in Node, VerifyDone(n)
    PROVE  LiveInv'
  <1>0. /\ pc[n] = "verify" /\ todo[n] = {} /\ UNCHANGED hotVars
        /\ UNCHANGED storeVars
        /\ verified' = [verified EXCEPT ![n] = snapshot[n].segments]
        /\ pc' = [pc EXCEPT ![n] = "pruneHot"]
        /\ UNCHANGED <<local, ready, segment, snapshot, todo, checked, faults>>
        /\ StoreGrows /\ GlobalInv'
    BY StoreUnchanged, Zenon DEF VerifyDone, Goto
  <1>1. FunInv' /\ OthersLoop(n)
    BY <1>0, Zenon DEF LiveInv, FunInv, OthersLoop, Labels
  <1>2. pc'[n] = "pruneHot" /\ verified'[n] = snapshot[n].segments
    BY <1>0 DEF LiveInv, FunInv
  <1>3. LocalInv(n)' /\ SegmentInv(n)'
    BY <1>0, <1>2, Zenon
       DEF LiveInv, LoopInv, LocalInv, SegmentInv, storeVars, Uploading
  <1>4. ReadyInv(n)'
    BY <1>0, <1>2, Zenon
       DEF LiveInv, LoopInv, ReadyInv, Archiving, Uploading, hotVars
  <1>5. VerifyInv(n)'
    BY <1>0, <1>2, Zenon DEF LiveInv, LoopInv, VerifyInv, storeVars
  <1>. QED
    BY <1>0, <1>1, <1>3, <1>4, <1>5, LoopStep, Zenon DEF LoopInv

----------------------------------------------------------------------------
(* Steps that change a hot store.                                          *)

(* A step of one ingestor that leaves the other peers as they were.        *)
LEMMA PeerStep ==
    ASSUME LiveInv, NEW n \in Node, HotInv', UNCHANGED storeVars,
           FunInv', OthersLoop(n), LoopInv(n)',
           \A m \in Node : m # n =>
               /\ up'[m] = up[m] /\ hotBase'[m] = hotBase[m]
               /\ ArchiveHeightLimit(m)' = ArchiveHeightLimit(m)
    PROVE  LiveInv'
  <1>1. HotTypeOK /\ HotTypeOK' /\ StoreGrows /\ GlobalInv'
    BY StoreUnchanged, Zenon DEF LiveInv, HotInv
  <1>2. ASSUME NEW m \in Node, m # n PROVE LoopInv(m)'
    <2>1. LoopInv(m) /\ IsManifest(manifest) /\ FunInv
      BY Zenon DEF LiveInv, GlobalInv
    <2>2. /\ local'[m] = local[m] /\ segment'[m] = segment[m]
          /\ snapshot'[m] = snapshot[m] /\ todo'[m] = todo[m]
          /\ verified'[m] = verified[m] /\ checked'[m] = checked[m]
          /\ pc'[m] = pc[m] /\ ready'[m] = ready[m]
      BY <1>2, Zenon DEF OthersLoop
    <2>3. /\ pc[m] # "idle" => up'[m]
          /\ hotBase'[m] = hotBase[m]
      BY <1>2, <2>1, Zenon DEF LoopInv, ReadyInv
    <2>4. ArchiveHeightLimit(m) <= ArchiveHeightLimit(m)'
      BY <1>1, <1>2, LimitStays, Zenon
    <2>. QED
      BY <1>1, <2>1, <2>2, <2>3, <2>4, FrameLoop
  <1>. QED
    BY <1>1, <1>2, Zenon DEF LiveInv

(* Pruning the hot store by the verified snapshot.                         *)
LEMMA PruneHotStoreInv ==
    ASSUME LiveInv, NEW n \in Node, PruneHotStore(n)
    PROVE  LiveInv'
  <1>0. /\ UNCHANGED <<up, validation, startHeight, pending, chain, hotHeight,
                       verifiedThrough>>
        /\ UNCHANGED storeVars /\ UNCHANGED <<verified, checked, faults>>
        /\ EndRun(n) /\ StoreGrows /\ HotInv /\ HotTypeOK /\ FunInv
    BY StoreUnchanged DEF PruneHotStore, LiveInv, HotInv
  <1>1. HotInv' /\ \A m \in Node : m # n => hotBase'[m] = hotBase[m]
    <2>1. CASE CanPrune(n)
      <3>1. PruneBlocks(n, PruneTo(n))
        BY <2>1 DEF PruneHotStore
      <3>2. PruneTo(n) \in Int
        <4>1. snapshot[n].last \in 0 .. MaxHeight
          BY Zenon DEF LiveInv, LoopInv, VerifyInv, IsManifest
        <4>2. hotHeight[n] \in 0 .. MaxHeight /\ RetainBlocks \in Nat
          BY <1>0, LimitType, LiveAssumption
        <4>. QED
          BY <4>1, <4>2 DEF PruneTo, Min2
      <3>. QED
        BY <1>0, <3>1, <3>2, PruneBlocksInv, Zenon DEF PruneBlocks, HotTypeOK
    <2>2. CASE ~CanPrune(n)
      BY <1>0, <2>2, HotUnchanged DEF PruneHotStore, hotVars
    <2>. QED
      BY <2>1, <2>2
  <1>2. FunInv' /\ OthersLoop(n)
    <2>1. /\ verified' = [verified EXCEPT ![n] = verified[n]]
          /\ checked' = [checked EXCEPT ![n] = checked[n]]
          /\ faults' \in 0 .. MaxFaults
      BY <1>0, Zenon DEF FunInv
    <2>. QED
      BY <1>0, <2>1, EndRunFrame, Zenon
  <1>3. LoopInv(n)'
    BY <1>0, EndRunLoop, Zenon DEF LiveInv, LoopInv, VerifyInv
  <1>4. \A m \in Node : ArchiveHeightLimit(m)' = ArchiveHeightLimit(m)
    BY <1>0 DEF ArchiveHeightLimit
  <1>. QED
    BY <1>0, <1>1, <1>2, <1>3, <1>4, PeerStep, Zenon

(* A crash of the process.                                                 *)
LEMMA KillInv ==
    ASSUME LiveInv, NEW n \in Node, Kill(n)
    PROVE  LiveInv'
  <1>0. /\ HotInv /\ HotTypeOK /\ FunInv /\ Crash(n) /\ EndRun(n)
        /\ UNCHANGED storeVars
        /\ StoreGrows /\ faults' \in 0 .. MaxFaults
        /\ verified' = [verified EXCEPT ![n] = {}]
        /\ checked' = [checked EXCEPT ![n] = {}]
    BY StoreUnchanged, FaultType DEF Kill, LiveInv, HotInv
  <1>1. HotInv'
    BY <1>0, CrashInv
  <1>2. FunInv' /\ OthersLoop(n)
    BY <1>0, EndRunFrame, Zenon
  <1>3. LoopInv(n)'
    <2>1. verified'[n] = {} /\ checked'[n] = {}
      BY <1>0 DEF FunInv
    <2>. QED
      BY <1>0, <2>1, EndRunLoop
  <1>4. \A m \in Node : m # n =>
            /\ up'[m] = up[m] /\ hotBase'[m] = hotBase[m]
            /\ ArchiveHeightLimit(m)' = ArchiveHeightLimit(m)
    BY <1>0 DEF Crash, HotTypeOK, ArchiveHeightLimit
  <1>. QED
    BY <1>0, <1>1, <1>2, <1>3, <1>4, PeerStep, Zenon

(* The ingestor next to the maintenance loop.                              *)
LEMMA IngestInv ==
    ASSUME LiveInv, NEW n \in Node, Ingest(n)
    PROVE  LiveInv'
  <1>0. /\ HotInv /\ HotTypeOK /\ FunInv /\ LoopInv(n) /\ UNCHANGED storeVars
        /\ UNCHANGED <<pc, local, ready, segment, snapshot, todo, verified,
                       checked, faults>>
        /\ StoreGrows /\ IsManifest(manifest)
    BY StoreUnchanged, Zenon DEF Ingest, LiveInv, HotInv, GlobalInv, loopVars
  <1>1. FunInv' /\ OthersLoop(n)
    BY <1>0 DEF FunInv, OthersLoop
  <1>2. ASSUME NEW b \in Block, Submit(n, b) PROVE LiveInv'
    <2>1. HotInv' /\ HotTypeOK'
      BY <1>0, <1>2, SubmitInv DEF HotInv
    <2>2. up[n] /\ up' = up
      BY <1>2 DEF Submit
    <2>3. hotBase[n] > 0 => hotBase'[n] = hotBase[n]
      <3>1. /\ pending[n] = NoBlock => hotBase' = hotBase
            /\ pending[n] # NoBlock =>
                  hotBase'[n] = IF hotBase[n] = 0 THEN HeightOf[pending[n]]
                                ELSE hotBase[n]
        BY <1>0, <1>2, SubmitStore
      <3>2. hotBase[n] \in Nat
        BY <1>0, LimitType
      <3>. QED
        BY <3>1, <3>2
    <2>4. ArchiveHeightLimit(n) <= ArchiveHeightLimit(n)'
      BY <1>0, <1>2, SubmitLimit
    <2>5. LoopInv(n)'
      BY <1>0, <2>1, <2>2, <2>3, <2>4, FrameLoop, Zenon
    <2>6. \A m \in Node : m # n =>
              /\ up'[m] = up[m] /\ hotBase'[m] = hotBase[m]
              /\ ArchiveHeightLimit(m)' = ArchiveHeightLimit(m)
      <3>1. /\ up' = up /\ validation' = validation
            /\ \A m \in Node : m # n =>
                  /\ hotBase'[m] = hotBase[m] /\ hotHeight'[m] = hotHeight[m]
                  /\ verifiedThrough'[m] = verifiedThrough[m]
        BY <1>0, <1>2, SubmitOthers, Zenon
      <3>. QED
        BY <3>1, Zenon DEF ArchiveHeightLimit
    <2>. QED
      BY <1>0, <1>1, <2>1, <2>5, <2>6, PeerStep, Zenon
  <1>3. ASSUME NEW mode \in Modes, Serve(n, mode, manifest.last) PROVE LiveInv'
    <2>0. manifest.last \in 0 .. MaxHeight
      BY <1>0 DEF IsManifest
    <2>1. HotInv' /\ HotTypeOK'
      BY <1>0, <1>3, <2>0, ServeInv DEF HotInv
    <2>2. /\ ~up[n] /\ up'[n] /\ hotBase' = hotBase
          /\ \A m \in Node : m # n =>
                /\ up'[m] = up[m] /\ hotBase'[m] = hotBase[m]
                /\ ArchiveHeightLimit(m)' = ArchiveHeightLimit(m)
      BY <1>0, <1>3 DEF Serve, NewHotIngestor, HotTypeOK, ArchiveHeightLimit
    <2>3. pc[n] = "idle"
      BY <1>0, <2>2, Zenon DEF LoopInv, ReadyInv
    <2>4. LoopInv(n)'
      BY <1>0, <2>1, <2>2, <2>3, FrameLoop, Zenon
    <2>. QED
      BY <1>0, <1>1, <2>1, <2>2, <2>4, PeerStep, Zenon
  <1>. QED
    BY <1>2, <1>3 DEF Ingest

(* Damage to a stored object.                                              *)
LEMMA DecayInv ==
    ASSUME LiveInv, NEW s \in intact, Decay(s)
    PROVE  LiveInv'
  <1>0. /\ HotInv /\ HotInv' /\ HotTypeOK /\ HotTypeOK' /\ FunInv
        /\ IsManifest(manifest) /\ UNCHANGED hotVars
        /\ UNCHANGED <<pc, local, ready, segment, snapshot, todo, verified, checked>>
        /\ manifest' = manifest /\ torn' = torn
        /\ intact' \cup decayed' = intact \cup decayed
        /\ faults' \in 0 .. MaxFaults
    BY HotUnchanged, FaultType, Zenon
       DEF Decay, LiveInv, HotInv, GlobalInv, loopVars
  <1>1. FunInv'
    BY <1>0 DEF FunInv
  <1>2. GlobalInv' /\ StoreGrows
    BY <1>0, Zenon DEF LiveInv, GlobalInv, StoreGrows, CanonSegment
  <1>3. ASSUME NEW m \in Node PROVE LoopInv(m)'
    <2>1. LoopInv(m) /\ (pc[m] # "idle" => up'[m]) /\ hotBase' = hotBase
             /\ ArchiveHeightLimit(m) <= ArchiveHeightLimit(m)'
      <3>1. LoopInv(m) /\ (pc[m] # "idle" => up'[m]) /\ hotBase' = hotBase
        BY <1>0, Zenon DEF LiveInv, LoopInv, ReadyInv, hotVars
      <3>2. ArchiveHeightLimit(m)' = ArchiveHeightLimit(m)
        BY <1>0, HotUnchanged, Zenon
      <3>. QED
        BY <1>0, <3>1, <3>2, LimitStays, Zenon
    <2>. QED
      BY <1>0, <1>2, <2>1, FrameLoop, Zenon
  <1>. QED
    BY <1>0, <1>1, <1>2, <1>3, Zenon DEF LiveInv

----------------------------------------------------------------------------
(* Every step of the composed system preserves the invariant.              *)
LEMMA LiveNextInv == LiveInv /\ [Next]_vars => LiveInv'
  <1>. SUFFICES ASSUME LiveInv, [Next]_vars PROVE LiveInv'
    OBVIOUS
  <1>1. CASE UNCHANGED vars
    <2>1. UNCHANGED hotVars /\ UNCHANGED storeVars /\ UNCHANGED loopVars
             /\ faults' = faults
      BY <1>1 DEF vars
    <2>2. HotInv' /\ FunInv' /\ GlobalInv'
      BY <2>1, HotUnchanged, StoreUnchanged DEF LiveInv, loopVars, FunInv
    <2>3. ASSUME NEW m \in Node PROVE LoopInv(m)'
      BY <2>1, Zenon
         DEF LiveInv, LoopInv, LocalInv, SegmentInv, ReadyInv, VerifyInv,
                  BuildFirst, ArchiveHeightLimit, CanonSegment, hotVars,
                  storeVars, loopVars
    <2>. QED
      BY <2>2, <2>3 DEF LiveInv
  <1>2. ASSUME NEW n \in Node, Ingest(n) PROVE LiveInv'
    BY <1>2, IngestInv
  <1>3. ASSUME NEW n \in Node, Archive(n) PROVE LiveInv'
    BY <1>3, ArchiveReadyFromHeadInv, ArchiveReadyInv, buildSegmentInv, PutInv,
       verifyStoredSegmentInv, PublishInv, PublishFailsInv DEF Archive
  <1>4. ASSUME NEW n \in Node, Prune(n) PROVE LiveInv'
    BY <1>4, SkipOrReadErrorInv, VerifyArchiveInv, verifySegmentInv,
       VerifyDoneInv, PruneHotStoreInv, Zenon DEF Prune
  <1>5. ASSUME NEW n \in Node, Fail(n) PROVE LiveInv'
    BY <1>5, PutInv, PublishFailsInv, SkipOrReadErrorInv, KillInv DEF Fail
  <1>6. ASSUME NEW s \in intact, Decay(s) PROVE LiveInv'
    BY <1>6, DecayInv
  <1>. QED
    BY <1>1, <1>2, <1>3, <1>4, <1>5, <1>6 DEF Next

(* The inductive invariant holds in every reachable state.                 *)
THEOREM LiveInvariance == Spec => []LiveInv
  BY LiveInitInv, LiveNextInv, PTL DEF Spec

----------------------------------------------------------------------------
(* The variables keep their types: segments and manifests stay well formed *)
(* whatever fails.                                                         *)
THEOREM LiveTypeCorrect == Spec => []LiveTypeOK
  <1>1. LiveInv => LiveTypeOK
    <2>. SUFFICES ASSUME LiveInv PROVE LiveTypeOK
      OBVIOUS
    <2>1. \A s \in manifest.segments : IsSegment(s)
      BY Zenon DEF LiveInv, GlobalInv
    <2>2. ASSUME NEW n \in Node
          PROVE  /\ IsManifest(local[n]) /\ IsManifest(snapshot[n])
                 /\ segment[n] = NoSegment \/ IsSegment(segment[n])
                 /\ \A s \in todo[n] \cup verified[n] \cup checked[n] : IsSegment(s)
      BY <2>1, Zenon DEF LiveInv, LoopInv, LocalInv, SegmentInv, VerifyInv
    <2>. QED
      BY <2>2 DEF LiveInv, HotInv, FunInv, GlobalInv, LiveTypeOK
  <1>. QED
    BY <1>1, LiveInvariance, PTL

----------------------------------------------------------------------------
(* Appending in place.  Every manifest copy is valid, and from the moment  *)
(* a segment is built it continues its peer's copy.                        *)
AppendInv ==
    \A n \in Node : /\ Validate(local[n])
                    /\ pc[n] \in Uploading => CanAppend(local[n], segment[n])

(* A peer's step leaves the copy and the segment alone, ends the upload    *)
(* with a valid copy, or builds a segment that continues the copy.         *)
AppendKept(n) ==
    \/ /\ local'[n] = local[n] /\ segment'[n] = segment[n]
       /\ pc'[n] \in Uploading => pc[n] \in Uploading
    \/ Validate(local'[n]) /\ pc'[n] \notin Uploading
    \/ local'[n] = local[n] /\ CanAppend(local[n], segment'[n])

(* A run that ends.                                                        *)
LEMMA EndRunAppend ==
    ASSUME LiveInv, NEW n \in Node, EndRun(n), NEW m \in Node
    PROVE  AppendKept(m)
  <1>1. FunInv
    BY DEF LiveInv
  <1>2. CASE m = n
    <2>1. local'[m] = EmptyManifest /\ pc'[m] = "idle"
      BY <1>1, <1>2 DEF EndRun, FunInv
    <2>. QED
      BY <2>1, EmptyOK DEF AppendKept, Uploading
  <1>3. CASE m # n
    BY <1>1, <1>3 DEF EndRun, FunInv, AppendKept
  <1>. QED
    BY <1>2, <1>3

(* buildSegment starts at the height after the copy's last.                *)
LEMMA BuildAppend ==
    ASSUME LiveInv, AppendInv, NEW n \in Node, buildSegment(n), NEW m \in Node
    PROVE  AppendKept(m)
  <1>1. FunInv /\ Validate(local[m]) /\ IsManifest(local[m])
    BY DEF LiveInv, LoopInv, LocalInv, AppendInv
  <1>2. CASE EndRun(n)
    BY <1>2, EndRunAppend
  <1>3. CASE /\ segment' = [segment EXCEPT ![n] =
                               SegmentOf(BuildFirst(n), BuildLast(n), chain[n])]
             /\ Goto(n, "put") /\ UNCHANGED local
    <2>1. CASE m = n
      <3>1. segment'[m].first = BuildFirst(m)
        BY <1>1, <1>3, <2>1 DEF FunInv, SegmentOf
      <3>2. local[m].segments # {} => local[m].last # 0
        BY <1>1 DEF Validate, IsManifest
      <3>3. CanAppend(local[m], segment'[m])
        BY <3>1, <3>2, Zenon DEF CanAppend, BuildFirst
      <3>. QED
        BY <1>3, <3>3 DEF AppendKept
    <2>2. CASE m # n
      BY <1>1, <1>3, <2>2 DEF Goto, FunInv, AppendKept
    <2>. QED
      BY <2>1, <2>2
  <1>. QED
    BY <1>2, <1>3 DEF buildSegment

(* Publish: the new copy is what was published.                            *)
LEMMA PublishAppend ==
    ASSUME LiveInv, NEW n \in Node, Publish(n), NEW m \in Node
    PROVE  AppendKept(m)
  <1>1. /\ pc[n] = "publish" /\ CanPublish(n) /\ manifest' = NextManifest(n)
        /\ local' = [local EXCEPT ![n] = NextManifest(n)]
        /\ segment' = [segment EXCEPT ![n] = NoSegment]
        /\ pc' = [pc EXCEPT ![n] = IF segment[n].last < ready[n] THEN "build"
                                   ELSE "prune"]
        /\ UNCHANGED <<intact, torn, decayed>> /\ FunInv
    BY DEF Publish, Goto, LiveInv
  <1>2. Validate(manifest')
    BY <1>1, PublishStore DEF GlobalInv, Validate, Covers
  <1>3. CASE m = n
    <2>1. local'[m] = manifest' /\ pc'[m] \in {"build", "prune"}
      BY <1>1, <1>3 DEF FunInv
    <2>. QED
      BY <1>2, <2>1, Zenon DEF AppendKept, Uploading
  <1>4. CASE m # n
    BY <1>1, <1>4 DEF FunInv, AppendKept
  <1>. QED
    BY <1>3, <1>4

(* The steps that leave the copies and the segments alone.                 *)
LEMMA FrameAppend ==
    ASSUME UNCHANGED <<local, segment>>, NEW m \in Node,
           pc'[m] \in Uploading => pc[m] \in Uploading
    PROVE  AppendKept(m)
  BY DEF AppendKept

(* Every step keeps AppendInv.                                             *)
LEMMA AppendNext ==
    ASSUME LiveInv, AppendInv, [Next]_vars
    PROVE  AppendInv'
  <1>. SUFFICES ASSUME NEW m \in Node PROVE AppendKept(m)
    <2>1. ASSUME NEW m \in Node
          PROVE  /\ Validate(local'[m])
                 /\ pc'[m] \in Uploading => CanAppend(local'[m], segment'[m])
      BY <2>1, Zenon DEF AppendInv, AppendKept
    <2>. QED
      BY <2>1 DEF AppendInv, Validate, CanAppend, Covers
  <1>0. FunInv /\ Validate(manifest)
    BY DEF LiveInv, GlobalInv
  <1>1. CASE UNCHANGED vars \/ (\E n \in Node : Ingest(n)) \/ (\E s \in intact : Decay(s))
    <2>1. UNCHANGED <<local, segment, pc>>
      BY <1>1, Zenon DEF vars, loopVars, Ingest, Decay
    <2>. QED
      BY <2>1, FrameAppend
  <1>2. ASSUME NEW n \in Node, Archive(n) PROVE AppendKept(m)
    <2>1. CASE ArchiveReadyFromHead(n)
      BY <1>0, <2>1, FrameAppend
         DEF ArchiveReadyFromHead, Goto, FunInv, Uploading
    <2>2. CASE ArchiveReady(n)
      <3>1. CASE m = n
        <4>1. local'[m] = manifest /\ pc'[m] \in {"prune", "build"}
          BY <1>0, <2>2, <3>1 DEF ArchiveReady, Goto, FunInv
        <4>. QED
          BY <1>0, <4>1, Zenon DEF AppendKept, Uploading
      <3>2. CASE m # n
        BY <1>0, <2>2, <3>2 DEF ArchiveReady, Goto, FunInv, AppendKept
      <3>. QED
        BY <3>1, <3>2
    <2>3. CASE buildSegment(n)
      BY <2>3, BuildAppend
    <2>4. CASE PutNew(n) \/ PutExisting(n)
      BY <1>0, <2>4, FrameAppend
         DEF PutNew, PutExisting, Goto, FunInv, Uploading
    <2>5. CASE verifyStoredSegment(n)
      <3>1. CASE EndRun(n)
        BY <3>1, EndRunAppend
      <3>2. CASE Goto(n, "publish") /\ UNCHANGED <<local, segment>> /\ pc[n] = "readback"
        BY <1>0, <3>2, FrameAppend DEF Goto, FunInv, Uploading
      <3>. QED
        BY <2>5, <3>1, <3>2 DEF verifyStoredSegment
    <2>6. CASE Publish(n)
      BY <2>6, PublishAppend
    <2>7. CASE PublishConflict(n)
      BY <2>7, EndRunAppend DEF PublishConflict
    <2>. QED
      BY <1>2, <2>1, <2>2, <2>3, <2>4, <2>5, <2>6, <2>7 DEF Archive
  <1>3. ASSUME NEW n \in Node, Prune(n) PROVE AppendKept(m)
    <2>1. CASE EndRun(n)
      BY <2>1, EndRunAppend
    <2>2. CASE VerifyArchive(n) \/ VerifyDone(n)
      BY <1>0, <2>2, FrameAppend
         DEF VerifyArchive, VerifyDone, Goto, FunInv, Uploading
    <2>3. CASE UNCHANGED <<local, segment, pc>>
      BY <2>3, FrameAppend
    <2>. QED
      BY <1>3, <2>1, <2>2, <2>3 DEF Prune, SkipPrune, verifySegment, PruneHotStore
  <1>4. ASSUME NEW n \in Node, Fail(n) PROVE AppendKept(m)
    <2>1. CASE PutTorn(n)
      BY <1>0, <2>1, FrameAppend DEF PutTorn, Goto, FunInv, Uploading
    <2>2. CASE EndRun(n)
      BY <2>2, EndRunAppend
    <2>. QED
      BY <1>4, <2>1, <2>2 DEF Fail, PutError, PublishError, ReadError, Kill
  <1>. QED
    BY <1>1, <1>2, <1>3, <1>4 DEF Next

(* What the live loop is about to publish passes Manifest.Validate without *)
(* sorting or checking the manifest itself, for any number of publishers,  *)
(* crashes and failed writes (AppendSegmentInPlace, SaveManifest).         *)
THEOREM LiveAppendsValidate == Spec => []AppendsValidate
  <1>1. Init => AppendInv
    <2>. SUFFICES ASSUME Init, NEW n \in Node
                  PROVE  Validate(local[n]) /\ pc[n] \notin Uploading
      BY DEF AppendInv
    <2>1. local[n] = EmptyManifest /\ pc[n] = "idle"
      BY DEF Init
    <2>. QED
      BY <2>1, EmptyOK DEF Uploading
  <1>2. LiveInv /\ AppendInv /\ [Next]_vars => AppendInv'
    BY AppendNext
  <1>3. LiveInv /\ AppendInv => AppendsValidate
    <2>. SUFFICES ASSUME LiveInv, AppendInv, NEW n \in Node, pc[n] = "publish"
                  PROVE  AppendIsValid(n)
      BY DEF AppendsValidate
    <2>1. /\ IsManifest(local[n]) /\ Validate(local[n]) /\ IsSegment(segment[n])
          /\ CanAppend(local[n], segment[n])
      BY Zenon DEF LiveInv, LoopInv, LocalInv, SegmentInv, Uploading, AppendInv
    <2>2. Validate(AppendSegmentInPlace(local[n], segment[n]))
      BY <2>1, AppendInPlaceValid, Zenon
    <2>. QED
      BY <2>1, <2>2 DEF AppendIsValid
  <1>. QED
    BY <1>1, <1>2, <1>3, LiveInvariance, PTL DEF Spec

(* No manifest names a segment that was never stored with its own bytes    *)
(* (putImmutableSegment before SaveManifest).                              *)
THEOREM LivePublishedStored == Spec => []PublishedStored
  <1>1. LiveInv => PublishedStored
    BY DEF LiveInv, GlobalInv, PublishedStored
  <1>. QED
    BY <1>1, LiveInvariance, PTL

(* Peers that all run in checkpoint mode publish only blocks a checkpoint  *)
(* vouches for (ArchiveHeightLimit).                                       *)
THEOREM LiveArchiveAuthentic ==
    ASSUME Modes \subseteq {"checkpoint"}
    PROVE  Spec => []ArchiveAuthentic
  <1>1. LiveInv => ArchiveAuthentic
    BY DEF LiveInv, GlobalInv, ArchiveAuthentic, CanonSegment, Canon
  <1>. QED
    BY <1>1, LiveInvariance, PTL

(* A manifest write only appends: no publisher overwrites another's        *)
(* progress (SaveManifest's compare-and-swap).                             *)
THEOREM LiveArchiveOnlyGrows == Spec => ArchiveOnlyGrows
  <1>. DEFINE Grows == /\ manifest.segments \subseteq manifest'.segments
                       /\ manifest.last <= manifest'.last
                       /\ manifest.first # 0 => manifest'.first = manifest.first
  <1>1. LiveInv /\ [Next]_vars => [Grows]_vars
    <2>. SUFFICES ASSUME LiveInv, Next PROVE Grows
      BY DEF vars
    <2>1. manifest.last \in Int
      BY BlockFact DEF LiveInv, GlobalInv, IsManifest
    <2>2. CASE manifest' = manifest
      BY <2>1, <2>2
    <2>3. ASSUME NEW n \in Node, pc[n] = "publish", CanPublish(n),
                 manifest' = NextManifest(n), UNCHANGED <<intact, torn, decayed>>
          PROVE  Grows
      BY <2>3, PublishStore, Zenon
    <2>4. \/ manifest' = manifest
          \/ \E n \in Node : /\ pc[n] = "publish" /\ CanPublish(n)
                             /\ manifest' = NextManifest(n)
                             /\ UNCHANGED <<intact, torn, decayed>>
      BY Zenon DEF Next, Ingest, Archive, Prune, Fail, ArchiveReadyFromHead,
             ArchiveReady, buildSegment, PutNew, PutExisting, PutTorn, PutError,
             verifyStoredSegment, Publish, PublishConflict, PublishError,
             SkipPrune, VerifyArchive, verifySegment, VerifyDone, PruneHotStore,
             ReadError, Kill, Decay, storeVars
    <2>. QED
      BY <2>2, <2>3, <2>4
  <1>. QED
    BY <1>1, LiveInvariance, PTL DEF Spec, ArchiveOnlyGrows

============================================================================
