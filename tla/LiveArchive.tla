---------------------------- MODULE LiveArchive ----------------------------
(***************************************************************************)
(* Live archiving and verified pruning: the maintenance loop of every      *)
(* archive peer against one shared archive namespace.                      *)
(* (internal/archive/live.go, manifest.go, verify.go, prune.go and         *)
(* internal/cli/root.go)                                                   *)
(*                                                                         *)
(* Each peer's loop is one goroutine: archive what is ready, segment by    *)
(* segment, and then, if archiving did not fail, verify the manifest and   *)
(* prune the hot store.  Every read or write of the object store is a step *)
(* of its own, so peers interleave between any two of them, and the        *)
(* ingestor (HotIngest) runs concurrently with its own peer's loop.        *)
(***************************************************************************)
EXTENDS HotIngest, Manifest

CONSTANTS
    SegmentBlocks,  \* blocks per segment
    SafetyWindow,   \* newest blocks that are not archived yet
    RetainBlocks,   \* newest blocks pruning keeps
    FaultKinds,     \* which failures may happen
    MaxFaults       \* bound: how many of them

ASSUME LiveAssumption ==
    /\ SegmentBlocks \in Nat \ {0}
    /\ SafetyWindow \in Nat
    /\ RetainBlocks \in Nat \ {0}
    /\ MaxFaults \in Nat

VARIABLES
    (* the object store *)
    intact,     \* segments stored under their key with their own bytes
    torn,       \* segments whose key holds other bytes since its upload
    decayed,    \* segments stored intact whose object was damaged later
    manifest,   \* the published manifest; revision 0 while the key is absent
    (* each peer's maintenance goroutine *)
    pc,         \* where it is
    local,      \* the manifest it loaded and will publish against
    ready,      \* ReadyHeight, then the end of the range being archived
    segment,    \* the segment being uploaded
    snapshot,   \* the manifest being verified, then pruned by
    todo,       \* its segments that still have to be verified
    verified,   \* IncrementalVerifier's cache
    (* bookkeeping *)
    checked,    \* history: segments the verifier of this process read intact
    faults      \* failures so far

storeVars == <<intact, torn, decayed, manifest>>
loopVars == <<pc, local, ready, segment, snapshot, todo, verified, checked>>
vars == <<hotVars, storeVars, loopVars, faults>>

Fault(kind) ==
    /\ kind \in FaultKinds
    /\ faults < MaxFaults
    /\ faults' = faults + 1

Min2(a, b) == IF a < b THEN a ELSE b

Goto(n, label) == pc' = [pc EXCEPT ![n] = label]

(* The run ends; tickLoop starts the next one.                             *)
EndRun(n) ==
    /\ pc' = [pc EXCEPT ![n] = "idle"]
    /\ local' = [local EXCEPT ![n] = EmptyManifest]
    /\ ready' = [ready EXCEPT ![n] = 0]
    /\ segment' = [segment EXCEPT ![n] = NoSegment]
    /\ snapshot' = [snapshot EXCEPT ![n] = EmptyManifest]
    /\ todo' = [todo EXCEPT ![n] = {}]

----------------------------------------------------------------------------
(* ArchiveReadyFromHead: the ready height from the head and, in checkpoint *)
(* mode, the authenticated height.  Nothing ready is not an error, so the  *)
(* run goes on to prune.                                                   *)
ArchiveReadyFromHead(n) ==
    LET head == hotHeight[n]
        r == Min2(head - SafetyWindow, ArchiveHeightLimit(n))
    IN
    /\ up[n] /\ pc[n] = "idle"
    /\ IF head > SafetyWindow /\ r > 0
       THEN Goto(n, "load") /\ ready' = [ready EXCEPT ![n] = r]
       ELSE Goto(n, "prune") /\ UNCHANGED ready
    /\ UNCHANGED <<hotVars, storeVars, local, segment, snapshot, todo,
                   verified, checked, faults>>

(* ArchiveReady up to its loop: load the manifest, find the first missing  *)
(* height and the last ready one.                                          *)
FirstMissing(n) ==
    IF manifest.last = 0 THEN hotBase[n] ELSE manifest.last + 1

ArchiveReady(n) ==
    LET end == Min2(ready[n], Min2(hotHeight[n], ArchiveHeightLimit(n)))
    IN
    /\ pc[n] = "load"
    /\ local' = [local EXCEPT ![n] = manifest]
    /\ ready' = [ready EXCEPT ![n] = end]
    /\ IF end < FirstMissing(n) THEN Goto(n, "prune") ELSE Goto(n, "build")
    /\ UNCHANGED <<hotVars, storeVars, segment, snapshot, todo, verified,
                   checked, faults>>

(* The next segment of the loop: blocks first..last read from the hot      *)
(* store.  A missing block ends the run with an error.                     *)
BuildFirst(n) ==
    IF local[n].last = 0 THEN hotBase[n] ELSE local[n].last + 1

BuildLast(n) == Min2(BuildFirst(n) + SegmentBlocks - 1, ready[n])

buildSegment(n) ==
    /\ pc[n] = "build"
    /\ IF \E h \in BuildFirst(n) .. BuildLast(n) : LoadBlock(n, h) = NoBlock
       THEN EndRun(n)
       ELSE /\ segment' = [segment EXCEPT ![n] =
                              SegmentOf(BuildFirst(n), BuildLast(n), chain[n])]
            /\ Goto(n, "put")
            /\ UNCHANGED <<local, ready, snapshot, todo>>
    /\ UNCHANGED <<hotVars, storeVars, verified, checked, faults>>

(* putImmutableSegment: create the object if its key is absent.  An ETag   *)
(* that is the MD5 of the bytes proves the upload and skips the read-back; *)
(* every other success, and an object that was already there, is read back.*)
Stored == intact \cup torn \cup decayed

PutNew(n) ==
    /\ pc[n] = "put" /\ segment[n] \notin Stored
    /\ intact' = intact \cup {segment[n]}
    /\ \E label \in {"readback", "publish"} : Goto(n, label)
    /\ UNCHANGED <<hotVars, torn, decayed, manifest, local, ready, segment,
                   snapshot, todo, verified, checked, faults>>

PutExisting(n) ==
    /\ pc[n] = "put" /\ segment[n] \in Stored
    /\ Goto(n, "readback")
    /\ UNCHANGED <<hotVars, storeVars, local, ready, segment, snapshot, todo,
                   verified, checked, faults>>

(* The upload is stored with other bytes than were sent.                   *)
PutTorn(n) ==
    /\ pc[n] = "put" /\ segment[n] \notin Stored
    /\ Fault("torn")
    /\ torn' = torn \cup {segment[n]}
    /\ Goto(n, "readback")
    /\ UNCHANGED <<hotVars, intact, decayed, manifest, local, ready, segment,
                   snapshot, todo, verified, checked>>

(* The request fails; the object may have been stored nevertheless.        *)
PutError(n) ==
    /\ pc[n] = "put"
    /\ Fault("put")
    /\ \/ UNCHANGED intact
       \/ segment[n] \notin Stored /\ intact' = intact \cup {segment[n]}
    /\ EndRun(n)
    /\ UNCHANGED <<hotVars, torn, decayed, manifest, verified, checked>>

(* Mutant: an object that exists is not read back.                         *)
StoredIsEnough(n) ==
    /\ pc[n] = "readback"
    /\ Goto(n, "publish")
    /\ UNCHANGED <<hotVars, storeVars, local, ready, segment, snapshot, todo,
                   verified, checked, faults>>

(* verifyStoredSegment compares size and SHA-256.                          *)
verifyStoredSegment(n) ==
    /\ pc[n] = "readback"
    /\ IF segment[n] \in intact
       THEN Goto(n, "publish") /\ UNCHANGED <<local, ready, segment, snapshot, todo>>
       ELSE EndRun(n)
    /\ UNCHANGED <<hotVars, storeVars, verified, checked, faults>>

(* AppendSegmentInPlace, then SaveManifest: Validate and one compare-and-  *)
(* swap against the revision that was loaded or last written.              *)
NextManifest(n) ==
    WithRevision(AppendSegmentInPlace(local[n], segment[n]),
                 manifest.revision + 1)

AppendIsValid(n) ==
    /\ CanAppend(local[n], segment[n])
    /\ Validate(AppendSegmentInPlace(local[n], segment[n]))

(* Mutant: the write does not depend on the revision.                      *)
PublishUnconditionally(n) == AppendIsValid(n)

CanPublish(n) == AppendIsValid(n) /\ local[n].revision = manifest.revision

Publish(n) ==
    /\ pc[n] = "publish"
    /\ CanPublish(n)
    /\ manifest' = NextManifest(n)
    /\ local' = [local EXCEPT ![n] = NextManifest(n)]
    /\ segment' = [segment EXCEPT ![n] = NoSegment]
    /\ Goto(n, IF segment[n].last < ready[n] THEN "build" ELSE "prune")
    /\ UNCHANGED <<hotVars, intact, torn, decayed, ready, snapshot, todo,
                   verified, checked, faults>>

(* Mutant: a stale publisher tries again without loading the manifest.     *)
RetryStale(n) ==
    /\ pc[n] = "publish"
    /\ ~CanPublish(n)
    /\ Goto(n, "put")
    /\ UNCHANGED <<hotVars, storeVars, local, ready, segment, snapshot, todo,
                   verified, checked, faults>>

PublishConflict(n) ==
    /\ pc[n] = "publish"
    /\ ~CanPublish(n)
    /\ EndRun(n)
    /\ UNCHANGED <<hotVars, storeVars, verified, checked, faults>>

(* The conditional write reports an error; it may have been applied.       *)
PublishError(n) ==
    /\ pc[n] = "publish"
    /\ Fault("cas")
    /\ \/ UNCHANGED manifest
       \/ CanPublish(n) /\ manifest' = NextManifest(n)
    /\ EndRun(n)
    /\ UNCHANGED <<hotVars, intact, torn, decayed, verified, checked>>

----------------------------------------------------------------------------
(* The second half of a run: runLivePrune.                                 *)

(* The prune interval has not elapsed, or no manifest is published yet.    *)
SkipPrune(n) ==
    /\ pc[n] = "prune"
    /\ EndRun(n)
    /\ UNCHANGED <<hotVars, storeVars, verified, checked, faults>>

(* Mutant: segments enter the verifier's cache before they are read.       *)
CacheBeforeReading(n) ==
    /\ pc[n] = "prune"
    /\ manifest.segments # {}
    /\ snapshot' = [snapshot EXCEPT ![n] = manifest]
    /\ todo' = [todo EXCEPT ![n] = manifest.segments \ verified[n]]
    /\ verified' = [verified EXCEPT ![n] = manifest.segments]
    /\ Goto(n, "verify")
    /\ UNCHANGED <<hotVars, storeVars, local, ready, segment, checked, faults>>

(* verifyArchive: one manifest snapshot; segments the cache already holds  *)
(* are not read again.                                                     *)
VerifyArchive(n) ==
    /\ pc[n] = "prune"
    /\ manifest.segments # {}
    /\ snapshot' = [snapshot EXCEPT ![n] = manifest]
    /\ todo' = [todo EXCEPT ![n] = manifest.segments \ verified[n]]
    /\ Goto(n, "verify")
    /\ UNCHANGED <<hotVars, storeVars, local, ready, segment, verified,
                   checked, faults>>

(* A worker reads one pending segment; the first bad one fails the run.    *)
verifySegment(n, s) ==
    /\ pc[n] = "verify" /\ s \in todo[n]
    /\ IF s \in intact
       THEN /\ todo' = [todo EXCEPT ![n] = @ \ {s}]
            /\ checked' = [checked EXCEPT ![n] = @ \cup {s}]
            /\ UNCHANGED <<pc, local, ready, segment, snapshot>>
       ELSE EndRun(n) /\ UNCHANGED checked
    /\ UNCHANGED <<hotVars, storeVars, verified, faults>>

VerifyDone(n) ==
    /\ pc[n] = "verify" /\ todo[n] = {}
    /\ verified' = [verified EXCEPT ![n] = snapshot[n].segments]
    /\ Goto(n, "pruneHot")
    /\ UNCHANGED <<hotVars, storeVars, local, ready, segment, snapshot, todo,
                   checked, faults>>

(* Mutant: off by one, a block more than RetainBlocks is kept.             *)
RetainOneMore(n) ==
    Min2(Min2(hotHeight[n] - RetainBlocks, snapshot[n].last + 1), hotHeight[n])

(* PruneHotStore, under the ingestor's write lock.                         *)
PruneTo(n) ==
    Min2(Min2(hotHeight[n] - RetainBlocks + 1, snapshot[n].last + 1),
         hotHeight[n])

validatePruneBoundary(n, h) ==
    /\ snapshot[n].first <= h /\ h <= snapshot[n].last
    /\ LoadBlock(n, h) # NoBlock
    /\ LoadBlock(n, h) = ArchivedBlock(snapshot[n], h)

CanPrune(n) ==
    /\ hotBase[n] > 0
    /\ PruneTo(n) > hotBase[n]
    /\ snapshot[n].first <= hotBase[n]
    /\ validatePruneBoundary(n, PruneTo(n) - 1)

(* Mutant: off by one, the block above the checked boundary goes too.      *)
PruneOneMore(n) ==
    /\ pc[n] = "pruneHot"
    /\ IF CanPrune(n) /\ PruneTo(n) < hotHeight[n]
       THEN PruneBlocks(n, PruneTo(n) + 1) ELSE UNCHANGED hotBase
    /\ EndRun(n)
    /\ UNCHANGED <<up, validation, startHeight, pending, chain, hotHeight,
                   verifiedThrough, storeVars, verified, checked, faults>>

PruneHotStore(n) ==
    /\ pc[n] = "pruneHot"
    /\ IF CanPrune(n) THEN PruneBlocks(n, PruneTo(n)) ELSE UNCHANGED hotBase
    /\ EndRun(n)
    /\ UNCHANGED <<up, validation, startHeight, pending, chain, hotHeight,
                   verifiedThrough, storeVars, verified, checked, faults>>

----------------------------------------------------------------------------
(* Failures.                                                               *)

(* A read of the object store fails and with it the run.                   *)
ReadError(n) ==
    /\ pc[n] \in {"load", "readback", "prune", "verify"}
    /\ Fault("get")
    /\ EndRun(n)
    /\ UNCHANGED <<hotVars, storeVars, verified, checked>>

(* The process dies: the ingestor and the verifier cache are gone.         *)
Kill(n) ==
    /\ Fault("crash")
    /\ Crash(n)
    /\ EndRun(n)
    /\ verified' = [verified EXCEPT ![n] = {}]
    /\ checked' = [checked EXCEPT ![n] = {}]
    /\ UNCHANGED storeVars

(* A stored segment is damaged behind the archive's back.                  *)
Decay(s) ==
    /\ s \in intact
    /\ Fault("decay")
    /\ intact' = intact \ {s}
    /\ decayed' = decayed \cup {s}
    /\ UNCHANGED <<hotVars, torn, manifest, loopVars>>

----------------------------------------------------------------------------
Init ==
    /\ HotInit
    /\ intact = {} /\ torn = {} /\ decayed = {}
    /\ manifest = EmptyManifest
    /\ pc = [n \in Node |-> "idle"]
    /\ local = [n \in Node |-> EmptyManifest]
    /\ ready = [n \in Node |-> 0]
    /\ segment = [n \in Node |-> NoSegment]
    /\ snapshot = [n \in Node |-> EmptyManifest]
    /\ todo = [n \in Node |-> {}]
    /\ verified = [n \in Node |-> {}]
    /\ checked = [n \in Node |-> {}]
    /\ faults = 0

Ingest(n) ==
    /\ \/ \E b \in Block : Submit(n, b)
       \/ \E mode \in Modes : Serve(n, mode, manifest.last)
    /\ UNCHANGED <<storeVars, loopVars, faults>>

Archive(n) ==
    \/ ArchiveReadyFromHead(n) \/ ArchiveReady(n) \/ buildSegment(n)
    \/ PutNew(n) \/ PutExisting(n) \/ verifyStoredSegment(n)
    \/ Publish(n) \/ PublishConflict(n)

Prune(n) ==
    \/ SkipPrune(n) \/ VerifyArchive(n)
    \/ \E s \in todo[n] : verifySegment(n, s)
    \/ VerifyDone(n) \/ PruneHotStore(n)

Fail(n) ==
    \/ PutTorn(n) \/ PutError(n) \/ PublishError(n) \/ ReadError(n) \/ Kill(n)

Next ==
    \/ \E n \in Node : Ingest(n) \/ Archive(n) \/ Prune(n) \/ Fail(n)
    \/ \E s \in intact : Decay(s)

Spec == Init /\ [][Next]_vars

----------------------------------------------------------------------------
Labels == {"idle", "load", "build", "put", "readback", "publish", "prune",
           "verify", "pruneHot"}

LiveTypeOK ==
    /\ HotTypeOK
    /\ \A s \in intact \cup torn \cup decayed : IsSegment(s)
    /\ IsManifest(manifest)
    /\ pc \in [Node -> Labels]
    /\ ready \in [Node -> 0 .. MaxHeight]
    /\ \A n \in Node :
          /\ IsManifest(local[n]) /\ IsManifest(snapshot[n])
          /\ segment[n] = NoSegment \/ IsSegment(segment[n])
          /\ \A s \in todo[n] \cup verified[n] \cup checked[n] : IsSegment(s)
    /\ faults \in 0 .. MaxFaults

(* Appending in place is enough: live archiving never sorts a manifest,    *)
(* and what it is about to publish continues what it loaded and passes     *)
(* Manifest.Validate all the same, whatever rivals, crashes and failed or  *)
(* half-failed writes came between.  So SaveManifest refuses a segment     *)
(* only because of a rival, never for ever (ArchiveReady,                  *)
(* AppendSegmentInPlace).                                                  *)
AppendsValidate == \A n \in Node : pc[n] = "publish" => AppendIsValid(n)

(* No manifest names a segment that never was in the store: every one of   *)
(* them was stored with its own bytes before it was published              *)
(* (putImmutableSegment runs before SaveManifest), whatever uploads failed *)
(* or were torn.                                                           *)
PublishedStored == manifest.segments \subseteq intact \cup decayed

(* Pruning loses nothing: every block a peer ever persisted and no longer  *)
(* holds is in the archive, the same block at the same height              *)
(* (PruneHotStore and validatePruneBoundary).                              *)
PrunedIsArchived ==
    \A n \in Node, h \in Heights :
        chain[n][h] # NoBlock /\ h < hotBase[n]
            => ArchivedBlock(manifest, h) = chain[n][h]

(* Peers that all run in checkpoint mode publish only blocks a checkpoint  *)
(* vouches for (ArchiveReadyFromHead, ArchiveHeightLimit).                 *)
ArchiveAuthentic ==
    \A s \in manifest.segments : \A h \in s.first .. s.last :
        s.blocks[h] \in CheckpointChain

(* No publisher overwrites another's progress: a write of the manifest     *)
(* keeps every published segment and the first height (SaveManifest).      *)
ArchiveOnlyGrows ==
    [][/\ manifest.segments \subseteq manifest'.segments
       /\ manifest.last <= manifest'.last
       /\ manifest.first # 0 => manifest'.first = manifest.first]_vars

(* hot_base advances only over blocks whose archived copy this very        *)
(* process read back intact, although it reads every segment at most once  *)
(* (IncrementalVerifier, runLivePrune).                                    *)
PruneOnlyChecked ==
    [][\A n \in Node, h \in Heights :
          hotBase[n] # 0 /\ hotBase[n] <= h /\ h < hotBase'[n] =>
              \E s \in checked[n] :
                  Covers(s, h) /\ s.blocks[h] = chain[n][h]]_vars

----------------------------------------------------------------------------
(* A maintenance goroutine keeps running while its process does; tickLoop  *)
(* fires for ever and the prune interval elapses again and again; a        *)
(* supervisor restarts a dead process.                                     *)
FairSpec ==
    /\ Spec
    /\ \A n \in Node :
          /\ WF_vars(Archive(n)) /\ WF_vars(Prune(n))
          /\ SF_vars(VerifyArchive(n))
          /\ WF_vars(~up[n] /\ Ingest(n))

ReadyToArchive(n, h) ==
    /\ up[n]
    /\ hotBase[n] <= h /\ h <= hotHeight[n] - SafetyWindow
    /\ h <= ArchiveHeightLimit(n)

(* No failure leaves archiving stuck: a block that stays ready is archived *)
(* in the end, whatever crashes, failed requests, lost answers to a        *)
(* conditional write and rival publishers come first.  (Torn uploads are   *)
(* excluded: their key is never written again.)                            *)
EventuallyArchived ==
    \A n \in Node, h \in Heights :
        []<>(ReadyToArchive(n, h) => manifest.last >= h)

(* The hot store stays bounded: it never stays larger than what retention  *)
(* and the archive's progress ask for.                                     *)
EventuallyPruned ==
    \A n \in Node :
        []<>(hotBase[n] > 0 =>
                Min2(hotHeight[n] - RetainBlocks, manifest.last) < hotBase[n])

----------------------------------------------------------------------------
(* The maintenance loops keep the archive's promise: seen through the      *)
(* published manifest and the hot stores, every step extends the archive   *)
(* at its end, stores a block, drops archived blocks, or changes nothing.  *)
Promise == INSTANCE ArchivePromise WITH
    archived <- [h \in Heights |-> ArchivedBlock(manifest, h)],
    held <- [n \in Node |-> {LoadBlock(n, h) : h \in Heights} \ {NoBlock}]

KeepsPromise == Promise!PromiseSpec

============================================================================
