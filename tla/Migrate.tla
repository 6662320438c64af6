------------------------------ MODULE Migrate ------------------------------
(***************************************************************************)
(* The offline backfill: migrate reads a range of a block store, uploads   *)
(* it segment by segment, records its progress in a state object so that a *)
(* later run can resume, and publishes the manifest at the end.            *)
(* (internal/archive/migrate.go, with live.go and blockstore.go)           *)
(*                                                                         *)
(* Several migrate commands may run at once against one archive, next to a *)
(* live archive peer.  Every read or write of the object store is a step   *)
(* of its own.  The state and the manifest are written by compare-and-swap *)
(* against the revision that was read.                                     *)
(***************************************************************************)
EXTENDS Manifest, FiniteSetsExt

CONSTANTS
    Migrator,       \* migrate commands
    StartHeight,    \* Migrator -> opts.StartHeight, 0 for the store's base
    EndHeight,      \* Migrator -> opts.EndHeight, 0 for the store's height
    SegmentBlocks,  \* Migrator -> opts.SegmentBlocks
    MainChain,      \* the blocks of the source store: height -> block
    SourceBase,     \* its base
    LegacyEnds,     \* ends of migrations an older version may have begun
    LiveHeights,    \* heights a live archive peer may publish
    FaultKinds,     \* which failures may happen
    MaxFaults,      \* bound: how many of them
    MaxRevision     \* bound: no run starts once the manifest is that old

ASSUME MigrateAssumption ==
    /\ StartHeight \in [Migrator -> 0 .. MaxHeight]
    /\ EndHeight \in [Migrator -> 0 .. MaxHeight]
    /\ SegmentBlocks \in [Migrator -> Nat \ {0}]
    /\ MainChain \in [Heights -> Block]
    /\ \A h \in Heights : HeightOf[MainChain[h]] = h
    /\ SourceBase \in Heights
    /\ LegacyEnds \subseteq SourceBase .. MaxHeight
    /\ LiveHeights \subseteq Heights
    /\ MaxFaults \in Nat /\ MaxRevision \in Nat

VARIABLES
    sourceHeight,   \* height of the source store
    (* the object store *)
    intact,         \* segments stored with their own bytes
    torn,           \* segments whose key holds other bytes since its upload
    decayed,        \* segments stored intact whose object was damaged later
    manifest,       \* the published manifest; revision 0 while absent
    saved,          \* the migration state; revision 0 while absent
    legacy,         \* the state an older version left at its own key
    (* each migrate command *)
    pc,             \* where it is
    range,          \* start and end after ClampRange
    existing,       \* revision of the manifest it found
    state,          \* its copy of the migration state
    segment,        \* the segment being uploaded
    (* bookkeeping *)
    checked,        \* history: segments this run read back at its end
    faults          \* failures so far

objectVars == <<intact, torn, decayed, manifest, saved, legacy>>
runVars == <<pc, range, existing, state, segment, checked>>
migrateVars == <<sourceHeight, objectVars, runVars, faults>>

Fault(kind) ==
    /\ kind \in FaultKinds
    /\ faults < MaxFaults
    /\ faults' = faults + 1

Goto(m, label) == pc' = [pc EXCEPT ![m] = label]

NoRange == [start |-> 0, end |-> 0]

(* A MigrationState for range r with nothing migrated yet.                 *)
NewState(r) ==
    [revision |-> 0, start |-> r.start, end |-> r.end, next |-> r.start,
     segments |-> {}]

NoState == NewState(NoRange)

(* The same state as it is stored under revision r.                        *)
AtRevision(s, r) ==
    [revision |-> r, start |-> s.start, end |-> s.end, next |-> s.next,
     segments |-> s.segments]

(* The run is over, with or without an error; it may be started again.     *)
EndRun(m) ==
    /\ pc' = [pc EXCEPT ![m] = "idle"]
    /\ range' = [range EXCEPT ![m] = NoRange]
    /\ existing' = [existing EXCEPT ![m] = 0]
    /\ state' = [state EXCEPT ![m] = NoState]
    /\ segment' = [segment EXCEPT ![m] = NoSegment]
    /\ checked' = [checked EXCEPT ![m] = {}]

----------------------------------------------------------------------------
(* ClampRange: the requested range, with the store's own ends by default;  *)
(* it must lie within the store.                                           *)
ClampRange(m) ==
    [start |-> IF StartHeight[m] = 0 THEN SourceBase ELSE StartHeight[m],
     end |-> IF EndHeight[m] = 0 THEN sourceHeight ELSE EndHeight[m]]

(* Mutant: the end is not compared with the store's height.                *)
AnyEnd(r) == SourceBase <= r.start /\ r.start <= r.end

InSource(r) ==
    SourceBase <= r.start /\ r.start <= r.end /\ r.end <= sourceHeight

Migrate(m) ==
    /\ pc[m] = "idle"
    /\ manifest.revision < MaxRevision
    /\ InSource(ClampRange(m))
    /\ range' = [range EXCEPT ![m] = ClampRange(m)]
    /\ Goto(m, "manifest")
    /\ UNCHANGED <<sourceHeight, objectVars, existing, state, segment, checked,
                   faults>>

(* A manifest that is already there must be for the very same range.       *)
LoadExisting(m) ==
    /\ pc[m] = "manifest"
    /\ IF \/ manifest.last = 0
          \/ manifest.first = range[m].start /\ manifest.last = range[m].end
       THEN /\ existing' = [existing EXCEPT ![m] = manifest.revision]
            /\ Goto(m, "state")
            /\ UNCHANGED <<range, state, segment, checked>>
       ELSE EndRun(m)
    /\ UNCHANGED <<sourceHeight, objectVars, faults>>

(* validateMigrationState: completed segments from start up to next.       *)
validateMigrationState(s) ==
    /\ 0 < s.start /\ s.start <= s.end
    /\ s.start <= s.next /\ s.next <= s.end + 1
    /\ \A g \in s.segments : IsSegment(g) /\ s.start <= g.first /\ g.last < s.next
    /\ \A h \in s.start .. s.next - 1 :
          \E g \in s.segments :
              /\ Covers(g, h)
              /\ \A f \in s.segments : Covers(f, h) => f = g

SameRange(s, r) == s.start = r.start /\ s.end = r.end

(* Mutant: the state keeps the revision of the key it was read from.       *)
KeepsLegacyRevision(m) ==
    IF saved.revision > 0 THEN saved
    ELSE IF legacy.revision > 0 THEN legacy
    ELSE NewState(range[m])

(* The saved state, else the one at the legacy key, which has no revision  *)
(* at the new key, else a new one.                                         *)
FoundState(m) ==
    IF saved.revision > 0 THEN saved
    ELSE IF legacy.revision > 0 THEN AtRevision(legacy, 0)
    ELSE NewState(range[m])

LoadState(m) ==
    /\ pc[m] = "state"
    /\ IF validateMigrationState(FoundState(m)) /\ SameRange(FoundState(m), range[m])
       THEN /\ state' = [state EXCEPT ![m] = FoundState(m)]
            /\ Goto(m, IF saved.revision = 0 /\ legacy.revision > 0
                       THEN "save" ELSE "build")
            /\ UNCHANGED <<range, existing, segment, checked>>
       ELSE EndRun(m)
    /\ UNCHANGED <<sourceHeight, objectVars, faults>>

----------------------------------------------------------------------------
(* The loop: buildAndUploadSegment, then the state.                        *)

SegmentLast(m) == Min({state[m].next + SegmentBlocks[m] - 1, range[m].end})

(* Nothing to upload any more means that only verification is left.        *)
buildSegment(m) ==
    /\ pc[m] = "build"
    /\ IF state[m].next > range[m].end
       THEN Goto(m, "verify") /\ UNCHANGED segment
       ELSE /\ segment' = [segment EXCEPT ![m] =
                  SegmentOf(state[m].next, SegmentLast(m), MainChain)]
            /\ Goto(m, "put")
    /\ UNCHANGED <<sourceHeight, objectVars, range, existing, state, checked,
                   faults>>

appendSegment(segments, s) ==
    {g \in segments : g.first # s.first \/ g.last # s.last} \cup {s}

Uploaded(m) ==
    [revision |-> state[m].revision, start |-> state[m].start,
     end |-> state[m].end, next |-> segment[m].last + 1,
     segments |-> appendSegment(state[m].segments, segment[m])]

Stored == intact \cup torn \cup decayed

(* putImmutableSegment, as in live archiving.  A stored object is complete *)
(* when its upload proved itself or when it reads back intact.             *)
PutSegment(m) ==
    /\ pc[m] = "put"
    /\ \/ /\ segment[m] \notin Stored
          /\ intact' = intact \cup {segment[m]}
          /\ \/ /\ Goto(m, "save")
                /\ state' = [state EXCEPT ![m] = Uploaded(m)]
             \/ Goto(m, "readback") /\ UNCHANGED state
          /\ UNCHANGED <<torn, faults>>
       \/ /\ segment[m] \in Stored
          /\ Goto(m, "readback")
          /\ UNCHANGED <<intact, torn, state, faults>>
       \/ /\ segment[m] \notin Stored
          /\ Fault("torn")
          /\ torn' = torn \cup {segment[m]}
          /\ Goto(m, "readback")
          /\ UNCHANGED <<intact, state>>
    /\ UNCHANGED <<sourceHeight, decayed, manifest, saved, legacy, range,
                   existing, segment, checked>>

(* Mutant: an object that exists is not read back.                         *)
StoredIsEnough(m) ==
    /\ pc[m] = "readback"
    /\ state' = [state EXCEPT ![m] = Uploaded(m)]
    /\ Goto(m, "save")
    /\ UNCHANGED <<range, existing, segment, checked>>
    /\ UNCHANGED <<sourceHeight, objectVars, faults>>

verifyStoredSegment(m) ==
    /\ pc[m] = "readback"
    /\ IF segment[m] \in intact
       THEN /\ state' = [state EXCEPT ![m] = Uploaded(m)]
            /\ Goto(m, "save")
            /\ UNCHANGED <<range, existing, segment, checked>>
       ELSE EndRun(m)
    /\ UNCHANGED <<sourceHeight, objectVars, faults>>

(* Mutant: the write does not depend on the revision.                      *)
SaveUnconditionally(m) == validateMigrationState(state[m])

CanSave(m) ==
    /\ validateMigrationState(state[m])
    /\ state[m].revision = saved.revision

SavedNext(m) == AtRevision(state[m], saved.revision + 1)

saveMigrationState(m) ==
    /\ pc[m] = "save"
    /\ IF CanSave(m)
       THEN /\ saved' = SavedNext(m)
            /\ state' = [state EXCEPT ![m] = SavedNext(m)]
            /\ segment' = [segment EXCEPT ![m] = NoSegment]
            /\ Goto(m, "build")
            /\ UNCHANGED <<range, existing, checked>>
       ELSE EndRun(m) /\ UNCHANGED saved
    /\ UNCHANGED <<sourceHeight, intact, torn, decayed, manifest, legacy, faults>>

----------------------------------------------------------------------------
(* Mutant: what an earlier run completed is taken from the state on trust. *)
VerifyNothing(m) ==
    /\ pc[m] = "verify"
    /\ Goto(m, "publish")
    /\ UNCHANGED <<range, existing, state, segment, checked>>
    /\ UNCHANGED <<sourceHeight, objectVars, faults>>

(* verifyCompletedMigrationSegments: workers read every segment of the     *)
(* state; one bad segment fails the run.                                   *)
verifyCompletedMigrationSegments(m) ==
    /\ pc[m] = "verify"
    /\ LET left == state[m].segments \ checked[m]
       IN  \/ /\ left = {}
              /\ Goto(m, "publish")
              /\ UNCHANGED <<range, existing, state, segment, checked>>
           \/ \E s \in left \cap intact :
                 /\ checked' = [checked EXCEPT ![m] = @ \cup {s}]
                 /\ UNCHANGED <<pc, range, existing, state, segment>>
           \/ left \ intact # {} /\ EndRun(m)
    /\ UNCHANGED <<sourceHeight, objectVars, faults>>

(* NewManifest over all segments of the state.                             *)
NewManifest(segments) ==
    [revision |-> 0,
     first |-> Min({s.first : s \in segments}),
     last |-> Max({s.last : s \in segments}),
     segments |-> segments]

(* Mutant: the write does not depend on the revision.                      *)
ReplaceManifest(m) == Validate(NewManifest(state[m].segments))

CanPublish(m) ==
    /\ Validate(NewManifest(state[m].segments))
    /\ existing[m] = manifest.revision

Published(m) ==
    WithRevision(NewManifest(state[m].segments), manifest.revision + 1)

(* SaveManifest against the revision found at the start.                   *)
PublishMigration(m) ==
    /\ pc[m] = "publish"
    /\ manifest' = IF CanPublish(m) THEN Published(m) ELSE manifest
    /\ EndRun(m)
    /\ UNCHANGED <<sourceHeight, intact, torn, decayed, saved, legacy, faults>>

----------------------------------------------------------------------------
(* Failures and the rest of the world.                                     *)

(* The command dies, or a request to the object store fails; a write may   *)
(* have been applied nevertheless.                                         *)
Interrupt(m) ==
    /\ pc[m] # "idle"
    /\ Fault("interrupt")
    /\ \/ UNCHANGED <<intact, saved, manifest>>
       \/ /\ pc[m] = "put" /\ segment[m] \notin Stored
          /\ intact' = intact \cup {segment[m]}
          /\ UNCHANGED <<saved, manifest>>
       \/ /\ pc[m] = "save" /\ CanSave(m)
          /\ saved' = SavedNext(m)
          /\ UNCHANGED <<intact, manifest>>
       \/ /\ pc[m] = "publish" /\ CanPublish(m)
          /\ manifest' = Published(m)
          /\ UNCHANGED <<intact, saved>>
    /\ EndRun(m)
    /\ UNCHANGED <<sourceHeight, torn, decayed, legacy>>

(* A stored segment is damaged behind the archive's back.                  *)
Decay(s) ==
    /\ s \in intact
    /\ Fault("decay")
    /\ intact' = intact \ {s}
    /\ decayed' = decayed \cup {s}
    /\ UNCHANGED <<sourceHeight, torn, manifest, saved, legacy, runVars>>

(* Between two runs the node that owns the source may run and grow it.     *)
SourceGrows ==
    /\ sourceHeight < MaxHeight
    /\ sourceHeight' = sourceHeight + 1
    /\ UNCHANGED <<objectVars, runVars, faults>>

(* A live archive peer of the same chain appends to the archive, or starts *)
(* an empty one (LiveArchive's Publish).                                   *)
LivePublishes ==
    /\ \E h \in LiveHeights :
          LET s == SegmentOf(h, h, MainChain)
          IN  /\ CanAppend(manifest, s)
              /\ s \notin torn \cup decayed
              /\ intact' = intact \cup {s}
              /\ manifest' = WithRevision(AppendSegmentInPlace(manifest, s),
                                          manifest.revision + 1)
    /\ UNCHANGED <<sourceHeight, torn, decayed, saved, legacy, runVars, faults>>

----------------------------------------------------------------------------
LegacyStates ==
    {[revision |-> 1, start |-> SourceBase, end |-> e, next |-> k + 1,
      segments |-> {SegmentOf(SourceBase, k, MainChain)}] :
        e \in LegacyEnds, k \in SourceBase .. MaxHeight}

MigrateInit ==
    /\ sourceHeight \in SourceBase .. MaxHeight
    /\ legacy \in {NoState} \cup 
          {s \in LegacyStates : s.next <= s.end + 1 /\ s.end <= sourceHeight}
    /\ intact = legacy.segments /\ torn = {} /\ decayed = {}
    /\ manifest = EmptyManifest
    /\ saved = NoState
    /\ pc = [m \in Migrator |-> "idle"]
    /\ range = [m \in Migrator |-> NoRange]
    /\ existing = [m \in Migrator |-> 0]
    /\ state = [m \in Migrator |-> NoState]
    /\ segment = [m \in Migrator |-> NoSegment]
    /\ checked = [m \in Migrator |-> {}]
    /\ faults = 0

Step(m) ==
    \/ LoadExisting(m) \/ LoadState(m) \/ buildSegment(m) \/ PutSegment(m)
    \/ verifyStoredSegment(m) \/ saveMigrationState(m)
    \/ verifyCompletedMigrationSegments(m) \/ PublishMigration(m)

MigrateNext ==
    \/ \E m \in Migrator : Migrate(m) \/ Step(m) \/ Interrupt(m)
    \/ \E s \in intact : Decay(s)
    \/ SourceGrows \/ LivePublishes

MigrateSpec == MigrateInit /\ [][MigrateNext]_migrateVars

----------------------------------------------------------------------------
IsState(s) ==
    /\ s.revision \in Nat
    /\ {s.start, s.end} \subseteq 0 .. MaxHeight
    /\ s.next \in 0 .. MaxHeight + 1
    /\ \A g \in s.segments : IsSegment(g)

MigrateTypeOK ==
    /\ sourceHeight \in SourceBase .. MaxHeight
    /\ \A s \in intact \cup torn \cup decayed : IsSegment(s)
    /\ IsManifest(manifest)
    /\ IsState(saved) /\ IsState(legacy)
    /\ pc \in [Migrator -> {"idle", "manifest", "state", "build", "put",
                            "readback", "save", "verify", "publish"}]
    /\ \A m \in Migrator :
          /\ {range[m].start, range[m].end} \subseteq 0 .. sourceHeight
          /\ existing[m] \in Nat
          /\ IsState(state[m])
          /\ segment[m] = NoSegment \/ IsSegment(segment[m])
          /\ checked[m] \subseteq intact \cup decayed
    /\ faults \in 0 .. MaxFaults

(* What a later run resumes from is true: the saved state is contiguous up *)
(* to next_height and names only segments of source blocks that were       *)
(* stored, whatever runs raced, failed or were torn (saveMigrationState    *)
(* comes after buildAndUploadSegment).                                     *)
ProgressStored ==
    saved.revision > 0 =>
        /\ validateMigrationState(saved)
        /\ saved.segments \subseteq intact \cup decayed
        /\ \A s \in saved.segments : \A h \in s.first .. s.last :
              s.blocks[h] = MainChain[h]

(* Two runs never undo each other's progress: next_height of the saved     *)
(* state only grows and completed segments stay (saveMigrationState).      *)
ProgressNeverLost ==
    [][saved.revision > 0 =>
          saved.next <= saved'.next /\ saved.segments \subseteq saved'.segments]_migrateVars

(* The manifest a migration publishes names only segments that this very   *)
(* run read back intact, those of earlier runs included                    *)
(* (verifyCompletedMigrationSegments before SaveManifest).                 *)
PublishVerified ==
    [][\A m \in Migrator :
          pc[m] = "publish" /\ pc'[m] # "publish" /\ manifest' # manifest =>
              manifest'.segments \subseteq checked[m]]_migrateVars

(* Migrations, next to each other and to a live archive peer, keep the     *)
(* archive's promise: what is archived is extended at its end or published *)
(* again in other segments; no block disappears or changes (Migrate's      *)
(* check of the existing manifest, SaveManifest).                          *)
Promise == INSTANCE ArchivePromise WITH
    Node <- {},
    archived <- [h \in Heights |-> ArchivedBlock(manifest, h)],
    held <- [n \in {} |-> {}]

MigrationKeepsPromise == Promise!PromiseSpec

----------------------------------------------------------------------------
(* An operator runs a failed migration again, and a run that goes on gets  *)
(* somewhere.                                                              *)
FairMigrateSpec ==
    /\ MigrateSpec
    /\ \A m \in Migrator : WF_migrateVars(Migrate(m)) /\ WF_migrateVars(Step(m))

(* A migration that failed can be run again until it is done: the blocks   *)
(* of the requested range are archived in the end, whatever interruptions, *)
(* rival runs and lost answers come first (Migrate).                       *)
MigrationCompletes ==
    \A m \in Migrator :
        InSource(ClampRange(m)) ~>
            \A h \in ClampRange(m).start .. ClampRange(m).end :
                ArchivedBlock(manifest, h) = MainChain[h]

============================================================================
