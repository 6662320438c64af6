# A verification project for comet-archive

`comet-archive` is an archive peer for CometBFT chains. It syncs blocks from
other peers into a bounded *hot store*, uploads them as immutable *segments* to
an object store, publishes a *manifest* that lists the segments, prunes hot
blocks that are archived and verified, and serves both hot and archived (*cold*)
blocks to its own peers. This directory holds TLA+ models of that code, TLC
configurations that check them on small instances, and TLAPS proofs.

Paths below are relative to the repository. `PROJECT.json` maps every
definition to the lines it models.

## The system

| part | state | operations | meets |
| --- | --- | --- | --- |
| hot ingestor (`blocksyncarchive/ingest.go`) | block store (base, height, blocks), pending block, authenticated height | `Submit`, restart (`NewHotIngestor`), prune under its lock | reactor, archiver, pruner |
| manifest, segments (`archive/manifest.go`, `segment.go`) | manifest object with a revision; content-addressed segment objects | append, validate, conditional write | every publisher and reader |
| live archiving (`archive/live.go`, `cli/root.go`) | a run's copy of the manifest, its ready height, its segment | load, build, create-if-absent, read back, publish | object store, other publishers |
| verification (`archive/verify.go`) | snapshot, pending segments, cache of verified segments | read every pending segment | object store |
| pruning (`archive/prune.go`) | – | prune height, coverage, boundary hash, delete | hot store |
| migration (`archive/migrate.go`) | range, saved state, legacy state | load, upload and save state per segment, verify all, publish | object store, live publishers |
| request planner (`planner.go`) | ranges, requests in flight, received, no-block and timeout markers | one per method | reactor |
| reactor: syncing (`reactor.go`) | peers, early blocks, planner | one `Receive` goroutine per peer, timer | ingestor, switch |
| reactor: cold serving (`reactor.go`, `cold_source.go`) | budgets, queue, manifest cache and flight, segment cache and flights, load slots, cached range | queue, workers, refresh | object store, hot store |
| object stores (`objectstore.go`, `local_cas.go`, `s3_objectstore.go`) | files, locks and directories, or a bucket | put-if-absent, versioned get, compare-and-swap | used by all of the above |
| segment pools (`verify.go`, `migrate.go`, `hydrate.go`) | jobs channel, workers, results, contexts, cache of block files | submit, read, cancel, consume, write, evict | object store |
| inspect, node, flags, metrics, soak | | | not modelled, see below |

What makes it hard:

* Each access to the object store is separate from the next. Between any two,
  another publisher may act, the process may die, or the answer may be lost
  although the write was applied.
* Verification and deletion happen at different times, on a snapshot.
* Which blocks are authenticated is known only in retrospect, when a checkpoint
  arrives above them. After a restart it must be worked out again.
* `Receive` runs on one goroutine per peer. The reactor's lock is released
  between looking at the planner, submitting a block and sending requests.
* Cold serving has two single-flight caches and a slot limit, each with waiters
  that look again after waiting.
* The file store's conditional write is a sequence of system calls. Several
  processes run it on one directory, and a process may die or the power fail
  between any two calls.

## Modules

| module | models | how |
| --- | --- | --- |
| `Chain` | blocks as the code compares them | A block is its header hash; the header fixes its history (`Ancestry`). Sets say which comparison a block would fail. |
| `HotIngest` | the ingestor of each peer | `Submit`, `Crash`, `Serve` (restart in any mode), `PruneBlocks` |
| `Manifest` | segments and manifests | A segment stands for its key, which holds its hash; revision 0 is "absent". |
| `LiveArchive` | `HotIngest` + object store + maintenance loop per peer | one action per store access; failures of each kind within a budget |
| `ArchivePromise` | abstract specification | an archive that only grows at its end, peers that release only what it holds |
| `Migrate` | migrate commands | next to each other and to a live peer |
| `Planner` | `RequestPlanner` | a record and one operator per method |
| `Blocksync` | the syncing half of the reactor over `HotIngest` and `Planner` | a task per goroutine, one step per stretch of code between locks |
| `ColdServe` | the cold-serving half | a step label per goroutine |
| `ObjectStore` | both object stores | one action per system call of `CompareAndSwap` and `PutIfAbsent`; one per answer of the bucket |
| `AtomicStore` | abstract specification | one value per key, conditional writes that happen at once or not at all, acknowledged ones that last |
| `SegmentPool` | the worker pools of verify, migrate and hydrate, and hydrate's cache | one action per channel operation, context check or file write |
| `MC*` | instances for TLC | |
| `HotIngestProofs`, `LiveArchiveProofs`, `LiveRefinementProofs` | proofs | each extends the one before it |
| `BlocksyncProofs` | proofs | extends `Blocksync` and `HotIngestProofs` |
| `MigrateProofs`, `ObjectStoreProofs`, `ColdServeProofs`, `SegmentPoolProofs` | proofs | each extends the module it is named after |

The correspondence is one action per handler or per stretch of it. Names follow
the code (`Submit`, `handleStatus`, `loadSegment`, `saveMigrationState`).

### Abstractions

* Bytes, encodings, compression, size limits, key text, logging and metrics are
  left out. Two segments are the same object exactly when range and blocks are.
  A segment built with another compression would be another object with the
  same blocks.
* The time of a request is reduced to whether it is overdue; the age of a cache
  entry to whether it may have expired. Both may happen at any time.
* `Exists` and the create-if-absent that follows it are one step. The second
  answers for itself: an object created in between is read back either way.
* A conditional write that reports an error was applied at that moment or never.
  One that arrives later would meet a newer revision or act as another
  publisher's write.
* `ArchiveReadyFromHead` reads head and limit in one step. Its first manifest
  load, whose only effect is an early end, is part of not starting a run.
* In the reactor, the reads of `NextHeight` under the reactor's lock are taken
  together with the section that makes them. Budget and queue of a cold request
  are one step, because nothing reads the two together.
* CometBFT's block store, switch and connections are external. From the way the
  code uses them: a peer that was removed gets no further messages, but a
  handler that already waits for the reactor's lock still runs. For a status that
  is what `sync_ghost` is about; `LateStatus = FALSE` leaves it out.
* In `Migrate` and `LiveArchive` a worker pool is a step per segment, and any bad
  segment may end the run first; the pools themselves are in `SegmentPool`. Saved
  and legacy state are read in one step: nothing in the code writes the legacy key.
* In `ObjectStore` a revision is the content it is the hash of. The directories
  of the keys are made along with one above them. Keys may share a directory or
  not, so syncing one entry may or may not settle another. Making the directory of
  the lock files is left out: it holds nothing that has to last. A file that was
  not synced may be torn after a power loss. Writing the temporary file is one
  step with its sync. No key is written both with `CompareAndSwap` (manifests,
  migration states) and with `PutIfAbsent` (segments).
* The bucket is external: it applies a conditional write at once, and may answer
  that another one is under way. The client library may repeat a request whose
  response was lost, and a request may reach the bucket after its caller gave up
  (one such request in the instance).
* In `SegmentPool` a block file has a size in bytes (`BlockBytes`), and the cache
  limit counts those. Its temporary files and files with other names, which the
  code passes over, are left out. One command runs at a time, and the manifest it
  loads is an input.

## Runs

All bounds are constants of the `.cfg` files.

| run | checks | instance | result |
| --- | --- | --- | --- |
| `hot_ingest` | `HotTypeOK`, `StoreLinked`, `AuthenticatedPrefix`, `LimitMonotone` | a chain of 5 with a fork at 2 and three kinds of bad block, all validation modes, crash and restart | holds, 772 states |
| `live_checkpoint` | type, `PublishedStored`, `PrunedIsArchived`, `ArchiveAuthentic`, `RestartRecovers`, `KeepsPromise`, `PruneOnlyChecked` | one peer in checkpoint mode, 7 heights with a fork and bad blocks, 2 failures of six kinds | holds, 145 thousand |
| `live_shared` | `AppendsValidate`, `ArchiveOnlyGrows`, `KeepsPromise`, `EventuallyArchived`, `EventuallyPruned` | two peers of one chain, 3 heights, 1 failure of four kinds | holds, 206 thousand |
| `live_seam` | `PrunedIsArchived` | two storage-only peers on rival forks | **violated** |
| `sync` | type, `WindowBounded`, `NoStrandedBlock`, `InflightServable`, `ReceivedIsHeld` | two peers, 3 heights, window 2; 2 faults among five kinds (a timeout is one), late status | holds, 1.4 million |
| `sync_progress` | `EventuallySynced` | 2 heights; one honest peer that is never late, one that is silent and misbehaves in one of seven ways; no late status | holds, 298 thousand |
| `sync_ghost` | `EventuallySynced` | a late status | **violated** |
| `sync_blame` | `TimeoutIsSoft` | two peers that send valid blocks, one request that times out | **violated** |
| `cold_serve` | type, `ServedBlock`, `SlotsAccounted`, `SharedLoad`, `AdvertisedServable`, `WorkersReturn` | two workers, one slot, a cache of two blocks, 2 heights, one failed read; or two refreshes racing ingest, archive and prune over 3 heights, hot store and archive starting anywhere | holds, 452 thousand |
| `storage` | `StoreTypeOK`, `IsAtomicStore`; `NoFalseSuccess`, `CacheIsNewest`, `CommandReturns` | two callers, a manifest and a segment, two values, either store, any number of errors, kills and power losses; or one command with two workers, three segments of two blocks, any of them damaged, five hydrations of files of one to three bytes | holds, 398 thousand |
| `migrate` | type, `ProgressStored`, `ProgressNeverLost`, `PublishVerified`, `MigrationKeepsPromise` | two commands of different ranges and segment sizes, legacy state, live peer, growing source, 2 failures | holds, 532 thousand |
| `migrate_progress` | `MigrationCompletes` | two commands for one range, 2 interruptions | holds, 33 thousand |

Why the bounds are enough to be interesting. `hot_ingest` and `live_checkpoint`
have two checkpoints (heights 2 and 4) with blocks below, between and above them
on both branches. `live_checkpoint` has segments of two blocks and tails of one,
more blocks than segment, safety window and retention together, so that ingest,
archiving and pruning overlap, and two failures, so that one may hit while the
other is being recovered from. `live_shared` is smaller, because it checks
liveness for two peers: three blocks, the last of which stays pending, so that the
peers may publish the others as one segment or as two; one failure; and a
retention of one block. `sync` has
three heights and a window of two, so that blocks arrive early, drain and slide
the window; a timeout that passes for every request counts as one of its two
faults. `storage` has two callers and two values, so that a value can be
replaced, lost and come back between two steps of the other caller, and three
segments for two workers, so that one fails while another is read and a third
waits. Its hydrations have no limit, a limit below the size of a block, limits
that are just reached, and a cache that holds more than its limit at the start.

Two runs hold two instances each that share no state (`side` in `MCColdServe` and
`MCStorage` says which). All invariants of `cold_serve` are checked on both. On the
side of the requests the archive may be published as one segment and segmented
anew, or grow, and a peer disconnects only while no request is under way (its
budget is all that a disconnect changes); on the side of the refreshes it grows by
one block at a time. Fairness is assumed for workers only, since refreshes stay
idle on the side where workers run.

Each property was also run against a deliberate mistake in the code it is about
(the definitions marked *Mutant*), and found it.

Deadlock is checked except in the two migration runs, where a migrate command
ends and `MaxRevision` keeps operators from running it for ever, and in `storage`,
where a verify or hydrate command ends. There `CommandReturns` says that nothing
stops before that.

### Fairness

* `FairSpec`: a running maintenance goroutine takes its next step; a dead process
  is restarted. `VerifyArchive` is strongly fair because whether a run reaches
  it depends on the prune interval, which elapses again and again.
* `FairSyncSpec`: handlers finish, the timer fires, requests grow old, persistent
  peers are dialled again. Only the peers that are *not* faulty answer, and they
  do so strongly fairly, because a request may be withdrawn and sent again.
  Nothing is assumed of a faulty peer.
* `ServeFairness`: reads return and every context ends. The second is needed: two
  workers that wait for a slot take and release it in turn, and each may find it
  taken whenever it looks again. Contexts with a timeout make that finite.
* `FairMigrateSpec`: a run goes on, and an operator starts it again after failure.
* `PoolFairness`: the submitter, each worker and the command's own goroutine go on
  and reads return. Nothing makes the context end.

### What the violated runs show

1. `live_seam`. Pruning compares one hash, at the boundary. If two storage-only
   peers on different forks publish into one manifest, blocks below the boundary
   may be deleted that the archive holds in another version. On a single chain,
   and in checkpoint mode, this cannot happen (proved).
2. `sync_ghost`. `handleStatus` does not ask whether the peer is still there. A
   status handled after `RemovePeer` leaves an entry in the planner to which
   requests are assigned and never sent.
3. `sync_blame`. `handleBlockResponse` checks a block's height and request under
   the lock and submits it after unlocking. In between, the request may expire and
   the height be asked of another peer, whose answer is submitted first. The first
   block is then refused for its height, and its sender, whose only fault was to be
   late, is removed and disconnected. `docs/architecture.md` calls a timeout a soft
   failure.

More limits of the code that were met and have no run of their own:

* When all sources of a height have timed out once, `peerForHeight` chooses among
  them by name, always the same one. If that one never answers, the height is not
  asked of the other again. So `EventuallySynced` is checked with an honest peer
  that answers in time; with `"slow"` among the misbehaviours it fails. A shift of
  a peer's range counts as a fault and is bounded.
* A well-formed block that no later block commits to stays the pending block until
  the process is restarted. The bad blocks of `sync_progress` are refused on
  arrival, so `EventuallySynced` does not speak of this case.
* A block that two goroutines take from the buffer (`submitAndDrainBuffered` reads
  it without removing it) is refused for the second, like that of `sync_blame`.
* Hydrating into a cache that already exceeds its limit may end with blocks of the
  range in the place of newer files: the first write deletes what does not fit, and
  smaller blocks fit later. `CacheIsNewest` says of this case only that the result
  is within the limit.
* A worker that uses a cached manifest, or joins a load begun earlier, denies a
  block that was archived and pruned in the meantime. `ServedBlock` says that what
  is sent is right, not that every archived block is sent.
* `makeDirectoriesDurable` syncs the parent only for a directory it finds missing.
  A caller that finds a directory another process has just made writes into it
  and answers success before anybody has synced that directory's own entry; a
  power loss then takes directory and object. `AtomicStore` has `firm` for this:
  acknowledged writes last once the directory does.
* `PutIfAbsent` answers "already exists" for an object whose directory entry the
  process that created it has not synced yet. The caller reads it back, finds it
  intact and may publish a manifest that lists it; a power loss may remove the
  segment. Both need two processes on one directory and a power loss within the
  other's write.
* `Hydrate` returns the error of the first slot in order. If that slot was
  cancelled because a later one failed, the result is `context.Canceled`, although
  nobody cancelled, and the cause is lost. `firstSegmentError` avoids that in
  verify and migrate, and `NoFalseSuccess` states it for those.

## Proofs

The theorems hold for every block tree, every set of peers, checkpoints, modes,
segment sizes, windows and any number of failures. The assumptions are those of
`Chain` (a header names one parent one height below; checkpoints lie on one
chain) and the ranges of the numeric constants; `MigrateAssumption` and
`ServeAssumption` add that there is one source chain, and the latter that there are
finitely many goroutines, whose slots are counted. `PoolAssumption` says that the
cache directory a hydration finds holds finitely many files, and that file sizes
have a bound.

Every invariant and every action property of the runs that hold is a theorem, and
so are the three refinements. `SyncInv`, `PoolInv` and `AcceptedInv` below were
checked with TLC on the instances of `sync`, `storage` and `live_checkpoint` before
they were proved.

* `HotIngestProofs`: `HotTypeCorrect`, `HotStoreLinked`, `HotAuthenticated`,
  `HotLimitMonotone`, `HotRestartRecovers`. That a block is authenticated is learnt only when a
  checkpoint arrives above it, so `AuthenticatedPrefix` is not inductive. `HotInv`
  carries along that every stored block is in the history of each stored block
  above it and of the pending one, and that the recovered or reached checkpoint
  is the pending block, is stored, or was pruned. The startup test repeats the
  comparisons of `validateBlock` over the whole store, so `RestartRecovers` needs
  `AcceptedInv` as well: every stored or pending block passed them. That is so when
  a peer only ever ran in checkpoint mode (`Modes \subseteq {"checkpoint"}`, as in
  the run); over a store filled in another mode startup may rightly fail.
* `LiveArchiveProofs`: `LiveTypeCorrect`, `LiveAppendsValidate`,
  `LivePublishedStored`, `LiveArchiveAuthentic` (if peers only use checkpoint mode)
  and `LiveArchiveOnlyGrows`. The inductive invariant `LiveInv` adds what a goroutine knows at each of its
  steps: its manifest copy equals the published one or has an older revision, so
  a successful conditional write extends what is published; the segment to
  publish was stored intact; the snapshot to prune by is part of what is
  published and was read back segment by segment. For `LiveAppendsValidate` the
  copy of a goroutine must be a valid manifest although it was only ever appended
  to; `AppendInv` adds that its segment begins where its copy ends.
* `LiveRefinementProofs`, for a single chain: `LivePrunedIsArchived`,
  `LivePruneOnlyChecked`, and `LiveKeepsPromise`, the refinement of
  `ArchivePromise`. `SingleChain` says that peers run in checkpoint mode only,
  or that there is one block per height. Without it `live_seam` is a
  counterexample. `LiveRestartRecovers` carries `AcceptedInv` through the composed
  system, where the hot store is pruned by what was archived.
* `ObjectStoreProofs`: `StoreTypeCorrect`, and `StoreIsAtomic`, the refinement of
  `AtomicStore` by both stores, for any number of callers, keys, values and late
  requests. The comparison and the rename of the file store are steps apart, so
  `StoreInv` adds what joins them: whoever has compared holds the key's lock, no
  one replaces the key without it, and so the key still has the value compared
  with; and what is placed has been synced. `StoreAssumption` says that no key is
  used with both operations and that the model's special values differ.
* `MigrateProofs`: `MigrateTypeCorrect`, `SavedProgressStored`,
  `SavedProgressNeverLost`, `MigrationPublishVerified` and
  `MigrationsKeepPromise`, the refinement of `ArchivePromise`, for any number of
  commands. None is inductive, because a command acts on copies. `MigrateInv` says
  what the copies are worth: the state lists segments that were stored intact and
  hold the source's blocks; as long as its revision is the saved one it is not
  behind it; as long as the manifest has the revision found at the start, it is
  empty or has the command's own range.
* `ColdServeProofs`: `ColdTypeCorrect`, `ColdAnswersRight`, `ColdSlotsAccounted`,
  `ColdSharedLoad`, `ColdAdvertisedServable`, for any number of workers, refreshes, clients, slots
  and heights. What a goroutine reads under the lock is old when it is used.
  `ServeInv` says what stays true: a manifest read earlier names segments of the
  chain within the range of the published one; a chosen segment covers the
  height wanted; a segment that is being read is not cached and has one reader;
  taken slots and their holders are equally many. That the published range only
  grows at its end is how `ColdServe` models the archiving side, as
  `LiveKeepsPromise` and `MigrationsKeepPromise` justify. `BoundsInv` is about the
  limits. The size of the segment cache is the number of its (entry, height)
  pairs; moving an entry to the front is a bijection of them, and evicting leaves
  a prefix that fits.
* `BlocksyncProofs`: `SyncTypeCorrect`, `SyncInflightServable`,
  `SyncWindowBounded`, `SyncNoStrandedBlock`, `SyncReceivedIsHeld`, and
  `SyncStoreLinked`, which carries the ingestor's two invariants over to the
  reactor; for any number of peers, any request limit, any block tree and any
  misbehaviour, late statuses included. Each method of the planner has a lemma that
  says what it keeps (`PlannerInv`: requests are with peers that can answer, and only a
  request in flight is overdue) and which heights it may add.
  `SyncInv` puts these next to what a goroutine holds between two locked sections
  (`TaskInv`). The four properties are proved together. A block enters the
  buffer only above the next height, and whoever raises the next height is then in
  the step that looks there; a section that takes a block out of the buffer also
  takes its marker back or has seen it ingested.
* `SegmentPoolProofs`: `PoolNoFalseSuccess` and `PoolCacheIsNewest`, for any number
  of workers and segments and any range, limit and initial cache. `PoolInv` says
  that a slot handed out has exactly one worker or a result, that a cancellation
  has a cause (the caller's context or a bad segment), and that the cache is at
  each write what enforcing the limit once over everything written so far would
  leave, if the cache was within its limit at the start. The lemma behind the
  last part (`FittingOfFitting`) is that keeping the newest files that fit, adding
  others and keeping the newest that fit again loses nothing that one cut at the
  end would keep, whatever the sizes.

Only model-checked: all liveness (`EventuallyArchived`, `EventuallyPruned`,
`EventuallySynced`, `WorkersReturn`, `CommandReturns`, `MigrationCompletes`);
fairness and `ENABLED` are beyond the prover. What recursive definitions compute
would be out of its reach too; the modules use none.

## Not modelled

* The object stores' reads, listings, key syntax and symlink checks; `inspect`.
  They change nothing.
* Sampling in `verifySegment`, and reports.
* Hot serving: one locked read and one send.
* Node construction, flags, configuration, metrics, the soak harness and the
  validator-set HTTP client: wiring, parsing, printing and counters.
* CometBFT's evidence retention while pruning.

## Plan

Done: the modules above, their runs, and the proofs of every safety property.

Next, in this order:

1. `Blocksync` with a pending block that nothing commits to, and with departed
   clients' budgets in `ColdServe`.
2. Pure functions against reference definitions: `segmentForHeight`,
   `mergeAdvertisedRanges`, `ClampRange`.
