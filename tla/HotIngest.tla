----------------------------- MODULE HotIngest -----------------------------
(***************************************************************************)
(* The hot ingestor of each archive peer: a CometBFT block store holding   *)
(* heights hotBase..hotHeight and one pending block that is persisted only *)
(* when its successor's LastCommit names it.                               *)
(* (internal/blocksyncarchive/ingest.go)                                   *)
(*                                                                         *)
(* Every method takes HotIngestor.mu, so each is one atomic action.  A     *)
(* rejected Submit changes nothing and is a stuttering step here.          *)
(***************************************************************************)
EXTENDS Chain

CONSTANTS
    Node,       \* archive peers
    Modes       \* validation modes an operator may start a peer with

ASSUME ModesAssumption ==
    Modes \subseteq {"storage-only", "checkpoint", "validator-set"}

VARIABLES
    up,                 \* the process is running with an ingestor
    validation,         \* opts.Validation of the running ingestor
    startHeight,        \* opts.StartHeight, used while the store is empty
    pending,            \* the accepted block that waits for its successor
    chain,              \* blocks ever saved, by height; those below hotBase
                        \* are pruned and kept here only as history
    hotBase,            \* blockStore.Base(), 0 when empty
    hotHeight,          \* blockStore.Height(), 0 when empty
    verifiedThrough     \* highest height reached through a checkpoint

hotVars == <<up, validation, startHeight, pending, chain, hotBase, hotHeight,
             verifiedThrough>>

----------------------------------------------------------------------------
(* CometBFT's block store, from how the ingestor uses it.                  *)

(* LoadBlock returns nil outside base..height.                             *)
LoadBlock(n, h) ==
    IF h \in Heights /\ hotBase[n] <= h /\ h <= hotHeight[n]
    THEN chain[n][h] ELSE NoBlock

(* SaveBlock appends; the first block saved also becomes the base.         *)
SaveBlock(n, b) ==
    /\ chain' = [chain EXCEPT ![n][HeightOf[b]] = b]
    /\ hotHeight' = [hotHeight EXCEPT ![n] = HeightOf[b]]
    /\ hotBase' = [hotBase EXCEPT ![n] = IF @ = 0 THEN HeightOf[b] ELSE @]

(* PruneBlocks(to) deletes base..to-1 and refuses a height outside the     *)
(* store.                                                                  *)
PruneBlocks(n, to) ==
    /\ hotBase[n] < to /\ to <= hotHeight[n]
    /\ hotBase' = [hotBase EXCEPT ![n] = to]

----------------------------------------------------------------------------
NextHeight(n) ==
    IF pending[n] # NoBlock THEN HeightOf[pending[n]] + 1
    ELSE IF hotHeight[n] > 0 THEN hotHeight[n] + 1
    ELSE startHeight[n]

(* Mutant: the limit is forgotten once its checkpoint block is pruned.     *)
LimitOfStored(n) ==
    IF validation[n] # "checkpoint" THEN hotHeight[n]
    ELSE IF LoadBlock(n, verifiedThrough[n]) = NoBlock THEN 0
    ELSE verifiedThrough[n]

(* Mutant: everything persisted may be archived in every mode.             *)
LimitIsHead(n) == hotHeight[n]

ArchiveHeightLimit(n) ==
    IF validation[n] = "checkpoint" THEN verifiedThrough[n] ELSE hotHeight[n]

(* Mutant: the block at a checkpoint height is not compared with it.       *)
SkipCheckpoint(n, b) ==
    /\ b \notin Malformed
    /\ HeightOf[b] > 1 => ParentOf[b] = CommitFor[b]
    /\ validation[n] = "validator-set" => b \notin WrongValidators

validateBlock(n, b) ==
    /\ b \notin Malformed
    /\ HeightOf[b] > 1 => ParentOf[b] = CommitFor[b]
    /\ validation[n] = "checkpoint" /\ HeightOf[b] \in DOMAIN Checkpoints
          => b = Checkpoints[HeightOf[b]]
    /\ validation[n] = "validator-set" => b \notin WrongValidators

(* The first block after a start must extend the persisted head, if any.   *)
ExtendsPersistedHead(n, b) ==
    LoadBlock(n, hotHeight[n]) # NoBlock
        => CommitFor[b] = LoadBlock(n, hotHeight[n])

(* Mutant: the commit is not compared with the pending block.              *)
CommitsAnything(n, b) ==
    /\ b \notin BadCommit
    /\ validation[n] = "validator-set" => b \notin Unsigned

(* Later ones must carry the commit of the pending block.                  *)
CommitsPending(n, b) ==
    /\ CommitFor[b] = pending[n]
    /\ b \notin BadCommit
    /\ validation[n] = "validator-set" => b \notin Unsigned

markCheckpoint(n, b) ==
    verifiedThrough' =
        IF validation[n] = "checkpoint" /\ HeightOf[b] \in DOMAIN Checkpoints
        THEN [verifiedThrough EXCEPT ![n] = HeightOf[b]]
        ELSE verifiedThrough

Accepts(n, b) ==
    /\ validateBlock(n, b)
    /\ HeightOf[b] = NextHeight(n)
    /\ IF pending[n] = NoBlock THEN ExtendsPersistedHead(n, b)
       ELSE CommitsPending(n, b)

Submit(n, b) ==
    /\ up[n] /\ Accepts(n, b)
    /\ IF pending[n] = NoBlock THEN UNCHANGED <<chain, hotBase, hotHeight>>
       ELSE SaveBlock(n, pending[n])
    /\ pending' = [pending EXCEPT ![n] = b]
    /\ markCheckpoint(n, b)
    /\ UNCHANGED <<up, validation, startHeight>>

----------------------------------------------------------------------------
(* A process that dies keeps its block store and loses the rest.           *)
Crash(n) ==
    /\ up[n]
    /\ up' = [up EXCEPT ![n] = FALSE]
    /\ pending' = [pending EXCEPT ![n] = NoBlock]
    /\ verifiedThrough' = [verifiedThrough EXCEPT ![n] = 0]
    /\ UNCHANGED <<validation, startHeight, chain, hotBase, hotHeight>>

StoredCheckpoints(n) ==
    {h \in DOMAIN Checkpoints : hotBase[n] <= h /\ h <= hotHeight[n]}

(* The height NewHotIngestor recovers: the highest checkpoint the store    *)
(* still holds, 0 if none.                                                 *)
IsRecoverable(n, c) ==
    IF StoredCheckpoints(n) = {} THEN c = 0
    ELSE c \in StoredCheckpoints(n) /\ \A h \in StoredCheckpoints(n) : h <= c

(* Mutant: a restart takes any block stored at the checkpoint height.      *)
CheckpointStored(n, c) ==
    c > 0 =>
        \A h \in hotBase[n] + 1 .. c :
            /\ LoadBlock(n, h - 1) # NoBlock
            /\ ParentOf[LoadBlock(n, h)] = LoadBlock(n, h - 1)

(* Its block must be the checkpoint and every stored predecessor linked.   *)
CheckpointIntact(n, c) ==
    c > 0 =>
        /\ LoadBlock(n, c) = Checkpoints[c]
        /\ \A h \in hotBase[n] + 1 .. c :
              /\ LoadBlock(n, h - 1) # NoBlock
              /\ ParentOf[LoadBlock(n, h)] = LoadBlock(n, h - 1)
              /\ ParentOf[LoadBlock(n, h)] = CommitFor[LoadBlock(n, h)]

(* NewHotIngestor over the reopened store.  Startup fails, and the process *)
(* stays down, when the checkpoint test does not pass.                     *)
NewHotIngestor(n, mode, start) ==
    /\ ~up[n]
    /\ up' = [up EXCEPT ![n] = TRUE]
    /\ validation' = [validation EXCEPT ![n] = mode]
    /\ startHeight' = [startHeight EXCEPT ![n] =
                          IF start = 0 THEN hotHeight[n] + 1 ELSE start]
    /\ IF mode = "checkpoint"
       THEN /\ DOMAIN Checkpoints # {}
            /\ \E c \in 0 .. MaxHeight :
                  /\ IsRecoverable(n, c) /\ CheckpointIntact(n, c)
                  /\ verifiedThrough' = [verifiedThrough EXCEPT ![n] = c]
       ELSE UNCHANGED verifiedThrough
    /\ UNCHANGED <<pending, chain, hotBase, hotHeight>>

(* Mutant: off by one.                                                     *)
StartHeightSkips(n, archiveLast) ==
    IF hotHeight[n] = 0 /\ archiveLast > 0 THEN archiveLast + 2 ELSE 0

(* A peer with an empty hot store continues where the archive ends.        *)
liveIngestStartHeight(n, archiveLast) ==
    IF hotHeight[n] = 0 /\ archiveLast > 0 THEN archiveLast + 1 ELSE 0

(* The serve command.                                                      *)
Serve(n, mode, archiveLast) ==
    NewHotIngestor(n, mode, liveIngestStartHeight(n, archiveLast))

----------------------------------------------------------------------------
(* The component on its own: any block may be submitted, any stored prefix *)
(* pruned, and the archive may end at any height when a peer starts.       *)

HotInit ==
    /\ up = [n \in Node |-> FALSE]
    /\ validation \in [Node -> Modes]
    /\ startHeight = [n \in Node |-> 0]
    /\ pending = [n \in Node |-> NoBlock]
    /\ chain = [n \in Node |-> [h \in Heights |-> NoBlock]]
    /\ hotBase = [n \in Node |-> 0]
    /\ hotHeight = [n \in Node |-> 0]
    /\ verifiedThrough = [n \in Node |-> 0]

WithHotStorePrune(n) ==
    /\ up[n]
    /\ \E to \in Heights : PruneBlocks(n, to)
    /\ UNCHANGED <<up, validation, startHeight, pending, chain, hotHeight,
                   verifiedThrough>>

HotNext ==
    \E n \in Node :
        \/ \E b \in Block : Submit(n, b)
        \/ Crash(n)
        \/ \E mode \in Modes, last \in 0 .. MaxHeight : Serve(n, mode, last)
        \/ WithHotStorePrune(n)

HotSpec == HotInit /\ [][HotNext]_hotVars

----------------------------------------------------------------------------
HotTypeOK ==
    /\ up \in [Node -> BOOLEAN]
    /\ validation \in [Node -> Modes]
    /\ startHeight \in [Node -> 0 .. MaxHeight + 1]
    /\ pending \in [Node -> MaybeBlock]
    /\ chain \in [Node -> [Heights -> MaybeBlock]]
    /\ hotBase \in [Node -> 0 .. MaxHeight]
    /\ hotHeight \in [Node -> 0 .. MaxHeight]
    /\ verifiedThrough \in [Node -> 0 .. MaxHeight]

(* The store holds no gap and no seam: whatever restarts, prunes and       *)
(* rejected blocks came between, each stored block's header names the      *)
(* stored block below it (Submit, persistPending).                         *)
StoreLinked ==
    \A n \in Node : \A h \in hotBase[n] .. hotHeight[n] :
        hotBase[n] < h => /\ chain[n][h - 1] # NoBlock
                          /\ ParentOf[chain[n][h]] = chain[n][h - 1]

(* ArchiveHeightLimit is safe to publish up to: in checkpoint mode every   *)
(* stored block at or below it is in the history of a checkpoint, also     *)
(* when the peer was restarted in another mode over the same store.        *)
AuthenticatedPrefix ==
    \A n \in Node : \A h \in Heights :
        /\ up[n] /\ validation[n] = "checkpoint"
        /\ hotBase[n] <= h /\ h <= hotHeight[n] /\ h <= ArchiveHeightLimit(n)
        => LoadBlock(n, h) \in CheckpointChain

(* A peer that always ran in checkpoint mode with the same checkpoints is  *)
(* never locked out by its own store: the startup test passes whenever it  *)
(* is down.                                                                *)
RestartRecovers ==
    \A n \in Node, c \in Heights :
        ~up[n] /\ IsRecoverable(n, c) => CheckpointIntact(n, c)

(* Only a restart may lower the height that may be archived (a pruned or a *)
(* still pending checkpoint is forgotten); a running ingestor never does.  *)
LimitMonotone ==
    [][\A n \in Node : up[n] /\ up'[n] =>
          ArchiveHeightLimit(n) <= ArchiveHeightLimit(n)']_hotVars

============================================================================
