SPECIFICATION MigrateSpec
CONSTANTS
    MaxHeight = 3
    ForkHeight = 9
    OddBlocks = {}
    NoBlock <- MCNoBlock
    Block <- MCBlock
    HeightOf <- MCHeightOf
    ParentOf <- MCParentOf
    CommitFor <- MCCommitFor
    Ancestry <- MCAncestry
    Checkpoints <- MCCheckpoints
    Malformed <- MCMalformed
    BadCommit <- MCBadCommit
    Unsigned <- MCUnsigned
    WrongValidators <- MCWrongValidators
    MainChain <- MCMainChain
    SourceBase = 1
    Migrator = {"m1", "m2"}
    StartHeight <- MCStartHeight
    EndHeight <- MCEndHeight
    SegmentBlocks <- MCSegmentBlocks
    LegacyEnds = {2, 3}
    LiveHeights = {1, 2, 3}
    FaultKinds = {"torn", "interrupt", "decay"}
    MaxFaults = 2
    MaxRevision = 2
INVARIANTS
    MigrateTypeOK
    ProgressStored
PROPERTIES
    ProgressNeverLost
    PublishVerified
    MigrationKeepsPromise
CHECK_DEADLOCK FALSE
