SPECIFICATION FairMigrateSpec
CONSTANTS
    MaxHeight = 3
    ForkHeight = 9
    OddBlocks = {}
    NoBlock <- MCNoBlock
    Block <- MCBlock
    HeightOf <- MCHeightOf
    ParentOf <- MCParentOf
    CommitFor <- MCCommitFor
    Ancestry <- MCAncestry
    Checkpoints <- MCCheckpoints
    Malformed <- MCMalformed
    BadCommit <- MCBadCommit
    Unsigned <- MCUnsigned
    WrongValidators <- MCWrongValidators
    MainChain <- MCMainChain
    SourceBase = 1
    Migrator = {"m1", "m2"}
    StartHeight <- MCStartHeight
    EndHeight <- MCSameEnd
    SegmentBlocks <- MCSegmentBlocks
    LegacyEnds = {3}
    LiveHeights = {}
    FaultKinds = {"interrupt"}
    MaxFaults = 2
    MaxRevision = 2
PROPERTIES
    MigrationCompletes
CHECK_DEADLOCK FALSE
