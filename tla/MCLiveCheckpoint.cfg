SPECIFICATION Spec
CONSTANTS
    MaxHeight = 7
    ForkHeight = 2
    OddBlocks = {"malformed", "detached", "badparts"}
    NoBlock <- MCNoBlock
    Block <- MCBlock
    HeightOf <- MCHeightOf
    ParentOf <- MCParentOf
    CommitFor <- MCCommitFor
    Ancestry <- MCAncestry
    Checkpoints <- MCCheckpoints
    Malformed <- MCMalformed
    BadCommit <- MCBadCommit
    Unsigned <- MCUnsigned
    WrongValidators <- MCWrongValidators
    Node = {n1}
    Modes = {"checkpoint"}
    SegmentBlocks = 2
    SafetyWindow = 1
    RetainBlocks = 1
    FaultKinds = {"crash", "torn", "put", "cas", "get", "decay"}
    MaxFaults = 2
INVARIANTS
    LiveTypeOK
    PublishedStored
    PrunedIsArchived
    ArchiveAuthentic
    RestartRecovers
PROPERTIES
    KeepsPromise
    PruneOnlyChecked
