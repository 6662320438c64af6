SPECIFICATION Spec
CONSTANTS
    MaxHeight = 4
    ForkHeight = 1
    OddBlocks = {}
    NoBlock <- MCNoBlock
    Block <- MCBlock
    HeightOf <- MCHeightOf
    ParentOf <- MCParentOf
    CommitFor <- MCCommitFor
    Ancestry <- MCAncestry
    Checkpoints <- MCCheckpoints
    Malformed <- MCMalformed
    BadCommit <- MCBadCommit
    Unsigned <- MCUnsigned
    WrongValidators <- MCWrongValidators
    Node = {n1, n2}
    Modes = {"storage-only"}
    SegmentBlocks = 2
    SafetyWindow = 0
    RetainBlocks = 1
    FaultKinds = {"cas"}
    MaxFaults = 0
INVARIANTS
    PrunedIsArchived
