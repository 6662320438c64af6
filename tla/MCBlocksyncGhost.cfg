SPECIFICATION FairSyncSpec
CONSTANTS
    MaxHeight = 2
    ForkHeight = 9
    OddBlocks = {"malformed"}
    NoBlock <- MCNoBlock
    Block <- MCBlock
    HeightOf <- MCHeightOf
    ParentOf <- MCParentOf
    CommitFor <- MCCommitFor
    Ancestry <- MCAncestry
    Checkpoints <- MCCheckpoints
    Malformed <- MCMalformed
    BadCommit <- MCBadCommit
    Unsigned <- MCUnsigned
    WrongValidators <- MCWrongValidators
    Node = {n1}
    Self = n1
    Modes = {"storage-only"}
    Peer = {1, 2}
    RequestLimit = 2
    Advertised <- MCAdvertised
    OddRanges <- MCOddRanges
    Faulty = {1}
    Misbehaviour = {"silent", "drop"}
    MaxFaults = 1
    LateStatus = TRUE
PROPERTIES
    EventuallySynced
