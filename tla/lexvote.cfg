SPECIFICATION Spec
CHECK_DEADLOCK FALSE
CONSTANTS
    n1 = n1
    n2 = n2
    n3 = n3
    Nodes = {n1, n2, n3}
    MaxTerm = 1
    MaxLogLen = 1
    MaxRestarts = 0
    MaxDuplicates = 0
    MaxInSnapshotLogToKeep = 0
    Requests <- Nothing
    Links <- AllLinks
    Initializers <- FirstTwo
    InitMembers <- AllVote
    Electors <- Nobody
    Goals <- Nothing
    Snapshotters <- Nobody
    PurgeIndexes <- Nothing
    VoteGT <- LexVoteGT
INVARIANT ElectionSafety
