SPECIFICATION Spec
CHECK_DEADLOCK FALSE
CONSTANTS
    n1 = n1
    n2 = n2
    n3 = n3
    Nodes = {n1, n2, n3}
    MaxTerm = 2
    MaxLogLen = 1
    MaxRestarts = 0
    MaxDuplicates = 0
    MaxInSnapshotLogToKeep = 0
    Requests <- Nothing
    Links <- Chain
    Initializers <- EveryNode
    InitMembers <- AllVote
    Electors <- EveryNode
    Goals <- Nothing
    Snapshotters <- Nobody
    PurgeIndexes <- Nothing
INVARIANT LastSeenVoteCoversVote
