SPECIFICATION SpecS5
CHECK_DEADLOCK FALSE
CONSTANTS
    n1 = n1
    n2 = n2
    n3 = n3
    Nodes = {n1, n2, n3}
    MaxTerm = 1
    MaxLogLen = 2
    MaxRestarts = 0
    MaxDuplicates = 0
    MaxInSnapshotLogToKeep = 0
    Requests <- Nothing
    Links <- AllLinks
    Initializers <- OnlyFirst
    InitMembers <- AllVote
    Electors <- Nobody
    Goals <- Nothing
    Snapshotters <- Nobody
    PurgeIndexes <- Nothing
INVARIANT AssertionsHold
