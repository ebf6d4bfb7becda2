SPECIFICATION SpecD
CHECK_DEADLOCK FALSE
CONSTANTS
    n1 = n1
    n2 = n2
    n3 = n3
    Nodes = {n1, n2, n3}
    MaxTerm = 2
    MaxLogLen = 2
    MaxRestarts = 1
    MaxDuplicates = 0
    MaxInSnapshotLogToKeep = 0
    Requests <- OnlyEntries
    Links <- Chain
    Initializers <- OnlyFirst
    InitMembers <- AllVote
    Electors <- OnlySecond
    Goals <- Nothing
    Snapshotters <- Nobody
    PurgeIndexes <- Nothing
    Crashers <- OnlySecond
INVARIANT StateMachineSafety
