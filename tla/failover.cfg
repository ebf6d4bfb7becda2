SPECIFICATION Spec
CHECK_DEADLOCK FALSE
CONSTANTS
    n1 = n1
    n2 = n2
    n3 = n3
    Nodes = {n1, n2, n3}
    MaxTerm = 2
    MaxLogLen = 3
    MaxRestarts = 0
    MaxDuplicates = 0
    MaxInSnapshotLogToKeep = 0
    Requests <- OnlyEntries
    Links <- AllLinks
    Initializers <- OnlyFirst
    InitMembers <- AllVote
    Electors <- OnlySecond
    Goals <- Nothing
    Snapshotters <- Nobody
    PurgeIndexes <- Nothing
INVARIANT StateMachineSafety
INVARIANT LeaderCompleteness
PROPERTY ImplementsReplicatedLog
