SPECIFICATION FairSpec
CHECK_DEADLOCK FALSE
CONSTANTS
    n1 = n1
    n2 = n2
    n3 = n3
    Nodes = {n1, n2, n3}
    MaxTerm = 1
    MaxLogLen = 3
    MaxRestarts = 0
    MaxDuplicates = 0
    MaxInSnapshotLogToKeep = 0
    Requests <- ProbeAndEntries
    Links <- AllLinks
    Initializers <- OnlyFirst
    InitMembers <- AllVote
    Electors <- Nobody
    Goals <- DropThird
    Snapshotters <- OnlyFirst
    PurgeIndexes <- Nothing
PROPERTY WritesReachEveryNode
PROPERTY ScheduledPurgeHappens
PROPERTY MembershipChangeCompletes
