SPECIFICATION Spec
CHECK_DEADLOCK FALSE
CONSTANTS
    n1 = n1
    n2 = n2
    n3 = n3
    Nodes = {n1, n2, n3}
    MaxTerm = 3
    MaxLogLen = 5
    MaxRestarts = 0
    MaxDuplicates = 0
    MaxInSnapshotLogToKeep = 0
    Requests <- OnlyEntries
    Links <- ChainAndBack
    Initializers <- OnlyFirst
    InitMembers <- AllVote
    Electors <- LastTwo
    Goals <- DropThird
    Snapshotters <- OnlyThird
    PurgeIndexes <- Nothing
INVARIANT MembershipFollowsLog
CONSTRAINT NarrowSearch
