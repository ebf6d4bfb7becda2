SPECIFICATION Spec
CHECK_DEADLOCK FALSE
CONSTANTS
    n1 = n1
    n2 = n2
    n3 = n3
    Nodes = {n1, n2, n3}
    MaxTerm = 2
    MaxLogLen = 3
    MaxRestarts = 1
    MaxDuplicates = 0
    MaxInSnapshotLogToKeep = 1
    Requests <- OnlyEntries
    Links <- Chain
    Initializers <- OnlyFirst
    InitMembers <- AllVote
    Electors <- OnlySecond
    Goals <- Nothing
    Snapshotters <- LastTwo
    PurgeIndexes <- PurgeAtOneOrTwo
INVARIANT TypeOK
INVARIANT WatermarksOrdered
INVARIANT AssertionsHold
INVARIANT StateMachineSafety
INVARIANT LeadingStateFollowsVote
PROPERTY ImplementsReplicatedLog
PROPERTY LeaderPurgeWaitsForFollowers
