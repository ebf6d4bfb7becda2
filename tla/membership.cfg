SPECIFICATION Spec
CHECK_DEADLOCK FALSE
CONSTANTS
    n1 = n1
    n2 = n2
    n3 = n3
    Nodes = {n1, n2, n3}
    MaxTerm = 2
    MaxLogLen = 4
    MaxRestarts = 1
    MaxDuplicates = 0
    MaxInSnapshotLogToKeep = 0
    Requests <- OnlyEntries
    Links <- Chain
    Initializers <- OnlyFirst
    InitMembers <- AllVote
    Electors <- OnlySecond
    Goals <- ShrinkToOne
    Snapshotters <- Nobody
    PurgeIndexes <- Nothing
INVARIANT MembershipFollowsLog
INVARIANT CommittedMembershipIsCommitted
PROPERTY LeaderStaysUntilCommitted
INVARIANT AssertionsHold
INVARIANT RefusedWriteGoesElsewhere
INVARIANT StateMachineSafety
INVARIANT LogMatching
