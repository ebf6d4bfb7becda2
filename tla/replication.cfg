SPECIFICATION Spec
CHECK_DEADLOCK FALSE
CONSTANTS
    n1 = n1
    n2 = n2
    n3 = n3
    Nodes = {n1, n2, n3}
    MaxTerm = 1
    MaxLogLen = 3
    MaxRestarts = 0
    MaxDuplicates = 1
    MaxInSnapshotLogToKeep = 0
    Requests <- EveryKind
    Links <- AllLinks
    Initializers <- OnlyFirst
    InitMembers <- AllVote
    Electors <- Nobody
    Goals <- Nothing
    Snapshotters <- Nobody
    PurgeIndexes <- Nothing
SYMMETRY OthersSymmetry
 
INVARIANT LogMatching
INVARIANT MatchingIsReplicated
