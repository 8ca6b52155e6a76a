\* A node on the lower branch, whose process dies between two writes and whose block files
\* cannot be written, while peers offer the higher branch.
SPECIFICATION FairSpec
CONSTANTS
    g = g  a1 = a1  a2 = a2  a3 = a3  b1 = b1  b2 = b2  b3 = b3  x2 = x2
    Block <- LongerBranch
    Genesis <- g
    Parent <- LongerBranchParent
    Height <- LongerBranchHeight
    MaxHeight = 3
    NoBlock = NoBlock
    STABLE_LIMIT = 2
    Word = 64
    Offered <- HigherChain
    Faults = {"crash", "io"}
    MaxCommits = 7
    MaxRewinds = 0
    MaxCrashes = 2
INVARIANTS
    TypeOK
    RecordsNameTheirState
    SnapshotsFollowTips
    TopSurvivesCrash
PROPERTIES
    LockReleased
    ReachesOfferedHeight
\* The bounds, and a tree whose blocks are all filed, let the node stop.
CHECK_DEADLOCK FALSE
