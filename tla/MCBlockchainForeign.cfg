\* Expected violation: a copied node executes a block on a foreign snapshot.
SPECIFICATION Spec
CONSTANTS
    g = g  a1 = a1  a2 = a2  a3 = a3  b1 = b1  b2 = b2  b3 = b3  x2 = x2
    Block <- TwoBranches
    Genesis <- g
    Parent <- TwoBranchesParent
    Height <- TwoBranchesHeight
    MaxHeight = 3
    NoBlock = NoBlock
    STABLE_LIMIT = 2
    Word = 64
    Offered = {}
    Faults = {"copy"}
    MaxCommits = 8
    MaxRewinds = 0
    MaxCrashes = 1
INVARIANTS
    SnapshotsFollowTips
\* The bounds, and a tree whose blocks are all filed, let the node stop.
CHECK_DEADLOCK FALSE
