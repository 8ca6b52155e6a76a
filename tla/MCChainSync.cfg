\* Two branches off the first block, of which the node and the peer follow any.
SPECIFICATION SyncSpec
CONSTANTS
    g = g  c1 = c1  a2 = a2  a3 = a3  p2 = p2  p3 = p3  p4 = p4
    Block <- Blocks
    Genesis = g
    Parent <- BlockParent
    Height <- BlockHeight
    MaxHeight = 4
    NoBlock = NoBlock
    Past <- BlockPast
    STABLE_LIMIT = 1
    RUN = 2
    STRIDE = 2
    MAX_BLOCKS = 1
    Relayed <- MCRelayed
INVARIANTS
    SyncTypeOK
    OnlyDeepForksAreTooFar
PROPERTIES
    RewindsToTheirChain
    CatchesUp
