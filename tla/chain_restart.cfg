CONSTANTS
    Genesis = "G"
    NoBlock = "none"
    Block <- TwoRootsBlock
    Parent <- TwoRootsParent
    Height <- TwoRootsHeight
    MaxOrphans = 3
    MinHeight = 1
    MaxHeight = 2
SPECIFICATION RestartSpec
INVARIANTS UsableStore PoolBounded
