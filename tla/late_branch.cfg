CONSTANTS
    Genesis = "G"
    NoBlock = "none"
    Block <- LateBlock
    Parent <- LateParent
    Height <- LateHeight
    MaxOrphans = 100
    MinHeight = 10
    MaxHeight = 10
SPECIFICATION Spec
INVARIANT Converged
