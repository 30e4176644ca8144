CONSTANTS
    Genesis = "G"
    NoBlock = "none"
    Block <- StressBlock
    Parent <- StressParent
    Height <- StressHeight
    MaxOrphans = 100
    MinHeight = 10
    MaxHeight = 10
SPECIFICATION FairSpec
INVARIANTS NoPanic MapsAgree Converged HighestWins
PROPERTIES AppendReturns
