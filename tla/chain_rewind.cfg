CONSTANTS
    Genesis = "G"
    NoBlock = "none"
    Block <- MixedBlock
    Parent <- MixedParent
    Height <- MixedHeight
    MaxOrphans = 100
    MinHeight = 10
    MaxHeight = 10
SPECIFICATION SpecWithRewind
CHECK_DEADLOCK FALSE
PROPERTIES NeverForgotten StackOfBlocks
