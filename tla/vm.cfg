SPECIFICATION Spec
CONSTANTS
  Instructions <- Written
  MaxOps = 6
  Modules <- AllModules
  MaxRuns = 2
  MaxLoops = 1
INVARIANTS
  BlockLengths CallStackAgrees NoStructuralPanic Repeatable
CHECK_DEADLOCK FALSE
