SPECIFICATION Spec
CONSTANTS
  Solvers <- MCSolvers
  Heights <- MCHeights
  MaxJobs = 3
  MaxCalls = 1
  MaxSolutions = 1
INVARIANTS
  IdNotBeforeHeader
  OneLateSolution
PROPERTIES
  NewHeightStarts
  ShutdownCompletes
CHECK_DEADLOCK FALSE
