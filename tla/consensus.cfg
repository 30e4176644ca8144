SPECIFICATION Spec
CONSTANTS
  Events <- MCEvents
  Root = "root"
  Node <- MCNode
  Parent <- MCParent
  GoodStamps <- MCGoodStamps
  NodeId = 1
  Pools <- MCPools
  MaxEpoch = 3
  StampSpace = 64
INVARIANTS
  OrderForgotten
  VotesAreSingle
  ProposalsFallShort
  IdentitiesDisjoint
  FollowerIsHighest
PROPERTIES
  PushReturns
CHECK_DEADLOCK FALSE
