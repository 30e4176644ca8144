SPECIFICATION Spec
CONSTANTS
  Cache <- MCCache
  BOOTNODES <- MCBootnodes
  Inbound <- MCInbound
  max_peers = 2
  Workers = 3
INVARIANTS
  ClosedOnlyWhenFull
  EntryFollowsReader
PROPERTIES
  WriterFollowsReader
CHECK_DEADLOCK FALSE
