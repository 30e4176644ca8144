SPECIFICATION Spec
CONSTANTS
  Nodes <- MCNodes
  MaxDials = 3
INVARIANTS
  SessionKeysAgree
  ServersHaveClients
PROPERTIES
  HandshakeEnds
CHECK_DEADLOCK FALSE
