CONSTANTS
  Types <- MCTypes
  Lens <- MCLens
  Batches = {1, 978}
  MaxSigns = 2
  MaxEdits = 1
SPECIFICATION Spec
INVARIANTS
  RoundTrip
  DamageRefused
  ReceiverVerifies
  ChangesNoticed
CHECK_DEADLOCK FALSE
