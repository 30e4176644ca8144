--------------------------- MODULE MCChainRestart ---------------------------
(***************************************************************************)
(* A block tree for ChainRestart: three branches on A, and a second block  *)
(* on the genesis block, which a restarted node can still build on.        *)
(***************************************************************************)
EXTENDS ChainRestart

TwoRootsParent ==
    [A |-> "G", B |-> "A", C |-> "B", B1 |-> "A", C1 |-> "B1", D1 |-> "C1",
     C2 |-> "B1", D2 |-> "C2", A2 |-> "G"]
TwoRootsBlock == DOMAIN TwoRootsParent
TwoRootsHeight ==
    [G |-> 0, A |-> 1, B |-> 2, C |-> 3, B1 |-> 2, C1 |-> 3, D1 |-> 4,
     C2 |-> 3, D2 |-> 4, A2 |-> 1]
=============================================================================
