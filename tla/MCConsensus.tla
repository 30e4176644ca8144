---------------------------- MODULE MCConsensus -----------------------------
(***************************************************************************)
(* A small instance of Consensus: two branches under the root, one of them *)
(* with an event whose stamp is wrong and an event that follows it, the    *)
(* other with two events of one node in a row.                             *)
(***************************************************************************)
EXTENDS Consensus

MCEvents == {"a", "b", "c", "d", "e", "f", "x", "y"}
MCNode ==
  [root |-> 1, a |-> 1, b |-> 2, c |-> 1, d |-> 2, e |-> 2, f |-> 3, x |-> 2, y |-> 1]
MCParent ==
  [a |-> "root", b |-> "a", c |-> "b", d |-> "root", e |-> "d", f |-> "b", x |-> "a", y |-> "x"]
MCGoodStamps == MCEvents \ {"x"}
MCPools == {{1, 2}, {1, 2, 3}, {2, 3}}
=============================================================================
