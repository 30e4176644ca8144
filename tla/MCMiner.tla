------------------------------ MODULE MCMiner -------------------------------
(***************************************************************************)
(* One solver and jobs of two heights.                                     *)
(***************************************************************************)
EXTENDS Miner

MCSolvers == {"s1"}
MCHeights == {1, 2}
=============================================================================
