---------------------------- MODULE MCHandshake -----------------------------
(***************************************************************************)
(* Three nodes that dial one another, a few times.                         *)
(***************************************************************************)
EXTENDS Handshake

MCNodes == {"n1", "n2", "n3"}
=============================================================================
