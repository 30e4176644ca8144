--------------------------- MODULE MCConnections ----------------------------
(***************************************************************************)
(* A node whose cached peer is its boot node as well, and two peers that   *)
(* connect to it, with a table for two and a worker less than connections. *)
(***************************************************************************)
EXTENDS Connections

MCCache == <<"boot">>
MCBootnodes == <<"boot">>
MCInbound == {"in1", "in2"}
=============================================================================
