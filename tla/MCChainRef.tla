----------------------------- MODULE MCChainRef -----------------------------
(***************************************************************************)
(* Two readers, a chain of two blocks with a competing second block, and a *)
(* cache that holds one block less than there are.                         *)
(***************************************************************************)
EXTENDS ChainRef, TLC

RefParent == "A" :> "G" @@ "B" :> "A" @@ "B1" :> "A"
RefBlock == {"A", "B", "B1"}
=============================================================================
