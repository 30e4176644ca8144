------------------------------ MODULE MCWire ------------------------------
(***************************************************************************)
(* Every message type, with field lengths that meet the limits: amounts of *)
(* one and of thirty digits, an empty and a full stamp, state and code, a  *)
(* share map of 1, 2 and 1725 holders (65554 bytes: two past what 16 bits  *)
(* hold), 2 and 1928 keys, and up to 979 co-signers.                       *)
(***************************************************************************)
EXTENDS Wire

MCTypes ==
  {"Send", "Mint", "Burn", "Pay", "IssueShares", "CreateCurrency", "CreateMintable", "OpenShares",
   "OpenMultiSig", "OpenContract", "Call", "CreateUnique", "ChangeMinter", "Heartbeat", "Join",
   "Leave", "Connect", "HardBlock"}

MCLens ==
  [amount |-> {1, 30}, fee |-> {1, 30}, gas_limit |-> {1}, gas_price |-> {1},
   shares |-> {9}, share_map |-> {39, 78, 65554}, keys |-> {70, 65556},
   inputs |-> {0, 65536}, default_state |-> {0, 3}, code |-> {0, 65536},
   stamp |-> {2, 65537}, proof |-> {1, 130}, transactions |-> {1, 300}, timestamp |-> {25}]
===========================================================================
