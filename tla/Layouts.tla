------------------------------ MODULE Layouts ------------------------------
(***************************************************************************)
(* The byte layouts of the messages of the transactions, events, network   *)
(* and chain crates, as data.  For every message type X                    *)
(*                                                                         *)
(*   X_to_bytes    what X::to_bytes appends, in order: the header items,   *)
(*                 then the fields of the body;                            *)
(*   X_header      what X::from_bytes reads from the cursor, each item at  *)
(*                 the position set_position gives it, and how many bytes  *)
(*                 it drains afterwards;                                   *)
(*   X_from_bytes  the fields X::from_bytes then takes off the front of    *)
(*                 the buffer, each with the length test that guards it;   *)
(*   X_sign_message, X_hash_message   the fields whose bytes are signed    *)
(*                 and hashed.                                             *)
(*                                                                         *)
(* A field's content is left out: only its name, its place and its length  *)
(* are kept.                                                               *)
(***************************************************************************)
EXTENDS Naturals, Sequences

\* Header items: a number of w bytes, and the length of field f in w bytes.
Num(f, w) == [kind |-> "num", f |-> f, w |-> w]
LenOf(f, w) == [kind |-> "len", f |-> f, w |-> w]
At(p, item) == [pos |-> p, item |-> item]

\* Body reads: `buf.len() > w` before draining w bytes, w fixed or declared ...
Fix(f, w) == [f |-> f, cmp |-> ">", by |-> "width", w |-> w]
Addr(f) == Fix(f, 33)
Hash(f) == Fix(f, 32)
More(f) == [f |-> f, cmp |-> ">", by |-> "declared", w |-> 0]
\* ... `buf.len() >= w`, `buf.len() == w`, the rest of the buffer, and a hash
\* that is there only when the bitmask says so.
AtLeast(f) == [f |-> f, cmp |-> ">=", by |-> "declared", w |-> 0]
Final(f) == [f |-> f, cmp |-> "==", by |-> "declared", w |-> 0]
FinalFix(f, w) == [f |-> f, cmp |-> "==", by |-> "width", w |-> w]
Rest(f) == [f |-> f, cmp |-> "==", by |-> "rest", w |-> 0]
Opt(f) == [f |-> f, cmp |-> ">", by |-> "mask", w |-> 32]

----------------------------------------------------------------------------
\* transactions/src/send.rs
Send_to_bytes ==
  [head |-> <<Num("tx_type", 1), LenOf("amount", 1), LenOf("fee", 1), LenOf("signature", 2)>>,
   body |-> <<"from", "to", "asset_hash", "fee_hash", "hash", "signature", "amount", "fee">>]
Send_header ==
  [at |-> <<At(0, Num("tx_type", 1)), At(1, LenOf("amount", 1)), At(2, LenOf("fee", 1)),
            At(3, LenOf("signature", 2))>>, drain |-> 5]
Send_from_bytes ==
  <<Addr("from"), Addr("to"), Hash("asset_hash"), Hash("fee_hash"), Hash("hash"),
    More("signature"), More("amount"), Final("fee")>>
Send_sign_message == <<"from", "to", "asset_hash", "fee_hash", "amount", "fee">>
Send_hash_message == Append(Send_sign_message, "signature")

\* transactions/src/mint.rs
Mint_to_bytes ==
  [head |-> <<Num("tx_type", 1), LenOf("fee", 1), LenOf("amount", 1), LenOf("signature", 2)>>,
   body |-> <<"minter", "receiver", "asset_hash", "fee_hash", "hash", "amount", "fee",
              "signature">>]
Mint_header ==
  [at |-> <<At(0, Num("tx_type", 1)), At(1, LenOf("fee", 1)), At(2, LenOf("amount", 1)),
            At(3, LenOf("signature", 2))>>, drain |-> 5]
Mint_from_bytes ==
  <<Addr("minter"), Addr("receiver"), Hash("asset_hash"), Hash("fee_hash"), Hash("hash"),
    More("amount"), More("fee"), Final("signature")>>
Mint_sign_message == <<"minter", "receiver", "asset_hash", "fee_hash", "amount", "fee">>
Mint_hash_message == Append(Mint_sign_message, "signature")

\* transactions/src/burn.rs
Burn_to_bytes ==
  [head |-> <<Num("tx_type", 1), LenOf("fee", 1), LenOf("amount", 1), LenOf("signature", 2)>>,
   body |-> <<"burner", "asset_hash", "fee_hash", "hash", "amount", "fee", "signature">>]
Burn_header ==
  [at |-> <<At(0, Num("tx_type", 1)), At(1, LenOf("fee", 1)), At(2, LenOf("amount", 1)),
            At(3, LenOf("signature", 2))>>, drain |-> 5]
Burn_from_bytes ==
  <<Addr("burner"), Hash("asset_hash"), Hash("fee_hash"), Hash("hash"),
    More("amount"), More("fee"), Final("signature")>>
Burn_sign_message == <<"burner", "asset_hash", "fee_hash", "amount", "fee">>
Burn_hash_message == Append(Burn_sign_message, "signature")

\* transactions/src/pay.rs
Pay_to_bytes ==
  [head |-> <<Num("tx_type", 1), LenOf("amount", 1), LenOf("fee", 1), LenOf("signature", 2)>>,
   body |-> <<"payer", "asset_hash", "fee_hash", "hash", "amount", "fee", "signature">>]
Pay_header ==
  [at |-> <<At(0, Num("tx_type", 1)), At(1, LenOf("amount", 1)), At(2, LenOf("fee", 1)),
            At(3, LenOf("signature", 2))>>, drain |-> 5]
Pay_from_bytes ==
  <<Addr("payer"), Hash("asset_hash"), Hash("fee_hash"), Hash("hash"),
    More("amount"), More("fee"), Final("signature")>>
Pay_sign_message == <<"payer", "asset_hash", "fee_hash", "amount", "fee">>
Pay_hash_message == Append(Pay_sign_message, "signature")

\* transactions/src/issue_shares.rs
IssueShares_to_bytes ==
  [head |-> <<Num("tx_type", 1), LenOf("fee", 1), LenOf("signature", 2), Num("shares", 4)>>,
   body |-> <<"issuer", "receiver", "fee_hash", "hash", "fee", "signature">>]
IssueShares_header ==
  [at |-> <<At(0, Num("tx_type", 1)), At(1, LenOf("fee", 1)), At(2, LenOf("signature", 2)),
            At(4, Num("shares", 4))>>, drain |-> 8]
IssueShares_from_bytes ==
  <<Addr("issuer"), Addr("receiver"), Hash("fee_hash"), Hash("hash"),
    More("fee"), Final("signature")>>
IssueShares_sign_message == <<"shares", "issuer", "receiver", "fee_hash", "fee">>
IssueShares_hash_message == Append(IssueShares_sign_message, "signature")

\* transactions/src/create_currency.rs
CreateCurrency_to_bytes ==
  [head |-> <<Num("tx_type", 1), LenOf("fee", 1), Num("precision", 1), Num("coin_supply", 8)>>,
   body |-> <<"creator", "receiver", "asset_hash", "fee_hash", "hash", "signature", "fee">>]
CreateCurrency_header ==
  [at |-> <<At(0, Num("tx_type", 1)), At(1, LenOf("fee", 1)), At(2, Num("precision", 1)),
            At(3, Num("coin_supply", 8))>>, drain |-> 11]
CreateCurrency_from_bytes ==
  <<Addr("creator"), Addr("receiver"), Hash("asset_hash"), Hash("fee_hash"), Hash("hash"),
    Fix("signature", 65), Final("fee")>>
CreateCurrency_sign_message ==
  <<"precision", "coin_supply", "creator", "receiver", "asset_hash", "fee_hash", "fee">>
\* Mutant: the precision is left out of what is hashed.
CreateCurrency_hash_short ==
  <<"coin_supply", "creator", "receiver", "asset_hash", "fee_hash", "fee", "signature">>
CreateCurrency_hash_message == Append(CreateCurrency_sign_message, "signature")

\* transactions/src/create_mintable.rs
CreateMintable_to_bytes ==
  [head |-> <<Num("tx_type", 1), LenOf("fee", 1), Num("precision", 1), Num("coin_supply", 8),
              Num("max_supply", 8)>>,
   body |-> <<"creator", "receiver", "minter_address", "asset_hash", "fee_hash", "hash",
              "signature", "fee">>]
CreateMintable_header ==
  [at |-> <<At(0, Num("tx_type", 1)), At(1, LenOf("fee", 1)), At(2, Num("precision", 1)),
            At(3, Num("coin_supply", 8)), At(11, Num("max_supply", 8))>>, drain |-> 19]
CreateMintable_from_bytes ==
  <<Addr("creator"), Addr("receiver"), Addr("minter_address"), Hash("asset_hash"),
    Hash("fee_hash"), Hash("hash"), Fix("signature", 65), Final("fee")>>
CreateMintable_sign_message ==
  <<"precision", "coin_supply", "max_supply", "creator", "receiver", "minter_address",
    "asset_hash", "fee_hash", "fee">>
CreateMintable_hash_message == Append(CreateMintable_sign_message, "signature")

\* transactions/src/create_unique.rs and change_minter.rs: signed and hashed,
\* but with no byte form.  (A meta field that is absent adds nothing.)
CreateUnique_sign_message ==
  <<"creator", "receiver", "name", "meta1", "meta2", "meta3", "meta4", "meta5",
    "asset_hash", "fee_hash", "fee">>
CreateUnique_hash_message == Append(CreateUnique_sign_message, "signature")
ChangeMinter_sign_message == <<"minter", "new_minter", "asset_hash", "fee_hash", "fee">>
ChangeMinter_hash_message == Append(ChangeMinter_sign_message, "signature")

\* transactions/src/open_shares.rs
OpenShares_to_bytes ==
  [head |-> <<Num("tx_type", 1), LenOf("amount", 1), LenOf("fee", 1), LenOf("shares", 2),
              LenOf("share_map", 2), Num("nonce", 8)>>,
   body |-> <<"stock_hash", "fee_hash", "asset_hash", "creator", "address", "hash", "signature",
              "amount", "fee", "shares", "share_map">>]
OpenShares_header ==
  [at |-> <<At(0, Num("tx_type", 1)), At(1, LenOf("amount", 1)), At(2, LenOf("fee", 1)),
            At(3, LenOf("shares", 2)), At(5, LenOf("share_map", 2)), At(7, Num("nonce", 8))>>,
   drain |-> 15]
OpenShares_from_bytes ==
  <<Hash("stock_hash"), Hash("fee_hash"), Hash("asset_hash"), Addr("creator"), Addr("address"),
    Hash("hash"), Fix("signature", 65), More("amount"), More("fee"), More("shares"),
    Final("share_map")>>
OpenShares_sign_message ==
  <<"nonce", "stock_hash", "fee_hash", "asset_hash", "creator", "address", "amount", "fee",
    "shares", "share_map">>
OpenShares_hash_message ==
  <<"nonce", "stock_hash", "fee_hash", "asset_hash", "creator", "address", "amount", "fee",
    "signature", "shares", "share_map">>

\* transactions/src/open_multi_sig.rs
OpenMultiSig_to_bytes ==
  [head |-> <<Num("tx_type", 1), Num("required_keys", 1), LenOf("amount", 1), LenOf("fee", 1),
              LenOf("keys", 2), Num("nonce", 8)>>,
   body |-> <<"fee_hash", "asset_hash", "creator", "address", "hash", "signature", "amount",
              "fee", "keys">>]
OpenMultiSig_header ==
  [at |-> <<At(0, Num("tx_type", 1)), At(1, Num("required_keys", 1)), At(2, LenOf("amount", 1)),
            At(3, LenOf("fee", 1)), At(4, LenOf("keys", 2)), At(6, Num("nonce", 8))>>,
   drain |-> 14]
OpenMultiSig_from_bytes ==
  <<Hash("fee_hash"), Hash("asset_hash"), Addr("creator"), Addr("address"), Hash("hash"),
    Fix("signature", 65), More("amount"), More("fee"), Final("keys")>>
OpenMultiSig_sign_message ==
  <<"required_keys", "nonce", "fee_hash", "asset_hash", "creator", "address", "amount", "fee",
    "keys">>
OpenMultiSig_hash_message == Append(OpenMultiSig_sign_message, "signature")

\* transactions/src/open_contract.rs
OpenContract_to_bytes ==
  [head |-> <<Num("tx_type", 1), Num("self_payable", 1), LenOf("amount", 1), LenOf("fee", 1),
              LenOf("signature", 2), LenOf("default_state", 2), LenOf("code", 2),
              Num("nonce", 8)>>,
   body |-> <<"owner", "address", "asset_hash", "fee_hash", "hash", "signature", "amount",
              "fee", "default_state", "code">>]
OpenContract_header ==
  [at |-> <<At(0, Num("tx_type", 1)), At(1, Num("self_payable", 1)), At(2, LenOf("amount", 1)),
            At(3, LenOf("fee", 1)), At(4, LenOf("signature", 2)),
            At(6, LenOf("default_state", 2)), At(8, LenOf("code", 2)), At(10, Num("nonce", 8))>>,
   drain |-> 18]
\* Mutant: the optional parts are read like the others, with `>`.
OpenContract_from_bytes_strict ==
  <<Addr("owner"), Addr("address"), Hash("asset_hash"), Hash("fee_hash"), Hash("hash"),
    More("signature"), More("amount"), More("fee"), More("default_state"), Final("code")>>
OpenContract_from_bytes ==
  <<Addr("owner"), Addr("address"), Hash("asset_hash"), Hash("fee_hash"), Hash("hash"),
    More("signature"), AtLeast("amount"), AtLeast("fee"), AtLeast("default_state"),
    Final("code")>>
OpenContract_sign_message ==
  <<"self_payable", "owner", "fee_hash", "code", "default_state", "fee">>
OpenContract_hash_message == Append(OpenContract_sign_message, "signature")

\* transactions/src/call.rs
Call_to_bytes ==
  [head |-> <<Num("tx_type", 1), LenOf("gas_limit", 1), LenOf("gas_price", 1),
              LenOf("amount", 1), LenOf("fee", 1), LenOf("signature", 2), LenOf("inputs", 2)>>,
   body |-> <<"from", "to", "asset_hash", "fee_hash", "hash", "signature", "gas_limit",
              "gas_price", "amount", "fee", "inputs">>]
Call_header ==
  [at |-> <<At(0, Num("tx_type", 1)), At(1, LenOf("gas_limit", 1)), At(2, LenOf("gas_price", 1)),
            At(3, LenOf("amount", 1)), At(4, LenOf("fee", 1)), At(5, LenOf("signature", 2)),
            At(7, LenOf("inputs", 2))>>, drain |-> 9]
Call_from_bytes ==
  <<Addr("from"), Addr("to"), Hash("asset_hash"), Hash("fee_hash"), Hash("hash"),
    More("signature"), More("gas_limit"), More("gas_price"), More("amount"), AtLeast("fee"),
    Final("inputs")>>
Call_sign_message ==
  <<"from", "to", "asset_hash", "fee_hash", "amount", "fee", "gas_limit", "gas_price",
    "inputs">>
Call_hash_message == Append(Call_sign_message, "signature")

\* events/src/heartbeat.rs, join.rs and leave.rs
Heartbeat_to_bytes ==
  [head |-> <<Num("event_type", 1), LenOf("stamp", 2), LenOf("transactions", 4)>>,
   body |-> <<"node_id", "root_hash", "parent_hash", "hash", "signature", "stamp",
              "transactions">>]
Heartbeat_header ==
  [at |-> <<At(0, Num("event_type", 1)), At(1, LenOf("stamp", 2)),
            At(3, LenOf("transactions", 4))>>, drain |-> 7]
Heartbeat_from_bytes ==
  <<Hash("node_id"), Hash("root_hash"), Hash("parent_hash"), Hash("hash"),
    Fix("signature", 64), More("stamp"), Final("transactions")>>

Join_to_bytes ==
  [head |-> <<Num("event_type", 1), Num("bitmask", 1), LenOf("stamp", 2), LenOf("proof", 2)>>,
   body |-> <<"node_id", "collector_address", "parent_cg_hash", "parent_join_hash", "hash",
              "signature", "stamp", "proof">>]
Join_header ==
  [at |-> <<At(0, Num("event_type", 1)), At(1, Num("bitmask", 1)), At(2, LenOf("stamp", 2)),
            At(4, LenOf("proof", 2))>>, drain |-> 6]
Join_from_bytes ==
  <<Hash("node_id"), Addr("collector_address"), Opt("parent_cg_hash"), Opt("parent_join_hash"),
    Hash("hash"), Fix("signature", 64), More("stamp"), Final("proof")>>

Leave_to_bytes ==
  [head |-> <<Num("event_type", 1), LenOf("stamp", 2)>>,
   body |-> <<"node_id", "parent_hash", "hash", "signature", "stamp">>]
Leave_header == [at |-> <<At(0, Num("event_type", 1)), At(1, LenOf("stamp", 2))>>, drain |-> 3]
Leave_from_bytes ==
  <<Hash("node_id"), Hash("parent_hash"), Hash("hash"), Fix("signature", 64), Final("stamp")>>

\* network/src/packets/connect.rs
Connect_to_bytes ==
  [head |-> <<Num("packet_type", 1)>>, body |-> <<"kx_key", "node_id", "signature">>]
Connect_header == [at |-> <<At(0, Num("packet_type", 1))>>, drain |-> 1]
Connect_from_bytes == <<Hash("kx_key"), Hash("node_id"), FinalFix("signature", 64)>>
Connect_sign_message == <<"kx_key", "node_id">>

\* chain/src/hard_chain/block.rs
HardBlock_to_bytes ==
  [head |-> <<Num("block_type", 1), Num("height", 8)>>,
   body |-> <<"hash", "easy_block_hash", "parent_hash", "merkle_root", "timestamp">>]
HardBlock_header == [at |-> <<At(0, Num("block_type", 1)), At(1, Num("height", 8))>>, drain |-> 9]
HardBlock_from_bytes ==
  <<Hash("hash"), Hash("easy_block_hash"), Hash("parent_hash"), Hash("merkle_root"),
    Rest("timestamp")>>
HardBlock_hash_message == <<"height", "parent_hash", "merkle_root", "timestamp">>
=============================================================================
