----------------------------- MODULE MCAccounts -----------------------------
(***************************************************************************)
(* A small instance of Accounts: two people, a shared account, a contract, *)
(* the treasury and two companies of one stock hash, the main currency and *)
(* two more.                                                               *)
(***************************************************************************)
EXTENDS Accounts

MCNormal == {"alice", "bob"}
MCMultiSigs == {"shared"}
MCContracts == {"contract"}
MCCompanies == {"treasury", "company", "rival"}
MCCoins == {"main", "coin", "token"}
MCStocks == {"treasury stock", "stock"}
MCStockOf == [c \in MCCompanies |-> IF c = "treasury" THEN "treasury stock" ELSE "stock"]
MCMinters == {"alice", "shared"}
MCSupplies == {<<2, 4>>}

Holdings(a, b) == [h \in {"alice", "bob"} |-> IF h = "alice" THEN a ELSE b]
\* Books that agree, and issued shares at the limit of a u32 that do not.
MCCharters == {[sm |-> Holdings(6, 3), issued |-> 9, authorized |-> 12],
               [sm |-> Holdings(2, 2), issued |-> 15, authorized |-> 15]}
=============================================================================
