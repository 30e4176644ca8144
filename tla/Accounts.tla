------------------------------ MODULE Accounts ------------------------------
(***************************************************************************)
(* The account state of the ledger and the transactions that change it:    *)
(* the trie entries of accounts, balances, companies, shared accounts,     *)
(* contracts and currencies, and Tx::apply for every transaction that has  *)
(* one, after Tx::validate for those that have one.                        *)
(*                                                                         *)
(* A trie entry is an element of a partial function: a key that is absent  *)
(* is not in the domain.  Balances are whole units; a stock entry is the   *)
(* u32 the code stores and every other entry a decimal, which the code     *)
(* refuses to read back when it is negative.  A u32 addition that does not *)
(* fit panics in a build that checks for overflow and wraps in one that    *)
(* does not.                                                               *)
(***************************************************************************)
EXTENDS Integers, Sequences, FiniteSets, SequencesExt, Functions, TLC

CONSTANTS
  Normal, MultiSigs, Contracts, Companies,  \* the addresses of each kind
  Treasury,        \* the company genesis opens
  Founder,         \* its only shareholder
  Main,            \* the currency genesis lists
  Coins, Stocks,   \* currency hashes and stock hashes
  StockOf,         \* .sh of each company: compute_stock_hash leaves the creator out,
                   \* so that companies of different creators may share one
  Sends,           \* the amounts of sends
  Amounts, Fees,   \* those of other transactions, and fees
  Supplies,        \* <<coin_supply, max_supply>> of new currencies
  Minters,         \* minters of new currencies
  Charters,        \* the shares and the share map companies are opened with
  TreasuryShares,  \* TREASURY_ISSUED_SHARES, which are all that is authorized
  GenesisSupply,   \* COIN_SUPPLY
  GroupCapacity,   \* CUR_GROUP_CAPACITY
  MinCreatorNonce, \* MIN_CREATOR_NONCE
  U32,             \* one more than the largest stock entry
  MaxTxs           \* transactions applied

Addrs == Normal \cup MultiSigs \cup Contracts \cup Companies
Assets == Coins \cup Stocks

VARIABLES
  nonce,     \* <addr>.n
  bal,       \* <addr>.<asset>
  company,   \* <addr>.s, .sm and .sh
  adr,       \* <stock>.adr
  keys,      \* addresses with .k and .r
  code,      \* addresses with .c, .q and .y
  coin,      \* <currency>.s, .p, and .x and .m if it is mintable
  groups,    \* c.0, c.1, ... up to c.<ci>
  panicked,  \* a transaction panicked
  wrapped,   \* a u32 has wrapped: the build does not check for overflow
  last,      \* the transaction just applied
  txs        \* how many were

trie == <<nonce, bal, company, adr, keys, code, coin, groups>>
vars == <<nonce, bal, company, adr, keys, code, coin, groups, panicked, wrapped, last, txs>>

Put(f, k, v) == (k :> v) @@ f
Exists(a) == a \in DOMAIN nonce

\* Balance::from_bytes of a stored entry: it must be there, be a decimal and
\* not be negative.
Decimal(b, k) == k \in DOMAIN b /\ k[2] \notin Stocks /\ b[k] >= 0

\* The fee and the amount leave one entry, or one entry each.
Chargeable(a, asset, feeHash) == Decimal(bal, <<a, asset>>) /\ Decimal(bal, <<a, feeHash>>)
Charge(a, asset, feeHash, amount, fee) ==
  IF asset = feeHash THEN Put(bal, <<a, asset>>, bal[a, asset] - fee - amount)
  ELSE Put(Put(bal, <<a, feeHash>>, bal[a, feeHash] - fee), <<a, asset>>, bal[a, asset] - amount)

\* A balance the code adds to if the entry is there.
Plus(k, amount) == IF k \in DOMAIN bal THEN bal[k] + amount ELSE amount
Addable(k) == k \in DOMAIN bal => Decimal(bal, k)

\* The u32 results vs of one transaction: some overflow, or all fit or wrap.
Overflows(vs) == ~(vs \subseteq 0 .. U32 - 1)
Wraps(vs) == wrapped' = (wrapped \/ Overflows(vs))

Bump(a) == Put(nonce, a, nonce[a] + 1)
\* Mutant: the account may exist.
Create_resets(n, a) == Put(n, a, 0)

\* An account is created with the nonce 0, unless it exists.
Create(n, a) == IF a \in DOMAIN n THEN n ELSE Put(n, a, 0)

Tx(op, from, to, asset, feeHash, amount, fee) ==
  [op |-> op, from |-> from, to |-> to, asset |-> asset, feeHash |-> feeHash, amount |-> amount,
   fee |-> fee]

\* A transaction is applied whole, or panics before its first write; Pay alone
\* may panic between two.
Applied(tx) == txs' = txs + 1 /\ last' = tx /\ UNCHANGED panicked
Panic(tx, where) ==
  /\ panicked' = where
  /\ last' = IF where = "apply after validate" THEN tx ELSE last
  /\ UNCHANGED <<trie, wrapped, txs>>
OverflowPanic(tx, vs, where) == Overflows(vs) /\ ~wrapped /\ Panic(tx, where)

----------------------------------------------------------------------------
\* ShareMap::from_bytes adds the entries up again; the sum is not stored.
SumShares(sm) == SumFunction(sm)
IssuedShares(sm) == SumShares(sm) % U32
SharesOf(sm, h) == IF h \in DOMAIN sm THEN sm[h] ELSE 0

\* ShareMap::issue_shares adds the holder's old and new shares to the sum.
IssueSums(c, to, n) ==
  {SharesOf(c.sm, to) + n, IssuedShares(c.sm) + ((SharesOf(c.sm, to) + n) % U32)}

\* What ShareMap::issue_shares and Shares::issue_shares change of what is stored.
IssueTo(c, to, n) ==
  [c EXCEPT !.sm = Put(@, to, (SharesOf(@, to) + n) % U32), !.issued = (@ + n) % U32]

\* ShareMap::transfer_shares
TransferOk(sm, from, n) == from \in DOMAIN sm /\ sm[from] >= n
Transfer(sm, from, to, n) ==
  LET less == IF sm[from] = n THEN Restrict(sm, DOMAIN sm \ {from}) ELSE Put(sm, from, sm[from] - n)
  IN  Put(less, to, (SharesOf(sm, to) + n) % U32)

----------------------------------------------------------------------------
Init ==
  /\ nonce = <<>> /\ bal = <<>> /\ company = <<>> /\ adr = <<>> /\ coin = <<>>
  /\ keys = {} /\ code = {} /\ groups = <<>> /\ panicked = "no" /\ wrapped = FALSE /\ txs = 0
  /\ last = Tx("none", Treasury, Treasury, Main, Main, 0, 0)

\* Genesis::apply.  It writes no currency entries for the main currency, and no
\* stock address and no stock balance for the treasury.
Genesis ==
  LET tx == Tx("Genesis", Treasury, Treasury, Main, Main, GenesisSupply, 0)
  IN  IF Treasury \in DOMAIN company THEN Panic(tx, "apply")
      ELSE /\ Applied(tx)
           /\ nonce' = Put(nonce, Treasury, 0)
           /\ company' = Put(company, Treasury, [sm |-> Founder :> TreasuryShares,
                                                 issued |-> TreasuryShares, authorized |-> TreasuryShares])
           /\ bal' = Put(bal, <<Treasury, Main>>, GenesisSupply)
           /\ groups' = <<<<Main>>>>
           /\ UNCHANGED <<adr, keys, code, coin, wrapped>>

----------------------------------------------------------------------------
(* Send::apply; there is no Send::validate.                                *)

\* Mutant: the share map is not updated.
SendStock_keeps_map(tx) ==
  LET who == adr[tx.asset]  sm == company[who].sm
      from == <<tx.from, tx.asset>>  to == <<tx.to, tx.asset>>
      sums == {SumShares(sm), bal[from] - tx.amount, SharesOf(sm, tx.to) + tx.amount, Plus(to, tx.amount)}
  IN  IF ~(from \in DOMAIN bal /\ Decimal(bal, <<tx.from, tx.feeHash>>)
           /\ {tx.from, tx.to} \subseteq Normal /\ TransferOk(sm, tx.from, tx.amount))
      THEN Panic(tx, "apply")
      ELSE \/ Panic(tx, "apply")
           \/ /\ Applied(tx) /\ Wraps(sums)
              /\ nonce' = Create(Bump(tx.from), tx.to)
              /\ bal' = Put(Put(bal, to, Plus(to, tx.amount) % U32), from, (bal[from] - tx.amount) % U32)
              /\ UNCHANGED <<company, adr, keys, code, coin, groups>>

\* The asset is a stock: the fee is computed and never written.  An amount that
\* is not written as a whole number, a point and zeros behind it included, is not
\* parsed as a u32 and panics, as a sum that overflows may.
SendStock(tx) ==
  LET who == adr[tx.asset]  sm == company[who].sm
      from == <<tx.from, tx.asset>>  to == <<tx.to, tx.asset>>
      sums == {SumShares(sm), bal[from] - tx.amount, SharesOf(sm, tx.to) + tx.amount, Plus(to, tx.amount)}
  IN  IF ~(from \in DOMAIN bal /\ Decimal(bal, <<tx.from, tx.feeHash>>)
           /\ {tx.from, tx.to} \subseteq Normal /\ TransferOk(sm, tx.from, tx.amount))
      THEN Panic(tx, "apply")
      ELSE \/ Panic(tx, "apply")
           \/ /\ Applied(tx) /\ Wraps(sums)
              /\ nonce' = Create(Bump(tx.from), tx.to)
              /\ bal' = Put(Put(bal, to, Plus(to, tx.amount) % U32), from, (bal[from] - tx.amount) % U32)
              /\ company' = [company EXCEPT ![who].sm = Transfer(@, tx.from, tx.to, tx.amount)]
              /\ UNCHANGED <<adr, keys, code, coin, groups>>

\* The receiver's account exists: its balance is read before the sender's is
\* written and written after it.
SendCoin(tx) ==
  LET to == <<tx.to, tx.asset>>
  IN  IF ~(Chargeable(tx.from, tx.asset, tx.feeHash) /\ Addable(to)) THEN Panic(tx, "apply")
      ELSE /\ Applied(tx)
           /\ nonce' = Bump(tx.from)
           /\ bal' = Put(Charge(tx.from, tx.asset, tx.feeHash, tx.amount, tx.fee), to, Plus(to, tx.amount))
           /\ UNCHANGED <<company, adr, keys, code, coin, groups, wrapped>>

\* The receiver's account does not exist: it starts with the amount, whatever
\* its balance entry held.
SendCoinToNew(tx) ==
  IF ~(tx.to \in Normal /\ Chargeable(tx.from, tx.asset, tx.feeHash)) THEN Panic(tx, "apply")
  ELSE /\ Applied(tx)
       /\ nonce' = Create(Bump(tx.from), tx.to)
       /\ bal' = Put(Charge(tx.from, tx.asset, tx.feeHash, tx.amount, tx.fee), <<tx.to, tx.asset>>, tx.amount)
       /\ UNCHANGED <<company, adr, keys, code, coin, groups, wrapped>>

Send(from, to, asset, feeHash, amount, fee) ==
  LET tx == Tx("Send", from, to, asset, feeHash, amount, fee)
  IN  CASE ~Exists(from)          -> Panic(tx, "apply")
        [] Exists(from) /\ asset \in DOMAIN adr -> SendStock(tx)
        [] Exists(from) /\ asset \notin DOMAIN adr /\ Exists(to) -> SendCoin(tx)
        [] OTHER                  -> SendCoinToNew(tx)

----------------------------------------------------------------------------
(* Transactions with a validate.  A balance validate cannot read back is a *)
(* panic, an absent one a refusal.                                         *)

\* impl_validate_signature, for a correct signature of the address's kind.
SignatureValid(a) == a \in Normal \/ a \in keys \/ a \in DOMAIN company

\* Outcome of validate: the balances it reads, in order, and its last test.
Judge(pre, reads, test) ==
  LET bad == {i \in DOMAIN reads : ~Decimal(bal, reads[i])}
  IN  CASE ~pre -> "no"
        [] pre /\ bad # {} -> IF reads[Min(bad)] \in DOMAIN bal THEN "panic" ELSE "no"
        [] OTHER -> IF test THEN "yes" ELSE "no"
Affords(a, asset, feeHash, amount, fee) ==
  LET b == Charge(a, asset, feeHash, amount, fee) IN b[a, asset] >= 0 /\ b[a, feeHash] >= 0

Mintable(c) == c \in DOMAIN coin /\ coin[c].mintable

Mint_validate(tx) ==
  LET k == <<tx.from, tx.feeHash>>
  IN  Judge(/\ tx.amount # 0 /\ SignatureValid(tx.from)
            /\ Mintable(tx.asset) /\ coin[tx.asset].minter = tx.from
            /\ coin[tx.asset].supply + tx.amount <= coin[tx.asset].max,
            <<k>>, bal[k] >= tx.fee)

\* Mutant: the receiver gets the amount on top of nothing.
Mint_resets_receiver(tx) ==
  LET to == <<tx.to, tx.asset>>  payer == <<tx.from, tx.feeHash>>
      charged == Put(bal, payer, bal[payer] - tx.fee)
  IN  IF ~(Decimal(bal, payer) /\ Addable(to)) THEN Panic(tx, "apply after validate")
      ELSE /\ Applied(tx)
           /\ nonce' = IF Exists(tx.from) THEN Bump(tx.from) ELSE Create(nonce, tx.from)
           /\ bal' = Put(charged, to, tx.amount)
           /\ UNCHANGED <<company, adr, keys, code, coin, groups, wrapped>>

\* Mint::apply when the receiver's account exists.
MintToExisting(tx) ==
  LET to == <<tx.to, tx.asset>>  payer == <<tx.from, tx.feeHash>>
      charged == Put(bal, payer, bal[payer] - tx.fee)
  IN  IF ~(Decimal(bal, payer) /\ Addable(to)) THEN Panic(tx, "apply after validate")
      ELSE /\ Applied(tx)
           /\ nonce' = IF Exists(tx.from) THEN Bump(tx.from) ELSE Create(nonce, tx.from)
           /\ bal' = Put(charged, to, (IF to \in DOMAIN charged THEN charged[to] ELSE 0) + tx.amount)
           /\ UNCHANGED <<company, adr, keys, code, coin, groups, wrapped>>

\* Mint::apply when it does not: the fee leaves the minter's balance of the
\* minted currency.
MintToNew(tx) ==
  LET payer == <<tx.from, tx.asset>>
  IN  IF ~Decimal(bal, payer) THEN Panic(tx, "apply after validate")
      ELSE /\ Applied(tx)
           /\ nonce' = Create(IF Exists(tx.from) THEN Bump(tx.from) ELSE Create(nonce, tx.from), tx.to)
           /\ bal' = Put(Put(bal, payer, bal[payer] - tx.fee), <<tx.to, tx.asset>>, tx.amount)
           /\ UNCHANGED <<company, adr, keys, code, coin, groups, wrapped>>

Mint(minter, receiver, asset, feeHash, amount, fee) ==
  LET tx == Tx("Mint", minter, receiver, asset, feeHash, amount, fee)
      v == Mint_validate(tx)
  IN  \/ v = "panic" /\ Panic(tx, "validate")
      \/ v = "yes" /\ Exists(receiver) /\ MintToExisting(tx)
      \/ v = "yes" /\ ~Exists(receiver) /\ MintToNew(tx)

\* Mutant: only the amount is compared with the balance.
Burn_validate_no_fee(tx) ==
  Judge(tx.amount # 0 /\ SignatureValid(tx.from) /\ Exists(tx.from),
        <<<<tx.from, tx.asset>>, <<tx.from, tx.feeHash>>>>,
        Affords(tx.from, tx.asset, tx.feeHash, tx.amount, 0))

Burn_validate(tx) ==
  Judge(tx.amount # 0 /\ SignatureValid(tx.from) /\ Exists(tx.from),
        <<<<tx.from, tx.asset>>, <<tx.from, tx.feeHash>>>>,
        Affords(tx.from, tx.asset, tx.feeHash, tx.amount, tx.fee))

Burn(burner, asset, feeHash, amount, fee) ==
  LET tx == Tx("Burn", burner, burner, asset, feeHash, amount, fee)
      v == Burn_validate(tx)
  IN  \/ v = "panic" /\ Panic(tx, "validate")
      \/ /\ v = "yes" /\ Applied(tx)
         /\ nonce' = Bump(burner)
         /\ bal' = Charge(burner, asset, feeHash, amount, fee)
         /\ UNCHANGED <<company, adr, keys, code, coin, groups, wrapped>>

----------------------------------------------------------------------------
\* CreateCurrency::validate, for a precision it accepts.
CreateCurrency_validate(tx) ==
  LET k == <<tx.from, tx.feeHash>>
  IN  Judge(tx.asset # tx.feeHash /\ tx.amount >= 1 /\ Exists(tx.from), <<k>>,
            /\ nonce[tx.from] >= MinCreatorNonce
            /\ tx.asset \notin DOMAIN coin
            /\ bal[k] >= tx.fee)

CreateMintable_validate(tx, max) ==
  IF tx.amount >= max THEN "no" ELSE CreateCurrency_validate(tx)

\* Mutant: the group is full one entry late.
ListIn_late(gs, c) ==
  IF Len(Last(gs)) > GroupCapacity THEN Append(gs, <<c>>)
  ELSE [gs EXCEPT ![Len(gs)] = Append(@, c)]

\* The new currency is listed in the current group, or opens the next.
ListIn(gs, c) ==
  IF Len(Last(gs)) = GroupCapacity THEN Append(gs, <<c>>)
  ELSE [gs EXCEPT ![Len(gs)] = Append(@, c)]

\* What CreateCurrency::apply and CreateMintable::apply do to accounts: the fee
\* leaves the creator and the receiver's balance is the supply.
CreateBalances(tx) ==
  LET k == <<tx.from, tx.feeHash>>
  IN  /\ nonce' = Create(Bump(tx.from), tx.to)
      /\ bal' = Put(Put(bal, <<tx.to, tx.asset>>, tx.amount), k, bal[k] - tx.fee)

CreateCurrency(creator, receiver, asset, feeHash, supply, fee) ==
  LET tx == Tx("CreateCurrency", creator, receiver, asset, feeHash, supply, fee)
      v == CreateCurrency_validate(tx)
  IN  \/ v = "panic" /\ Panic(tx, "validate")
      \/ /\ v = "yes" /\ Applied(tx)
         /\ groups' = ListIn(groups, asset)
         /\ coin' = Put(coin, asset, [supply |-> supply, mintable |-> FALSE])
         /\ CreateBalances(tx)
         /\ UNCHANGED <<company, adr, keys, code, wrapped>>

CreateMintable(creator, receiver, minter, asset, feeHash, supply, max, fee) ==
  LET tx == Tx("CreateMintable", creator, receiver, asset, feeHash, supply, fee)
      v == CreateMintable_validate(tx, max)
  IN  \/ v = "panic" /\ Panic(tx, "validate")
      \/ /\ v = "yes" /\ Applied(tx)
         /\ groups' = ListIn(groups, asset)
         /\ coin' = Put(coin, asset, [supply |-> supply, mintable |-> TRUE, max |-> max, minter |-> minter])
         /\ CreateBalances(tx)
         /\ UNCHANGED <<company, adr, keys, code, wrapped>>

----------------------------------------------------------------------------
(* Opening accounts; there is no validate.                                 *)

\* What OpenShares, OpenMultiSig and OpenContract have in common: the address
\* must be new, and takes the amount and a nonce.
Openable(tx) ==
  ~Exists(tx.to) /\ Exists(tx.from) /\ Chargeable(tx.from, tx.asset, tx.feeHash)
OpenedNonce(tx) == Put(Bump(tx.from), tx.to, 0)
OpenedBal(tx) ==
  Put(Charge(tx.from, tx.asset, tx.feeHash, tx.amount, tx.fee), <<tx.to, tx.asset>>, tx.amount)

\* allocate_shares: every shareholder's stock entry.
allocate_shares(b, stock, sm) == [k \in {<<h, stock>> : h \in DOMAIN sm} |-> sm[k[1]]] @@ b

\* The shares and the share map are stored as the transaction has them: nobody
\* compares the one with the sum of the other.
OpenShares(creator, who, asset, feeHash, amount, fee, charter) ==
  LET tx == Tx("OpenShares", creator, who, asset, feeHash, amount, fee)
  IN  IF ~Openable(tx) THEN Panic(tx, "apply")
      ELSE /\ Applied(tx)
           /\ nonce' = OpenedNonce(tx) @@ [h \in DOMAIN charter.sm |-> 0]
           /\ bal' = allocate_shares(OpenedBal(tx), StockOf[who], charter.sm)
           /\ adr' = Put(adr, StockOf[who], who)
           /\ company' = Put(company, who, charter)
           /\ UNCHANGED <<keys, code, coin, groups, wrapped>>

OpenMultiSig(creator, who, asset, feeHash, amount, fee) ==
  LET tx == Tx("OpenMultiSig", creator, who, asset, feeHash, amount, fee)
  IN  IF ~Openable(tx) THEN Panic(tx, "apply")
      ELSE /\ Applied(tx)
           /\ nonce' = OpenedNonce(tx) /\ bal' = OpenedBal(tx) /\ keys' = keys \cup {who}
           /\ UNCHANGED <<company, adr, code, coin, groups, wrapped>>

OpenContract(owner, who, asset, feeHash, amount, fee) ==
  LET tx == Tx("OpenContract", owner, who, asset, feeHash, amount, fee)
  IN  IF ~Openable(tx) THEN Panic(tx, "apply")
      ELSE /\ Applied(tx)
           /\ nonce' = OpenedNonce(tx) /\ bal' = OpenedBal(tx) /\ code' = code \cup {who}
           /\ UNCHANGED <<company, adr, keys, coin, groups, wrapped>>

----------------------------------------------------------------------------
\* The u32 sums of IssueShares::validate and of the apply behind it.
ValidateSums(tx) == {SumShares(company[tx.from].sm), tx.amount + company[tx.from].issued}
IssuingSums(tx) ==
  IssueSums(company[tx.from], tx.to, tx.amount) \cup {Plus(<<tx.to, tx.asset>>, tx.amount)}

\* find_signer divides by the sum of the share map.
IssueShares_validate(tx) ==
  LET k == <<tx.from, tx.feeHash>>
      c == company[tx.from]
      pre == tx.amount >= 1 /\ tx.from \in DOMAIN company
  IN  IF pre /\ IssuedShares(c.sm) = 0 THEN "panic"
      ELSE Judge(pre, <<k>>, (tx.amount + c.issued) % U32 <= c.authorized /\ bal[k] >= tx.fee)

\* The receiver's account is not created.  Shares::issue_shares repeats the test
\* of validate.
IssueShares(issuer, receiver, feeHash, shares, fee) ==
  LET stock == StockOf[issuer]
      tx == Tx("IssueShares", issuer, receiver, stock, feeHash, shares, fee)
      v == IssueShares_validate(tx)
      k == <<issuer, feeHash>>
  IN  \/ v = "panic" /\ Panic(tx, "validate")
      \/ v = "yes" /\ OverflowPanic(tx, ValidateSums(tx), "validate")
      \/ v = "yes" /\ ~Overflows(ValidateSums(tx)) /\ OverflowPanic(tx, IssuingSums(tx), "apply after validate")
      \/ /\ v = "yes" /\ Applied(tx) /\ Wraps(ValidateSums(tx) \cup IssuingSums(tx))
         /\ nonce' = Bump(issuer)
         /\ bal' = Put(Put(bal, k, bal[k] - fee), <<receiver, stock>>, Plus(<<receiver, stock>>, shares) % U32)
         /\ company' = [company EXCEPT ![issuer] = IssueTo(@, receiver, shares)]
         /\ UNCHANGED <<adr, keys, code, coin, groups>>

\* pay_dividend: a holder's share of the amount, exact or rounded up or down by
\* the two divisions.
Dividend(sm, h, amount, up) ==
  LET exact == amount * sm[h]  issued == IssuedShares(sm)
  IN  exact \div issued + (IF h \in up /\ exact % issued # 0 THEN 1 ELSE 0)

\* pay_dividend writes the dividend as the holder's balance.
pay_dividend(b, sm, holders, asset, amount, up) ==
  [k \in {<<h, asset>> : h \in holders} |-> Dividend(sm, k[1], amount, up)] @@ b

\* A dividend with more digits than a Balance holds panics, as a division by zero
\* does, when the dividends of other holders are written and the payer is not
\* charged yet.
PayPanics(tx, sm) ==
  /\ panicked' = "apply"
  /\ \E paid \in SUBSET DOMAIN sm \ {DOMAIN sm}, up \in SUBSET DOMAIN sm :
       /\ IssuedShares(sm) = 0 => paid = {}
       /\ bal' = pay_dividend(bal, sm, paid, tx.asset, tx.amount, up)
  /\ UNCHANGED <<nonce, company, adr, keys, code, coin, groups, wrapped, last, txs>>

\* Pay::apply; there is no Pay::validate.
Pay(payer, asset, feeHash, amount, fee) ==
  LET tx == Tx("Pay", payer, payer, asset, feeHash, amount, fee)
      sm == company[payer].sm
  IN  IF ~(payer \in DOMAIN company /\ Chargeable(payer, asset, feeHash)) THEN Panic(tx, "apply")
      ELSE \/ OverflowPanic(tx, {SumShares(sm)}, "apply")
           \/ PayPanics(tx, sm)
           \/ /\ IssuedShares(sm) # 0
              /\ Applied(tx) /\ Wraps({SumShares(sm)})
              /\ nonce' = Bump(payer)
              /\ \E up \in SUBSET DOMAIN sm :
                   bal' = pay_dividend(Charge(payer, asset, feeHash, amount, fee), sm, DOMAIN sm, asset, amount, up)
              /\ UNCHANGED <<company, adr, keys, code, coin, groups>>

----------------------------------------------------------------------------
\* A panic ends the behaviour.
Next ==
  /\ panicked = "no" /\ txs < MaxTxs
  /\ \/ Genesis
     \/ \E f \in Coins, n \in Amounts, fee \in Fees, a \in Addrs :
          \/ \E to \in Addrs, c \in Coins : Mint(a, to, c, f, n, fee)
          \/ \E c \in Assets : Burn(a, c, f, n, fee)
          \/ \E c \in Coins, who \in Contracts : OpenContract(a, who, c, f, n, fee)
     \/ \E f \in Coins, n \in Sends, fee \in Fees, a, to \in Addrs, c \in Assets : Send(a, to, c, f, n, fee)
     \/ \E f \in Coins, fee \in Fees, a \in Normal, to \in Addrs, c \in Coins, s \in Supplies :
          \/ CreateCurrency(a, to, c, f, s[1], fee)
          \/ \E m \in Minters : CreateMintable(a, to, m, c, f, s[1], s[2], fee)
     \/ \E f \in Coins, n \in Amounts, fee \in Fees, a \in Normal, c \in Coins :
          \/ \E who \in Companies, charter \in Charters : OpenShares(a, who, c, f, n, fee, charter)
          \/ \E who \in MultiSigs : OpenMultiSig(a, who, c, f, n, fee)
     \/ \E f \in Coins, n \in Amounts, fee \in Fees, who \in Companies :
          \/ \E to \in Normal : IssueShares(who, to, f, n, fee)
          \/ \E c \in Assets : Pay(who, c, f, n, fee)

Spec == Init /\ [][Next]_vars

----------------------------------------------------------------------------
(* Properties                                                              *)

Total(c) == SumFunctionOnSet(bal, {k \in DOMAIN bal : k[2] = c})
IsStockSend(tx) == tx.op = "Send" /\ tx.asset \in DOMAIN adr
Holds(a, c) == <<a, c>> \in DOMAIN bal

\* The transactions whose writes overlap: a send to oneself, a mint that creates
\* its receiver, money given to an account entry that already holds some but has
\* no nonce, a currency given to a holder anew, and dividends paid to a holder who
\* has a balance.
Overlapping(tx) ==
  \/ tx.op = "Send" /\ tx.from = tx.to
  \/ tx.op = "Mint" /\ ~Exists(tx.to)
  \/ tx.op = "Send" /\ ~Exists(tx.to) /\ Holds(tx.to, tx.asset)
  \/ tx.op \in {"CreateCurrency", "CreateMintable"} /\ Holds(tx.to, tx.asset)
  \/ tx.op = "Pay" /\ \E h \in DOMAIN company[tx.from].sm : Holds(h, tx.asset)

\* What a transaction is meant to do to the total of a currency.
Declared(tx, c) ==
  (CASE tx.asset # c -> 0
     [] tx.asset = c /\ tx.op \in {"Genesis", "Mint", "CreateCurrency", "CreateMintable"} -> tx.amount
     [] tx.asset = c /\ tx.op = "Burn" -> -tx.amount
     [] OTHER -> 0)
  - (IF tx.feeHash = c /\ ~IsStockSend(tx) THEN tx.fee ELSE 0)

\* How far rounding may take the dividends of one payment from what was paid:
\* less than a unit for each holder whose share is rounded.
Rounded(tx, c) ==
  IF tx.op = "Pay" /\ tx.asset = c
  THEN LET sm == company[tx.from].sm
       IN  Cardinality({h \in DOMAIN sm : (tx.amount * sm[h]) % IssuedShares(sm) # 0})
  ELSE 0

\* Money: an applied transaction changes the total of every currency by what it
\* mints or burns, less the fee it charges in that currency; the dividends of
\* Pay::apply add up to what the company paid, but for their rounding.  It is
\* claimed neither of the transactions whose writes overlap, nor of dividends from
\* a share map whose sum overflows.  Send::apply computes the fee of a send of
\* stock and never writes it.
Conserved ==
  [][txs' > txs /\ ~Overlapping(last') /\ ~(last'.op = "Pay" /\ Overflows({SumShares(company[last'.from].sm)})) =>
       \A c \in Coins : LET change == Total(c)' - Total(c) - Declared(last', c)
                            slack == Rounded(last', c)
                        IN  change = 0 \/ change \in 1 - slack .. slack - 1]_vars

\* The stock entries of a company's shareholders are what its share map says.
EntriesAgree(who) ==
  \A h \in Normal : (IF Holds(h, StockOf[who]) THEN bal[h, StockOf[who]] ELSE 0)
                      = SharesOf(company[who].sm, h)

\* The share map's sum and the issued shares of a company differ by what they
\* differed by in the transaction that opened it.
BooksGap(who) == (company[who].issued - SumShares(company[who].sm)) % U32
WithinAuthorized(who) == company[who].issued <= company[who].authorized

SharesStock(who) == \E w \in DOMAIN company \ {who} : StockOf[w] = StockOf[who]
SelfSend(tx, who) == tx.op = "Send" /\ tx.from = tx.to /\ tx.asset = StockOf[who]

\* A company's three books: the stock entries of its holders, its share map and
\* its issued shares.  OpenShares::apply takes share map and issued shares as they
\* are, and makes entries and share map agree; issues, trades, dividends and the
\* creation of accounts keep them so, keep the issued shares in step with the
\* share map, and never take them above the authorized ones.  It is not claimed of
\* a holder's send to their own address, where Send::apply writes the sender's
\* entry last and ShareMap::transfer_shares the receiver's, nor of the entries of
\* companies that share a stock hash.
BooksKept ==
  [][txs' > txs =>
       /\ \A who \in DOMAIN company' \ DOMAIN company :
            last'.op = "OpenShares" /\ ~SharesStock(who)' => EntriesAgree(who)'
       /\ \A who \in DOMAIN company : ~SelfSend(last', who) =>
            /\ EntriesAgree(who) /\ ~SharesStock(who)' => EntriesAgree(who)'
            /\ BooksGap(who)' = BooksGap(who)
            /\ WithinAuthorized(who) => WithinAuthorized(who)']_vars

\* The currency groups: CreateCurrency::apply and CreateMintable::apply list
\* every currency once, fill a group before they open the next and never exceed
\* its capacity.  The main currency, which Genesis lists without the entries of
\* a currency, is listed again if it is created.
GroupsPartition ==
  /\ \A i \in 1 .. Len(groups) : groups[i] # <<>> /\ Len(groups[i]) <= GroupCapacity
  /\ \A i \in 1 .. Len(groups) - 1 : Len(groups[i]) = GroupCapacity
  /\ groups # <<>> =>
       \A c \in Coins :
         Len(SelectSeq(FlattenSeq(groups), LAMBDA x : x = c))
           = Cardinality({c} \cap DOMAIN coin) + Cardinality({c} \cap {Main})

\* Nonces: no transaction resets or skips one.  An account's nonce counts the
\* transactions it sent since it was created, by whichever transaction created
\* it.
NoncesCount ==
  [][txs' > txs =>
       /\ \A a \in DOMAIN nonce : /\ a \in DOMAIN nonce'
                                  /\ nonce'[a] = nonce[a] + (IF a = last'.from THEN 1 ELSE 0)
       /\ \A a \in DOMAIN nonce' \ DOMAIN nonce : nonce'[a] = 0]_vars

NoDebt == \A k \in DOMAIN bal : bal[k] >= 0

Validated(tx) == tx.op \in {"Mint", "Burn", "CreateCurrency", "CreateMintable", "IssueShares"}

\* Two validates that look elsewhere than their apply: the fee of a mint that
\* creates its receiver is validated in one entry and leaves another, and
\* IssueShares::validate does not add what ShareMap::issue_shares adds.
LooksElsewhere(tx) ==
  \/ tx.op = "Mint" /\ ~Exists(tx.to)
  \/ tx.op = "IssueShares" /\ Overflows(IssuingSums(tx))

\* As long as no balance is negative, a transaction its validate accepted is
\* applied without a panic and leaves no balance negative.  It is not claimed of
\* the two whose validate looks elsewhere.
ValidatedApplies ==
  [][(panicked' = "apply after validate" \/ txs' > txs)
       /\ Validated(last') /\ ~LooksElsewhere(last') /\ NoDebt
       => panicked' = "no" /\ NoDebt']_vars

\* The comment on the loop of Pay::apply, "Add dividend to each shareholder"
\* (pay.rs:113): a payment takes nothing from a holder.  pay_dividend inserts the
\* dividend over the balance.
DividendsAdded ==
  [][txs' > txs /\ last'.op = "Pay" =>
       \A h \in DOMAIN company[last'.from].sm :
         Holds(h, last'.asset) => bal'[h, last'.asset] >= bal[h, last'.asset]]_vars
=============================================================================
