CONSTANTS
  Normal <- MCNormal
  MultiSigs <- MCMultiSigs
  Contracts <- MCContracts
  Companies <- MCCompanies
  Treasury = "treasury"
  Founder = "bob"
  Main = "main"
  Coins <- MCCoins
  Stocks <- MCStocks
  StockOf <- MCStockOf
  Sends = {6}
  Amounts = {2}
  Fees = {1}
  Minters <- MCMinters
  Supplies <- MCSupplies
  Charters <- MCCharters
  TreasuryShares = 6
  GenesisSupply = 20
  GroupCapacity = 2
  MinCreatorNonce = 0
  U32 = 16
  MaxTxs = 5
SPECIFICATION Spec
INVARIANT GroupsPartition
PROPERTIES Conserved BooksKept NoncesCount ValidatedApplies
CHECK_DEADLOCK FALSE
