CONSTANTS
  Setups <- MCSetups
  Txs = {t1, t2}
  ExchangeAccounts = {"x"}
  MaxPasses = 2
SPECIFICATION Spec
CHECK_DEADLOCK FALSE
INVARIANTS HistoryCountsOnce SavedIsComplete TradersAreAccounts
