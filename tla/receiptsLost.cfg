CONSTANTS
  Setups <- Simple
  Txs = {t1, t2}
  ExchangeAccounts = {"x"}
  MaxPasses = 1
SPECIFICATION Spec
CHECK_DEADLOCK FALSE
INVARIANTS DayVolumeExact
