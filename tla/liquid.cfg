CONSTANTS
  LiquidSetups <- MCSetups
  Exchanges = 2
  Accounts = {1, 2}
  TotalValue = 7
  Balances = {0, 1, 3}
  MaxMoves = 1
SPECIFICATION LiquidSpec
CHECK_DEADLOCK FALSE
INVARIANTS SentIsTotal SharesFromSample EqualShareEqualReward
