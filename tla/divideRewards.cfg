CONSTANTS
  TotalRewards <- MCTotals
  Shares <- MCShares
  MaxCount = 3
SPECIFICATION Spec
CHECK_DEADLOCK FALSE
INVARIANTS VerifySumHolds AtMostOneExtra LargerShareFirst OperatorAgrees IInv
PROPERTIES FairSplitSpec
