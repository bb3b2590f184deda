CONSTANTS
  Setups <- MCSetups
  MaxHead = 3
  MaxTime = 5
  AvgBlockTime = 2
  DayLen = 2
  MaxOutages = 1
SPECIFICATION DailySpec
CHECK_DEADLOCK FALSE
INVARIANTS FindsFirstBlock AsksForKnownBlocks
PROPERTIES Returns KeepsLedger EveryDayRecorded
