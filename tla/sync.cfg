CONSTANTS
  Setups <- MCSetups
  Stable = 1
  JobCount = 2
  MinWorkBlocks = 2
  RangeStep = 2
  ChanSize = 1
  CheckChanSize = 1
  MaxParseBlocks = 2
  CreationHeight = 1
SPECIFICATION FairSpec
CHECK_DEADLOCK FALSE
INVARIANTS ParsedBehindSyncInfo StableDistance ExactPartition CaughtUp SyncInfoCovers ParsedOnce
PROPERTIES EverythingSynced SyncerSettles
