CONSTANTS
  Setups <- MCSetups
  Word <- WordSize
SPECIFICATION FairSpec
CHECK_DEADLOCK FALSE
INVARIANTS SettledOnce FromFinalBlocks NoHoles SampleRepeatable
PROPERTIES CyclesSettled LiquidSettled
