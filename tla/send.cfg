CONSTANTS
  Setups <- MCSetups
  Lists = 2
  Lines = 2
  Dust = 2
  ScalingNumerator = 1
  ScalingDenominator = 2
  MaxRuns = 2
  MaxFaults = 1
SPECIFICATION Spec
CHECK_DEADLOCK FALSE
INVARIANTS RecordsTruthful PaidOncePerRun PaymentsRecorded FinishedPaysAll NoTransferReverts ImportHeals
PROPERTIES HashStays
