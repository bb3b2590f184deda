CONSTANTS
  VolumeSetups <- MCSetups
  Exchanges = 2
  Accounts = {1, 2}
  NoRewardAccounts = {}
  StepReward = 5
  Volumes = {0, 1, 3}
SPECIFICATION VolumeSpec
CHECK_DEADLOCK FALSE
INVARIANTS NoVolumesExact SentIsPayable
