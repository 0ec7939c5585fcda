\* The owner replaces a slot that began after the last distribution.
SPECIFICATION AuditedSpec
CONSTANTS
  One = 10
  Uint128Max = 1000
  Alice = Alice
  Bob = Bob
  Users = {Alice, Bob}
  Owner = Owner
  FarmAddr = FarmAddr
  NewFarm = NewFarm
  Stake = Stake
  Reward = Reward
  StakingToken = Stake
  RewardToken = Reward
  NativeTokens = {Stake}
  Genesis <- TwoEach
  InitialSchedule <- TwoSlots
  Schedules <- Replaced
  Amounts = {1, 2}
  MaxTime = 3
  MaxChanges = 3
PROPERTIES
  BegunSlotsKept
CHECK_DEADLOCK FALSE
