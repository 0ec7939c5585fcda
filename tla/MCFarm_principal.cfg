\* A farm of one token whose reward has not been funded.
SPECIFICATION AuditedSpec
CONSTANTS
  One = 10
  Uint128Max = 1000
  Alice = Alice
  Bob = Bob
  Users = {Alice, Bob}
  Owner = Owner
  FarmAddr = FarmAddr
  NewFarm = NewFarm
  Stake = Stake
  Reward = Reward
  StakingToken = Stake
  RewardToken = Stake
  NativeTokens = {Stake}
  Genesis <- Unfunded
  InitialSchedule <- ShortSlot
  Schedules = {}
  Amounts = {1, 2}
  MaxTime = 3
  MaxChanges = 3
INVARIANTS
  UnbondAlwaysPossible
CHECK_DEADLOCK FALSE
