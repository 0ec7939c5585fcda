\* The ratio of a reward to the only bond exceeds a Decimal.
SPECIFICATION AuditedSpec
CONSTANTS
  One = 10
  Uint128Max = 20
  Alice = Alice
  Bob = Bob
  Users = {Alice, Bob}
  Owner = Owner
  FarmAddr = FarmAddr
  NewFarm = NewFarm
  Stake = Stake
  Reward = Reward
  StakingToken = Stake
  RewardToken = Reward
  NativeTokens = {Stake}
  Genesis <- TwoEach
  InitialSchedule <- OneSlot
  Schedules = {}
  Amounts = {1, 2}
  MaxTime = 3
  MaxChanges = 3
INVARIANTS
  UnbondAlwaysPossible
CHECK_DEADLOCK FALSE
