\* Two stakers, a native staking token and a CW20 reward token.
SPECIFICATION TestSpec
CONSTANTS
  One = 10
  Uint128Max = 1000000000
  Alice = Alice
  Bob = Bob
  Users = {Alice, Bob}
  Nobody = Nobody
  Owner = Owner
  FarmAddr = FarmAddr
  NewFarm = NewFarm
  Stake = Stake
  Reward = Reward
  StakingToken = Stake
  RewardToken = Reward
  NativeTokens = {Stake}
  Genesis <- TwoEach
  InitialSchedule <- OneSlot
  Schedules <- Later2
  Amounts = {1, 2}
  MaxTime = 3
  MaxChanges = 3
SYMMETRY Permutable
INVARIANTS
  TypeOK
  BondsAddUp
  PrincipalCovered
  RewardsWithinRounding
  IssuedOnSchedule
  Solvent
  UnbondAlwaysPossible
  MalformedSlotMendable
  TestsAgree
PROPERTIES
  EarnedNeverFalls
CHECK_DEADLOCK FALSE
