\* Two users share a native / CW20 pair; a deadline passes.
SPECIFICATION Spec
CONSTANTS
  One = 1000
  Uint128Max = 20
  CommissionRate = 300
  FeeDivisor = 2
  MinimumLiquidity = 1
  Uint256Max = 1000000
  Uint64Max = 1000
  Scale <- DoubleScale
  None = None
  Alice = Alice
  Bob = Bob
  Users = {Alice, Bob}
  Receivers = {Alice, Bob, PairAddr}
  PairAddr = PairAddr
  FeeWallet = FeeWallet
  BurnAddr = BurnAddr
  NativeAssets = {0}
  Genesis <- Five
  Amounts = {1, 4}
  Prices = {None}
  Limits = {None}
  Minimums = {None}
  Deadlines = {1}
  MaxTime = 1
SYMMETRY Permutable
INVARIANTS
  TypeOK
  LpBacked
  MinimumLocked
  ExitPossible
  SwapRoundTripLoses
  DepositRoundTripLoses
  ReverseQuoteSuffices
PROPERTIES
  ImplementsPool
  SharePriceNeverFalls
  SimulationMatchesSwap
CHECK_DEADLOCK FALSE
