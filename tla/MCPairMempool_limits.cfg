\* Alice signs with limits, Bob trades in between; native and CW20 asset.
SPECIFICATION MempoolSpec
CONSTANTS
  One = 1000
  Uint128Max = 10000
  CommissionRate = 100
  FeeDivisor = 2
  MinimumLiquidity = 1
  Uint256Max = 100000000
  Uint64Max = 1000
  Scale <- EvenScale
  None = None
  Alice = Alice
  Bob = Bob
  Users = {Alice, Bob}
  Receivers = {Alice, Bob, FeeWallet}
  PairAddr = PairAddr
  FeeWallet = FeeWallet
  BurnAddr = BurnAddr
  NativeAssets = {0}
  Genesis <- Sixty
  Amounts = {20, 40}
  Prices = {None}
  Limits = {None}
  Minimums = {None}
  Deadlines = {None}
  MaxTime = 1
  Signers = {Alice}
  MaxSigned = 1
  MaxOthers = 2
  Tolerances = {400}
  Expiries = {1}
PROPERTIES
  SwapHonoursQuote
  LiquidityHonoursLimits
CHECK_DEADLOCK FALSE
