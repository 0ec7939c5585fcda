\* Routes of up to three swaps, also disconnected and circular ones.
SPECIFICATION Spec
CONSTANTS
  One = 1000
  Uint128Max = 1000
  CommissionRate = 300
  FeeDivisor = 2
  MinimumLiquidity = 1
  Uint256Max = 1000000
  Uint64Max = 1000
  Scale <- TwoDecimals
  None = None
  Alice = Alice
  Bob = Bob
  Users = {Alice, Bob}
  RouterAddr = RouterAddr
  InjUsd = InjUsd
  UsdCw = UsdCw
  PairAddrs = {InjUsd, UsdCw}
  Sides <- TwoPairs
  Reserves <- Uneven
  Inj = Inj
  Usd = Usd
  Cw = Cw
  Tokens = {Inj, Usd, Cw}
  NativeTokens = {Inj, Usd}
  Genesis <- Purses
  FeeWallet = FeeWallet
  BurnAddr = BurnAddr
  MaxHops = 3
  Routes <- AllRoutes
  Payments <- SomePayments
  Minimums = {None, 3}
  Recipients = {Alice, RouterAddr}
  Deadlines = {1}
  MaxTime = 1
  MaxCommitted = 2
PROPERTIES
  MinimumReceived
  NothingLeftBehind
  SwappedIntoOneToken
  SimulationExact
  ImplementsExchange
CHECK_DEADLOCK FALSE
