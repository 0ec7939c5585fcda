\* A trader, and an administrator who changes adapter and auction.
SPECIFICATION FeesSpec
CONSTANTS
  One = 1000
  Uint128Max = 20
  CommissionRate = 500
  FeeDivisor = 2
  MinimumLiquidity = 1
  Uint256Max = 1000000
  Uint64Max = 1000
  Scale <- Even
  None = None
  Inj = Inj
  Usdt = Usdt
  Stray = Stray
  Cw = Cw
  Trader = Trader
  Admin = Admin
  Able = Able
  Unable = Unable
  AuctionAddr = AuctionAddr
  PairAddr = PairAddr
  FeeWallet = FeeWallet
  Users = {Admin}
  Traders = {Trader}
  Holders = {Trader, PairAddr, FeeWallet}
  Coins = {Inj, Usdt, Stray}
  Cw20s = {Cw}
  Adapters = {Able, Unable}
  Registered <- Knows
  OwnSubaccount = OwnSubaccount
  AuctionSubaccounts = {Auction, NextAuction}
  AssetToken <- Traded
  Genesis <- Start
  Funds <- Attachable
  Amounts = {1}
  TradeAmounts = {4}
INVARIANTS
  OwnSubaccountEmpty
  FeeIsTaken
PROPERTIES
  ImplementsPair
  ImplementsBasket
  FeeArrives
CHECK_DEADLOCK FALSE
