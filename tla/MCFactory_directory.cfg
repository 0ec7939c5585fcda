\* Two users, two coins and a CW20 token.
SPECIFICATION MessagesSpec
CONSTANTS
  None = None
  Alice = Alice
  Bob = Bob
  Users = {Alice, Bob}
  FactoryAddr = FactoryAddr
  Inj = Inj
  Usd = Usd
  Cw = Cw
  Natives = {Inj, Usd}
  Cw20s = {Cw}
  Bytes <- PlainNames
  Creator <- BobsDenom
  Malformed = {}
  Cw20Decimals <- Six
  FeeDenom = Inj
  FeeAmount = 1
  FirstDeposits <- Deposits
  Funds <- SentAlong
  LeastProduct = 1
  GreatestProduct = 1
  Decimals = {6}
  CodeIds = {1}
  Wallets = {3, 4}
  Burners = {1}
  Genesis <- Purses
  MaxLimit = 2
  DefaultLimit = 1
  MaxPairs = 3
INVARIANTS
  DirectoryIsRight
  PagesAreComplete
PROPERTIES
  ImplementsFactory
  CoinsLeaveToOwnerOrPair
  HandedOver
CHECK_DEADLOCK FALSE
